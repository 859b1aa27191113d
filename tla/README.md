# Specifications of the RTCForge apps

TLA+ modules for the five real-time products of this repository (`apps/chat`,
`apps/live-streaming`, `apps/collaborative`, `apps/meet`, `apps/massive`) and for
the wiring they share (`packages/rtc-shared`), the TLC configurations that check
them on small instances, and proofs of their main theorems for every instance.
`PROJECT.json` lists the components, the runs, the lines each definition models,
the hazards of the code and the theorems.

To check a run, `tlc -config X.cfg M` in this directory; to check the proofs of a
module, `tlapm M.tla`. The modules use the TLA+ community modules (SequencesExt,
FiniteSetsExt).

Contents: [the system](#the-system) · [the modules](#the-modules) ·
[the runs](#the-runs) · [known departures](#known-departures) ·
[the proofs](#the-proofs) · [what is only model-checked](#what-is-only-model-checked) ·
[what is not modelled](#what-is-not-modelled) · [the plan](#the-plan)

## The system

Every backend is one Node process: a handler runs without interruption up to its
next `await`, so the unit of atomicity is the stretch between two awaits, and the
hazards are what happens between them. State lives in memory (JavaScript maps),
in JSON files (chat only) and in the browser pages (React state). The processes
meet in three ways: HTTP requests and answers (in any order), pushes down one
WebSocket per page (in order, lost when it is down), and the messages that
rtcforge relays in a room (in order per sender and receiver). rtcforge itself is a
library outside the repository.

| component (sources) | state | operations | interacts with | what is hard | what makes it correct | module |
|---|---|---|---|---|---|---|
| call service (`chat/backend/src/services/callService.js`) | the map of calls: roster, status, ring timer | place, accept, decline, end, timer | user store (awaited in accept), hub, pages | an accept that is suspended while the call ends or expires; the timer and the last decline | nobody keeps ringing for a dead call; an answered call is not cut off; a call ends exactly when one is left | CallService |
| document stores (`conversationStore.js`, `userStore.js`, `atomicJson.js`) | memory cache, one file per document, a lock with TTL | get, put, update | every service | cache fill after an awaited read, read-modify-write, failing writes, crash | an acknowledged change is not lost | DocumentStore |
| message store (`messageStore.js`) | messages in memory, dirty set, flush timer | append, update, flush, close | message service, server stop | flush and close at once, failing write, crash | no change is forgotten; a file never goes back | MessageStore, WriteBehind |
| accounts (`userService.js`, `userStore.js`) | users, the name index and its file | register, login | the stores' queue | check, awaited hash, entry; copies of the index written out of turn | who was told of an account can log in, also after a restart | Accounts |
| chat server (`index.js`, `server.js`, `http/routes.js`) | phase of start and stop, the port, open requests | start, stop, signals, requests | the stores | a stop that meets the start, a flush, open requests | nothing a client was told of is lost by a stop in order | ChatServer |
| conversations (`conversationService.js`, the page's list in `chat-context.tsx`) | each conversation's document, each user's list, the page's list | create, add, remove, rename; list, get; events | document stores, hub, page | two documents per operation; answers and events that cross | document and lists agree; the page's list converges | Conversations |
| message service, page's messages (`messageService.js`, `chat-context.tsx`) | conversations, messages, loaded, active | open, send, edit, delete, react, history, events, resync | HTTP routes, inbox | pushes are lost while the socket is down, answers overtake pushes | a page converges to the store | ChatSync |
| composer (`conversation-pane.tsx`, `composer-bar.tsx`, `message-menu.tsx`) | draft, reply, edit, menu, recorder, uploads | write, reply, edit, pick a file, record, open another conversation | the page's messages | uploads and recordings that outlast a switch of conversations | what is written goes where it was written; the microphone is shown | Composer |
| hub, inbox, presence (`hub.js`, `inbox-client.ts`, `realtime-context.tsx`, `auth-context.tsx`, the presence handlers of `server.js`) | one room per user, the page's connection, the contacts' presence | sign in and out, connect, push, ask for presence | stores, page | handlers that await before they push; a sign-out under a join | contacts are shown as they are | Inbox, Presence |
| file transfer (`transferService.js`, `p2p-transfer.ts`) | a private room per transfer, both peers' timers | offer, post, send, receive | rooms, inbox | timers racing the transfer | an announced file arrives, or somebody is told | FileTransfer |
| chat page: calls (`call-context.tsx`, `call-overlay.tsx`) | pending, session, UI mode | start, accept, decline, end, inbox events, room events | call service, SFU room | the end of a call that meets its join | page and server agree on who is in which call | CallClients |
| chat page: devices in a call (`call-context.tsx`, `devices.ts`) | captured tracks, producers, switches | capture, mute, switch device, share screen, end | SFU client | a device that is granted after its call has ended | what is sent is what is shown; devices are released | CallMedia |
| SFU service (`sfu-service.js`, chat `media/sfuService.js`) | one media router per room, a polled lock | ensureRoom, attach, close | mediasoup via rtcforge | concurrent joins, a lock that is given up | one router per room | SfuService |
| SFU signaling (`sfu-signaling.js`, chat `media/sfuSignaling.js`) | handler and producer mirror per room | RPC of clients, announcements | SFU service, clients | a list taken while producers come and go; an attachment that fails once | everybody is told of every producer | SfuSignaling |
| SFU client (`sfu-client.ts`) | device, transports, consumers, pending RPCs | join, publish, consume, close | SFU signaling | announcements, closings and time-outs during an awaited consume | the tiles are the live producers | SfuClient |
| SFU mesh (`sfu-mesh.js`, chat `media/sfuMesh.js`) | links between nodes, reserved or up | pipeLink, unpipeLink, pump | topology, routers | a link taken down while it is wired | relays each producer once, misses none | SfuMesh |
| SFU topology (`sfu-cluster.js`, chat `media/sfuCluster.js`, `cluster/membership.js`) | audience and plan of a room, known nodes | audience changes, a node is found | mesh, signaling, gossip | an audience that comes while the router is awaited | the plan is for the audience, the links are the plan's | Cascade |
| massive control plane (`massive/backend/src/cluster-signaling.js`) | placement, node wiring, handlers, registries | join, RPC, relay, leave | nodes' SFU services | wiring that two requests meet, placement under churn | viewers are told of every producer of their node, and put where the stream is | ClusterSignaling |
| room directories (`server.js`, `auth.js` and `streams.js`, `meetings.js`, `boards.js` of live-streaming, massive, meet, collaborative; `rtc-shared/server/tokens.js`) | map of rooms, counts, tokens | create, list, room events, kick, mute | rtcforge rooms, pages | a room that is opened again after it closed | the directory shows the rooms that are open | Directory |
| lobby, broadcast, watch, meeting, stream and board pages (`App.tsx`, `Broadcast.tsx`, `Watch.tsx`, `Meeting.tsx`, `Stream.tsx`, `Board.tsx`, `mesh-call.ts`, `room.ts`) | view, connection, engine, camera, screen | enter, go, leave, switches, screen | directory, SFU client, mesh | unmount at any await; switches before the track exists | nothing is left running; a switch is honoured | RoomPages |
| board engine (`collaborative/frontend/src/board-sync.ts`) | strokes, notes, roster, cursors of each page | draw, clear, edit, catch up | room relay | concurrent operations, catching up during them | the pages converge | BoardSync |

## The modules

Each module names the files it follows in its header, and keeps the code's names.
In every module an action is a whole stretch between two awaits, with its guards
and everything it changes. Variables marked "history" exist for the properties only.
Operators with the comment "Mutant" are plausible mistakes; no specification uses them.

### The chat backend

**CallService** (theorems in **CallProofs**, instance **MCCallService**). `calls`
is the key set of the map; `call[c]` the object, which outlives its entry because a
suspended `accept()` still holds it; `accepting` the suspended handlers. `Place`,
`Decline`, `End` and `Expire` are one action each; `accept()` is `Accept`, then
`AcceptResume` or `AcceptFail`. `EndFor` is the common part of `end()` and of the
last `decline()`. Histories: `sent` (pushed events), `tokens`, `left`. **CallLife** is what the service promises the
people of a call, without timers and suspended handlers: whom it rings, who is in it, how it ends, and that everybody is told in
that step. `Lives == INSTANCE CallLife` is the mapping; the code checks no membership in `decline()` and `end()`, and
decides what ends a call by counting: the refinement shows that this is enough.

**DocumentStore** (**DocumentProofs**, **MCDocumentStore**). One document. Its value is
the set of requests whose change it contains, so that a lost update is a missing
member. A request is a program counter through `get`, `put` or `update`; the lock of
`JsonWriteQueue` can expire under its holder, a write can fail, the process can
crash between the temporary file and the rename. Distinct documents share nothing,
and `userStore.js` follows the same discipline. **AtomicDocument** says what the services
above rely on: a document that is changed in one step, at most once per request, and read with
every acknowledged change; only a restart takes back, and only what was not acknowledged.
`Whole == INSTANCE AtomicDocument` is the mapping: the document is `Content`, the cached
entry or else the file, until something is clobbered. Conversations changes a
document in one step on these grounds.

**MessageStore** (**ChatServerProofs**) with the abstract **WriteBehind**. The messages of
a conversation are a version; `dirty`, the flush timer, `_flushDirty`'s two callers
(the timer and `close()`), each conversation's write (`queued`, `open`, `writing`) and
the lock are as in the code. `WriteBehind` says what the store promises: each file
only moves towards what memory holds, and only a restart takes memory back to the
file. `Log == INSTANCE WriteBehind WITH Keys <- Convs` is the refinement mapping.

**Accounts** and **ChatServer** (**ChatServerProofs**, **MCChatServer**). A registration finds
its name free, hashes, enters the index, writes the user's file, copies the index and
waits in `line` for its turn to write the copy. ChatServer extends MessageStore and
Accounts and runs them in one process: `start`, `stop` (where `start()` and `stop()`
are), `port`, and the requests `req` of a workload `wants`: a registration, a message,
or a broadcast that delivers to one conversation after the other. A message is appended,
then its conversation's document is being written (`writes`; before the next message of a
broadcast also a new DM and its members' lists). `stop()` goes
through signaling, port, stores; the port closes when no request is open; the stores' `close()`
waits for the message flush and for what is in flight then (`awaits`: accounts, and documents of
requests whose client has hung up), and the first of those writes that fails ends the process. A second
signal, ten seconds, or a crash are `Again`, a start that begins with what is on disk.

**Inbox**, and what extends it: **Conversations** (**DocumentProofs**), **Presence** and **FileTransfer** (**ChatServerProofs**). Inbox has the hub's rooms,
one user's page with its socket, its reconnections and refused tokens, and
`push`, which appends to a socket that is up and loses the event else. Conversations
has one conversation: `conv` and the lists are written one after the other by a
request's steps, and either's write may fail when the cache has the change already: the request then ends in an error
and nobody is told. The page turns events into requests whose answers come in any order.
Presence has the hub's handlers, which await two stores before they push, and the
page's `GET /presence`. FileTransfer adds a transfer from a sender to the page:
offer, the message that stands for the file, the two rooms, the errors and the timers of both ends, and the size a receiver refuses.

### The chat page

**ChatSync** and **Composer** (**ChatPageProofs**, **MCChatSync**). ChatSync is one page, the
message service and the hub. `inbox` is the socket; `fetch` and `reply` are HTTP answers
with the data they carry. Every change of a conversation has a number (`pushes`), so
that the histories `missed` and `overtaken` can say exactly when the page has reason
to differ from the store. `link` is the inbox: never joined, up, joined but not subscribed ("deaf", as Inbox's `Enters` has it)
or down; only a return from "down" fetches again. `stored` and `place` count a conversation's messages, for a history answers
the last `Window` of them (200) and replaces what the page has. A record says whether it shows what it replies to (`preview`),
which deleting clears in the store and not on the page. Composer is what the user has in hand while he opens one
conversation after the other; a conversation also stands for its message that is
replied to or edited.

**CallClients** and **CallMedia** (**CallProofs**, **MCCallClients**). CallClients extends
CallService with the pages: an HTTP request is a message to it, its pushes go to
the pages' inboxes in order, and the media room's notices take their own time. `flow[u]` is
where the page is in an awaited start, accept or join. CallMedia is what one page captures
and sends over two joins: tracks, producers, mute, device switches and the screen, with
the browser's picker awaited.

The two MC modules hold two parts that share no state and that no property relates:
a behaviour is one of one `part`, while the variables of the other stay at their initial
values. Every behaviour of each part is a behaviour of the run, and an
invariant of one part is evaluated in the other's states at its initial values only.

### Media

**SfuService**, **SfuSignaling**, **SfuClient** (**SfuClientProofs**, **MCSfuClient**). Three layers of one room:
`ensureRoom` with its polled lock, the server's half of the control plane, and the
browsers. SfuSignaling instantiates SfuService (its requests call `ensureRoom`), and
SfuClient extends SfuSignaling with the pages and composes all three in `Next`. The
mediasoup handler is external: a request about a producer succeeds if it is there.

**SfuMesh** and **Cascade** (**CascadeProofs**). SfuMesh has the actions of one link between two nodes
of one room: `slot` is its entry in the map, an attempt is one run of `_establish`.
Cascade extends it with the room that plans: `here` and the audience, the room's
router, the plan (`wanted`) and the other node, which may be found late. Its planner
calls `PipeLink` and `UnpipeLink` when the plan changes, and may fail (`skipped`). What the host
publishes while attachRoom waits, or after it failed, is on the router (`live`) and not in the
signaling's `mirror`, which is all that plans and links know. The tree is rtcforge's and
external: a link that stays planned may be told again, or not.

**ClusterSignaling** (**ClusterSignalingProofs**). The massive backend for one stream: placement by sequence
number, `ensureNodeRoom` with its one await, the handler cache, the producers that
are relayed to an edge. `era` counts the rooms of the stream.

### Rooms and boards

**Directory** and **RoomPages** (**RoomPagesProofs**). Directory is one room of any of the four backends, six
applications in all (`app`; meet has three types of meeting): the record `rec`, the tokens,
the room's members `peers`, and rtcforge's closing of an empty room. RoomPages puts each
peer's page on top: `page[p].todo` is what its asynchronous `go()` still has to await,
and the cleanup may run at any of these awaits. The four frontends differ in `go()`'s list and
in which cleanup closes what, which are tables in the module. RoomPages extends
Directory and uses its actions; that every step of the pages is a step of Directory or leaves it alone is proved.

**BoardSync** (proved in **RoomPagesProofs**). Every page of one board and the relay. A page's sockets are queues;
the server relays a message to everyone in the room in one step. Pages' replies are
relayed at once, which the header argues loses no order.

## The runs

| run | instance | shows |
|---|---|---|
| call_service | a group of three, a broadcast to two, an outsider, one call | `EveryoneTold`, `LiveCallHasParticipants`; `KeepsToCallLife` (refinement of CallLife); every call stops ringing (`RingingStops`) |
| document_store | three mixes of three requests, a crash, a failed write, an expired lock | `IsAtomicDocument` (refinement of AtomicDocument): no acknowledged change is lost, none is read around; every request is answered (`Answered`) |
| chat_server | four workloads of up to three requests (messages, a broadcast, registrations), two conversations, a fault, a crash, one client that hangs up | `IsWriteBehind` (refinement of WriteBehind), `NothingForgotten`, `EventuallyFlushed`, `StopsClean`, `AccountsKept` |
| conversations | two requests on one conversation of each kind, two users, a page, one trouble (a write of the document or of a list, a `GET`, the connection) | `ListsAgree`, `ListConverges` |
| transfer | one file, small or over 200 MB, its sender, a page, two troubles of the connection, any end failing | `FileArrives`, `PresenceTrue`; who signed out goes offline (`GoesOffline`) |
| chat_sync | two messages of one conversation of which a history answers one, a change, a fault, the inbox joined late and perhaps not subscribed; a composer with two conversations, two voice notes, an upload | `PageConverges`; `SentWhereWritten` |
| call_clients | two pages, two calls of a group and a broadcast; the devices of two joins, two picks | `NobodyRingsDead`, `Agreement`, `StaysInCall`; `ShownIsSent`, `DevicesReleased` |
| sfu_client | a peer with two tracks, a viewer; one failed attachment, one expired lock, one abandoned request | `OneRouter`, `EverybodySeesAll`, `NoDeadTile`, `TilesStay`, `AllSettled` |
| cascade | two viewers and the host, three attempts at a link, two producers heard of or not, one failure (attachment, planning, wiring, copy), a node found late | `AudienceIsPlanned`, `LinkFollowsPlan`, `RelaysOnce` |
| cluster_signaling | three viewers, a broadcaster, two nodes of capacity one, one failing router | `Announced`, `ViewerNodeIsFed` |
| rooms | one room of each of the six applications, its creator and a guest, two picks of a screen | `DirectoryTrue`, `NothingLeftRunning`, `ButtonsTrue` (switches and the screen button); who left leaves the room (`GoneLeaves`) |
| board_sync | a member, two newcomers, two operations | `PresenceAgrees`, `NoStrokeTwice`, `BoardsAgree` |

Every run passes. Every property has a mutant of the code, listed in `PROJECT.json`,
that breaks it on the run's own instance. Type invariants (`TypeOK`, `ServerTypeOK`,
`MediaTypeOK`, `ComposerTypeOK`) are stated in every module; those of the modules with
proofs are proved, and none is a run's business.

**Bounds.** *call_service*: three participants is the smallest group where one leaves
and two remain; calls share no state, so one id is enough; the outsider is there
because the service checks no membership in decline and end. *document_store*: a
stale fill needs a reader or writer that missed the cache beside an acknowledged
update, a destroyed creation needs two creations and an update; one fault of each
kind puts it at every point of these schedules. *chat_server*: two conversations
let one write fail while the other succeeds; with `MaxVersion` 2 a change can arrive
before and after serialisation; three registrations let one be overtaken in the line,
two of one name let them race; `MaxCrashes` 1 is one further start. *conversations*: two
requests are the least that can cross; `MaxAsks` 2 lets two answers about the conversation
pass each other; one lost event, failed write or lost connection (`MaxTroubles`) is enough
for each exception. *transfer*: `MaxTroubles` 2 lets a lost connection meet a lost ring, `MaxMoves` 2
a contact go and come back under the handlers, `MaxOpens` 1 is one opening of a conversation, which asks for
presence again. A behaviour has either contacts that come and go (`sends = "nothing"`) or a file, with
the page's own connection changing in both: the transfer looks at nobody else's presence. *chat_sync*: messages share nothing but
their conversation's fetches and the history's window, which two messages and a window of one exceed; conversations
share the inbox alone. One change is an edit, a deletion or a reaction at any point of the rest, one fault a drop, a failed request
or a failed write. Two voice notes are needed to overwrite a recorder. *call_clients*: the two calls let a page
be called while it calls, rings or is in one; two joins let one replace the other's
session, two picks let one screen replace another or a device be switched twice.
*sfu_client*: a publisher with two tracks has a producer that is listed and one that is
announced; one poll is enough to give up the lock. *cascade*: three attempts let a link be
wired, dropped, wired again and overtaken; two producers let one predate the link and one
arrive during its wiring; two viewers let the audience shrink without going. *cluster_signaling*: two
viewers fill both nodes and the third overflows; `MaxSeq` bounds the arrivals,
`MaxEras` the rooms. *rooms*: rooms share nothing; creator and guest are every role there is;
`MaxShares` 2 lets a second screen be picked while the first is being added; `Players` are those whose
buttons are pressed. *board_sync*: two newcomers cross each other's greeting, and
either may ask the other or the member; two operations suffice for a clearing to cross
a stroke and for an edit to cross a departure.

**Fairness.** Only what Node and the timers guarantee is fair: a due timer fires
(`Expire`, `TimerFires`), an awaited promise resumes (`AcceptResume` or `AcceptFail`,
`Open`, `Serialise`, `Rename`, and every step of a store request), a polled lock is
eventually got (`Acquire` is strongly fair, for the queue polls it again and again). In
ChatServer this holds while the process is alive. In FileTransfer the server
notices a dead socket and an abandoned join comes to its end (`Reap`, `StaleJoin`,
`StaleFails`). In RoomPages an awaited join ends, a leaving peer is noticed and a
terminated connection reported. Users, networks and the disk's failures are never
fair. `AllSettled` is liveness without fairness: in a state where neither a page nor the
server can do anything, nobody waits.

**Deadlock** is checked in *document_store* and *chat_server*, where a request or a flush is
always due and the end is a stuttering step of the specification. In the other instances every
user may have left and every identifier or bound may be used up, so those runs do not check it.

## Known departures

The properties, those that are proved and checked by no run included, state what the code does; where it does less than one would expect,
an exception is named by a history variable, never left out of the model. Each is a
behaviour of the models.

Stores and server:

- *Lost update* (`clobbered`). `conversationStore.get` installs what it read without looking
  whether an update has filled the cache meanwhile (`conversationStore.js:52`); the next update
  starts from the older document. The queue (`atomicJson.js:8`) serialises the writes, not the fill.
  `messageStore` looks again. The second creation of a DM, and an expired lock, have the same effect.
- *Names* (`rivals`, `overtaken` of Accounts). Two registrations of one name both find it free while
  they hash; the first account can never log in. An index copy that is older may be
  written last, and after a restart the newer name is free again. A name whose registration
  failed stays taken until the restart.
- *Stops* (`raced`, `cut` of ChatServer). A signal during `start()` may close the port before it is opened, and
  the process then serves while its stores are closed. A write of an account that fails, or of
  a conversation's document or list for a request whose client hung up, rejects `Promise.all`, and the exit
  comes under the messages' flush (so would an edit of a profile or of a group that is in flight and fails). A signaling that fails to stop leaves
  its sockets, the port never closes, and the exit is the forced one after ten seconds.
- *Half a broadcast* (`PostFails`). A conversation that cannot be touched ends the broadcast: those
  before it have the message, the sender is told that it failed.

Pages of the chat:

- *Conversations that stay stale* (`missed` of ChatSync). After a reconnect only the list and the
  open conversation are fetched (`chat-context.tsx:207`); the others are in `loaded` and are never fetched again.
- What was pushed before the inbox was first joined is lost too, and nothing is fetched again for that join; nor while the
  page is joined without being subscribed (all in `missed`). A message that more than a history's 200 newer ones have passed
  (`Passed`) is shown right or not at all, and a deleted one goes on showing what it replied to (`Same`).
- `PageConverges` also excepts an answer that was overtaken by events (`overtaken`), and a message
  whose conversation's document could not be written: the sender is told it failed and nobody
  else is told, but it is in the store.
- `ListConverges` and `PresenceTrue` except events that were lost (`missed`, `lost`), answers and handlers that
  were overtaken (`overtaken`, `belated`), and users whom two requests were about at once or whose list, or the document before it, could not be written (`torn`): the cache keeps a change whose
  write failed, later reads see it, and no list follows and nobody is told (`missed`). The first load asks for the presence of nobody, for the list is not there yet.
- *Drafts that stray* (`carried` of Composer). The effect at `conversation-pane.tsx:46` is commented "Reset
  composer helpers when switching conversations" and has no dependencies, so it runs
  once: an edit, a reply or a text that is in hand goes to the conversation that is opened next. A voice
  note goes to the conversation that is open when it stops. A file does not use up the reply.
- *Recorders* (`twice`). A second press before the microphone is granted makes a second recorder that
  the button does not know; a composer that goes while it records leaves the microphone on.
- `Agreement` except a join that failed, or an end that met the join
  (`crossed`): the page sets its session only when the join is complete. The busy decline of
  a callee can end the call while the caller is still publishing, so this is not rare.
- *Devices* (`lost`, `slipped` of CallMedia). A join that fails after its capture leaves camera and microphone
  on; the late end of an abandoned join replaces the session there is; a screen that is picked twice, or after its
  session ended, stays captured. The closing of a failed join's room ends another call's session.
- `FileArrives` except a lost ring or join, an end that failed with an error while the other was there, a file over the
  200 MB that a receiver takes (the sender's page looks at no size), a timer that came first, and a sender that left 1.5 s
  after the end although the last bytes were under way (all in `wrong`). The message stays, and nothing falls back to HTTP.
- Not modelled: a presence handler whose store read fails (`hub.js:126` logs it), and the page's status: a join that fails after
  its session was signed out sets it to `terminated` (`realtime-context.tsx:72`), which only a banner reads.

Media and rooms:

- `OneRouter` holds while no join gives up on the lock and no lock expires (`loose`). The
  code polls 200 times, three seconds, and then attaches without the lock.
- `NoDeadTile` and `EverybodySeesAll` except a producer that closed between the answer to
  its resume and the page's reading of it (`overtaken`), and a room whose `attachRoom` failed or is not done (`Listening`).
  `EverybodySeesAll` also excepts a second router, attached without the lock (`twice`), and a request that was given up.
- `AudienceIsPlanned` is about what the room's listeners heard of. The host's own requests make the router too
  (`ensureHandler`), so it may publish while attachRoom waits or after it failed, and nobody plans for that; a planning that
  throws is logged and leaves the old plan (`skipped`); a node that is found is planned with at the next change (`behind`).
- *A link that comes back* (`overtaken` of SfuMesh). `unpipeLink` deletes a reservation but does
  not stop the establishment, which sets the handle when it ends.
- The placement of ClusterSignaling counts the viewers that ever came, so after churn it fills the last
  node beyond its capacity although others are empty. A peer that meets the wiring of its node is
  given a handler made for no router (`handler[n] = "nothing"`), and it is kept.
- *Ghost rooms* (`ghost` of Directory). A room that closed can be opened again by a token that is
  still valid; the directory has forgotten it. A room that is registered and never joined is never closed, so it stays listed.
- `SwitchHonoured` and `ScreenShown` name the switches that are pressed before the track exists, and the
  screens that end or are replaced while they are being added.
- `BoardsAgree` except a stroke that crossed a clearing or somebody's catching up (`crossed`),
  and only for those who got a board (`synced`): who asked a member that left, or that had no
  board itself, stays without. The notes agree in version; two edits made at once have
  the same version, and each page keeps its own text.

## The proofs

All theorems are about the modules' specifications, for every value of the constants that their named
assumptions allow.

**CallProofs**, the call service. `Invariance`: `Spec => []IInv`. The properties are not inductive by
themselves: `EveryoneTold` needs to know that, while a call exists, everybody rung is still
on its roster or has left (`RosterComplete`); the two-participants property needs that
only the caller is in a ringing call and that callees are never participants (`RosterSound`);
`MissedMeansUnanswered` and the tokens need what a suspended accept is about
(`AcceptingSound`). One lemma per action; `EndFor`'s lemma is shared by `End` and `Decline`.
`TypeCorrect`, `NobodyLeftRinging`, `EndsAreTrue`, `TimerExact`, `Participants`, `MissedCorrect`
and `TokensCorrect` follow. `CallsKeepToLife` (`KeepsToCallLife`): every step is, for every call, a step of CallLife or a
stutter. An answered call that ends has its actor in it, for else the two that `LiveCallHasParticipants` promises would remain
(`EndForLife`); and an unanswered one has only its caller in it (`ExpireLife`), so whom the timer tells is everybody.

**CallProofs**, the pages. `CallsInvariance` is about the pages and the call service together, for any users, calls and conversations.
A call rings a page once, and not after the page has answered it (`Once`); what rings can be accepted, or its
end is behind it in the inbox (`Rings`); and unless a join was crossed, who is in a call for the server is in it for its
page or hanging up (`Joiners`), and who is in it for the page is in it for the server or will be told of its end
(`Sessions`). `RingsAreAlive` (`NobodyRingsDead`) and `PagesAgree` (`Agreement`) are the quiet states of it. What the
server does is needed only as far as `Serves` says it, and that rests on the service's `IInv`: an end is never pushed
while the call is there, so it is new when the call goes. `PagesUseService`: every step of the composition is a step
of CallService or leaves it alone, so the service's safety theorems hold of it too, and `PagesKeepToLife` the refinement.
`OnlyItsUserLeaves` (`StaysInCall`): while no join was crossed, a page in a call neither rings nor joins (`Page`), an end in its inbox is
of a call that is over, and a notice is of the room it is in (`Notice`). `MediaInvariance` says whose each track is: a join under
way has its own capture and nothing else, a pick's track is in no session yet, and in the session that is current the
producers, the preview, the buttons and the screen agree. `DevicesAreReleased` (`DevicesReleased`) and
`WhatIsShownIsSent` (`ShownIsSent`) follow.

**DocumentProofs**, the store. `IInv` says, as long as nothing was clobbered, that whoever is
between the lock and the write holds the lock and a document that contains every
acknowledged change, and so does the cache. `TypeCorrect`, `NothingElseLoses`
(`UpdatesSurvive`), `CacheCorrect` and `MutualExclusion` follow: the stale fill, the second
creation and the expired lock are the only ways to lose an acknowledged change, for any
number of requests, crashes and failures. `StoreIsAtomic` (`IsAtomicDocument`): with the same
exceptions every step of cache, file and lock is a step of AtomicDocument or a stutter. `IInv` does
not say why a document that is read contains nothing but what the document contains, nor why a change is made
once; `Single` does: a change that was not drafted yet is in no copy, and the file is no further than the
cache, nor than what was read under the lock.

**DocumentProofs**, membership. `MembershipInvariance`: what a request has still to do to a user's list is what the
conversation's document says (`Following`), and a list that differs from the document is still to be written (`Behind`), but
for users whom two requests were about at once or whose list, or the document before it, could not be written (`torn`); before there is a conversation
nothing is about it but its creation (`Unmade`). `MembersHaveIt` (`ListsAgree`) is what is left when every request is served.
One lemma covers the three requests that rewrite the document; creation is a case of its own. `GivesUp` is what the two failing
writes have in common.

**DocumentProofs**, Me's page. `ConvergeInvariance`: unless Me is `torn`, there is an edit `e` of the document since which
the page is on its way to what holds (`Truth`). What an answer, a push or a request says as of then is right
(`SaysRightly`); until the page has been told (`Told`), something is on its way to it that will (`Coming`: the request that made
the edit, its push, a GET); and what is shown, if no news was lost and nothing older came last, is right or will be put right
(`Believes`). Two cases make it hard. A list that was read between the document's edit and the list's names nothing although Me
is in it (`TooEarly`): it is older than what the page was told, or one of the requests that add Me is still to speak
(`PutRight`). And news that was lost is made up for by a list only if it was read afterwards, so that answers about the
list come with the order they were read in (`Later`). `PageFollows` (`ListConverges`) is the quiet state. One lemma per step;
the edits share `EditConverges`, which takes the edit itself as the new `e`.

**ChatServerProofs.** `ServerInvariance`: `ServerSpec => []ServerInv`, the message store under the process that
starts and stops it. One write per conversation is past the lock; file, snapshot and memory are ordered by age;
what differs is dirty or in a write. `NoChangeForgotten`, `CloseLeavesNothing`, and `Implementation`:
`ServerSpec => IsWriteBehind`, the refinement of the abstract write-behind store, every step of which is a step of
`WriteBehind` or a stutter. `StopsKeepMessages` (`StopsClean`): the port waits for its connections, so a request
that told a client of a message told it before the stores were closed; from then on the message is in its file or in a
write that `close()` waits for (`Covered`). What a client is told of is the greatest version that its request made, so the proof needs that some
bounded numbers have a greatest one (`Greatest`): the well-foundedness of finite sets of the library.
`AccountsInvariance`: `ServerSpec => []AccountsInv`. That an older copy of the index does
not take an account's name out again rests on the turns: `InTurn` says that whoever writes the
index after an account was entered (behind it in the line, or writing when it is made) copied it
after. `Alone` says that nobody is about to take an entered name unless the two are rivals. `LoginsKept`
(`AccountsKept`) follows. The lemma `RemoveAtPlaces` says what is left of the line when a turn is
taken from its middle.

**ChatServerProofs**, what the page is told. `PresenceInvariance`: news says how somebody was after a move and a `GET` how
all were when it was answered (`TrueNews`, `TrueAnswers`), the news of the latest move is on its way or was heard or lost
(`NewsTravels`), and what is shown is what was heard last, unless that was older (`ShownTrue`). When nothing is on its way
this is `EverybodyIsShown` (`PresenceTrue`). `NewsGoes` covers whatever moves news from the handlers to the socket or loses
it; lemmas say what is in a sequence after an append, a removal or a concatenation. `FileInvariance`: a transfer that began
has rung (`Rings`), whoever comes second into the room meets the first (`Meets`; a sender that failed has a receiver that is
over, or it went wrong), and the receiver ends with the file or with something gone wrong (`Ends`), from which `AnnouncedFileArrives` (`FileArrives`) follows. News goes past the
one ring in the queue (`NewsPassesRing`).

**CascadeProofs.** `Invariance`: an entry that is reserved has exactly one attempt wiring while nothing was
overtaken (`Reservation`); only wired attempts pump, and the one the entry holds does (`Pumps`); a producer is
copied once, by an attempt that took it on (`Copies`); the entry follows the calls (`EntryFollowsCalls`); and
before the listeners are there nothing is heard of or planned (`Unattached`); and the plan is the last audience's. `TypeCorrect`, `OnePump`, `NothingMissed`
(together `EachOnce`, `RelaysOnce`), `PlanIsCurrent` and `LinksFollow` follow. The mesh's half (`MeshInv`) is proved per action of SfuMesh, the room's half
(`RoomInv`) per action of Cascade; `PlannedDecides` says which calls a new plan leads to, `PlanDecides` that otherwise it failed, and the lemmas
`PipeLinkKeeps`, `UnpipeLinkKeeps` and `NoCallKeeps` what they do to the mesh.

**SfuClientProofs.** `RouterInvariance`: while nobody went on without the lock, whoever looks for the router or
attaches one holds it (`Guarded`), and nothing is asked before the first peer has joined (`FirstComes`), which is why
that peer's `attachRoom` finds the lock free. `OneRouterAttached` is about the composed specification. `SeenInvariance`
is about what the pages show, for any number of peers and producers: a tile whose producer is gone has its closing still to
come, and after the answer to the resume if that is under way too (`Tiles`); a producer that is there is, for each page
that listens, in its list, on its way to it, or consumed (`Covered`); nothing is produced in a room without a router
(`Routed`); the registry holds live producers only (`Registered`). `NoTileIsDead` (`NoDeadTile`) and `AllAreSeen`
(`EverybodySeesAll`) are what is left of it when nothing is under way. Steps of one page, announcements and
answers have one lemma each for what they leave alone (`PageMove`, `TrackKeeps`, `AnsweredSeen`, `ServedSeen`).
`TilesAreKept` (`TilesStay`) needs of it that what is awaited about a producer, or answered, is about one that is not shown
yet: so a refusal, a timeout or a second announcement touches no tile. `NobodyWaitsInVain` (`AnswersCome`) is the other
half of `TracksOnce` and `PagesOnce`, which say that an awaited answer is there at most once: whoever waits has asked, or the
answer is on its way. It is the part of `AllSettled` that needs no ENABLED.

**ChatPageProofs.** `SyncInvariance`: every record that the page has, or that an answer on its way carries, *follows* the
store: each of its fields is the store's, or an event that sets it is still in the inbox (`Follows`). A push appends such
an event for every field that changes, delivering the first event sets the fields it sets, and an answer that is
older than the page is what `overtaken` names. When the inbox is empty the fields are equal: `PageShowsTheStore`
(`PageConverges`). `ComposerInvariance`: while nothing was carried over, every part of what is in hand, and every
upload, is of the conversation it goes to; one recorder runs at a time. `NothingStrays`, `MicIsShown`.

**RoomPagesProofs.** `PagesUseTheServers`: `PagesSpec` implements Directory's specification, step by step;
`Invariance` (of Directory's specification), `DirectoryCorrect` and `OpenRoomsListed`: for any number of peers and every application, what the
directory lists is what the room is, and an open room is listed unless it was opened again.
`PagesInvariance` is about the pages: what `go()` still has to await has nothing twice (`Route`), and nothing is opened before the
room is joined (`Joins`); a page that was left has closed what it had (`Closed`); whoever sends is not about to start sending,
and a switch that was pressed has reached its track or producer (`Switches`); one screen is captured at most, the one
that the page holds, unless a second one replaced it (`Captures`). `NothingLeft` (`NothingLeftRunning`), `SwitchesHonoured` and `ScreenTold` (together `ButtonsAreTrue`, `ButtonsTrue`) follow.

**RoomPagesProofs**, the board. Every step moves messages in one way (`Passes`): the first of one socket goes out, what the
server relays comes in last; so a lemma about a step says only what is read and what is sent. `PresenceInvariance`:
two members know of each other as soon as both have started (`Told`), and of who has left it is still to be heard after
the last that could show it. `PresenceSettles` (`PresenceAgrees`). `StrokesOnce` (`NoStrokeTwice`): a stroke on its way is with its
author and nowhere else, or with the receivers' sockets and neither on their canvas nor in a board before it (`StrokeInv`).
`BoardsSettle` (`BoardsAgree`) rests on `BoardInvariance`: a page asks one page once for the board (`OnceInv`); who catches up
misses no notes, for what it asks before the answer is relayed it hears itself, and what comes to the asked page in between is
behind the request (`DocInv`); and until a stroke crosses a clearing or a catching-up, the boards there will be once what is on
its way was read (`Board`) differ by what each has still to send (`BoardInv`).

**ClusterSignalingProofs.** `ClusterInvariance`: the room's plan is the one for the number of viewers that ever came
to it (`Planned`), and that plan only grows (`ServingGrows`, which rests on two lemmas about `\div`, `Shares` and
`SharesGrow`): a viewer's node, once served, stays served, until the room is empty and nobody has a node
(`ViewersAreFed`). A suspended request is its peer's about its node (`Suspended`); a node has
producers only where there is a router, which has listeners (`Routed`), and in the stream's first room these announce to that
room. Who has the list has a node (`Listed`). Hence `ListsAreComplete` (`Announced`): what came before the list is in it, what
came after was announced.

**Assumptions.** Each is named in the module of its constants: two values differ (`NoCall` is no call, `NoJoin` no join), a
conversation has members and admins among the users, bounds are numbers, and the sets that the code counts, orders or empties
one by one (peers, producers, conversations of a broadcast) are finite.

## What is only model-checked

Liveness (`RingingStops`, `Answered`, `EventuallyFlushed`, `GoesOffline`, `GoneLeaves`) and `AllSettled`
(it mentions ENABLED) are out of the prover's reach. Of `AllSettled` the theorem `NobodyWaitsInVain` has what the pages
owe to it, a request or an answer for everybody who waits; that ensureRoom's calls come to an end, which
the answer to the first request needs, is what TLC adds. Every other property of a run is stated by a theorem.

## What is not modelled

rtcforge and mediasoup (external: modelled from use, and marked so in the map), media bytes,
cryptography, formatting and validation of input, views, logging and metrics. One
operation on its own (profile reads, the media store's uploads, status pages) has no behaviour beyond
its guard. The loss of a node of the cluster is decided in rtcforge's tree, which cannot be read here. Left
out of modelled parts: the chat of a live stream, the names that ride on meet's greetings, unread counts, the
dashboard of massive, the cursor throttle, the cap on stored messages. `PROJECT.json` lists each
component with what is missing of it.
React's state is taken to be rendered before the next event is handled, except where two presses before a render
matter (Composer, CallMedia); an inbox token may be refused, a room page's token is taken to be valid while the
page lives, but may expire before it is used again.

## The plan

Done, in this order: CallService with CallLife, DocumentStore with AtomicDocument, MessageStore with WriteBehind, SfuMesh,
SfuService/SfuSignaling/SfuClient, ClusterSignaling, CallClients, BoardSync, ChatSync; Directory and RoomPages,
Inbox with Conversations, Presence and FileTransfer, Accounts and ChatServer, Cascade, CallMedia,
Composer; and the proofs above.

Left, by what each would add:

1. The loss of a node in Cascade, when the library's tree is at hand.
2. A second page of the same user on ChatSync and Inbox, which the code allows and the models leave out.
3. The abstract specification of a converging page, which ChatSync, Conversations and Presence would share.

----------------------------- MODULE SfuClient -----------------------------
(***************************************************************************)
(* An SFU room with its browser clients (SfuClient of packages/rtc-shared/ *)
(* client/sfu-client.ts, driven by Meeting.tsx, Watch.tsx, Broadcast.tsx   *)
(* and call-context.tsx): a page joins the room, loads the device, pub-    *)
(* lishes its tracks, then consumes the producers it is listed one after   *)
(* the other, and those that are announced at any time.                    *)
(*                                                                         *)
(* Screen shares, track changes and muting send nothing to the server.     *)
(***************************************************************************)
EXTENDS SfuSignaling

CONSTANTS
    Nothing,     \* no producer
    MaxTimeouts  \* bound: requests that a client gives up after 15 s

ASSUME ClientAssumption == Nothing \notin Producers /\ MaxTimeouts \in Nat

VARIABLES
    stage,      \* stage[p]: what p's page is doing
    queue,      \* queue[p]: what is left of the list p consumes
    current,    \* current[p]: the listed producer p is consuming
    recv,       \* the clients with a receive transport
    consume,    \* consume[p][x]: how far p's consume() of x is
    consumers,  \* consumers[p]: consumerByProducer
    timeouts

clientVars == <<queue, current, recv, consume, consumers, timeouts>>
vars == <<serverVars, stage, clientVars>>

Stages == {"out", "joined", "init", "loading", "publish", "publishing",
           "listing", "consuming", "ready", "failed", "broken", "left"}
Steps == {"no", "transport", "consume", "creating", "resume", "shown", "closed"}
Pending == Steps \ {"no", "shown", "closed"}

TypeOK ==
    /\ ServerTypeOK
    /\ stage \in [Peers -> Stages]
    /\ queue \in [Peers -> SUBSET Producers]
    /\ current \in [Peers -> Producers \cup {Nothing}]
    /\ recv \in SUBSET Peers
    /\ consume \in [Peers -> [Producers -> Steps]]
    /\ consumers \in [Peers -> SUBSET Producers]
    /\ timeouts \in 0..MaxTimeouts

Init ==
    /\ ServerInit
    /\ stage = [p \in Peers |-> "out"]
    /\ queue = [p \in Peers |-> {}]
    /\ current = [p \in Peers |-> Nothing]
    /\ recv = {}
    /\ consume = [p \in Peers |-> [x \in Producers |-> "no"]]
    /\ consumers = [p \in Peers |-> {}]
    /\ timeouts = 0

GoTo(p, label) == stage' = [stage EXCEPT ![p] = label]
Set(p, x, step) == consume' = [consume EXCEPT ![p][x] = step]
Ask(p, kind, xs) == requests' = requests \cup {Request(p, kind, xs)}

(***************************************************************************)
(* The page                                                                *)
(***************************************************************************)
Join(p) ==
    /\ stage[p] = "out"
    /\ pc[Room] # "start" => present # {}
    /\ PeerJoined(p)
    /\ GoTo(p, "joined")
    /\ UNCHANGED clientVars

\* The SfuClient is made, and init() asks for the capabilities.
Start(p) ==
    /\ stage[p] = "joined"
    /\ GoTo(p, "init")
    /\ Ask(p, "caps", {})
    /\ UNCHANGED <<serviceVars, roomVars, inbox, clientVars>>

\* device.load() has ended.
Loaded(p) ==
    /\ stage[p] = "loading"
    /\ GoTo(p, "publish")
    /\ UNCHANGED <<serverVars, clientVars>>

\* publish() produces one track after the other, then consumeExisting() asks
\* for the list.
Publish(p) ==
    /\ stage[p] = "publish"
    /\ LET tracks == {x \in Producers : Owner[x] = p} \ live
       IN  IF tracks = {} THEN Ask(p, "list", {}) /\ GoTo(p, "listing")
           ELSE \E x \in tracks : Ask(p, "produce", {x}) /\ GoTo(p, "publishing")
    /\ UNCHANGED <<serviceVars, roomVars, inbox, clientVars>>

\* consume(): unless it was called before, first the transport.
Consume(p, x) ==
    IF consume[p][x] # "no" THEN UNCHANGED <<consume, requests>>
    ELSE IF p \in recv THEN Set(p, x, "consume") /\ Ask(p, "consume", {x})
    ELSE Set(p, x, "transport") /\ Ask(p, "transport", {x})

\* The loop of consumeExisting.
ConsumeNext(p) ==
    /\ stage[p] = "consuming"
    /\ current[p] # Nothing => consume[p][current[p]] \notin Pending
    /\ IF queue[p] = {}
       THEN /\ GoTo(p, "ready")
            /\ current' = [current EXCEPT ![p] = Nothing]
            /\ UNCHANGED <<queue, consume, requests>>
       ELSE \E x \in queue[p] :
            /\ queue' = [queue EXCEPT ![p] = @ \ {x}]
            /\ current' = [current EXCEPT ![p] = IF consume[p][x] = "no" THEN x ELSE Nothing]
            /\ Consume(p, x)
            /\ UNCHANGED stage
    /\ UNCHANGED <<serviceVars, roomVars, inbox, recv, consumers, timeouts>>

\* transport.consume() has ended.
Created(p, x) ==
    /\ consume[p][x] = "creating"
    /\ Set(p, x, "resume")
    /\ consumers' = [consumers EXCEPT ![p] = @ \cup {x}]
    /\ Ask(p, "resume", {x})
    /\ UNCHANGED <<serviceVars, roomVars, inbox, stage, queue, current, recv, timeouts>>

\* The page is closed, or the connection breaks.
Leave(p) ==
    /\ stage[p] \notin {"out", "left"}
    /\ PeerLeft(p)
    /\ GoTo(p, "left")
    /\ queue' = [queue EXCEPT ![p] = {}]
    /\ current' = [current EXCEPT ![p] = Nothing]
    /\ recv' = recv \ {p}
    /\ consume' = [consume EXCEPT ![p] = [x \in Producers |-> "no"]]
    /\ consumers' = [consumers EXCEPT ![p] = {}]
    /\ UNCHANGED timeouts

(***************************************************************************)
(* onSignal                                                                *)
(***************************************************************************)
\* Mutant: a request that fails makes the page forget whatever it has consumed.
RejectedForgets(p, kind, xs) ==
    IF kind \in {"transport", "consume", "resume"}
    THEN consume' = [consume EXCEPT ![p] = [x \in Producers |-> "no"]] /\ UNCHANGED stage
    ELSE GoTo(p, IF kind = "caps" THEN "broken" ELSE "failed") /\ UNCHANGED consume

\* An error or a timeout: init(), publish() and consumeExisting() end with it,
\* consume() may be called again.
Rejected(p, kind, xs) ==
    IF kind \in {"transport", "consume", "resume"}
    THEN /\ consume' = [consume EXCEPT ![p] = [x \in Producers |->
                           IF x \in xs THEN "no" ELSE consume[p][x]]]
         /\ UNCHANGED stage
    ELSE GoTo(p, IF kind = "caps" THEN "broken" ELSE "failed") /\ UNCHANGED consume

\* A reply is for the request that waits for it.
GotCaps(p) == GoTo(p, "loading") /\ UNCHANGED <<requests, queue, recv, consume, consumers>>
Produced(p) == GoTo(p, "publish") /\ UNCHANGED <<requests, queue, recv, consume, consumers>>
Listed(p, xs) ==
    /\ GoTo(p, "consuming")
    /\ queue' = [queue EXCEPT ![p] = xs]
    /\ UNCHANGED <<requests, recv, consume, consumers>>

\* Mutant: what could not be consumed yet stays in consumedProducers.
TransportKept(p, x) ==
    /\ IF stage[p] \in {"init", "loading", "broken"}
       THEN Set(p, x, "closed") /\ UNCHANGED <<recv, requests>>
       ELSE Set(p, x, "consume") /\ recv' = recv \cup {p} /\ Ask(p, "consume", {x})
    /\ UNCHANGED <<stage, queue, consumers>>

\* createRecvTransport throws while the device is not loaded.
Transport(p, x) ==
    /\ IF stage[p] \in {"init", "loading", "broken"}
       THEN Set(p, x, "no") /\ UNCHANGED <<recv, requests>>
       ELSE Set(p, x, "consume") /\ recv' = recv \cup {p} /\ Ask(p, "consume", {x})
    /\ UNCHANGED <<stage, queue, consumers>>
Consumed(p, x) == Set(p, x, "creating") /\ UNCHANGED <<requests, stage, queue, recv, consumers>>
Resumed(p, x) == Set(p, x, "shown") /\ UNCHANGED <<requests, stage, queue, recv, consumers>>

\* Mutant: a consumer is looked for under its producer's id, and never found.
ProducerClosedUnknown(p, x) ==
    UNCHANGED <<requests, stage, queue, recv, consume, consumers>>

\* onProducerClosed: without a consumer there is nothing to do.
ProducerClosed(p, x) ==
    /\ consumers' = [consumers EXCEPT ![p] = @ \ {x}]
    /\ consume' = IF x \in consumers[p] /\ consume[p][x] = "shown"
                  THEN [consume EXCEPT ![p][x] = "closed"] ELSE consume
    /\ UNCHANGED <<requests, stage, queue, recv>>

Handle(p, m) ==
    \/ ~m.ok /\ Rejected(p, m.kind, m.of) /\ UNCHANGED <<requests, queue, recv, consumers>>
    \/ m.ok /\ m.kind = "caps" /\ GotCaps(p)
    \/ m.ok /\ m.kind = "produce" /\ Produced(p)
    \/ m.kind = "list" /\ Listed(p, m.of)
    \/ \E x \in m.of :
        \/ m.ok /\ m.kind = "transport" /\ Transport(p, x)
        \/ m.ok /\ m.kind = "consume" /\ Consumed(p, x)
        \/ m.ok /\ m.kind = "resume" /\ Resumed(p, x)
        \/ m.kind = "producer-closed" /\ ProducerClosed(p, x)
        \/ m.kind = "new-producer" /\ Consume(p, x) /\ UNCHANGED <<stage, queue, recv, consumers>>

\* Before there is a client nobody listens.
Receive(p) ==
    /\ inbox[p] # <<>>
    /\ inbox' = [inbox EXCEPT ![p] = Tail(@)]
    /\ IF stage[p] = "joined" THEN UNCHANGED <<requests, stage, queue, recv, consume, consumers>>
                              ELSE Handle(p, Head(inbox[p]))
    /\ UNCHANGED <<serviceVars, roomVars, current, timeouts>>

\* The client gives up on a request, which the server may still serve: a reply
\* that comes later, or is on its way, is ignored.
Timeout(p) ==
    /\ timeouts < MaxTimeouts
    /\ timeouts' = timeouts + 1
    /\ \/ \E r \in requests :
            /\ r.who = p /\ r.awaited
            /\ requests' = (requests \ {r}) \cup {[r EXCEPT !.awaited = FALSE]}
            /\ Rejected(p, r.kind, r.of)
            /\ UNCHANGED inbox
       \/ \E i \in DOMAIN inbox[p] :
            /\ inbox[p][i].kind \in Kinds
            /\ inbox' = [inbox EXCEPT ![p] = RemoveAt(@, i)]
            /\ Rejected(p, inbox[p][i].kind, inbox[p][i].of)
            /\ UNCHANGED requests
    /\ UNCHANGED <<serviceVars, roomVars, queue, current, recv, consumers>>

Goes(p) ==
    \/ Start(p) \/ Loaded(p) \/ Publish(p) \/ ConsumeNext(p)
    \/ (\E x \in Producers : Created(p, x))
    \/ Receive(p)

Server ==
    /\ (\E p \in Peers : EnsureHandler(p)) \/ EnsureRoom \/ HandleRpc
    /\ UNCHANGED <<stage, clientVars>>

Progress == Server \/ \E p \in Peers : Goes(p)

Next == Progress \/ \E p \in Peers : Join(p) \/ Timeout(p) \/ Leave(p)

Spec == Init /\ [][Next]_vars
----------------------------------------------------------------------------
(***************************************************************************)
(* Properties                                                              *)
(***************************************************************************)
Shown(p) == {x \in Producers : consume[p][x] = "shown"}

\* Nothing is on its way, in the server or in a page.
Quiet ==
    /\ requests = {}
    /\ \A p \in Peers : inbox[p] = <<>> /\ stage[p] # "loading" /\ stage[p] # "publish"
    /\ \A p \in Peers, x \in Producers : consume[p][x] \notin Pending

\* "Exactly one MediaRouter is attached, never a duplicate", as long as no call
\* gives up on the lock and no lock expires.
OneRouter == Service!OneRouter

\* Whoever is in the room with a working page sees, once all is quiet, every
\* producer of the others and nothing else.  Named exceptions: attachRoom failed, or is
\* not done, so that nothing listens for what is published (`Listening`); a second router
\* was attached (`twice`); a closing overtook an answer (`overtaken`); or a request was given up (`timeouts`).
EverybodySeesAll ==
    Quiet /\ Listening /\ ~twice /\ ~overtaken /\ timeouts = 0 =>
        \A p \in Peers : stage[p] = "ready" =>
            Shown(p) = {x \in live : Owner[x] # p}

\* A tile is of a producer that lives or whose closing is about to arrive, unless
\* a closing overtook the answer to a resume.
NoDeadTile ==
    Listening /\ ~overtaken => \A p \in Peers : \A x \in Shown(p) :
        x \in live \/ Message("producer-closed", {x}, TRUE) \in ToSet(inbox[p])

\* A tile stays: whatever is late, refused, given up or announced twice about it or the
\* others, a page takes away what it shows only when the producer has closed, or with itself.
TilesStay ==
    [][\A p \in Peers : \A x \in Shown(p) :
        x \in Shown(p)' \/ x \notin live \/ stage'[p] = "left"]_vars

\* Nobody waits for ever: when neither the server nor a page has anything left to
\* do, every page that joined works or has failed, whatever failed.
AllSettled ==
    ~ENABLED Progress => \A p \in Peers :
        stage[p] \in {"out", "ready", "failed", "broken", "left"}
=============================================================================

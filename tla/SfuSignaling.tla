---------------------------- MODULE SfuSignaling ----------------------------
(***************************************************************************)
(* The server's half of the control plane of an SFU room (createSfuSignal- *)
(* ing in packages/rtc-shared/server/sfu-signaling.js and its copy in the  *)
(* chat backend): what attachRoom wires, what handleRpc answers and what   *)
(* peers are told.  SfuClient has the other half and the specification.    *)
(*                                                                         *)
(* attachRoom, and a client's first request, call SfuService's ensureRoom. *)
(* A room lives once, from its first peer to the leaving of its last.      *)
(* The library's SfuSignalHandler is external: requests are served         *)
(* concurrently, one about a producer succeeds if the producer is there,   *)
(* and the answer may be sent later than it was decided.  Messages to a    *)
(* client arrive in the order they were sent.                              *)
(***************************************************************************)
EXTENDS Naturals, FiniteSets, Sequences, SequencesExt

CONSTANTS
    Peers,
    Room,       \* the call of ensureRoom by attachRoom
    Producers,
    Owner,      \* Owner[x]: the peer that publishes x
    NoOne, MaxPolls, LocksExpire, MaxFaults  \* of SfuService

ASSUME SignalingAssumption ==
    /\ Room \notin Peers /\ NoOne \notin Peers \cup {Room}
    /\ Owner \in [Producers -> Peers] /\ IsFiniteSet(Producers)
    /\ MaxPolls \in Nat \ {0} /\ MaxFaults \in Nat /\ LocksExpire \in BOOLEAN

VARIABLES
    router, holder, pc, polls, loose, twice, faults,  \* of SfuService
    present,   \* the room's peers
    live,      \* the router's producers
    registry,  \* the mirror of them that lists are answered from
    requests,  \* the requests of the clients that are not answered yet
    inbox,     \* inbox[p]: the messages on their way to p
    overtaken  \* history: a closing was announced between a resume and its answer

serviceVars == <<router, holder, pc, polls, loose, twice, faults>>
roomVars == <<present, live, registry, overtaken>>
serverVars == <<serviceVars, roomVars, requests, inbox>>

Service == INSTANCE SfuService WITH Callers <- Peers \cup {Room}

Kinds == {"caps", "produce", "list", "transport", "consume", "resume"}
Requests == [who : Peers, kind : Kinds, of : SUBSET Producers,
             status : {"sent", "ok", "error"}, awaited : BOOLEAN]
Messages == [kind : Kinds \cup {"new-producer", "producer-closed"},
             of : SUBSET Producers, ok : BOOLEAN]

ServerTypeOK ==
    /\ Service!TypeOK
    /\ present \in SUBSET Peers
    /\ live \in SUBSET Producers /\ registry \in SUBSET Producers
    /\ requests \in SUBSET Requests
    /\ inbox \in [Peers -> Seq(Messages)]
    /\ overtaken \in BOOLEAN

ServerInit ==
    /\ Service!Init
    /\ present = {} /\ live = {} /\ registry = {} /\ requests = {}
    /\ inbox = [p \in Peers |-> <<>>]
    /\ overtaken = FALSE

\* attachRoom's listeners are there as soon as its ensureRoom has returned; they
\* never are if that failed.
Listening == pc[Room] = "done"

Message(kind, xs, ok) == [kind |-> kind, of |-> xs, ok |-> ok]
Request(p, kind, xs) == [who |-> p, kind |-> kind, of |-> xs,
                         status |-> "sent", awaited |-> TRUE]

\* The client drops the answer to a request it has given up.
Answer(r, xs, ok) ==
    /\ requests' = requests \ {r}
    /\ IF r.awaited THEN inbox' = [inbox EXCEPT ![r.who] = Append(@, Message(r.kind, xs, ok))]
                    ELSE UNCHANGED inbox

\* notifyRoomExcept for each of the producers.
NotifiedExcept(p, kind, xs) ==
    [q \in Peers |->
        IF Listening /\ q \in present \ {p}
        THEN inbox[q] \o SetToSeq({Message(kind, {x}, TRUE) : x \in xs})
        ELSE inbox[q]]

(***************************************************************************)
(* The room                                                                *)
(***************************************************************************)
\* The first peer makes the room, and attachRoom, which finds no router and the lock
\* free, starts to attach one.
PeerJoined(p) ==
    /\ present' = present \cup {p}
    /\ IF pc[Room] = "start"
       THEN Service!Goto(Room, "attaching") /\ holder' = Room /\ UNCHANGED <<router, polls, loose, twice, faults>>
       ELSE UNCHANGED serviceVars
    /\ UNCHANGED <<live, registry, requests, inbox, overtaken>>

\* closeTransportsForPeer: its producers close, and the others are told.
PeerLeft(p) ==
    LET closing == {x \in live : Owner[x] = p}
    IN  /\ present' = present \ {p}
        /\ live' = live \ closing
        /\ registry' = IF Listening THEN registry \ closing ELSE registry
        /\ inbox' = [NotifiedExcept(p, "producer-closed", closing) EXCEPT ![p] = <<>>]
        /\ requests' = {r \in requests : r.who # p}
        /\ overtaken' = (overtaken \/ \E r \in requests :
               r.kind = "resume" /\ r.status = "ok" /\ r.of \subseteq closing)
        /\ UNCHANGED serviceVars

(***************************************************************************)
(* handleRpc                                                               *)
(***************************************************************************)
\* A client's first request makes the handler, unless there is one.
EnsureHandler(p) ==
    /\ \E r \in requests : r.who = p /\ r.kind = "caps"
    /\ Service!Enter(p)
    /\ UNCHANGED <<roomVars, requests, inbox>>

EnsureRoom ==
    /\ \/ \E c \in Peers \cup {Room} :
            \/ Service!Acquire(c) \/ Service!Poll(c) \/ Service!GiveUp(c)
            \/ Service!Check(c) \/ Service!Attached(c) \/ Service!AttachFails(c)
       \/ Service!LockExpires
    /\ UNCHANGED <<roomVars, requests, inbox>>

Decided(r, ok) == requests' = (requests \ {r}) \cup {[r EXCEPT !.status = IF ok THEN "ok" ELSE "error"]}

Caps(r) ==
    /\ r.kind = "caps" /\ pc[r.who] \in {"done", "failed"}
    /\ Answer(r, {}, pc[r.who] = "done")
    /\ UNCHANGED roomVars

ListProducers(r) ==
    /\ r.kind = "list"
    /\ Answer(r, {x \in registry : Owner[x] # r.who}, TRUE)
    /\ UNCHANGED roomVars

\* ProducerAdded: registered, and announced.
Produce(r) ==
    /\ r.kind = "produce" /\ r.status = "sent"
    /\ live' = live \cup r.of
    /\ registry' = IF Listening THEN registry \cup r.of ELSE registry
    /\ inbox' = NotifiedExcept(r.who, "new-producer", r.of)
    /\ Decided(r, TRUE)
    /\ UNCHANGED <<present, overtaken>>

\* The library's part: a transport, which depends on nothing; a consumer and its
\* resumption.
CreateTransport(r) ==
    /\ r.kind = "transport"
    /\ Answer(r, r.of, TRUE)
    /\ UNCHANGED roomVars

Serve(r) ==
    /\ r.kind \in {"consume", "resume"} /\ r.status = "sent"
    /\ Decided(r, r.of \subseteq live)
    /\ UNCHANGED <<inbox, roomVars>>

Reply(r) ==
    /\ r.status # "sent"
    /\ Answer(r, r.of, r.status = "ok")
    /\ UNCHANGED roomVars

HandleRpc ==
    /\ \E r \in requests :
        \/ Caps(r) \/ ListProducers(r) \/ Produce(r) \/ CreateTransport(r)
        \/ Serve(r) \/ Reply(r)
    /\ UNCHANGED serviceVars
=============================================================================

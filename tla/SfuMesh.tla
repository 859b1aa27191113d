------------------------------ MODULE SfuMesh ------------------------------
(***************************************************************************)
(* The cascade's byte relay (packages/rtc-shared/server/sfu-mesh.js and    *)
(* its copy in the chat backend, media/sfuMesh.js): pipeLink wires two     *)
(* nodes' routers for a room in an asynchronous _establish, which then     *)
(* pumps the producers of the first node to the second; unpipeLink takes   *)
(* the link down.  Links share nothing: the module is about one link.      *)
(* Who calls is in Cascade.                                                *)
(***************************************************************************)
EXTENDS Naturals, FiniteSets

CONSTANTS
    Producers,  \* of the room, on the link's first node
    Attempts,   \* bound: the runs of _establish
    MaxFaults   \* bound: failing establishments and copies

ASSUME BoundAssumption ==
    IsFiniteSet(Attempts) /\ MaxFaults \in Nat /\ Attempts \cap {"none", "reserved"} = {}

VARIABLES
    slot,      \* the link's entry in _links: none, reserved, or the attempt
               \* whose handle it holds
    stage,     \* of every attempt
    listening, \* the attempts whose pump is on the router
    live,      \* the producers on the router
    mirror,    \* those in the signaling's mirror: not the ones it did not hear of
    piped,     \* piped[a]: the set of an attempt
    copying,   \* copying[a]: the producers whose _pipeProducer is suspended
    copies,    \* copies[a][p]: how often an attempt has piped a producer
    registered,\* both nodes are in _nodes, for they live in this process
    wanted,    \* whether the last call was pipeLink
    overtaken, \* history: an unpipeLink came while an attempt was wiring
    faults

linkVars == <<slot, stage, listening, wanted, overtaken>>
relayVars == <<live, mirror, piped, copying, copies>>
meshVars == <<linkVars, relayVars, registered, faults>>

Stages == {"unused", "wiring", "up", "failed"}

MeshTypeOK ==
    /\ slot \in Attempts \cup {"none", "reserved"}
    /\ stage \in [Attempts -> Stages]
    /\ listening \in SUBSET Attempts
    /\ live \in SUBSET Producers /\ mirror \subseteq live
    /\ piped \in [Attempts -> SUBSET Producers]
    /\ copying \in [Attempts -> SUBSET Producers]
    /\ copies \in [Attempts -> [Producers -> 0..1]]
    /\ registered \in BOOLEAN /\ wanted \in BOOLEAN /\ overtaken \in BOOLEAN
    /\ faults \in 0..MaxFaults

MeshInit ==
    /\ slot = "none"
    /\ stage = [a \in Attempts |-> "unused"]
    /\ listening = {} /\ live = {} /\ mirror = {}
    /\ piped = [a \in Attempts |-> {}] /\ copying = piped
    /\ copies = [a \in Attempts |-> [p \in Producers |-> 0]]
    /\ registered \in BOOLEAN /\ wanted = FALSE /\ overtaken = FALSE
    /\ faults = 0

(***************************************************************************)
(* CascadePipeInterface                                                    *)
(***************************************************************************)
\* A no-op if the link has an entry or a node is elsewhere, else the entry is
\* reserved and an attempt starts.
PipeLink ==
    /\ wanted' = TRUE
    /\ IF slot = "none" /\ registered
       THEN \E a \in Attempts :
              stage[a] = "unused" /\ slot' = "reserved" /\ stage' = [stage EXCEPT ![a] = "wiring"]
       ELSE UNCHANGED <<slot, stage>>
    /\ UNCHANGED <<listening, overtaken>>

\* Mutant: the pump stays on the router.
UnpipeLinkDeaf ==
    /\ wanted' = FALSE
    /\ slot' = "none"
    /\ overtaken' = (overtaken \/ \E a \in Attempts : stage[a] = "wiring")
    /\ UNCHANGED <<stage, listening>>

\* Mutant: the entry is kept.
UnpipeLinkKept ==
    /\ wanted' = FALSE
    /\ listening' = listening \ {slot}
    /\ overtaken' = (overtaken \/ \E a \in Attempts : stage[a] = "wiring")
    /\ UNCHANGED <<slot, stage>>

\* Drop the entry and, if it is a handle, take its pump off.
UnpipeLink ==
    /\ wanted' = FALSE
    /\ slot' = "none"
    /\ listening' = listening \ {slot}
    /\ overtaken' = (overtaken \/ \E a \in Attempts : stage[a] = "wiring")
    /\ UNCHANGED stage

(***************************************************************************)
(* _establish, once both routers are there and the pipe transports are     *)
(* connected: listen, backfill, publish the handle.                        *)
(***************************************************************************)
\* Mutant: producers that predate the pipe are not piped.
EstablishedBare(a) ==
    /\ stage[a] = "wiring"
    /\ stage' = [stage EXCEPT ![a] = "up"]
    /\ listening' = listening \cup {a}
    /\ slot' = a
    /\ UNCHANGED <<live, mirror, piped, copying, copies, wanted, overtaken, registered, faults>>

Established(a) ==
    /\ stage[a] = "wiring"
    /\ stage' = [stage EXCEPT ![a] = "up"]
    /\ listening' = listening \cup {a}
    /\ piped' = [piped EXCEPT ![a] = mirror]
    /\ copying' = [copying EXCEPT ![a] = mirror]
    /\ slot' = a
    /\ UNCHANGED <<live, mirror, copies, wanted, overtaken, registered, faults>>

\* A router, a transport or a connection fails: pipeLink drops the entry,
\* whoever's it is by now.
EstablishFails(a) ==
    /\ stage[a] = "wiring" /\ faults < MaxFaults
    /\ faults' = faults + 1
    /\ stage' = [stage EXCEPT ![a] = "failed"]
    /\ slot' = "none"
    /\ UNCHANGED <<listening, relayVars, wanted, overtaken, registered>>

(***************************************************************************)
(* The producers of the room, and _pipeProducer                            *)
(***************************************************************************)
ProducerAdded(p) ==
    /\ p \notin live /\ \A a \in Attempts : p \notin piped[a]  \* ids are fresh
    /\ live' = live \cup {p} /\ mirror' = mirror \cup {p}
    /\ piped' = [a \in Attempts |-> IF a \in listening THEN piped[a] \cup {p} ELSE piped[a]]
    /\ copying' = [a \in Attempts |-> IF a \in listening THEN copying[a] \cup {p} ELSE copying[a]]
    /\ UNCHANGED copies

\* Before the signaling listens: no link is there either.
ProducerUnheard(p) ==
    /\ p \notin live /\ \A a \in Attempts : p \notin piped[a]
    /\ live' = live \cup {p}
    /\ UNCHANGED <<mirror, piped, copying, copies>>

ProducersClosed(ps) ==
    live' = live \ ps /\ mirror' = mirror \ ps /\ UNCHANGED <<piped, copying, copies>>

\* pipeConsume and pipeProduce
Copied(a, p) ==
    /\ p \in copying[a]
    /\ copying' = [copying EXCEPT ![a] = @ \ {p}]
    /\ copies' = [copies EXCEPT ![a][p] = @ + 1]
    /\ UNCHANGED <<slot, stage, listening, live, mirror, piped, wanted, overtaken, registered, faults>>

\* Either fails: the producer stays in the set and is not tried again.
CopyFails(a, p) ==
    /\ p \in copying[a] /\ faults < MaxFaults
    /\ faults' = faults + 1
    /\ copying' = [copying EXCEPT ![a] = @ \ {p}]
    /\ UNCHANGED <<slot, stage, listening, live, mirror, piped, copies, wanted, overtaken, registered>>

MeshStep ==
    \/ \E a \in Attempts : Established(a) \/ EstablishFails(a)
    \/ \E a \in Attempts, p \in Producers : Copied(a, p) \/ CopyFails(a, p)
----------------------------------------------------------------------------
(***************************************************************************)
(* Properties                                                              *)
(***************************************************************************)
Wiring == {a \in Attempts : stage[a] = "wiring"}

\* Unless an unpipeLink overtook an establishment, a link that is up has its own
\* pump and no other, and one that is down has none: nothing is relayed twice,
\* and nothing after the link was taken down.
LinkIsPump == ~overtaken => listening = {slot} \cap Attempts

\* "No miss": a link that is up has taken on every producer of the room that the
\* signaling heard of, the ones that predate the link and the ones added while it was
\* wired included.  (A copy that fails is not made again.)
NoMiss == \A a \in Attempts : slot = a => mirror \subseteq piped[a]

\* A link that is up takes on every producer that the signaling heard of, and each once.
RelaysOnce == LinkIsPump /\ NoMiss
=============================================================================

-------------------------- MODULE ClusterSignaling --------------------------
(***************************************************************************)
(* The control plane of the massive backend                                *)
(* (apps/massive/backend/src/cluster-signaling.js): it places the peers of *)
(* a stream's room on SFU nodes, wires each node for the room when its     *)
(* first peer arrives, and announces a node's producers to the peers it    *)
(* placed there.  The module is about one stream.                          *)
(*                                                                         *)
(* Node 0 is the stream's origin, the others are in the order in which the *)
(* cascade tree, which is external, adds them to its plan.  A handler runs *)
(* to its end but for one await, of the node's router (ensureNodeRoom).    *)
(***************************************************************************)
EXTENDS Naturals, FiniteSets, FiniteSetsExt

CONSTANTS
    Viewers, Broadcaster,
    NoOne,
    N,          \* nodes
    Capacity,   \* viewers per node
    Producers,
    MaxSeq, MaxEras, MaxFaults  \* bounds: viewers placed in a room, rooms,
                                \* failing routers

ASSUME ClusterAssumption ==
    /\ IsFiniteSet(Viewers) /\ Broadcaster \notin Viewers
    /\ NoOne \notin Viewers \cup {Broadcaster}
    /\ {N, Capacity, MaxSeq, MaxEras} \subseteq Nat \ {0} /\ MaxFaults \in Nat

Peers == Viewers \cup {Broadcaster}
Nodes == 0..N - 1
NoNode == N
Kinds == {"list", "sfu"}

VARIABLES
    present,   \* the room's peers
    era,       \* the room's number: an empty room is closed, the next has the same id
    assigned,  \* the node of a peer
    seq,       \* roomViewerSeq
    planned,   \* the nodes the current plan serves
    wired,     \* wiredNodeRooms
    routers,   \* the nodes with a router for the room
    listens,   \* the room a node's listeners announce to, 0 before there are any
    waiter,    \* the request suspended on a node's router
    handler,   \* a node's handler: on a router, or on none
    registry,  \* the producers registered on a node
    told,      \* what a peer has been told of, by announcement or list
    listed,    \* the peers that have asked for the list
    faults

vars == <<present, era, assigned, seq, planned, wired, routers, listens, waiter,
          handler, registry, told, listed, faults>>

NoRequest == [who |-> NoOne, kind |-> "none", room |-> 0]

TypeOK ==
    /\ present \in SUBSET Peers /\ listed \in SUBSET Peers
    /\ era \in 0..MaxEras
    /\ assigned \in [Peers -> Nodes \cup {NoNode}]
    /\ seq \in 0..MaxSeq /\ planned \in 0..N
    /\ wired \in SUBSET Nodes /\ routers \in SUBSET Nodes
    /\ listens \in [Nodes -> 0..MaxEras]
    /\ waiter \in [Nodes -> [who : Peers \cup {NoOne}, kind : Kinds \cup {"none"}, room : 0..MaxEras]]
    /\ handler \in [Nodes -> {"none", "router", "nothing"}]
    /\ registry \in [Nodes -> SUBSET Producers]
    /\ told \in [Peers -> SUBSET Producers]
    /\ faults \in 0..MaxFaults

Init ==
    /\ present = {} /\ era = 0
    /\ assigned = [p \in Peers |-> NoNode]
    /\ seq = 0 /\ planned = 0
    /\ wired = {} /\ routers = {}
    /\ listens = [n \in Nodes |-> 0]
    /\ waiter = [n \in Nodes |-> NoRequest]
    /\ handler = [n \in Nodes |-> "none"]
    /\ registry = [n \in Nodes |-> {}]
    /\ told = [p \in Peers |-> {}] /\ listed = {}
    /\ faults = 0

(***************************************************************************)
(* The room's peers                                                        *)
(***************************************************************************)
Join(p) ==
    /\ p \notin present
    /\ present = {} => era < MaxEras
    /\ era' = IF present = {} THEN era + 1 ELSE era
    /\ present' = present \cup {p}
    /\ told' = [told EXCEPT ![p] = {}] /\ listed' = listed \ {p}
    /\ UNCHANGED <<assigned, seq, planned, wired, routers, listens, waiter, handler,
                   registry, faults>>

\* Mutant: the stream's plan is dropped with its broadcaster, not with its room.
LeaveUnplanned(p) ==
    /\ p \in present
    /\ present' = present \ {p}
    /\ assigned' = [assigned EXCEPT ![p] = NoNode]
    /\ waiter' = [n \in Nodes |-> IF waiter[n].who = p THEN [waiter[n] EXCEPT !.who = NoOne]
                                                       ELSE waiter[n]]
    /\ IF p = Broadcaster THEN seq' = 0 /\ planned' = 0
                          ELSE UNCHANGED <<seq, planned>>
    /\ UNCHANGED <<era, wired, routers, listens, handler, registry, told, listed, faults>>

\* peerLeft, and closed if the room is empty: what wired the nodes stays.
Leave(p) ==
    /\ p \in present
    /\ present' = present \ {p}
    /\ assigned' = [assigned EXCEPT ![p] = NoNode]
    /\ waiter' = [n \in Nodes |-> IF waiter[n].who = p THEN [waiter[n] EXCEPT !.who = NoOne]
                                                       ELSE waiter[n]]
    /\ IF present' = {} THEN seq' = 0 /\ planned' = 0
                        ELSE UNCHANGED <<seq, planned>>
    /\ UNCHANGED <<era, wired, routers, listens, handler, registry, told, listed, faults>>

(***************************************************************************)
(* assignPeer                                                              *)
(***************************************************************************)
\* The plan of the cascade tree for a number of viewers: the origin, and as many
\* edges as the rest of them need.
Serving(viewers) == Min({N, Max({1, (viewers + Capacity - 1) \div Capacity})})

\* Mutants: the plan's nodes are no limit; the viewer is not counted in the plan.
PlaceBeyond(p) ==
    IF p = Broadcaster THEN assigned' = [assigned EXCEPT ![p] = 0] /\ UNCHANGED <<seq, planned>>
    ELSE /\ seq < MaxSeq /\ seq' = seq + 1
         /\ planned' = Serving(seq + 1)
         /\ assigned' = [assigned EXCEPT ![p] = seq \div Capacity]
PlaceBehind(p) ==
    IF p = Broadcaster THEN assigned' = [assigned EXCEPT ![p] = 0] /\ UNCHANGED <<seq, planned>>
    ELSE /\ seq < MaxSeq /\ seq' = seq + 1
         /\ planned' = Serving(seq)
         /\ assigned' = [assigned EXCEPT ![p] = Min({planned' - 1, seq \div Capacity})]
Place(p) ==
    IF p = Broadcaster THEN assigned' = [assigned EXCEPT ![p] = 0] /\ UNCHANGED <<seq, planned>>
    ELSE /\ seq < MaxSeq /\ seq' = seq + 1
         /\ planned' = Serving(seq + 1)
         /\ assigned' = [assigned EXCEPT ![p] = Min({planned' - 1, seq \div Capacity})]

Placed(p) ==
    IF assigned[p] = NoNode THEN Place(p) ELSE UNCHANGED <<assigned, seq, planned>>

(***************************************************************************)
(* handleRpc                                                               *)
(***************************************************************************)
\* What a request does on a node, whose router is there or not: answer the list,
\* or go to the node's handler, which the first such request makes.
Serve(p, kind, n, routersNow) ==
    IF kind = "list"
    THEN /\ told' = IF p = NoOne THEN told ELSE [told EXCEPT ![p] = @ \cup registry[n]]
         /\ listed' = listed \cup ({p} \ {NoOne})
         /\ UNCHANGED handler
    ELSE /\ handler' = [handler EXCEPT ![n] =
                          IF @ # "none" THEN @
                          ELSE IF n \in routersNow THEN "router" ELSE "nothing"]
         /\ UNCHANGED <<told, listed>>

\* A peer's message: the first on a node wires it, and is suspended until the
\* node's router is there; any other is served at once.
Request(p, kind) ==
    LET n == assigned'[p] IN
    /\ p \in present /\ \A m \in Nodes : waiter[m].who # p
    /\ Placed(p)
    /\ IF n \in wired
       THEN Serve(p, kind, n, routers) /\ UNCHANGED <<wired, waiter>>
       ELSE /\ wired' = wired \cup {n}
            /\ waiter' = [waiter EXCEPT ![n] = [who |-> p, kind |-> kind, room |-> era]]
            /\ UNCHANGED <<handler, told, listed>>
    /\ UNCHANGED <<present, era, routers, listens, registry, faults>>

\* The router is there: listen, for the room of the request that asked for it,
\* and serve the request.
Wired(n) ==
    /\ waiter[n] # NoRequest
    /\ routers' = routers \cup {n}
    /\ listens' = [listens EXCEPT ![n] = waiter[n].room]
    /\ Serve(waiter[n].who, waiter[n].kind, n, routers')
    /\ waiter' = [waiter EXCEPT ![n] = NoRequest]
    /\ UNCHANGED <<present, era, assigned, seq, planned, wired, registry, faults>>

\* The router cannot be had: the request fails, the node counts as wired.
WireFails(n) ==
    /\ waiter[n] # NoRequest /\ faults < MaxFaults
    /\ faults' = faults + 1
    /\ waiter' = [waiter EXCEPT ![n] = NoRequest]
    /\ UNCHANGED <<present, era, assigned, seq, planned, wired, routers, listens,
                   handler, registry, told, listed>>

(***************************************************************************)
(* The listeners of ensureNodeRoom                                         *)
(***************************************************************************)
\* Mutant: the peers of the origin are told, whatever the node.
AudienceOrigin(n) == {p \in present : assigned[p] = 0 /\ listens[n] = era}

\* The peers of the room the node's listeners were made for that were placed on it.
Audience(n) == {p \in present : assigned[p] = n /\ listens[n] = era}

Register(n, x, except) ==
    /\ registry' = [registry EXCEPT ![n] = @ \cup {x}]
    /\ told' = [p \in Peers |-> IF p \in Audience(n) \ {except} THEN told[p] \cup {x} ELSE told[p]]
    /\ UNCHANGED <<present, era, assigned, seq, planned, wired, routers, listens,
                   waiter, handler, listed, faults>>

\* The broadcaster publishes on the origin ...
Publish(x) ==
    /\ Broadcaster \in present /\ assigned[Broadcaster] = 0 /\ handler[0] = "router"
    /\ \A n \in Nodes : x \notin registry[n]
    /\ Register(0, x, Broadcaster)

\* ... and the mesh pipes what the origin has onto the edges of the plan.
Relay(n, x) ==
    /\ n \in routers \cap 1..planned - 1
    /\ x \in registry[0] \ registry[n]
    /\ Register(n, x, NoOne)

Unpublish(n, x) ==
    /\ x \in registry[n]
    /\ registry' = [registry EXCEPT ![n] = @ \ {x}]
    /\ UNCHANGED <<present, era, assigned, seq, planned, wired, routers, listens,
                   waiter, handler, told, listed, faults>>

Next ==
    \/ \E p \in Peers : Join(p) \/ Leave(p) \/ \E kind \in Kinds : Request(p, kind)
    \/ \E n \in Nodes : Wired(n) \/ WireFails(n)
    \/ \E n \in Nodes, x \in Producers : Relay(n, x) \/ Unpublish(n, x)
    \/ \E x \in Producers : Publish(x)

Spec == Init /\ [][Next]_vars
----------------------------------------------------------------------------
(***************************************************************************)
(* Properties                                                              *)
(***************************************************************************)
Load(n) == Cardinality({v \in Viewers : assigned[v] = n})

\* In a stream's first room a peer that has asked for the list knows of every
\* producer of its node, those that were announced between the placement, the
\* wiring of the node and the list included.
Announced ==
    era = 1 => \A p \in present \cap listed :
        p # Broadcaster /\ assigned[p] # NoNode => registry[assigned[p]] \subseteq told[p]

\* A viewer's node gets the stream: it is the origin, or the plan has a link to it.
ViewerNodeIsFed ==
    \A v \in Viewers : assigned[v] # NoNode => assigned[v] < planned
=============================================================================

----------------------- MODULE ClusterSignalingProofs -----------------------
(***************************************************************************)
(* The control plane of the massive backend, for any number of viewers,    *)
(* nodes, places on a node, producers, rooms and failing routers.          *)
(*                                                                         *)
(* A viewer's node is fed because the plan only grows while a viewer is    *)
(* placed: the number of nodes it serves is monotone in the number of      *)
(* viewers that ever came.  Whoever has the list is told of everything     *)
(* because a node's producers are registered through the listeners that    *)
(* the wiring leaves behind, and in the first room these are the room's.   *)
(***************************************************************************)
EXTENDS ClusterSignaling, Integers, TLAPS

(***************************************************************************)
(* The inductive invariant                                                 *)
(***************************************************************************)
\* Only who is there has a node, and the broadcaster's is the origin.
Places ==
    /\ \A p \in Peers : assigned[p] # NoNode => p \in present
    /\ assigned[Broadcaster] \in {0, NoNode}
    /\ present # {} => era > 0

\* The plan is for as many viewers as were placed in this room.
Planned == planned = IF seq = 0 THEN 0 ELSE Serving(seq)

\* A suspended request is its peer's about the peer's node, in a room there was.
Suspended ==
    \A n \in Nodes : waiter[n] # NoRequest =>
        /\ waiter[n].kind # "none" /\ waiter[n].room \in 1..era
        /\ waiter[n].who # NoOne => assigned[waiter[n].who] = n

\* A node has producers only if it has a router, and then it has listeners too.
Routed ==
    \A n \in Nodes :
        /\ n \in routers => listens[n] \in 1..era
        /\ handler[n] = "router" \/ registry[n] # {} => n \in routers

\* Who has the list has a node.
Listed == \A p \in present \cap listed : assigned[p] # NoNode

ClusterInv ==
    /\ TypeOK /\ Places /\ Planned /\ Suspended /\ Routed /\ Listed
    /\ ViewerNodeIsFed /\ Announced

(***************************************************************************)
(* The plan                                                                *)
(***************************************************************************)
LEMMA Least == ASSUME NEW a \in Int, NEW b \in Int
               PROVE  Min({a, b}) = IF a <= b THEN a ELSE b
<1>1. PICK m : m = IF a <= b THEN a ELSE b
  OBVIOUS
<1>2. m \in {a, b} /\ \A y \in {a, b} : m <= y
  BY <1>1
<1>3. ASSUME NEW x \in {a, b}, \A y \in {a, b} : x <= y PROVE x = m
  BY <1>1, <1>3
<1>4. Min({a, b}) = CHOOSE x \in {a, b} : \A y \in {a, b} : x <= y
  BY DEF Min
<1> QED BY <1>1, <1>2, <1>3, <1>4

LEMMA Greatest == ASSUME NEW a \in Int, NEW b \in Int
                  PROVE  Max({a, b}) = IF a <= b THEN b ELSE a
<1>1. PICK m : m = IF a <= b THEN b ELSE a
  OBVIOUS
<1>2. m \in {a, b} /\ \A y \in {a, b} : m >= y
  BY <1>1
<1>3. ASSUME NEW x \in {a, b}, \A y \in {a, b} : x >= y PROVE x = m
  BY <1>1, <1>3
<1>4. Max({a, b}) = CHOOSE x \in {a, b} : \A y \in {a, b} : x >= y
  BY DEF Max
<1> QED BY <1>1, <1>2, <1>3, <1>4

LEMMA Shares == ASSUME NEW x \in Nat, NEW k \in Nat \ {0} PROVE x \div k \in Nat
OBVIOUS

LEMMA SharesGrow ==
    ASSUME NEW x \in Nat, NEW k \in Nat \ {0}
    PROVE  x \div k <= (x + 1) \div k
OBVIOUS

\* The plan serves a node at least and all at most, and as many for one viewer more.
LEMMA ServingGrows ==
    ASSUME NEW s \in Nat
    PROVE  Serving(s) \in 1..N /\ Serving(s + 1) \in 1..N /\ Serving(s) <= Serving(s + 1)
<1>1. N \in Nat \ {0} /\ Capacity \in Nat \ {0}
  BY ClusterAssumption
<1>2. PICK a, b : a = (s + Capacity - 1) \div Capacity /\ b = (s + 1 + Capacity - 1) \div Capacity
  OBVIOUS
<1>3. a \in Nat /\ b \in Nat /\ a <= b
  <2>1. PICK x \in Nat : x = s + Capacity - 1 /\ x + 1 = s + 1 + Capacity - 1
    BY <1>1
  <2> QED BY <1>1, <1>2, <2>1, Shares, SharesGrow
<1>4. PICK c, d : c = Max({1, a}) /\ d = Max({1, b})
  OBVIOUS
<1>5. c \in Nat \ {0} /\ d \in Nat \ {0} /\ c <= d
  BY <1>3, <1>4, Greatest
<1>6. Serving(s) = Min({N, c}) /\ Serving(s + 1) = Min({N, d})
  BY <1>2, <1>4 DEF Serving
<1> QED BY <1>1, <1>5, <1>6, Least

(***************************************************************************)
(* The peers                                                               *)
(***************************************************************************)
LEMMA JoinInv == ASSUME ClusterInv, NEW p \in Peers, Join(p) PROVE ClusterInv'
<1>0. NoNode \notin Nodes /\ MaxEras \in Nat
  BY ClusterAssumption DEF NoNode, Nodes
<1>1. /\ p \notin present /\ present' = present \cup {p} /\ listed' = listed \ {p}
      /\ told' = [told EXCEPT ![p] = {}]
      /\ era' \in 0..MaxEras /\ era <= era' /\ era' > 0 /\ (present # {} => era' = era)
      /\ era \in Nat
      /\ UNCHANGED <<assigned, seq, planned, wired, routers, listens, waiter, handler, registry, faults>>
  BY ClusterAssumption DEF Join, ClusterInv, TypeOK, Places
<1>2. TypeOK'
  BY <1>1 DEF ClusterInv, TypeOK
<1>3. Places' /\ Planned' /\ ViewerNodeIsFed'
  BY <1>1 DEF ClusterInv, Places, Planned, ViewerNodeIsFed
<1>4. Suspended' /\ Routed'
  <2>1. \A x \in 1..era : x \in 1..era'
    BY <1>1
  <2> QED BY <1>1, <2>1 DEF ClusterInv, Suspended, Routed
<1>5. Listed'
  BY <1>1 DEF ClusterInv, Listed
<1>6. Announced'
  <2> SUFFICES ASSUME era' = 1, NEW q \in present', q \in listed', q # Broadcaster, assigned'[q] # NoNode
               PROVE  registry'[assigned'[q]] \subseteq told'[q]
    BY DEF Announced
  <2>1. q # p /\ q \in present \cap listed /\ era = 1
    BY <1>1
  <2>2. told'[q] = told[q]
    BY <1>1, <2>1 DEF ClusterInv, TypeOK
  <2> QED BY <1>1, <2>1, <2>2 DEF ClusterInv, Announced
<1> QED BY <1>2, <1>3, <1>4, <1>5, <1>6 DEF ClusterInv

LEMMA LeaveInv == ASSUME ClusterInv, NEW p \in Peers, Leave(p) PROVE ClusterInv'
<1>0. N \in Nat \ {0} /\ Broadcaster \in Peers /\ NoOne \notin Peers
  BY ClusterAssumption DEF Peers
<1>1. /\ p \in present /\ present' = present \ {p} /\ assigned' = [assigned EXCEPT ![p] = NoNode]
      /\ waiter' = [n \in Nodes |-> IF waiter[n].who = p THEN [waiter[n] EXCEPT !.who = NoOne] ELSE waiter[n]]
      /\ IF present' = {} THEN seq' = 0 /\ planned' = 0 ELSE seq' = seq /\ planned' = planned
      /\ UNCHANGED <<era, wired, routers, listens, handler, registry, told, listed, faults>>
  BY DEF Leave
<1>2. /\ assigned' \in [Peers -> Nodes \cup {NoNode}] /\ assigned'[p] = NoNode
      /\ \A q \in Peers : q # p => assigned'[q] = assigned[q]
  BY <1>1 DEF ClusterInv, TypeOK
<1>3. ASSUME NEW n \in Nodes
      PROVE  /\ waiter'[n] \in [who : Peers \cup {NoOne}, kind : Kinds \cup {"none"}, room : 0..MaxEras]
             /\ waiter'[n].kind = waiter[n].kind /\ waiter'[n].room = waiter[n].room
             /\ waiter'[n].who = IF waiter[n].who = p THEN NoOne ELSE waiter[n].who
             /\ waiter'[n] # NoRequest => waiter[n] # NoRequest
  <2>1. waiter[n] \in [who : Peers \cup {NoOne}, kind : Kinds \cup {"none"}, room : 0..MaxEras]
    BY DEF ClusterInv, TypeOK
  <2>2. waiter'[n] = IF waiter[n].who = p THEN [waiter[n] EXCEPT !.who = NoOne] ELSE waiter[n]
    BY <1>1
  <2>3. NoRequest.who = NoOne /\ NoOne # p
    BY <1>0 DEF NoRequest
  <2> QED BY <2>1, <2>2, <2>3
<1>4. TypeOK'
  <2>1. waiter' = [n \in Nodes |-> waiter'[n]]
    BY <1>1
  <2>2. waiter' \in [Nodes -> [who : Peers \cup {NoOne}, kind : Kinds \cup {"none"}, room : 0..MaxEras]]
    BY <1>3, <2>1
  <2>3. seq' \in 0..MaxSeq /\ planned' \in 0..N
    BY <1>0, <1>1, ClusterAssumption DEF ClusterInv, TypeOK
  <2> QED BY <1>1, <1>2, <2>2, <2>3 DEF ClusterInv, TypeOK
<1>5. Places'
  BY <1>0, <1>1, <1>2 DEF ClusterInv, Places
<1>6. Planned'
  BY <1>1 DEF ClusterInv, Planned
<1>7. Suspended'
  BY <1>0, <1>1, <1>2, <1>3 DEF ClusterInv, Suspended, TypeOK
<1>8. Routed'
  BY <1>1 DEF ClusterInv, Routed
<1>9. Listed'
  BY <1>1, <1>2 DEF ClusterInv, Listed, TypeOK
<1>10. ViewerNodeIsFed'
  <2> SUFFICES ASSUME NEW v \in Viewers, assigned'[v] # NoNode PROVE assigned'[v] < planned'
    BY DEF ViewerNodeIsFed
  <2>1. v \in Peers /\ v # p /\ assigned'[v] = assigned[v]
    BY <1>2 DEF Peers
  <2>2. v \in present'
    BY <1>1, <2>1 DEF ClusterInv, Places
  <2> QED BY <1>1, <2>1, <2>2 DEF ClusterInv, ViewerNodeIsFed
<1>11. Announced'
  BY <1>1, <1>2 DEF ClusterInv, Announced, TypeOK
<1> QED BY <1>4, <1>5, <1>6, <1>7, <1>8, <1>9, <1>10, <1>11 DEF ClusterInv

(***************************************************************************)
(* Requests                                                                *)
(***************************************************************************)
\* A peer that has no node is placed on one, which the plan then serves.
LEMMA PlacedFed ==
    ASSUME ClusterInv, NEW p \in present, Placed(p)
    PROVE  /\ assigned' \in [Peers -> Nodes \cup {NoNode}] /\ assigned'[p] \in Nodes
           /\ \A q \in Peers : q # p => assigned'[q] = assigned[q]
           /\ assigned[p] # NoNode => assigned'[p] = assigned[p]
           /\ p = Broadcaster => assigned'[p] = 0
           /\ seq' \in 0..MaxSeq /\ planned' \in 0..N
           /\ Planned' /\ ViewerNodeIsFed'
<1>0. /\ N \in Nat \ {0} /\ Capacity \in Nat \ {0} /\ NoNode \notin Nodes /\ 0 \in Nodes /\ MaxSeq \in Nat
      /\ p \in Peers /\ Broadcaster \notin Viewers /\ Viewers \subseteq Peers
  BY ClusterAssumption DEF NoNode, Nodes, ClusterInv, TypeOK, Peers
<1>1. /\ assigned \in [Peers -> Nodes \cup {NoNode}] /\ seq \in 0..MaxSeq /\ planned \in 0..N
      /\ planned = IF seq = 0 THEN 0 ELSE Serving(seq)
      /\ \A v \in Viewers : assigned[v] # NoNode => assigned[v] < planned
  BY DEF ClusterInv, TypeOK, Planned, ViewerNodeIsFed
<1>2. CASE assigned[p] # NoNode
  <2>1. UNCHANGED <<assigned, seq, planned>>
    BY <1>2 DEF Placed
  <2> QED BY <1>0, <1>1, <1>2, <2>1 DEF Planned, ViewerNodeIsFed, ClusterInv, Places
<1>3. CASE assigned[p] = NoNode /\ p = Broadcaster
  <2>1. assigned' = [assigned EXCEPT ![p] = 0] /\ UNCHANGED <<seq, planned>>
    BY <1>3 DEF Placed, Place
  <2> QED BY <1>0, <1>1, <1>3, <2>1 DEF Planned, ViewerNodeIsFed
<1>4. CASE assigned[p] = NoNode /\ p # Broadcaster
  <2>1. /\ seq < MaxSeq /\ seq' = seq + 1 /\ planned' = Serving(seq + 1)
        /\ assigned' = [assigned EXCEPT ![p] = Min({planned' - 1, seq \div Capacity})]
    BY <1>4 DEF Placed, Place
  <2>2. planned' \in 1..N /\ planned <= planned'
    BY <1>0, <1>1, <2>1, ServingGrows
  <2>3. seq \div Capacity \in Nat
    BY <1>0, <1>1, Shares
  <2>4. PICK n : n = Min({planned' - 1, seq \div Capacity})
    OBVIOUS
  <2>5. n \in Nat /\ n < planned'
    BY <1>0, <2>2, <2>3, <2>4, Least
  <2>6. n \in Nodes
    BY <1>0, <2>2, <2>5 DEF Nodes
  <2>7. /\ assigned' \in [Peers -> Nodes \cup {NoNode}] /\ assigned'[p] = n
        /\ \A q \in Peers : q # p => assigned'[q] = assigned[q]
    BY <1>0, <1>1, <2>1, <2>4, <2>6
  <2>8. Planned'
    BY <1>0, <1>1, <2>1 DEF Planned, Serving
  <2>9. ViewerNodeIsFed'
    <3> SUFFICES ASSUME NEW v \in Viewers, assigned'[v] # NoNode PROVE assigned'[v] < planned'
      BY DEF ViewerNodeIsFed
    <3>1. CASE v = p
      BY <2>5, <2>7, <3>1
    <3>2. CASE v # p
      <4>1. assigned'[v] = assigned[v] /\ assigned[v] < planned /\ assigned[v] \in Nat
        BY <1>0, <1>1, <2>7, <3>2 DEF Nodes, NoNode
      <4> QED BY <1>0, <1>1, <2>2, <4>1
    <3> QED BY <3>1, <3>2
  <2>10. seq' \in 0..MaxSeq /\ planned' \in 0..N
    BY <1>0, <1>1, <2>1, <2>2
  <2> QED BY <1>4, <2>6, <2>7, <2>8, <2>9, <2>10
<1> QED BY <1>2, <1>3, <1>4

\* What a request does on its node.
LEMMA ServeFacts ==
    ASSUME TypeOK, NEW p \in Peers \cup {NoOne}, NEW kind \in Kinds, NEW n \in Nodes, NEW rs, Serve(p, kind, n, rs)
    PROVE  /\ handler' \in [Nodes -> {"none", "router", "nothing"}]
           /\ told' \in [Peers -> SUBSET Producers] /\ listed' \in SUBSET Peers
           /\ \A m \in Nodes : handler'[m] = "router" => handler[m] = "router" \/ (m = n /\ m \in rs)
           /\ listed' \subseteq listed \cup {p} /\ listed \subseteq listed'
           /\ \A q \in Peers : told[q] \subseteq told'[q]
           /\ \A q \in Peers : q \in listed' /\ q \notin listed => q = p /\ registry[n] \subseteq told'[q]
<1>1. handler \in [Nodes -> {"none", "router", "nothing"}] /\ told \in [Peers -> SUBSET Producers] /\ listed \in SUBSET Peers
      /\ registry[n] \subseteq Producers /\ NoOne \notin Peers
  BY ClusterAssumption DEF TypeOK, Peers
<1>2. CASE kind = "list"
  <2>1. /\ told' = IF p = NoOne THEN told ELSE [told EXCEPT ![p] = told[p] \cup registry[n]]
        /\ listed' = listed \cup ({p} \ {NoOne}) /\ handler' = handler
    BY <1>2 DEF Serve
  <2>2. CASE p = NoOne
    BY <1>1, <2>1, <2>2
  <2>3. CASE p # NoOne
    BY <1>1, <2>1, <2>3
  <2> QED BY <2>2, <2>3
<1>3. CASE kind # "list"
  <2>1. /\ handler' = [handler EXCEPT ![n] = IF handler[n] # "none" THEN handler[n]
                                              ELSE IF n \in rs THEN "router" ELSE "nothing"]
        /\ UNCHANGED <<told, listed>>
    BY <1>3 DEF Serve
  <2>2. handler' \in [Nodes -> {"none", "router", "nothing"}]
    BY <1>1, <2>1
  <2>3. \A m \in Nodes : handler'[m] = "router" => handler[m] = "router" \/ (m = n /\ m \in rs)
    BY <1>1, <2>1
  <2> QED BY <1>1, <2>1, <2>2, <2>3
<1> QED BY <1>2, <1>3

LEMMA RequestInv == ASSUME ClusterInv, NEW p \in Peers, NEW kind \in Kinds, Request(p, kind) PROVE ClusterInv'
<1>0. N \in Nat \ {0} /\ NoOne \notin Peers /\ NoNode \notin Nodes /\ TypeOK
  BY ClusterAssumption DEF Peers, NoNode, Nodes, ClusterInv
<1>1. p \in present /\ Placed(p) /\ (\A m \in Nodes : waiter[m].who # p) /\ UNCHANGED <<present, era, routers, listens, registry, faults>>
  BY DEF Request
<1>2. /\ assigned' \in [Peers -> Nodes \cup {NoNode}] /\ assigned'[p] \in Nodes
      /\ \A q \in Peers : q # p => assigned'[q] = assigned[q]
      /\ assigned[p] # NoNode => assigned'[p] = assigned[p]
      /\ p = Broadcaster => assigned'[p] = 0
      /\ seq' \in 0..MaxSeq /\ planned' \in 0..N
      /\ Planned' /\ ViewerNodeIsFed'
  BY <1>1, PlacedFed
<1>3. PICK n \in Nodes : n = assigned'[p]
  BY <1>2
<1>4. IF n \in wired
      THEN Serve(p, kind, n, routers) /\ UNCHANGED <<wired, waiter>>
      ELSE /\ wired' = wired \cup {n}
           /\ waiter' = [waiter EXCEPT ![n] = [who |-> p, kind |-> kind, room |-> era]]
           /\ UNCHANGED <<handler, told, listed>>
  BY <1>3 DEF Request
<1>5. /\ handler' \in [Nodes -> {"none", "router", "nothing"}] /\ told' \in [Peers -> SUBSET Producers] /\ listed' \in SUBSET Peers
      /\ \A m \in Nodes : handler'[m] = "router" => handler[m] = "router" \/ m \in routers
      /\ \A q \in Peers : told[q] \subseteq told'[q]
      /\ \A q \in Peers : q \in listed' /\ q \notin listed => q = p /\ registry[n] \subseteq told'[q]
  <2>1. CASE n \in wired
    BY <1>0, <1>4, <2>1, ServeFacts
  <2>2. CASE n \notin wired
    BY <1>0, <1>4, <2>2 DEF TypeOK
  <2> QED BY <2>1, <2>2
<1>6. era \in 1..MaxEras
  BY <1>1, ClusterAssumption DEF ClusterInv, Places, TypeOK
<1>7. /\ waiter' \in [Nodes -> [who : Peers \cup {NoOne}, kind : Kinds \cup {"none"}, room : 0..MaxEras]]
      /\ \A m \in Nodes : waiter'[m] = waiter[m] \/ (m = n /\ waiter'[m] = [who |-> p, kind |-> kind, room |-> era])
      /\ wired' \in SUBSET Nodes
  BY <1>0, <1>4, <1>6 DEF TypeOK
<1>8. TypeOK'
  <2>1. /\ present' \in SUBSET Peers /\ era' \in 0..MaxEras /\ routers' \in SUBSET Nodes
        /\ listens' \in [Nodes -> 0..MaxEras] /\ registry' \in [Nodes -> SUBSET Producers]
        /\ faults' \in 0..MaxFaults
    BY <1>0, <1>1 DEF TypeOK
  <2>2. /\ assigned' \in [Peers -> Nodes \cup {NoNode}] /\ seq' \in 0..MaxSeq /\ planned' \in 0..N
    BY <1>2
  <2>3. /\ handler' \in [Nodes -> {"none", "router", "nothing"}]
        /\ told' \in [Peers -> SUBSET Producers] /\ listed' \in SUBSET Peers
    BY <1>5
  <2>4. /\ waiter' \in [Nodes -> [who : Peers \cup {NoOne}, kind : Kinds \cup {"none"}, room : 0..MaxEras]]
        /\ wired' \in SUBSET Nodes
    BY <1>7
  <2> QED BY <2>1, <2>2, <2>3, <2>4 DEF TypeOK
<1>9. Places'
  <2>1. Broadcaster \in Peers
    BY DEF Peers
  <2>2. assigned'[Broadcaster] \in {0, NoNode}
    BY <1>1, <1>2, <2>1 DEF ClusterInv, Places
  <2>3. \A q \in Peers : assigned'[q] # NoNode => q \in present'
    BY <1>1, <1>2 DEF ClusterInv, Places
  <2> QED BY <1>1, <2>2, <2>3 DEF ClusterInv, Places
<1>10. Suspended'
  <2> SUFFICES ASSUME NEW m \in Nodes, waiter'[m] # NoRequest
               PROVE  /\ waiter'[m].kind # "none" /\ waiter'[m].room \in 1..era
                      /\ waiter'[m].who # NoOne => assigned'[waiter'[m].who] = m
    BY <1>1 DEF Suspended
  <2>1. CASE waiter'[m] = waiter[m]
    <3>1. waiter[m].who \in Peers \cup {NoOne}
      BY <1>0 DEF TypeOK
    <3> QED BY <1>1, <1>2, <2>1, <3>1 DEF ClusterInv, Suspended
  <2>2. CASE m = n /\ waiter'[m] = [who |-> p, kind |-> kind, room |-> era]
    BY <1>3, <1>6, <2>2 DEF Kinds
  <2> QED BY <1>7, <2>1, <2>2
<1>11. Routed'
  BY <1>1, <1>5 DEF ClusterInv, Routed
<1>12. Listed'
  BY <1>0, <1>1, <1>2, <1>5 DEF ClusterInv, Listed, TypeOK
<1>13. Announced'
  <2> SUFFICES ASSUME era = 1, NEW q \in present, q \in listed', q # Broadcaster, assigned'[q] # NoNode
               PROVE  registry[assigned'[q]] \subseteq told'[q]
    BY <1>1 DEF Announced
  <2>1. q \in Peers
    BY <1>0 DEF TypeOK
  <2>2. CASE q \in listed
    <3>1. assigned'[q] = assigned[q] /\ told[q] \subseteq told'[q]
      BY <1>2, <1>5, <2>1, <2>2 DEF ClusterInv, Listed
    <3> QED BY <2>2, <3>1 DEF ClusterInv, Announced
  <2>3. CASE q \notin listed
    BY <1>3, <1>5, <2>1, <2>3
  <2> QED BY <2>2, <2>3
<1> QED BY <1>2, <1>8, <1>9, <1>10, <1>11, <1>12, <1>13 DEF ClusterInv

(***************************************************************************)
(* The wiring of a node                                                    *)
(***************************************************************************)
\* A waiter that is done is gone; what the others wait for stays.
LEMMA WaiterDone ==
    ASSUME ClusterInv, NEW n \in Nodes, waiter' = [waiter EXCEPT ![n] = NoRequest]
    PROVE  /\ waiter' \in [Nodes -> [who : Peers \cup {NoOne}, kind : Kinds \cup {"none"}, room : 0..MaxEras]]
           /\ \A m \in Nodes : waiter'[m] # NoRequest => waiter'[m] = waiter[m]
<1>1. NoRequest \in [who : Peers \cup {NoOne}, kind : Kinds \cup {"none"}, room : 0..MaxEras]
  BY ClusterAssumption DEF NoRequest
<1> QED BY <1>1 DEF ClusterInv, TypeOK

LEMMA WiredInv == ASSUME ClusterInv, NEW n \in Nodes, Wired(n) PROVE ClusterInv'
<1>0. N \in Nat \ {0} /\ NoOne \notin Peers /\ NoNode \notin Nodes /\ TypeOK
  BY ClusterAssumption DEF Peers, NoNode, Nodes, ClusterInv
<1>1. /\ waiter[n] # NoRequest /\ routers' = routers \cup {n}
      /\ listens' = [listens EXCEPT ![n] = waiter[n].room]
      /\ Serve(waiter[n].who, waiter[n].kind, n, routers') /\ waiter' = [waiter EXCEPT ![n] = NoRequest]
      /\ UNCHANGED <<present, era, assigned, seq, planned, wired, registry, faults>>
  BY DEF Wired
<1>2. PICK p \in Peers \cup {NoOne}, kind \in Kinds, room \in 1..era :
         p = waiter[n].who /\ kind = waiter[n].kind /\ room = waiter[n].room
  <2>1. waiter[n].who \in Peers \cup {NoOne} /\ waiter[n].kind \in Kinds /\ waiter[n].room \in 1..era
    BY <1>0, <1>1 DEF TypeOK, ClusterInv, Suspended
  <2> QED BY <2>1
<1>3. p # NoOne => assigned[p] = n
  BY <1>1, <1>2 DEF ClusterInv, Suspended
<1>4. PICK rs : rs = routers \cup {n}
  OBVIOUS
<1>5. /\ handler' \in [Nodes -> {"none", "router", "nothing"}] /\ told' \in [Peers -> SUBSET Producers] /\ listed' \in SUBSET Peers
      /\ \A m \in Nodes : handler'[m] = "router" => handler[m] = "router" \/ m = n
      /\ \A q \in Peers : told[q] \subseteq told'[q]
      /\ \A q \in Peers : q \in listed' /\ q \notin listed => q = p /\ registry[n] \subseteq told'[q]
  <2>1. Serve(p, kind, n, rs)
    BY <1>1, <1>2, <1>4
  <2> QED BY <1>0, <2>1, ServeFacts
<1>6. /\ waiter' \in [Nodes -> [who : Peers \cup {NoOne}, kind : Kinds \cup {"none"}, room : 0..MaxEras]]
      /\ \A m \in Nodes : waiter'[m] # NoRequest => waiter'[m] = waiter[m]
  BY <1>1, WaiterDone
<1>7. /\ listens' \in [Nodes -> 0..MaxEras] /\ listens'[n] = room
      /\ \A m \in Nodes : m # n => listens'[m] = listens[m]
  <2>1. room \in 0..MaxEras
    BY <1>0, ClusterAssumption DEF TypeOK
  <2> QED BY <1>0, <1>1, <1>2, <2>1 DEF TypeOK
<1>8. TypeOK'
  BY <1>0, <1>1, <1>5, <1>6, <1>7 DEF TypeOK
<1>9. Places' /\ Planned' /\ ViewerNodeIsFed'
  BY <1>1 DEF ClusterInv, Places, Planned, ViewerNodeIsFed
<1>10. Suspended'
  BY <1>1, <1>6 DEF ClusterInv, Suspended
<1>11. Routed'
  BY <1>1, <1>5, <1>7 DEF ClusterInv, Routed
<1>12. Listed'
  BY <1>0, <1>1, <1>3, <1>5 DEF ClusterInv, Listed, TypeOK
<1>13. Announced'
  <2> SUFFICES ASSUME era = 1, NEW q \in present, q \in listed', q # Broadcaster, assigned[q] # NoNode
               PROVE  registry[assigned[q]] \subseteq told'[q]
    BY <1>1 DEF Announced
  <2>1. q \in Peers
    BY <1>0 DEF TypeOK
  <2>2. CASE q \in listed
    BY <1>5, <2>1, <2>2 DEF ClusterInv, Announced
  <2>3. CASE q \notin listed
    BY <1>0, <1>3, <1>5, <2>1, <2>3
  <2> QED BY <2>2, <2>3
<1> QED BY <1>8, <1>9, <1>10, <1>11, <1>12, <1>13 DEF ClusterInv

LEMMA WireFailsInv == ASSUME ClusterInv, NEW n \in Nodes, WireFails(n) PROVE ClusterInv'
<1>1. /\ waiter' = [waiter EXCEPT ![n] = NoRequest] /\ faults' = faults + 1 /\ faults < MaxFaults
      /\ UNCHANGED <<present, era, assigned, seq, planned, wired, routers, listens, handler, registry, told, listed>>
  BY DEF WireFails
<1>2. /\ waiter' \in [Nodes -> [who : Peers \cup {NoOne}, kind : Kinds \cup {"none"}, room : 0..MaxEras]]
      /\ \A m \in Nodes : waiter'[m] # NoRequest => waiter'[m] = waiter[m]
  BY <1>1, WaiterDone
<1>3. TypeOK'
  BY <1>1, <1>2, ClusterAssumption DEF ClusterInv, TypeOK
<1>4. Suspended'
  BY <1>1, <1>2 DEF ClusterInv, Suspended
<1> QED BY <1>1, <1>3, <1>4 DEF ClusterInv, Places, Planned, Routed, Listed, ViewerNodeIsFed, Announced

(***************************************************************************)
(* The producers                                                           *)
(***************************************************************************)
LEMMA RegisterInv ==
    ASSUME ClusterInv, NEW n \in routers, NEW x \in Producers, NEW except \in {Broadcaster, NoOne}, Register(n, x, except)
    PROVE  ClusterInv'
<1>0. TypeOK /\ n \in Nodes /\ NoOne \notin Peers
  BY ClusterAssumption DEF ClusterInv, TypeOK, Peers
<1>1. /\ registry' = [registry EXCEPT ![n] = registry[n] \cup {x}]
      /\ told' = [p \in Peers |-> IF p \in Audience(n) \ {except} THEN told[p] \cup {x} ELSE told[p]]
      /\ UNCHANGED <<present, era, assigned, seq, planned, wired, routers, listens, waiter, handler, listed, faults>>
  BY DEF Register
<1>2. /\ registry' \in [Nodes -> SUBSET Producers] /\ registry'[n] = registry[n] \cup {x}
      /\ \A m \in Nodes : m # n => registry'[m] = registry[m]
      /\ told' \in [Peers -> SUBSET Producers]
  BY <1>0, <1>1 DEF TypeOK
<1>3. TypeOK'
  BY <1>0, <1>1, <1>2 DEF TypeOK
<1>4. Routed'
  BY <1>0, <1>1, <1>2 DEF ClusterInv, Routed
<1>5. Announced'
  <2> SUFFICES ASSUME era = 1, NEW q \in present, q \in listed, q # Broadcaster, assigned[q] # NoNode
               PROVE  registry'[assigned[q]] \subseteq told'[q]
    BY <1>1 DEF Announced
  <2>1. registry[assigned[q]] \subseteq told[q] /\ q \in Peers /\ assigned[q] \in Nodes
    BY <1>0 DEF ClusterInv, Announced, TypeOK
  <2>2. CASE assigned[q] = n
    <3>1. listens[n] = 1
      BY <1>0 DEF ClusterInv, Routed
    <3>2. q \in Audience(n) \ {except}
      BY <1>0, <2>1, <2>2, <3>1 DEF Audience
    <3> QED BY <1>1, <1>2, <2>1, <2>2, <3>2
  <2>3. CASE assigned[q] # n
    BY <1>1, <1>2, <2>1, <2>3
  <2> QED BY <2>2, <2>3
<1> QED BY <1>1, <1>3, <1>4, <1>5 DEF ClusterInv, Places, Planned, Suspended, Listed, ViewerNodeIsFed

LEMMA PublishInv == ASSUME ClusterInv, NEW x \in Producers, Publish(x) PROVE ClusterInv'
<1>1. 0 \in Nodes /\ handler[0] = "router" /\ Register(0, x, Broadcaster)
  BY ClusterAssumption DEF Publish, Nodes
<1>2. 0 \in routers
  BY <1>1 DEF ClusterInv, Routed
<1> QED BY <1>1, <1>2, RegisterInv

LEMMA RelayInv == ASSUME ClusterInv, NEW n \in Nodes, NEW x \in Producers, Relay(n, x) PROVE ClusterInv'
BY RegisterInv DEF Relay

LEMMA UnpublishInv == ASSUME ClusterInv, NEW n \in Nodes, NEW x \in Producers, Unpublish(n, x) PROVE ClusterInv'
<1>1. /\ registry' = [registry EXCEPT ![n] = registry[n] \ {x}]
      /\ UNCHANGED <<present, era, assigned, seq, planned, wired, routers, listens, waiter, handler, told, listed, faults>>
  BY DEF Unpublish
<1>2. /\ registry' \in [Nodes -> SUBSET Producers] /\ \A m \in Nodes : registry'[m] \subseteq registry[m]
  BY <1>1 DEF ClusterInv, TypeOK
<1>3. TypeOK'
  BY <1>1, <1>2 DEF ClusterInv, TypeOK
<1>4. Routed'
  BY <1>1, <1>2 DEF ClusterInv, Routed
<1>5. Announced'
  <2> SUFFICES ASSUME era = 1, NEW q \in present, q \in listed, q # Broadcaster, assigned[q] # NoNode
               PROVE  registry'[assigned[q]] \subseteq told[q]
    BY <1>1 DEF Announced
  <2>1. registry[assigned[q]] \subseteq told[q] /\ assigned[q] \in Nodes
    BY DEF ClusterInv, Announced, TypeOK
  <2> QED BY <1>2, <2>1
<1> QED BY <1>1, <1>3, <1>4, <1>5 DEF ClusterInv, Places, Planned, Suspended, Listed, ViewerNodeIsFed

(***************************************************************************)
(* The theorems                                                            *)
(***************************************************************************)
\* The inductive invariant of the massive control plane.
THEOREM ClusterInvariance == Spec => []ClusterInv
<1>1. Init => ClusterInv
  <2> SUFFICES ASSUME Init PROVE ClusterInv
    OBVIOUS
  <2>1. NoRequest \in [who : Peers \cup {NoOne}, kind : Kinds \cup {"none"}, room : 0..MaxEras] /\ 0 \in 0..N
    BY ClusterAssumption DEF NoRequest
  <2>2. TypeOK
    BY <2>1, ClusterAssumption DEF Init, TypeOK
  <2>3. Places /\ Planned /\ Suspended /\ Routed /\ Listed
    BY DEF Init, Places, Planned, Suspended, Routed, Listed, Peers
  <2>4. ViewerNodeIsFed /\ Announced
    BY DEF Init, ViewerNodeIsFed, Announced, Peers
  <2> QED BY <2>2, <2>3, <2>4 DEF ClusterInv
<1>2. ClusterInv /\ [Next]_vars => ClusterInv'
  <2> SUFFICES ASSUME ClusterInv, [Next]_vars PROVE ClusterInv'
    OBVIOUS
  <2>1. CASE \E p \in Peers : Join(p) \/ Leave(p) \/ \E kind \in Kinds : Request(p, kind)
    BY <2>1, JoinInv, LeaveInv, RequestInv
  <2>2. CASE \E n \in Nodes : Wired(n) \/ WireFails(n)
    BY <2>2, WiredInv, WireFailsInv
  <2>3. CASE \E n \in Nodes, x \in Producers : Relay(n, x) \/ Unpublish(n, x)
    BY <2>3, RelayInv, UnpublishInv
  <2>4. CASE \E x \in Producers : Publish(x)
    BY <2>4, PublishInv
  <2>5. CASE UNCHANGED vars
    BY <2>5 DEF vars, ClusterInv, TypeOK, Places, Planned, Suspended, Routed, Listed, ViewerNodeIsFed, Announced
  <2> QED BY <2>1, <2>2, <2>3, <2>4, <2>5 DEF Next
<1> QED BY <1>1, <1>2, PTL DEF Spec

\* Type correctness.
THEOREM ClusterTypeCorrect == Spec => []TypeOK
<1>1. ClusterInv => TypeOK
  BY DEF ClusterInv
<1> QED BY <1>1, ClusterInvariance, PTL

\* A viewer's node gets the stream, for any number of nodes, places and viewers that come
\* and go (assignPeer): it is the origin, or the plan has a link to it.
THEOREM ViewersAreFed == Spec => []ViewerNodeIsFed
<1>1. ClusterInv => ViewerNodeIsFed
  BY DEF ClusterInv
<1> QED BY <1>1, ClusterInvariance, PTL

\* In a stream's first room who has asked for the list knows every producer of its node,
\* whatever was announced, wired or failed in between (ensureNodeRoom, handleRpc).
THEOREM ListsAreComplete == Spec => []Announced
<1>1. ClusterInv => Announced
  BY DEF ClusterInv
<1> QED BY <1>1, ClusterInvariance, PTL
=============================================================================

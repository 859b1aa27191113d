--------------------------- MODULE CascadeProofs ---------------------------
(***************************************************************************)
(* The cascade for any number of producers, viewers, attempts and          *)
(* failures: what is planned is what is piped, each link has its own pump  *)
(* and misses nothing, and the plan is for the audience there is.          *)
(***************************************************************************)
EXTENDS Cascade, FiniteSetTheorems, TLAPS

(***************************************************************************)
(* The inductive invariant                                                 *)
(***************************************************************************)
\* A reservation has an attempt that is wiring; while nobody dropped one that was,
\* there is no other attempt, and none without a reservation.
Reservation ==
    /\ slot = "reserved" => Wiring # {}
    /\ ~overtaken => /\ \A a, b \in Wiring : a = b
                     /\ Wiring # {} => slot = "reserved"

\* Only wired attempts pump, and the one whose handle the entry holds does.
Pumps ==
    /\ \A a \in listening : stage[a] = "up"
    /\ slot \in Attempts => slot \in listening

\* A producer is copied once at most, and by an attempt that took it on.
Copies ==
    /\ \A a \in Attempts : copying[a] \subseteq piped[a] /\ (stage[a] # "up" => piped[a] = {})
    /\ \A a \in Attempts, p \in Producers :
          p \in copying[a] \/ p \notin piped[a] => copies[a][p] = 0

\* The entry follows the calls, as long as no wiring failed or was overtaken.
EntryFollowsCalls ==
    registered /\ ~overtaken /\ (\A a \in Attempts : stage[a] # "failed") =>
        (wanted <=> slot # "none")

MeshInv == MeshTypeOK /\ Reservation /\ Pumps /\ Copies /\ EntryFollowsCalls /\ LinkIsPump /\ NoMiss

\* Before the room's listeners are there, nothing is heard of or planned; a room
\* that closed stays empty.
RoomTypeOK ==
    /\ here \subseteq Peers /\ closed \in BOOLEAN
    /\ attach \in {"no", "waiting", "done", "failed"}
    /\ known \in BOOLEAN /\ behind \in BOOLEAN /\ skipped \in BOOLEAN
    /\ planned \in 0..Cardinality(Viewers)

Unattached ==
    /\ attach # "done" => mirror = {} /\ ~wanted
    /\ closed => here = {}

RoomInv == RoomTypeOK /\ Unattached /\ AudienceIsPlanned

IInv == MeshInv /\ RoomInv

LEMMA Initially == Init => IInv
<1> SUFFICES ASSUME Init PROVE IInv
  OBVIOUS
<1>0. slot = "none" /\ slot \notin Attempts
  BY BoundAssumption DEF Init, MeshInit
<1>1. MeshTypeOK
  <2>1. copies \in [Attempts -> [Producers -> 0..1]]
    BY DEF Init, MeshInit
  <2>2. faults \in 0..MaxFaults
    BY BoundAssumption DEF Init, MeshInit
  <2> QED BY <2>1, <2>2 DEF Init, MeshInit, MeshTypeOK, Stages
<1>2. Reservation /\ Pumps /\ Copies
  BY <1>0 DEF Init, MeshInit, Reservation, Pumps, Copies, Wiring
<1>3. EntryFollowsCalls /\ LinkIsPump /\ NoMiss
  BY <1>0 DEF Init, MeshInit, EntryFollowsCalls, LinkIsPump, NoMiss
<1>4. Cardinality(Viewers) \in Nat
  BY AudienceAssumption, FS_CardinalityType
<1>5. RoomTypeOK
  <2>1. planned \in 0..Cardinality(Viewers)
    BY <1>4 DEF Init
  <2> QED BY <2>1 DEF Init, RoomTypeOK
<1>6. Unattached /\ AudienceIsPlanned
  BY DEF Init, MeshInit, Unattached, AudienceIsPlanned
<1> QED BY <1>1, <1>2, <1>3, <1>5, <1>6 DEF IInv, MeshInv, RoomInv

(***************************************************************************)
(* The mesh's own steps                                                    *)
(***************************************************************************)
LEMMA EstablishedMesh ==
    ASSUME MeshInv, NEW a \in Attempts, Established(a)
    PROVE  MeshInv'
<1> USE DEF MeshInv
<1>0. /\ slot' = a /\ a \in Attempts /\ a # "none" /\ a # "reserved"
      /\ stage' = [stage EXCEPT ![a] = "up"]
      /\ stage[a] = "wiring" /\ a \notin listening
      /\ listening' = listening \cup {a}
      /\ piped' = [piped EXCEPT ![a] = mirror] /\ copying' = [copying EXCEPT ![a] = mirror]
      /\ UNCHANGED <<live, mirror, copies, wanted, overtaken, registered, faults>>
  BY BoundAssumption DEF Established, Pumps
<1>1. MeshTypeOK'
  BY <1>0 DEF MeshTypeOK, Stages
<1>2. Wiring' = Wiring \ {a} /\ a \in Wiring
  BY <1>0 DEF Wiring, MeshTypeOK
<1>3. Reservation'
  BY <1>0, <1>2 DEF Reservation
<1>4. Pumps'
  BY <1>0 DEF Pumps, MeshTypeOK
<1>5. Copies'
  BY <1>0 DEF Copies, MeshTypeOK
<1>6. EntryFollowsCalls'
  <2>1. ~overtaken => slot = "reserved"
    BY <1>2 DEF Reservation
  <2>2. (\A b \in Attempts : stage'[b] # "failed") => \A b \in Attempts : stage[b] # "failed"
    BY <1>0 DEF MeshTypeOK
  <2> QED BY <1>0, <2>1, <2>2 DEF EntryFollowsCalls
<1>7. LinkIsPump'
  <2>1. ~overtaken => listening = {}
    BY <1>2, BoundAssumption DEF Reservation, LinkIsPump
  <2> QED BY <1>0, <2>1 DEF LinkIsPump
<1>8. NoMiss'
  BY <1>0 DEF NoMiss, MeshTypeOK
<1> QED BY <1>1, <1>3, <1>4, <1>5, <1>6, <1>7, <1>8

LEMMA EstablishFailsMesh ==
    ASSUME MeshInv, NEW a \in Attempts, EstablishFails(a)
    PROVE  MeshInv'
<1> USE DEF MeshInv
<1>0. /\ slot' = "none" /\ slot' \notin Attempts
      /\ stage' = [stage EXCEPT ![a] = "failed"]
      /\ stage[a] = "wiring"
      /\ faults < MaxFaults /\ faults' = faults + 1
      /\ UNCHANGED <<listening, live, mirror, piped, copying, copies, wanted, overtaken, registered>>
  BY BoundAssumption DEF EstablishFails, relayVars
<1>1. MeshTypeOK'
  BY <1>0, BoundAssumption DEF MeshTypeOK, Stages
<1>2. Wiring' = Wiring \ {a} /\ a \in Wiring
  BY <1>0 DEF Wiring, MeshTypeOK
<1>3. Reservation'
  BY <1>0, <1>2 DEF Reservation
<1>4. Pumps'
  BY <1>0 DEF Pumps, MeshTypeOK
<1>5. Copies'
  BY <1>0 DEF Copies, MeshTypeOK
<1>6. EntryFollowsCalls'
  BY <1>0 DEF EntryFollowsCalls, MeshTypeOK
<1>7. LinkIsPump'
  <2>1. ~overtaken => listening = {}
    BY <1>2, BoundAssumption DEF Reservation, LinkIsPump
  <2> QED BY <1>0, <2>1 DEF LinkIsPump
<1>8. NoMiss'
  BY <1>0 DEF NoMiss
<1> QED BY <1>1, <1>3, <1>4, <1>5, <1>6, <1>7, <1>8

LEMMA CopyMesh ==
    ASSUME MeshInv, NEW a \in Attempts, NEW p \in Producers, Copied(a, p) \/ CopyFails(a, p)
    PROVE  MeshInv'
<1> USE DEF MeshInv
<1>0. /\ p \in copying[a] /\ p \in piped[a] /\ copies[a][p] = 0
      /\ copying' = [copying EXCEPT ![a] = @ \ {p}]
      /\ copies' = copies \/ copies' = [copies EXCEPT ![a][p] = @ + 1]
      /\ faults' \in 0..MaxFaults
      /\ UNCHANGED <<slot, stage, listening, live, mirror, piped, wanted, overtaken, registered>>
  BY BoundAssumption DEF Copied, CopyFails, Copies, MeshTypeOK
<1>1. MeshTypeOK'
  <2>1. copying' \in [Attempts -> SUBSET Producers]
    BY <1>0 DEF MeshTypeOK
  <2>2. copies' \in [Attempts -> [Producers -> 0..1]]
    <3>1. CASE copies' = copies
      BY <3>1 DEF MeshTypeOK
    <3>2. CASE copies' = [copies EXCEPT ![a][p] = @ + 1]
      <4>1. copies' = [copies EXCEPT ![a] = [copies[a] EXCEPT ![p] = 1]]
        BY <1>0, <3>2
      <4>2. [copies[a] EXCEPT ![p] = 1] \in [Producers -> 0..1]
        BY DEF MeshTypeOK
      <4> QED BY <4>1, <4>2 DEF MeshTypeOK
    <3> QED BY <1>0, <3>1, <3>2
  <2> QED BY <1>0, <2>1, <2>2 DEF MeshTypeOK
<1>2. Wiring' = Wiring
  BY <1>0 DEF Wiring
<1>3. Reservation' /\ Pumps' /\ EntryFollowsCalls' /\ LinkIsPump' /\ NoMiss'
  BY <1>0, <1>2 DEF Reservation, Pumps, EntryFollowsCalls, LinkIsPump, NoMiss
<1>4. Copies'
  <2>1. ASSUME NEW b \in Attempts
        PROVE  copying'[b] \subseteq piped'[b] /\ (stage'[b] # "up" => piped'[b] = {})
    BY <1>0 DEF Copies, MeshTypeOK
  <2>2. ASSUME NEW b \in Attempts, NEW q \in Producers,
               q \in copying'[b] \/ q \notin piped'[b]
        PROVE  copies'[b][q] = 0
    <3>1. b # a \/ q # p
      BY <1>0, <2>2 DEF MeshTypeOK
    <3>2. q \in copying[b] \/ q \notin piped[b]
      BY <1>0, <2>2 DEF MeshTypeOK
    <3>3. copies[b][q] = 0
      BY <3>2 DEF Copies
    <3>4. copies'[b][q] = copies[b][q]
      BY <1>0, <3>1 DEF MeshTypeOK
    <3> QED BY <3>3, <3>4
  <2> QED BY <2>1, <2>2 DEF Copies
<1> QED BY <1>1, <1>3, <1>4

(***************************************************************************)
(* What a plan does to the link, while the room's producers change         *)
(***************************************************************************)
\* What pipeLink and unpipeLink leave of the link: no attempt ends, no pump is put on.
LinkKept ==
    /\ slot' \in Attempts => slot' = slot
    /\ listening' \subseteq listening
    /\ slot' \in Attempts => slot' \in listening'
    /\ stage' \in [Attempts -> Stages]
    /\ \A a \in Attempts : stage'[a] = "up" <=> stage[a] = "up"

LinkTypeOK ==
    /\ slot \in Attempts \cup {"none", "reserved"}
    /\ wanted \in BOOLEAN /\ overtaken \in BOOLEAN

LEMMA PipeLinkKeeps ==
    ASSUME MeshInv, PipeLink, UNCHANGED registered
    PROVE  LinkKept /\ LinkTypeOK' /\ Reservation' /\ EntryFollowsCalls' /\ LinkIsPump'
<1> USE DEF MeshInv
<1>0. wanted' = TRUE /\ UNCHANGED <<listening, overtaken>>
  BY DEF PipeLink
<1>1. CASE slot = "none" /\ registered
  <2>1. PICK a \in Attempts :
          stage[a] = "unused" /\ slot' = "reserved" /\ stage' = [stage EXCEPT ![a] = "wiring"]
    BY <1>1 DEF PipeLink
  <2>2. slot' \notin Attempts
    BY <2>1, BoundAssumption
  <2>3. LinkKept /\ LinkTypeOK'
    BY <1>0, <2>1, <2>2 DEF LinkKept, LinkTypeOK, MeshTypeOK, Stages
  <2>4. Wiring' = Wiring \cup {a}
    BY <2>1 DEF Wiring, MeshTypeOK
  <2>5. ~overtaken => Wiring = {}
    BY <1>1 DEF Reservation
  <2>6. Reservation'
    BY <1>0, <2>1, <2>4, <2>5 DEF Reservation
  <2>7. EntryFollowsCalls'
    BY <1>0, <2>1 DEF EntryFollowsCalls
  <2>8. LinkIsPump'
    BY <1>0, <1>1, <2>2, BoundAssumption DEF LinkIsPump
  <2> QED BY <2>3, <2>6, <2>7, <2>8
<1>2. CASE ~(slot = "none" /\ registered)
  <2>1. UNCHANGED <<slot, stage>>
    BY <1>2 DEF PipeLink
  <2>2. Wiring' = Wiring
    BY <2>1 DEF Wiring
  <2>3. LinkKept
    BY <1>0, <2>1 DEF LinkKept, MeshTypeOK, Pumps
  <2>4. LinkTypeOK'
    BY <1>0, <2>1 DEF LinkTypeOK, MeshTypeOK
  <2>5. Reservation' /\ LinkIsPump'
    BY <1>0, <2>1, <2>2 DEF Reservation, LinkIsPump
  <2>6. EntryFollowsCalls'
    BY <1>0, <1>2, <2>1 DEF EntryFollowsCalls
  <2> QED BY <2>3, <2>4, <2>5, <2>6
<1> QED BY <1>1, <1>2

LEMMA UnpipeLinkKeeps ==
    ASSUME MeshInv, UnpipeLink, UNCHANGED registered
    PROVE  LinkKept /\ LinkTypeOK' /\ Reservation' /\ EntryFollowsCalls' /\ LinkIsPump'
<1> USE DEF MeshInv
<1>0. /\ wanted' = FALSE /\ slot' = "none" /\ slot' \notin Attempts
      /\ listening' = listening \ {slot} /\ stage' = stage
  BY BoundAssumption DEF UnpipeLink
<1>1. overtaken' <=> overtaken \/ Wiring # {}
  BY DEF UnpipeLink, Wiring, MeshTypeOK
<1>2. overtaken' \in BOOLEAN
  BY DEF UnpipeLink
<1>3. Wiring' = Wiring
  BY <1>0 DEF Wiring
<1>4. LinkKept /\ LinkTypeOK'
  BY <1>0, <1>2 DEF LinkKept, LinkTypeOK, MeshTypeOK
<1>5. Reservation'
  BY <1>0, <1>1, <1>3 DEF Reservation
<1>6. EntryFollowsCalls'
  BY <1>0 DEF EntryFollowsCalls
<1>7. LinkIsPump'
  BY <1>0, <1>1 DEF LinkIsPump
<1> QED BY <1>4, <1>5, <1>6, <1>7

LEMMA NoCallKeeps ==
    ASSUME MeshInv, UNCHANGED linkVars, UNCHANGED registered
    PROVE  LinkKept /\ LinkTypeOK' /\ Reservation' /\ EntryFollowsCalls' /\ LinkIsPump'
<1> USE DEF MeshInv
<1>0. UNCHANGED <<slot, stage, listening, wanted, overtaken>>
  BY DEF linkVars
<1>1. Wiring' = Wiring
  BY <1>0 DEF Wiring
<1>2. LinkKept /\ LinkTypeOK'
  BY <1>0 DEF LinkKept, LinkTypeOK, MeshTypeOK, Pumps
<1> QED BY <1>0, <1>1, <1>2 DEF Reservation, EntryFollowsCalls, LinkIsPump

\* The room's producers while the link is kept.
LEMMA RelayKeeps ==
    ASSUME MeshInv, LinkKept,
           \/ UNCHANGED relayVars
           \/ \E p \in Producers : ProducerAdded(p) \/ ProducerUnheard(p)
           \/ \E ps : ProducersClosed(ps)
    PROVE  /\ Copies' /\ NoMiss' /\ Pumps'
           /\ live' \in SUBSET Producers /\ mirror' \subseteq live'
           /\ piped' \in [Attempts -> SUBSET Producers]
           /\ copying' \in [Attempts -> SUBSET Producers]
           /\ copies' = copies
<1> USE DEF MeshInv
<1>1. Pumps'
  BY DEF LinkKept, Pumps, MeshTypeOK
<1>2. CASE /\ UNCHANGED <<piped, copying, copies>>
           /\ live' \in SUBSET Producers /\ mirror' \subseteq live' /\ mirror' \subseteq mirror
  <2>1. Copies'
    BY <1>2 DEF Copies, LinkKept
  <2>2. NoMiss'
    BY <1>2 DEF NoMiss, LinkKept
  <2> QED BY <1>1, <1>2, <2>1, <2>2 DEF MeshTypeOK
<1>3. ASSUME NEW p \in Producers, ProducerAdded(p)
      PROVE  /\ Copies' /\ NoMiss'
             /\ live' \in SUBSET Producers /\ mirror' \subseteq live'
             /\ piped' \in [Attempts -> SUBSET Producers]
             /\ copying' \in [Attempts -> SUBSET Producers]
             /\ copies' = copies
  <2>1. /\ \A a \in Attempts : p \notin piped[a]
        /\ live' = live \cup {p} /\ mirror' = mirror \cup {p}
        /\ piped' = [a \in Attempts |-> IF a \in listening THEN piped[a] \cup {p} ELSE piped[a]]
        /\ copying' = [a \in Attempts |-> IF a \in listening THEN copying[a] \cup {p} ELSE copying[a]]
        /\ copies' = copies
    BY <1>3 DEF ProducerAdded
  <2>2. /\ live' \in SUBSET Producers /\ mirror' \subseteq live'
        /\ piped' \in [Attempts -> SUBSET Producers]
        /\ copying' \in [Attempts -> SUBSET Producers]
    BY <2>1 DEF MeshTypeOK
  <2>3. ASSUME NEW a \in Attempts
        PROVE  copying'[a] \subseteq piped'[a] /\ (stage'[a] # "up" => piped'[a] = {})
    BY <2>1 DEF Copies, Pumps, LinkKept
  <2>4. ASSUME NEW a \in Attempts, NEW q \in Producers,
               q \in copying'[a] \/ q \notin piped'[a]
        PROVE  copies'[a][q] = 0
    <3>1. CASE q = p
      BY <2>1, <3>1 DEF Copies
    <3>2. CASE q # p
      BY <2>1, <2>4, <3>2 DEF Copies
    <3> QED BY <3>1, <3>2
  <2>5. NoMiss'
    BY <2>1 DEF NoMiss, LinkKept, Pumps
  <2> QED BY <2>1, <2>2, <2>3, <2>4, <2>5 DEF Copies
<1>4. ASSUME NEW p \in Producers, ProducerUnheard(p)
      PROVE  /\ UNCHANGED <<piped, copying, copies>>
             /\ live' \in SUBSET Producers /\ mirror' \subseteq live' /\ mirror' \subseteq mirror
  BY <1>4 DEF ProducerUnheard, MeshTypeOK
<1>5. ASSUME NEW ps, ProducersClosed(ps)
      PROVE  /\ UNCHANGED <<piped, copying, copies>>
             /\ live' \in SUBSET Producers /\ mirror' \subseteq live' /\ mirror' \subseteq mirror
  BY <1>5 DEF ProducersClosed, MeshTypeOK
<1>6. CASE UNCHANGED relayVars
  <2>1. /\ UNCHANGED <<piped, copying, copies>>
        /\ live' \in SUBSET Producers /\ mirror' \subseteq live' /\ mirror' \subseteq mirror
    BY <1>6 DEF relayVars, MeshTypeOK
  <2> QED BY <1>1, <1>2, <2>1
<1> QED BY <1>1, <1>2, <1>3, <1>4, <1>5, <1>6

LEMMA RoomStepKeepsMesh ==
    ASSUME MeshInv,
           PipeLink \/ UnpipeLink \/ UNCHANGED linkVars,
           \/ UNCHANGED relayVars
           \/ \E p \in Producers : ProducerAdded(p) \/ ProducerUnheard(p)
           \/ \E ps : ProducersClosed(ps),
           UNCHANGED registered, faults' \in 0..MaxFaults
    PROVE  MeshInv'
<1>1. LinkKept /\ LinkTypeOK' /\ Reservation' /\ EntryFollowsCalls' /\ LinkIsPump'
  BY PipeLinkKeeps, UnpipeLinkKeeps, NoCallKeeps
<1>2. /\ Copies' /\ NoMiss' /\ Pumps'
      /\ live' \in SUBSET Producers /\ mirror' \subseteq live'
      /\ piped' \in [Attempts -> SUBSET Producers]
      /\ copying' \in [Attempts -> SUBSET Producers]
      /\ copies' = copies
  BY <1>1, RelayKeeps
<1>3. MeshTypeOK'
  BY <1>1, <1>2 DEF MeshInv, MeshTypeOK, LinkKept, LinkTypeOK
<1> QED BY <1>1, <1>2, <1>3 DEF MeshInv

(***************************************************************************)
(* The room                                                                *)
(***************************************************************************)
\* The audience is a number, and nobody's is zero.
LEMMA AudienceSize ==
    ASSUME NEW S, S \subseteq Peers
    PROVE  Audience(S) \in 0..Cardinality(Viewers)
<1> DEFINE n == Cardinality(S) - 1
<1>1. IsFiniteSet(Peers) /\ Cardinality(Peers) = Cardinality(Viewers) + 1
  BY AudienceAssumption, FS_AddElement DEF Peers
<1>2. Cardinality(S) \in Nat /\ Cardinality(S) <= Cardinality(Peers)
  BY <1>1, FS_Subset, FS_CardinalityType
<1>3. Cardinality(Viewers) \in Nat
  BY AudienceAssumption, FS_CardinalityType
<1>4. n \in Int /\ n <= Cardinality(Viewers)
  BY <1>1, <1>2, <1>3
<1>5. \E x \in {0, n} : \A y \in {0, n} : x >= y
  BY <1>4
<1>6. Audience(S) \in {0, n} /\ \A y \in {0, n} : Audience(S) >= y
  BY <1>5 DEF Audience, Max
<1> QED BY <1>3, <1>4, <1>6

LEMMA NoAudience == Audience({}) = 0
<1>1. Cardinality({}) = 0
  BY FS_EmptySet
<1>2. \E x \in {0, Cardinality({}) - 1} : \A y \in {0, Cardinality({}) - 1} : x >= y
  BY <1>1
<1>3. Audience({}) \in {0, 0 - 1} /\ \A y \in {0, 0 - 1} : Audience({}) >= y
  BY <1>1, <1>2 DEF Audience, Max
<1> QED BY <1>3

\* A plan calls the mesh so that the link is wanted exactly if it is needed.
LEMMA PlannedDecides ==
    ASSUME NEW v \in Nat, Planned(v), wanted \in BOOLEAN
    PROVE  /\ PipeLink \/ UnpipeLink \/ UNCHANGED linkVars
           /\ planned' = v /\ behind' = FALSE /\ skipped' = FALSE
           /\ wanted' = NeedsLink(v)
<1>1. NeedsLink(v) \in BOOLEAN
  BY DEF NeedsLink
<1>2. /\ PipeLink => wanted' = TRUE
      /\ UnpipeLink => wanted' = FALSE
      /\ UNCHANGED linkVars => wanted' = wanted
  BY DEF PipeLink, UnpipeLink, linkVars
<1>3. /\ PipeLink \/ UnpipeLink \/ UNCHANGED linkVars
      /\ planned' = v /\ behind' = FALSE /\ skipped' = FALSE
  BY DEF Planned
<1>4. wanted' = NeedsLink(v)
  <2>1. CASE NeedsLink(v)
    <3>1. wanted' = TRUE
      BY <1>2, <2>1 DEF Planned
    <3> QED BY <1>1, <2>1, <3>1
  <2>2. CASE ~NeedsLink(v)
    <3>1. wanted' = FALSE
      BY <1>2, <2>2 DEF Planned
    <3> QED BY <1>1, <2>2, <3>1
  <2> QED BY <2>1, <2>2
<1> QED BY <1>3, <1>4

\* Hence a plan is for the audience it was made for, or it failed.
LEMMA PlanDecides ==
    ASSUME NEW v \in 0..Cardinality(Viewers), planBroadcast(v), RoomTypeOK,
           wanted \in BOOLEAN, faults \in 0..MaxFaults
    PROVE  /\ PipeLink \/ UnpipeLink \/ UNCHANGED linkVars
           /\ planned' \in 0..Cardinality(Viewers)
           /\ behind' \in BOOLEAN /\ skipped' \in BOOLEAN /\ faults' \in 0..MaxFaults
           /\ skipped' \/ (planned' = v /\ wanted' = NeedsLink(v))
<1>1. Cardinality(Viewers) \in Nat
  BY AudienceAssumption, FS_CardinalityType
<1>2. CASE Planned(v) /\ UNCHANGED faults
  <2>1. v \in Nat
    BY <1>1
  <2> QED BY <1>2, <2>1, PlannedDecides
<1>3. CASE /\ faults < MaxFaults /\ faults' = faults + 1
           /\ skipped' = TRUE
           /\ UNCHANGED <<planned, behind, linkVars>>
  <2>1. faults' \in 0..MaxFaults
    BY <1>3, BoundAssumption
  <2> QED BY <1>3, <2>1 DEF RoomTypeOK
<1> QED BY <1>2, <1>3 DEF planBroadcast

LEMMA JoinsRight ==
    ASSUME IInv, NEW v \in Peers, Joins(v)
    PROVE  IInv'
<1> USE DEF IInv, RoomInv
<1>0. /\ here' = here \cup {v} /\ here' \subseteq Peers /\ ~closed
      /\ attach' = IF attach = "no" THEN "waiting" ELSE attach
      /\ UNCHANGED <<closed, known, live, mirror, relayVars, registered>>
      /\ wanted \in BOOLEAN /\ faults \in 0..MaxFaults
      /\ attach' \in {"no", "waiting", "done", "failed"}
  BY DEF Joins, relayVars, MeshInv, MeshTypeOK, RoomTypeOK
<1>1. Audience(here') \in 0..Cardinality(Viewers)
  BY <1>0, AudienceSize
<1>2. CASE attach = "done"
  <2>1. /\ PipeLink \/ UnpipeLink \/ UNCHANGED linkVars
        /\ planned' \in 0..Cardinality(Viewers)
        /\ behind' \in BOOLEAN /\ skipped' \in BOOLEAN /\ faults' \in 0..MaxFaults
        /\ skipped' \/ (planned' = Audience(here') /\ wanted' = NeedsLink(Audience(here')))
    BY <1>0, <1>1, <1>2, PlanDecides DEF Joins
  <2>2. MeshInv'
    BY <1>0, <2>1, RoomStepKeepsMesh
  <2>3. RoomTypeOK' /\ Unattached'
    BY <1>0, <1>2, <2>1 DEF RoomTypeOK, Unattached
  <2>4. AudienceIsPlanned'
    BY <1>0, <2>1 DEF AudienceIsPlanned, NeedsLink
  <2> QED BY <2>2, <2>3, <2>4
<1>3. CASE attach # "done"
  <2>1. UNCHANGED <<planned, behind, skipped, linkVars, faults>>
    BY <1>3 DEF Joins, NoPlan, planVars
  <2>2. MeshInv'
    BY <1>0, <2>1, RoomStepKeepsMesh
  <2>3. RoomTypeOK'
    BY <1>0, <2>1 DEF RoomTypeOK
  <2>4. Unattached' /\ AudienceIsPlanned'
    BY <1>0, <1>3, <2>1 DEF Unattached, AudienceIsPlanned, linkVars
  <2> QED BY <2>2, <2>3, <2>4
<1> QED BY <1>2, <1>3

LEMMA LeavesRight ==
    ASSUME IInv, NEW v \in Peers, Leaves(v)
    PROVE  IInv'
<1> USE DEF IInv, RoomInv
<1>0. /\ v \in here /\ here' = here \ {v} /\ here' \subseteq Peers /\ ~closed
      /\ closed' = (here' = {}) /\ closed' \in BOOLEAN
      /\ UNCHANGED <<attach, known, registered>>
      /\ wanted \in BOOLEAN /\ faults \in 0..MaxFaults
  BY DEF Leaves, Unattached, MeshInv, MeshTypeOK, RoomTypeOK
<1>1. Audience(here') \in 0..Cardinality(Viewers) /\ 0 \in 0..Cardinality(Viewers)
  <2>1. Cardinality(Viewers) \in Nat
    BY AudienceAssumption, FS_CardinalityType
  <2> QED BY <1>0, <2>1, AudienceSize
<1>2. UNCHANGED relayVars \/ \E ps : ProducersClosed(ps)
  BY DEF Leaves
<1>3. mirror' \subseteq mirror
  BY <1>2 DEF relayVars, ProducersClosed
<1>4. CASE attach = "done" /\ ~closed'
  <2>1. /\ PipeLink \/ UnpipeLink \/ UNCHANGED linkVars
        /\ planned' \in 0..Cardinality(Viewers)
        /\ behind' \in BOOLEAN /\ skipped' \in BOOLEAN /\ faults' \in 0..MaxFaults
        /\ skipped' \/ (planned' = Audience(here') /\ wanted' = NeedsLink(Audience(here')))
    BY <1>0, <1>1, <1>4, PlanDecides DEF Leaves
  <2>2. MeshInv'
    BY <1>0, <1>2, <2>1, RoomStepKeepsMesh
  <2>3. RoomTypeOK' /\ Unattached'
    BY <1>0, <1>4, <2>1 DEF RoomTypeOK, Unattached
  <2>4. AudienceIsPlanned'
    BY <1>0, <1>4, <2>1 DEF AudienceIsPlanned, NeedsLink
  <2> QED BY <2>2, <2>3, <2>4
<1>5. CASE attach = "done" /\ closed'
  <2>1. /\ planned' = 0 /\ behind' = FALSE /\ skipped' = FALSE
        /\ UNCHANGED faults
        /\ UnpipeLink \/ UNCHANGED linkVars
        /\ wanted' = FALSE
    <3>1. detach
      BY <1>5 DEF Leaves
    <3> QED BY <1>0, <3>1 DEF detach, UnpipeLink, linkVars
  <2>2. MeshInv'
    BY <1>0, <1>2, <2>1, RoomStepKeepsMesh
  <2>3. RoomTypeOK' /\ Unattached'
    BY <1>0, <1>1, <1>5, <2>1 DEF RoomTypeOK, Unattached
  <2>4. Audience(here') = 0
    BY <1>0, <1>5, NoAudience
  <2>5. ~NeedsLink(0)'
    BY AudienceAssumption DEF NeedsLink
  <2>6. NeedsLink(planned)' = FALSE
    BY <2>1, <2>5 DEF NeedsLink
  <2>7. AudienceIsPlanned'
    BY <2>1, <2>4, <2>6 DEF AudienceIsPlanned
  <2> QED BY <2>2, <2>3, <2>7
<1>6. CASE attach # "done"
  <2>1. UNCHANGED <<planned, behind, skipped, linkVars, faults>>
    BY <1>6 DEF Leaves, NoPlan, planVars
  <2>2. MeshInv'
    BY <1>0, <1>2, <2>1, RoomStepKeepsMesh
  <2>3. RoomTypeOK'
    BY <1>0, <2>1 DEF RoomTypeOK
  <2>4. mirror' = {} /\ ~wanted'
    BY <1>3, <1>6, <2>1 DEF Unattached, linkVars
  <2>5. Unattached' /\ AudienceIsPlanned'
    BY <1>0, <2>4 DEF Unattached, AudienceIsPlanned
  <2> QED BY <2>2, <2>3, <2>5
<1> QED BY <1>4, <1>5, <1>6

LEMMA PublishesRight ==
    ASSUME IInv, NEW p \in Producers, Publishes(p)
    PROVE  IInv'
<1> USE DEF IInv, RoomInv
<1>0. /\ Host \in here /\ attach = "done" /\ ~closed
      /\ UNCHANGED <<here, closed, attach, known, registered>>
      /\ wanted \in BOOLEAN /\ faults \in 0..MaxFaults /\ ProducerAdded(p)
  BY DEF Publishes, Unattached, MeshInv, MeshTypeOK
<1>1. Audience(here) \in 0..Cardinality(Viewers)
  BY AudienceSize DEF RoomTypeOK
<1>2. /\ PipeLink \/ UnpipeLink \/ UNCHANGED linkVars
      /\ planned' \in 0..Cardinality(Viewers)
      /\ behind' \in BOOLEAN /\ skipped' \in BOOLEAN /\ faults' \in 0..MaxFaults
      /\ skipped' \/ (planned' = Audience(here) /\ wanted' = NeedsLink(Audience(here)))
  BY <1>0, <1>1, PlanDecides DEF Publishes
<1>3. MeshInv'
  BY <1>0, <1>2, RoomStepKeepsMesh
<1>4. RoomTypeOK' /\ Unattached'
  BY <1>0, <1>2 DEF RoomTypeOK, Unattached
<1>5. AudienceIsPlanned'
  BY <1>0, <1>2 DEF AudienceIsPlanned, NeedsLink
<1> QED BY <1>3, <1>4, <1>5

\* What the signaling does not hear of is in no mirror, and plans nothing.
LEMMA PublishesUnheardRight ==
    ASSUME IInv, NEW p \in Producers, PublishesUnheard(p)
    PROVE  IInv'
<1> USE DEF IInv, RoomInv
<1>0. /\ UNCHANGED <<linkVars, registered, faults, roomVars, mirror>>
      /\ ProducerUnheard(p) /\ faults \in 0..MaxFaults
  BY DEF PublishesUnheard, ProducerUnheard, MeshInv, MeshTypeOK
<1>1. MeshInv'
  BY <1>0, RoomStepKeepsMesh
<1>2. RoomTypeOK'
  BY <1>0 DEF RoomTypeOK, roomVars, planVars
<1>3. Unattached' /\ AudienceIsPlanned'
  BY <1>0 DEF Unattached, AudienceIsPlanned, roomVars, planVars, linkVars, NeedsLink
<1> QED BY <1>1, <1>2, <1>3

LEMMA OtherRoomSteps ==
    ASSUME IInv,
           \/ \E p \in Producers : Unpublishes(p)
           \/ addNode \/ Attached \/ AttachFails
    PROVE  IInv'
<1> USE DEF IInv, RoomInv, RoomTypeOK, planVars
<1>1. ASSUME NEW p \in Producers, Unpublishes(p) PROVE IInv'
  <2>1. /\ UNCHANGED <<linkVars, registered, faults, roomVars>>
        /\ ProducersClosed({p}) /\ mirror' \subseteq mirror
    BY <1>1 DEF Unpublishes, ProducersClosed
  <2>2. MeshInv'
    <3>1. faults' \in 0..MaxFaults
      BY <2>1 DEF MeshInv, MeshTypeOK
    <3> QED BY <2>1, <3>1, RoomStepKeepsMesh
  <2>3. RoomTypeOK'
    BY <2>1 DEF roomVars
  <2>4. Unattached' /\ AudienceIsPlanned'
    BY <2>1 DEF Unattached, AudienceIsPlanned, roomVars, linkVars, NeedsLink
  <2> QED BY <2>2, <2>3, <2>4
<1>2. CASE addNode
  <2>1. UNCHANGED <<meshVars, here, closed, attach, planned, skipped>> /\ known' = TRUE /\ behind' = TRUE
    BY <1>2 DEF addNode
  <2>2. MeshInv'
    <3>1. faults' \in 0..MaxFaults
      BY <2>1 DEF MeshInv, MeshTypeOK, meshVars
    <3> QED BY <2>1, <3>1, RoomStepKeepsMesh DEF meshVars
  <2>3. RoomTypeOK' /\ Unattached' /\ AudienceIsPlanned'
    BY <2>1 DEF Unattached, AudienceIsPlanned, meshVars, linkVars, relayVars
  <2> QED BY <2>2, <2>3
<1>3. CASE Attached
  <2>1. UNCHANGED <<meshVars, here, closed, known, planned, behind, skipped>> /\ attach' = "done"
    BY <1>3 DEF Attached
  <2>2. MeshInv'
    <3>1. faults' \in 0..MaxFaults
      BY <2>1 DEF MeshInv, MeshTypeOK, meshVars
    <3> QED BY <2>1, <3>1, RoomStepKeepsMesh DEF meshVars
  <2>3. RoomTypeOK' /\ Unattached' /\ AudienceIsPlanned'
    BY <2>1 DEF Unattached, AudienceIsPlanned, NeedsLink, meshVars, linkVars, relayVars
  <2> QED BY <2>2, <2>3
<1>4. CASE AttachFails
  <2>1. /\ UNCHANGED <<linkVars, relayVars, registered, here, closed, known, planned, behind, skipped>>
        /\ attach = "waiting" /\ attach' = "failed" /\ faults < MaxFaults /\ faults' = faults + 1
    BY <1>4 DEF AttachFails
  <2>2. MeshInv'
    <3>1. faults' \in 0..MaxFaults
      BY <2>1, BoundAssumption DEF MeshInv, MeshTypeOK
    <3> QED BY <2>1, <3>1, RoomStepKeepsMesh
  <2>3. RoomTypeOK'
    BY <2>1
  <2>4. Unattached' /\ AudienceIsPlanned'
    BY <2>1 DEF Unattached, AudienceIsPlanned, NeedsLink, linkVars, relayVars
  <2> QED BY <2>2, <2>3, <2>4
<1> QED BY <1>1, <1>2, <1>3, <1>4

LEMMA MeshStepRight ==
    ASSUME IInv, MeshStep, UNCHANGED roomVars
    PROVE  IInv'
<1>1. MeshInv'
  BY EstablishedMesh, EstablishFailsMesh, CopyMesh DEF MeshStep, IInv
<1>2. UNCHANGED <<mirror, wanted>>
  BY DEF MeshStep, Established, EstablishFails, Copied, CopyFails, relayVars
<1>3. RoomInv'
  BY <1>2 DEF IInv, RoomInv, RoomTypeOK, Unattached, AudienceIsPlanned, NeedsLink, roomVars, planVars
<1> QED BY <1>1, <1>3 DEF IInv

\* The inductive invariant holds in every state the cascade can be in.
THEOREM Invariance == Spec => []IInv
<1>1. Init => IInv
  BY Initially
<1>2. IInv /\ [Next]_vars => IInv'
  <2> SUFFICES ASSUME IInv, [Next]_vars PROVE IInv'
    OBVIOUS
  <2>1. CASE Next
    BY <2>1, JoinsRight, LeavesRight, PublishesRight, PublishesUnheardRight,
       OtherRoomSteps, MeshStepRight DEF Next
  <2>2. CASE UNCHANGED vars
    BY <2>2 DEF vars, meshVars, roomVars, planVars, linkVars, relayVars, IInv, MeshInv, MeshTypeOK, Reservation,
                Wiring, Pumps, Copies, EntryFollowsCalls, LinkIsPump, NoMiss, RoomInv, RoomTypeOK,
                Unattached, AudienceIsPlanned, NeedsLink
  <2> QED BY <2>1, <2>2
<1> QED BY <1>1, <1>2, PTL DEF Spec

\* Every variable stays in its type; no attempt copies a producer twice.
THEOREM TypeCorrect == Spec => []TypeOK
<1>1. IInv => TypeOK
  BY DEF IInv, MeshInv, RoomInv, RoomTypeOK, TypeOK
<1> QED BY <1>1, Invariance, PTL

\* A link that is up has its own pump and no other (_establish and unpipeLink of
\* sfu-mesh.js), unless an unpipeLink overtook an establishment.
THEOREM OnePump == Spec => []LinkIsPump
<1>1. IInv => LinkIsPump
  BY DEF IInv, MeshInv
<1> QED BY <1>1, Invariance, PTL

\* A link that is up has taken on every producer of the room that the signaling heard
\* of, whatever crossed its wiring (listen before backfill in _establish).
THEOREM NothingMissed == Spec => []NoMiss
<1>1. IInv => NoMiss
  BY DEF IInv, MeshInv
<1> QED BY <1>1, Invariance, PTL

\* Hence a link takes on each of those producers, and copies none twice.
THEOREM EachOnce == Spec => []RelaysOnce
BY OnePump, NothingMissed, PTL DEF RelaysOnce

\* The plan of planBroadcast is for the audience there is while something is published
\* that the room's listeners heard of, unless the last planning failed, and a room that
\* closed has none.
THEOREM PlanIsCurrent == Spec => []AudienceIsPlanned
<1>1. IInv => AudienceIsPlanned
  BY DEF IInv, RoomInv
<1> QED BY <1>1, Invariance, PTL

\* When nothing is being wired, the mesh has the link exactly when the plan does, up to
\* the exceptions the property names.
THEOREM LinksFollow == Spec => []LinkFollowsPlan
<1>1. IInv => LinkFollowsPlan
  <2> SUFFICES ASSUME IInv, Wiring = {} PROVE
         /\ slot # "reserved"
         /\ registered /\ ~overtaken /\ (\A a \in Attempts : stage[a] # "failed") =>
               (wanted = (slot \in Attempts))
    BY DEF LinkFollowsPlan
  <2>1. slot # "reserved" /\ slot \in Attempts \cup {"none"} /\ wanted \in BOOLEAN
    BY DEF IInv, MeshInv, MeshTypeOK, Reservation
  <2> QED BY <2>1, BoundAssumption DEF IInv, MeshInv, EntryFollowsCalls
<1> QED BY <1>1, Invariance, PTL
=============================================================================

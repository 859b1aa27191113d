------------------------------ MODULE Cascade ------------------------------
(***************************************************************************)
(* Who plans the cascade: a broadcast's room in the chat backend           *)
(* (media/sfuSignaling.js) plans its fan-out again whenever its audience   *)
(* changes (media/sfuCluster.js, and rtc-shared's server/sfu-cluster.js),  *)
(* and the plan's links are piped by SfuMesh.  The module is about one     *)
(* room, whose id is never used again, its origin and one other node of    *)
(* the cluster (cluster/membership.js).                                    *)
(*                                                                         *)
(* The tree that plans and the bridge that tells the mesh are rtcforge's:  *)
(* a link that stays planned may be told again, or not.                    *)
(***************************************************************************)
EXTENDS SfuMesh, FiniteSetsExt

CONSTANTS
    Viewers, Host,
    Capacity       \* of the origin: config.sfu.viewersPerNode

ASSUME AudienceAssumption ==
    IsFiniteSet(Viewers) /\ Host \notin Viewers /\ Capacity \in Nat

VARIABLES
    here,    \* the room's peers
    closed,  \* the room is empty, and gone
    attach,  \* attachRoom: "no", "waiting" for the router, "done" or "failed"
    known,   \* the other node is in the cluster
    planned, \* the audience of the current plan
    behind,  \* history: the other node came after the current plan
    skipped  \* history: the last planning failed

planVars == <<planned, behind, skipped>>
roomVars == <<here, closed, attach, known, planVars>>
vars == <<meshVars, roomVars>>

Peers == Viewers \cup {Host}
Audience(peers) == Max({0, Cardinality(peers) - 1})

TypeOK ==
    /\ MeshTypeOK
    /\ here \subseteq Peers /\ closed \in BOOLEAN
    /\ attach \in {"no", "waiting", "done", "failed"}
    /\ known \in BOOLEAN /\ behind \in BOOLEAN /\ skipped \in BOOLEAN
    /\ planned \in 0..Cardinality(Viewers)

Init ==
    /\ MeshInit
    /\ here = {} /\ closed = FALSE /\ attach = "no"
    /\ known = FALSE /\ planned = 0 /\ behind = FALSE /\ skipped = FALSE

(***************************************************************************)
(* The plan                                                                *)
(***************************************************************************)
\* The tree's links: to the other node, if the origin cannot serve them all.
NeedsLink(viewers) == known /\ viewers > Capacity

Planned(viewers) ==
    /\ planned' = viewers /\ behind' = FALSE /\ skipped' = FALSE
    /\ \/ NeedsLink(viewers) /\ PipeLink
       \/ NeedsLink(viewers) /\ wanted /\ UNCHANGED linkVars
       \/ ~NeedsLink(viewers) /\ wanted /\ UnpipeLink
       \/ ~NeedsLink(viewers) /\ ~wanted /\ UNCHANGED linkVars

\* A failure to plan is logged, and the old plan stays.
planBroadcast(viewers) ==
    \/ Planned(viewers) /\ UNCHANGED faults
    \/ /\ faults < MaxFaults /\ faults' = faults + 1
       /\ skipped' = TRUE
       /\ UNCHANGED <<planned, behind, linkVars>>

detach ==
    /\ planned' = 0 /\ behind' = FALSE /\ skipped' = FALSE
    /\ IF wanted THEN UnpipeLink ELSE UNCHANGED linkVars
    /\ UNCHANGED faults

NoPlan == UNCHANGED <<planVars, linkVars, faults>>

\* Membership: a node is discovered.  Nobody plans for that.
addNode ==
    /\ ~known /\ known' = TRUE
    /\ behind' = TRUE
    /\ UNCHANGED <<meshVars, here, closed, attach, planned, skipped>>

(***************************************************************************)
(* The room                                                                *)
(***************************************************************************)
\* Mutant: only a new producer plans again.
JoinsUnplanned(v) ==
    /\ v \notin here /\ ~closed
    /\ here' = here \cup {v}
    /\ attach' = IF attach = "no" THEN "waiting" ELSE attach
    /\ NoPlan
    /\ UNCHANGED <<closed, known, relayVars, registered>>

\* The first peer creates the room, and attachRoom waits for its router.
Joins(v) ==
    /\ v \notin here /\ ~closed
    /\ here' = here \cup {v}
    /\ attach' = IF attach = "no" THEN "waiting" ELSE attach
    /\ IF attach = "done" THEN planBroadcast(Audience(here')) ELSE NoPlan
    /\ UNCHANGED <<closed, known, relayVars, registered>>

\* attachRoom's listeners are there: nobody plans for who came before them.
Attached ==
    /\ attach = "waiting" /\ attach' = "done"
    /\ UNCHANGED <<meshVars, here, closed, known, planVars>>

AttachFails ==
    /\ attach = "waiting" /\ attach' = "failed"
    /\ faults < MaxFaults /\ faults' = faults + 1
    /\ UNCHANGED <<linkVars, relayVars, registered, here, closed, known, planVars>>

\* The host's producers end with it.  The last to leave closes the room, which
\* drops its plan.  Without the listeners nothing of that happens.
Leaves(v) ==
    /\ v \in here
    /\ here' = here \ {v}
    /\ closed' = (here' = {})
    /\ IF attach # "done" THEN NoPlan ELSE IF closed' THEN detach ELSE planBroadcast(Audience(here'))
    /\ IF attach = "done" /\ v = Host THEN ProducersClosed(live) ELSE UNCHANGED relayVars
    /\ UNCHANGED <<attach, known, registered>>

\* The host publishes: the plan is renewed, and what is piped already is pumped.
Publishes(p) ==
    /\ Host \in here /\ attach = "done"
    /\ ProducerAdded(p)
    /\ planBroadcast(Audience(here))
    /\ UNCHANGED <<here, closed, attach, known, registered>>

\* The host's own request has the router made, by itself (ensureHandler): the host
\* publishes before the listeners are there, or after attachRoom failed.
PublishesUnheard(p) ==
    /\ Host \in here /\ attach \in {"waiting", "failed"}
    /\ ProducerUnheard(p)
    /\ UNCHANGED <<linkVars, registered, faults, roomVars>>

Unpublishes(p) ==
    /\ p \in live
    /\ ProducersClosed({p})
    /\ UNCHANGED <<linkVars, registered, faults, roomVars>>

Next ==
    \/ \E v \in Peers : Joins(v) \/ Leaves(v)
    \/ \E p \in Producers : Publishes(p) \/ PublishesUnheard(p) \/ Unpublishes(p)
    \/ addNode \/ Attached \/ AttachFails
    \/ MeshStep /\ UNCHANGED roomVars

Spec == Init /\ [][Next]_vars
----------------------------------------------------------------------------
(***************************************************************************)
(* Properties                                                              *)
(***************************************************************************)
\* "A viewer that joins AFTER the broadcaster began publishing": while something
\* is published that the room's listeners heard of, the plan is for the audience there
\* is, whoever came or left before or after the listeners, and there is no plan for a
\* room that closed.  Named exceptions: what was published before attachRoom's listeners
\* were there, or after it failed, is in nobody's mirror and plans nothing; a planning
\* failed (`skipped`); the node to plan with was found later (`behind`).
AudienceIsPlanned ==
    /\ mirror # {} => skipped \/ (planned = Audience(here) /\ (wanted = NeedsLink(planned) \/ behind))
    /\ closed => ~wanted

\* "Links torn down after detach", and made where they are planned: when nothing
\* is being wired, no reservation is left to block later plans, and the mesh has the
\* link exactly when the plan does.  Except links to another process, one whose wiring
\* failed, and a link dropped while it was wired, which comes up all the same.
LinkFollowsPlan ==
    Wiring = {} =>
        /\ slot # "reserved"
        /\ registered /\ ~overtaken /\ (\A a \in Attempts : stage[a] # "failed") =>
              (wanted = (slot \in Attempts))
=============================================================================

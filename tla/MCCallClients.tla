--------------------------- MODULE MCCallClients ---------------------------
(***************************************************************************)
(* Constants for TLC: two users, with a conversation either can call the   *)
(* other in and a broadcast list of the first, and two calls; and, for the *)
(* media of one page, two joins.                                           *)
(*                                                                         *)
(* The two parts share no state, and no property relates them: a behaviour *)
(* is one of one part, while the other stays at its start.                 *)
(***************************************************************************)
EXTENDS CallClients, CallMedia, TLC

CONSTANTS ann, bob, dm, list

VARIABLE part

MCUsers == {ann, bob}
MCConvs == {dm, list}
MCMode == (dm :> "call") @@ (list :> "broadcast")
MCMembers == (dm :> {ann, bob}) @@ (list :> {bob})
MCAdmins == (dm :> {}) @@ (list :> {ann})

MCInit == CallsInit /\ MediaInit /\ part \in {"calls", "media"}

MCNext ==
    /\ \/ part = "calls" /\ CallsNext /\ UNCHANGED mediaVars
       \/ part = "media" /\ MediaNext /\ UNCHANGED callsVars
    /\ UNCHANGED part

MCSpec == MCInit /\ [][MCNext]_<<callsVars, mediaVars, part>>
=============================================================================

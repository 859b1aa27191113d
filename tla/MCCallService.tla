--------------------------- MODULE MCCallService ---------------------------
(***************************************************************************)
(* Constants for TLC: a group of three and a broadcast list of one owner   *)
(* and two recipients, the smallest in which one leaves and two remain,    *)
(* and a user who is in neither.                                           *)
(***************************************************************************)
EXTENDS CallService, TLC

CONSTANTS ann, bob, cat, dan, group, list

MCUsers == {ann, bob, cat, dan}
MCConvs == {group, list}
MCMode == (group :> "call") @@ (list :> "broadcast")
MCMembers == (group :> {ann, bob, cat}) @@ (list :> {bob, cat})
MCAdmins == (group :> {ann}) @@ (list :> {ann})
=============================================================================

---------------------------- MODULE MCSfuClient ----------------------------
(***************************************************************************)
(* Constants for TLC: a peer that publishes two tracks and one that        *)
(* publishes none, the smallest room in which a list has two producers.    *)
(***************************************************************************)
EXTENDS SfuClient, TLC

CONSTANTS ann, bob, cam, mic

MCOwner == (cam :> ann) @@ (mic :> ann)
=============================================================================

-------------------------- MODULE MCDocumentStore --------------------------
(***************************************************************************)
(* Constants for TLC.  Two writers and one more request is the smallest    *)
(* mix in which a stale read meets an acknowledged change, two creations   *)
(* and an update the one in which a creation destroys one.                 *)
(***************************************************************************)
EXTENDS DocumentStore, TLC

CONSTANTS r1, r2, r3

MCRequests == {r1, r2, r3}
Ask(o1, o2, o3, file) ==
    [op |-> (r1 :> o1) @@ (r2 :> o2) @@ (r3 :> o3), file |-> file]
MCLoads ==
    { Ask("update", "blind", "read", {Origin}),
      Ask("create", "create", "update", {}),
      Ask("create", "update", "update", {Origin}) }
=============================================================================

---------------------------- MODULE MCChatServer ----------------------------
(***************************************************************************)
(* Instances of ChatServer: a broadcast and a message; a message and a     *)
(* registration; three registrations that queue for the index; two that    *)
(* want one name.                                                          *)
(***************************************************************************)
EXTENDS ChatServer

CONSTANTS c1, c2, alice, bob, carol

MCConvs == {c1, c2}
MCNames == {alice, bob, carol}

MCWorkloads == {
    <<<<c1, c2>>, <<c1>>>>,
    <<<<c1>>, alice>>,
    <<alice, bob, carol>>,
    <<alice, alice>>}
=============================================================================

----------------------------- MODULE MCChatSync -----------------------------
(***************************************************************************)
(* Constants for TLC: a conversation with a message of Me and one of Bob's, *)
(* of which a history answers the last alone; and, for the composer of the *)
(* same page, two chats and two voice notes.                               *)
(*                                                                         *)
(* The two parts of the page share no state, and no property relates them: *)
(* a behaviour is one of one part, while the other stays at its start.     *)
(***************************************************************************)
EXTENDS ChatSync, Composer

CONSTANTS me, bob, dm, mine, his

VARIABLE part

MCConv == [m \in Messages |-> dm]
MCSender == [m \in Messages |-> IF m = mine THEN me ELSE bob]

MCInit == Init /\ ComposerInit /\ part \in {"messages", "composer"}

MCNext ==
    /\ \/ part = "messages" /\ Next /\ UNCHANGED composerVars
       \/ part = "composer" /\ ComposerNext /\ UNCHANGED vars
    /\ UNCHANGED part

MCSpec == MCInit /\ [][MCNext]_<<vars, composerVars, part>>
=============================================================================

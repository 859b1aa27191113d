--------------------------- MODULE AtomicDocument ---------------------------
(***************************************************************************)
(* What a store of documents promises to the services above it: a request  *)
(* changes the document in one step and once, reads it with every change   *)
(* that was acknowledged, and a restart takes back what was not.           *)
(* DocumentStore implements it; Conversations relies on it.                *)
(***************************************************************************)
CONSTANTS Clients, Origin  \* the requests, and the creation before them all

VARIABLES
    value,   \* the changes that the document contains
    acked,   \* those that were acknowledged
    given,   \* given[p]: the document that p was given, or has made
    spoilt   \* nothing is promised any more

Init ==
    /\ value \in {{}, {Origin}} /\ acked = {}
    /\ given = [p \in Clients |-> {}]
    /\ spoilt = FALSE

Change(p) ==
    /\ p \notin value
    /\ value' = value \cup {p}
    /\ given' = [given EXCEPT ![p] = value']
    /\ UNCHANGED acked

Read(p) ==
    /\ \E v \in SUBSET value : acked \subseteq v /\ given' = [given EXCEPT ![p] = v]
    /\ UNCHANGED <<value, acked>>

Acknowledge(p) ==
    /\ p \in value /\ p \in given[p]
    /\ acked' = acked \cup {p}
    /\ UNCHANGED <<value, given>>

Restart ==
    /\ acked \subseteq value' /\ value' \subseteq value
    /\ UNCHANGED <<acked, given>>

Next ==
    \/ /\ (\E p \in Clients : Change(p) \/ Read(p) \/ Acknowledge(p)) \/ Restart
       /\ UNCHANGED spoilt
    \/ spoilt' = TRUE

Spec == Init /\ [][Next]_<<value, acked, given, spoilt>>
=============================================================================

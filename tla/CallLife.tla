------------------------------ MODULE CallLife ------------------------------
(***************************************************************************)
(* What the call service promises the people of a call: it rings, is an-   *)
(* swered and is over, in this order and once.  Only whom it rings can get *)
(* in; one that was answered ends because someone in it leaves; the step   *)
(* that ends it tells everyone else who is in it or whom it rings, and     *)
(* nobody was told before.  Calls have nothing to do with each other.      *)
(***************************************************************************)
CONSTANTS People, Ids

VARIABLES  \* of each call
    phase,    \* "none", "ringing", "active" or "over"
    ringing,  \* whom it rings
    talking,  \* who is in it
    told      \* who was told that it is over

vars == <<phase, ringing, talking, told>>

Init ==
    /\ phase = [c \in Ids |-> "none"]
    /\ ringing = [c \in Ids |-> {}] /\ talking = ringing /\ told = ringing

Begin(c, p) ==
    /\ phase[c] = "none" /\ phase'[c] = "ringing"
    /\ ringing'[c] \in (SUBSET (People \ {p})) \ {{}} /\ talking'[c] = {p}
    /\ told'[c] = told[c]

Enter(c, p) ==
    /\ p \in ringing[c]
    /\ phase'[c] = "active"
    /\ ringing'[c] = ringing[c] \ {p} /\ talking'[c] = talking[c] \cup {p}
    /\ told'[c] = told[c]

Withdraw(c, p) ==
    /\ ringing'[c] = ringing[c] \ {p} /\ talking'[c] \in {talking[c], talking[c] \ {p}}
    /\ phase'[c] = phase[c] /\ told'[c] = told[c]

Finish(c, p) ==
    /\ phase[c] = "ringing" \/ (phase[c] = "active" /\ p \in talking[c])
    /\ phase'[c] = "over" /\ ringing'[c] = {} /\ talking'[c] = {}
    /\ (ringing[c] \cup talking[c]) \ {p} \subseteq told'[c]

Step(c) ==
    \/ UNCHANGED <<phase[c], ringing[c], talking[c], told[c]>>
    \/ \E p \in People : Begin(c, p) \/ Enter(c, p) \/ Withdraw(c, p) \/ Finish(c, p)

Next == \A c \in Ids : Step(c)

Spec == Init /\ [][Next]_vars
=============================================================================

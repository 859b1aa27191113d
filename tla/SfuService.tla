----------------------------- MODULE SfuService -----------------------------
(***************************************************************************)
(* The attachment of a MediaRouter to a room (ensureRoom of                *)
(* packages/rtc-shared/server/sfu-service.js and of its copy in the chat   *)
(* backend, media/sfuService.js): concurrent joins poll a lock with a TTL, *)
(* give up after MaxPolls, and whoever has the lock, or gave up, attaches  *)
(* a router unless there is one.  The module is about one room.            *)
(*                                                                         *)
(* attachRoom of rtcforge/media is external: it takes time, and may fail.  *)
(***************************************************************************)
EXTENDS Naturals

CONSTANTS
    Callers,      \* the concurrent calls of ensureRoom
    NoOne,        \* the lock is free
    MaxPolls,     \* how often a call tries the lock (200)
    LocksExpire,  \* whether an attachment may outlast the lock's TTL
    MaxFaults     \* bound: failing attachments

VARIABLES
    router,   \* whether the media service has the room's router
    holder,   \* who holds the lock
    pc,       \* where each call is
    polls,    \* how often it has tried the lock
    loose,    \* history: a call went on without the lock, or a lock expired
    twice,    \* history: attachRoom completed although there was a router
    faults

vars == <<router, holder, pc, polls, loose, twice, faults>>

Labels == {"start", "poll", "check", "attaching", "done", "failed"}

TypeOK ==
    /\ router \in BOOLEAN /\ loose \in BOOLEAN /\ twice \in BOOLEAN
    /\ holder \in Callers \cup {NoOne}
    /\ pc \in [Callers -> Labels]
    /\ polls \in [Callers -> 0..MaxPolls]
    /\ faults \in 0..MaxFaults

Init ==
    /\ router = FALSE
    /\ holder = NoOne
    /\ pc = [c \in Callers |-> "start"]
    /\ polls = [c \in Callers |-> 0]
    /\ loose = FALSE /\ twice = FALSE
    /\ faults = 0

Goto(c, label) == pc' = [pc EXCEPT ![c] = label]

\* The fast path, or the first step to the lock.
Enter(c) ==
    /\ pc[c] = "start"
    /\ Goto(c, IF router THEN "done" ELSE "poll")
    /\ UNCHANGED <<router, holder, polls, loose, twice, faults>>

(***************************************************************************)
(* _acquire                                                                *)
(***************************************************************************)
Acquire(c) ==
    /\ pc[c] = "poll" /\ polls[c] < MaxPolls /\ holder = NoOne
    /\ holder' = c
    /\ Goto(c, "check")
    /\ UNCHANGED <<router, polls, loose, twice, faults>>

Poll(c) ==
    /\ pc[c] = "poll" /\ polls[c] < MaxPolls /\ holder # NoOne
    /\ polls' = [polls EXCEPT ![c] = @ + 1]
    /\ UNCHANGED <<router, holder, pc, loose, twice, faults>>

\* Mutant: the number of tries is off by one.
GiveUpLate(c) ==
    /\ pc[c] = "poll" /\ polls[c] > MaxPolls
    /\ Goto(c, "check")
    /\ loose' = TRUE
    /\ UNCHANGED <<router, holder, polls, twice, faults>>

\* "SFU room lock contended; proceeding without lock"
GiveUp(c) ==
    /\ pc[c] = "poll" /\ polls[c] = MaxPolls
    /\ Goto(c, "check")
    /\ loose' = TRUE
    /\ UNCHANGED <<router, holder, polls, twice, faults>>

(***************************************************************************)
(* The guarded part                                                        *)
(***************************************************************************)
\* A call without the token, or whose token expired, releases nothing.
Released(c) == IF holder = c THEN NoOne ELSE holder

\* Mutant: the router is not looked for again under the lock.
CheckNothing(c) ==
    /\ pc[c] = "check"
    /\ Goto(c, "attaching")
    /\ UNCHANGED <<router, holder, polls, loose, twice, faults>>

Check(c) ==
    /\ pc[c] = "check"
    /\ IF router THEN Goto(c, "done") /\ holder' = Released(c)
                 ELSE Goto(c, "attaching") /\ UNCHANGED holder
    /\ UNCHANGED <<router, polls, loose, twice, faults>>

Attached(c) ==
    /\ pc[c] = "attaching"
    /\ router' = TRUE
    /\ twice' = (twice \/ router)
    /\ holder' = Released(c)
    /\ Goto(c, "done")
    /\ UNCHANGED <<polls, loose, faults>>

AttachFails(c) ==
    /\ pc[c] = "attaching" /\ faults < MaxFaults
    /\ faults' = faults + 1
    /\ holder' = Released(c)
    /\ Goto(c, "failed")
    /\ UNCHANGED <<router, polls, loose, twice>>

LockExpires ==
    /\ LocksExpire /\ holder # NoOne
    /\ holder' = NoOne
    /\ loose' = TRUE
    /\ UNCHANGED <<router, pc, polls, twice, faults>>

Step(c) ==
    \/ Enter(c) \/ Acquire(c) \/ Poll(c) \/ GiveUp(c)
    \/ Check(c) \/ Attached(c) \/ AttachFails(c)

Finished == \A c \in Callers : pc[c] \in {"done", "failed"}

Next ==
    \/ \E c \in Callers : Step(c)
    \/ LockExpires
    \/ Finished /\ UNCHANGED vars

Spec == Init /\ [][Next]_vars
----------------------------------------------------------------------------
(***************************************************************************)
(* Properties                                                              *)
(***************************************************************************)

\* "Serialize concurrent joins to the same room so exactly one MediaRouter is
\* attached, never a duplicate": so it is as long as no call gives up on the lock
\* and no lock expires.
OneRouter == ~loose => ~twice
=============================================================================

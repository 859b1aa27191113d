---------------------------- MODULE MessageStore ----------------------------
(***************************************************************************)
(* The debounced message store of the chat backend                         *)
(* (apps/chat/backend/src/store/messageStore.js): messages change in       *)
(* memory, a timer flushes the dirty conversations to their files through  *)
(* the write queue, and close() flushes what is left before the exit.      *)
(*                                                                         *)
(* The messages of a conversation are a version, the number of appends and *)
(* edits made to it; the file holds the version that was serialised into   *)
(* it.  A conversation that is not loaded is its file, so loading one      *)
(* changes nothing here.                                                   *)
(***************************************************************************)
EXTENDS Naturals

CONSTANTS
    Convs,
    MaxVersion, MaxFaults, MaxCrashes  \* bounds: changes per conversation,
                                       \* failing writes, crashes

ASSUME BoundAssumption ==
    MaxVersion \in Nat /\ MaxFaults \in Nat /\ MaxCrashes \in Nat

Flushes == {"timer", "close"}  \* the two callers of _flushDirty
JobStates == {"none", "queued", "open", "writing"}
Versions == 0..MaxVersion

VARIABLES
    mem, disk,  \* the version in memory and in the file
    dirty,      \* the conversations to flush
    timer,      \* whether the flush timer is armed
    phase,      \* of the process
    job,        \* job[f][c]: the _write(c) a flush has started
    snap,       \* snap[f][c]: the version a write serialised
    late,       \* history: the conversations changed while close() ran,
    refused,    \* history: and those of which a write failed meanwhile
    faults, crashes

vars == <<mem, disk, dirty, timer, phase, job, snap, late, refused, faults, crashes>>

TypeOK ==
    /\ mem \in [Convs -> Versions] /\ disk \in [Convs -> Versions]
    /\ dirty \in SUBSET Convs
    /\ timer \in BOOLEAN
    /\ phase \in {"running", "closing", "closed"}
    /\ job \in [Flushes -> [Convs -> JobStates]]
    /\ snap \in [Flushes -> [Convs -> Versions]]
    /\ late \in SUBSET Convs /\ refused \in SUBSET Convs
    /\ faults \in 0..MaxFaults /\ crashes \in 0..MaxCrashes

NoJobs == [f \in Flushes |-> [c \in Convs |-> "none"]]

Init ==
    /\ mem = [c \in Convs |-> 0] /\ disk = mem
    /\ dirty = {}
    /\ timer = TRUE
    /\ phase = "running"
    /\ job = NoJobs
    /\ snap = [f \in Flushes |-> [c \in Convs |-> 0]]
    /\ late = {} /\ refused = {}
    /\ faults = 0 /\ crashes = 0

\* append() and update().  A handler whose client has gone away may still make
\* one while the server shuts down.
Change(c) ==
    /\ phase # "closed" /\ mem[c] < MaxVersion
    /\ mem' = [mem EXCEPT ![c] = @ + 1]
    /\ dirty' = dirty \cup {c}
    /\ late' = IF phase = "closing" THEN late \cup {c} ELSE late
    /\ UNCHANGED <<disk, timer, phase, job, snap, refused, faults, crashes>>

(***************************************************************************)
(* _flushDirty: take the dirty set and queue a write for each.             *)
(***************************************************************************)
Flush(f) ==
    /\ job' = [job EXCEPT ![f] = [c \in Convs |-> IF c \in dirty THEN "queued" ELSE "none"]]
    /\ dirty' = {}

TimerFires ==
    /\ timer /\ dirty # {}
    /\ timer' = FALSE
    /\ Flush("timer")
    /\ UNCHANGED <<mem, disk, phase, snap, late, refused, faults, crashes>>

\* Mutant: the timer is armed again only if the store is closed.
RescheduleInverted ==
    /\ ~timer /\ \A c \in Convs : job["timer"][c] = "none"
    /\ phase # "running"
    /\ timer' = TRUE
    /\ UNCHANGED <<mem, disk, dirty, phase, job, snap, late, refused, faults, crashes>>

\* The flush's finally: the timer is armed again unless the store was closed.
Reschedule ==
    /\ ~timer /\ \A c \in Convs : job["timer"][c] = "none"
    /\ phase = "running"
    /\ timer' = TRUE
    /\ UNCHANGED <<mem, disk, dirty, phase, job, snap, late, refused, faults, crashes>>

(***************************************************************************)
(* _write: under the queue's lock for the conversation, open a temporary   *)
(* file, serialise what memory holds by then, and rename it into place.    *)
(***************************************************************************)
LockFree(c) == \A f \in Flushes : job[f][c] \notin {"open", "writing"}

\* Mutant: the write serialises before it has the lock.
OpenEager(f, c) ==
    /\ job[f][c] = "queued"
    /\ job' = [job EXCEPT ![f][c] = "writing"]
    /\ snap' = [snap EXCEPT ![f][c] = mem[c]]
    /\ UNCHANGED <<mem, disk, dirty, timer, phase, late, refused, faults, crashes>>

Open(f, c) ==
    /\ job[f][c] = "queued" /\ LockFree(c)
    /\ job' = [job EXCEPT ![f][c] = "open"]
    /\ UNCHANGED <<mem, disk, dirty, timer, phase, snap, late, refused, faults, crashes>>

Serialise(f, c) ==
    /\ job[f][c] = "open"
    /\ job' = [job EXCEPT ![f][c] = "writing"]
    /\ snap' = [snap EXCEPT ![f][c] = mem[c]]
    /\ UNCHANGED <<mem, disk, dirty, timer, phase, late, refused, faults, crashes>>

Rename(f, c) ==
    /\ job[f][c] = "writing"
    /\ job' = [job EXCEPT ![f][c] = "none"]
    /\ disk' = [disk EXCEPT ![c] = snap[f][c]]
    /\ UNCHANGED <<mem, dirty, timer, phase, snap, late, refused, faults, crashes>>

\* Mutant: a failed write is not marked dirty again.
WriteDrops(f, c) ==
    /\ job[f][c] \in {"open", "writing"} /\ faults < MaxFaults
    /\ faults' = faults + 1
    /\ job' = [job EXCEPT ![f][c] = "none"]
    /\ UNCHANGED <<mem, disk, dirty, timer, phase, snap, late, refused, crashes>>

WriteFails(f, c) ==
    /\ job[f][c] \in {"open", "writing"} /\ faults < MaxFaults
    /\ faults' = faults + 1
    /\ job' = [job EXCEPT ![f][c] = "none"]
    /\ dirty' = dirty \cup {c}
    /\ refused' = IF phase = "closing" THEN refused \cup {c} ELSE refused
    /\ UNCHANGED <<mem, disk, timer, phase, snap, late, crashes>>

(***************************************************************************)
(* close(): disarm the timer, flush once, wait for every queued write.     *)
(***************************************************************************)
Close ==
    /\ phase = "running"
    /\ phase' = "closing"
    /\ timer' = FALSE
    /\ Flush("close")
    /\ UNCHANGED <<mem, disk, snap, late, refused, faults, crashes>>

CloseDone ==
    /\ phase = "closing" /\ job = NoJobs
    /\ phase' = "closed"
    /\ UNCHANGED <<mem, disk, dirty, timer, job, snap, late, refused, faults, crashes>>

\* The process dies, or exits once closed, and the next one starts: memory is
\* gone, the files and no temporary file are read again.
Restart ==
    /\ crashes < MaxCrashes
    /\ crashes' = crashes + 1
    /\ mem' = disk
    /\ dirty' = {} /\ job' = NoJobs /\ late' = {} /\ refused' = {}
    /\ timer' = TRUE /\ phase' = "running"
    /\ UNCHANGED <<disk, snap, faults>>

Next ==
    \/ \E c \in Convs : Change(c)
    \/ \E f \in Flushes, c \in Convs :
          Open(f, c) \/ Serialise(f, c) \/ Rename(f, c) \/ WriteFails(f, c)
    \/ TimerFires \/ Reschedule \/ Close \/ CloseDone \/ Restart
    \/ phase = "closed" /\ UNCHANGED vars

\* Timers fire and the disk answers.
Fairness ==
    /\ WF_vars(TimerFires) /\ WF_vars(Reschedule) /\ WF_vars(CloseDone)
    /\ \A f \in Flushes, c \in Convs :
          WF_vars(Open(f, c)) /\ WF_vars(Serialise(f, c)) /\ WF_vars(Rename(f, c))

Spec == Init /\ [][Next]_vars /\ Fairness
----------------------------------------------------------------------------
(***************************************************************************)
(* Properties                                                              *)
(***************************************************************************)

\* No change is forgotten: what a file lacks is dirty, or is about to be
\* serialised, or is what a running write has serialised, across failing
\* writes and a close() that overtakes a flush.
NothingForgotten ==
    \A c \in Convs :
        \/ disk[c] = mem[c]
        \/ c \in dirty
        \/ \E f \in Flushes :
              job[f][c] \in {"queued", "open"} \/ (job[f][c] = "writing" /\ snap[f][c] = mem[c])

\* When close() reports "flushed and closed", the files hold every change but
\* those made, or refused by the disk, while it ran.
CloseFlushes ==
    phase = "closed" => \A c \in Convs : disk[c] = mem[c] \/ c \in late \cup refused

\* The flushes, their locks and their retries are a write-behind store: a file
\* only moves towards memory, although a timer's and close()'s write of one
\* conversation may be in flight together, and only a restart forgets a change.
Log == INSTANCE WriteBehind WITH Keys <- Convs
IsWriteBehind == Log!Spec

\* A change reaches the file, unless a crash takes it back from memory or the
\* store is closed first.
EventuallyFlushed ==
    \A c \in Convs, v \in Versions :
        mem[c] = v ~> disk[c] >= v \/ mem[c] < v \/ phase # "running"
=============================================================================

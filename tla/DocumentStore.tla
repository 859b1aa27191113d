--------------------------- MODULE DocumentStore ---------------------------
(***************************************************************************)
(* The write-through discipline of the chat backend's stores of users and  *)
(* conversations: one JSON file per document under a memory cache          *)
(* (store/conversationStore.js, store/userStore.js), and the write queue,  *)
(* a lock with a TTL, that serialises the read-modify-writes of a document *)
(* (store/atomicJson.js).  Documents share nothing: the module is about    *)
(* one.                                                                    *)
(*                                                                         *)
(* A document is the set of the requests whose change it contains, the one *)
(* that created it first: a lost update is one that is missing.  The cache *)
(* is memory, its awaits resolve within one turn of the event loop; only   *)
(* the disk and the lock separate the actions of a request.                *)
(***************************************************************************)
EXTENDS Naturals

CONSTANTS
    Requests,  \* the requests the server handles
    Origin,    \* the creation of a document that exists from the start
    NoOne,     \* the lock is free
    Loads,     \* what the server may be asked: the requests' operations, and
               \* the file at the start
    LocksExpire,  \* whether a task may outlast the lock's TTL
    MaxCrashes, MaxFaults  \* bounds: process crashes, failing disk writes

\* "read"; "update" after a get() of the document, as every route does; "blind"
\* without one (addContact); "create" if get() finds none (getOrCreateDm).
Operations == {"read", "update", "blind", "create"}

ASSUME StoreAssumption ==
    /\ Origin \notin Requests /\ NoOne \notin Requests
    /\ Loads \subseteq [op : [Requests -> Operations], file : {{}, {Origin}}]
    /\ \A load \in Loads :  \* a user that adds a contact has a record
        load.file = {} => \A p \in Requests : load.op[p] # "blind"
    /\ LocksExpire \in BOOLEAN
    /\ MaxCrashes \in Nat /\ MaxFaults \in Nat

NoDoc == {}
Document == SUBSET (Requests \cup {Origin})  \* NoDoc among them

VARIABLES
    op,         \* op[p]: what request p is to do
    cache,      \* the MemoryStateStore's entry
    disk,       \* the JSON file; a rename replaces it whole
    holder,     \* who holds the write queue's lock
    pc,         \* where each request is
    doc,        \* the document a request has read or is to write
    acked,      \* history: the changes that were acknowledged
    clobbered,  \* history: a stale fill, a second create or an expired lock
    crashes, faults

vars == <<op, cache, disk, holder, pc, doc, acked, clobbered, crashes, faults>>

Labels == {"start", "reading", "read", "have", "lock", "reading locked",
           "read locked", "write", "done", "failed"}

TypeOK ==
    /\ op \in [Requests -> Operations]
    /\ cache \in Document /\ disk \in Document
    /\ holder \in Requests \cup {NoOne}
    /\ pc \in [Requests -> Labels]
    /\ doc \in [Requests -> Document]
    /\ acked \in SUBSET Requests
    /\ clobbered \in BOOLEAN
    /\ crashes \in 0..MaxCrashes /\ faults \in 0..MaxFaults

Init ==
    /\ \E load \in Loads : op = load.op /\ disk = load.file
    /\ cache = NoDoc
    /\ holder = NoOne
    /\ pc = [p \in Requests |-> "start"]
    /\ doc = [p \in Requests |-> NoDoc]
    /\ acked = {}
    /\ clobbered = FALSE
    /\ crashes = 0 /\ faults = 0

Goto(p, label) == pc' = [pc EXCEPT ![p] = label]
Hold(p, value) == doc' = [doc EXCEPT ![p] = value]

(***************************************************************************)
(* get(), which every request starts with: a hit answers from the cache, a *)
(* miss reads the file and fills the cache without looking at it again.    *)
(***************************************************************************)
GetHit(p) ==
    /\ pc[p] = "start" /\ op[p] # "blind" /\ cache # NoDoc
    /\ Hold(p, cache)
    /\ Goto(p, "have")
    /\ UNCHANGED <<cache, disk, holder, acked, clobbered, crashes, faults>>

GetMiss(p) ==
    /\ pc[p] = "start" /\ op[p] # "blind" /\ cache = NoDoc
    /\ Goto(p, "reading")
    /\ UNCHANGED <<cache, disk, holder, doc, acked, clobbered, crashes, faults>>

\* readJson opens the file: what it will return is fixed here.
ReadFile(p) ==
    /\ pc[p] \in {"reading", "reading locked"}
    /\ Hold(p, disk)
    /\ Goto(p, IF pc[p] = "reading" THEN "read" ELSE "read locked")
    /\ UNCHANGED <<cache, disk, holder, acked, clobbered, crashes, faults>>

Fill(p) ==
    /\ pc[p] = "read"
    /\ cache' = IF doc[p] = NoDoc THEN cache ELSE doc[p]
    /\ clobbered' = (clobbered \/ (doc[p] # NoDoc /\ cache # NoDoc /\ cache # doc[p]))
    /\ Goto(p, "have")
    /\ UNCHANGED <<disk, holder, doc, acked, crashes, faults>>

\* What the request does with the document it was given.
Answer(p) ==
    /\ pc[p] = "have"
    /\ \/ op[p] = "read"
       \/ op[p] = "update" /\ doc[p] = NoDoc
       \/ op[p] = "create" /\ doc[p] # NoDoc
    /\ Goto(p, "done")
    /\ UNCHANGED <<cache, disk, holder, doc, acked, clobbered, crashes, faults>>

Enqueue(p) ==
    /\ \/ pc[p] = "have" /\ op[p] = "update" /\ doc[p] # NoDoc
       \/ pc[p] = "start" /\ op[p] = "blind"
    /\ Goto(p, "lock")
    /\ UNCHANGED <<cache, disk, holder, doc, acked, clobbered, crashes, faults>>

\* put(): the cache first, then the file, in the queue; a free lock is taken in
\* the same turn.
Create(p) ==
    /\ pc[p] = "have" /\ op[p] = "create" /\ doc[p] = NoDoc
    /\ Hold(p, {p})
    /\ cache' = {p}
    /\ clobbered' = (clobbered \/ cache # NoDoc \/ disk # NoDoc)
    /\ IF holder = NoOne THEN holder' = p /\ Goto(p, "write")
                         ELSE holder' = holder /\ Goto(p, "lock")
    /\ UNCHANGED <<disk, acked, crashes, faults>>

(***************************************************************************)
(* WriteQueue.run: poll the lock, run the task, release in a finally.      *)
(***************************************************************************)
\* Mutant: update() leaves the cache to the next get().
DraftUncached(p, current) ==
    /\ cache' = cache
    /\ Hold(p, current \cup {p})
    /\ Goto(p, "write")

\* clone, mutate, cache
Draft(p, current) ==
    /\ cache' = current \cup {p}
    /\ Hold(p, current \cup {p})
    /\ Goto(p, "write")

\* Mutant: update() works on the document read before it had the lock.
AcquireStale(p) ==
    /\ pc[p] = "lock" /\ holder = NoOne
    /\ holder' = p
    /\ Draft(p, doc[p])
    /\ UNCHANGED <<disk, acked, clobbered, crashes, faults>>

Acquire(p) ==
    /\ pc[p] = "lock" /\ holder = NoOne
    /\ holder' = p
    /\ IF op[p] = "create" THEN Goto(p, "write") /\ UNCHANGED <<cache, doc>>
       ELSE IF cache # NoDoc THEN Draft(p, cache)
       ELSE Goto(p, "reading locked") /\ UNCHANGED <<cache, doc>>
    /\ UNCHANGED <<disk, acked, clobbered, crashes, faults>>

\* A token that expired meanwhile releases nothing.
Released(p) == IF holder = p THEN NoOne ELSE holder

\* update()'s own get() missed: its fill and the draft are one stretch.
DraftFromFile(p) ==
    /\ pc[p] = "read locked"
    /\ IF doc[p] # NoDoc
       THEN Draft(p, doc[p]) /\ holder' = holder
            /\ clobbered' = (clobbered \/ (cache # NoDoc /\ cache # doc[p]))
       ELSE /\ Goto(p, "failed") /\ holder' = Released(p)
            /\ UNCHANGED <<cache, doc, clobbered>>
    /\ UNCHANGED <<disk, acked, crashes, faults>>

\* writeJsonAtomic's rename, and the acknowledgement.
Write(p) ==
    /\ pc[p] = "write"
    /\ disk' = doc[p]
    /\ holder' = Released(p)
    /\ acked' = acked \cup {p}
    /\ Goto(p, "done")
    /\ UNCHANGED <<cache, doc, clobbered, crashes, faults>>

\* Mutant: a failing write leaves the lock taken.
WriteFailsLocked(p) ==
    /\ pc[p] = "write" /\ faults < MaxFaults
    /\ faults' = faults + 1
    /\ Goto(p, "failed")
    /\ UNCHANGED <<cache, disk, holder, doc, acked, clobbered, crashes>>

\* The disk refuses the write: the request fails, the cache keeps the change.
WriteFails(p) ==
    /\ pc[p] = "write" /\ faults < MaxFaults
    /\ faults' = faults + 1
    /\ holder' = Released(p)
    /\ Goto(p, "failed")
    /\ UNCHANGED <<cache, disk, doc, acked, clobbered, crashes>>

\* MemoryLock drops a lock its holder kept past the TTL (60 s).
LockExpires ==
    /\ LocksExpire /\ holder # NoOne
    /\ holder' = NoOne
    /\ clobbered' = TRUE
    /\ UNCHANGED <<cache, disk, pc, doc, acked, crashes, faults>>

\* The process dies and starts again: memory and requests are gone, a temporary
\* file that was not renamed is never read.
Crash ==
    /\ crashes < MaxCrashes
    /\ crashes' = crashes + 1
    /\ cache' = NoDoc /\ holder' = NoOne
    /\ pc' = [p \in Requests |-> IF pc[p] \in {"start", "done"} THEN pc[p] ELSE "failed"]
    /\ UNCHANGED <<disk, doc, acked, clobbered, faults>>

Step(p) ==
    /\ \/ GetHit(p) \/ GetMiss(p) \/ ReadFile(p) \/ Fill(p)
       \/ Answer(p) \/ Enqueue(p) \/ Create(p)
       \/ Acquire(p) \/ DraftFromFile(p) \/ Write(p) \/ WriteFails(p)
    /\ UNCHANGED op

Finished == \A p \in Requests : pc[p] \in {"done", "failed"}

Next ==
    \/ \E p \in Requests : Step(p)
    \/ LockExpires /\ UNCHANGED op
    \/ Crash /\ UNCHANGED op
    \/ Finished /\ UNCHANGED vars

\* The event loop runs what is ready and the disk answers; a waiter polls the
\* lock every 5 ms, so it gets it when it is free again and again.
Spec == Init /\ [][Next]_vars /\ \A p \in Requests : WF_vars(Step(p)) /\ SF_vars(Acquire(p) /\ UNCHANGED op)
----------------------------------------------------------------------------
(***************************************************************************)
(* Properties                                                              *)
(***************************************************************************)

\* "Concurrent updates to the same file can't interleave or clobber each
\* other" (store/atomicJson.js): an acknowledged change is in the file.
NoLostUpdate == acked \subseteq disk

\* An acknowledged change survives every interleaving, disk fault and crash, as
\* long as no fill overwrites a newer cache entry, no two requests create the
\* document and no lock outlives its TTL: there is no other way to lose one.
UpdatesSurvive == ~clobbered => NoLostUpdate

\* With the same exceptions, what the server answers from memory contains every
\* acknowledged change.
CacheHasAcked == ~clobbered /\ cache # NoDoc => acked \subseteq cache

\* The lock's TTL aside, one task at a time works on the file.
OneWriter ==
    ~clobbered => \A p, q \in Requests :
        {pc[p], pc[q]} \subseteq {"reading locked", "read locked", "write"} => p = q

\* With the same exceptions, cache, file and lock are one document that every request
\* changes in one step and at most once: a get() never misses an acknowledged change,
\* also when it reads the file while others cache, write or fail, and only a crash
\* takes a change back, one that was not acknowledged.
Content == IF cache = NoDoc THEN disk ELSE cache
Whole == INSTANCE AtomicDocument WITH
    Clients <- Requests, value <- Content, given <- doc, spoilt <- clobbered
IsAtomicDocument == Whole!Spec

\* Every request is answered, whatever the others and the disk do.
Answered == \A p \in Requests : <>(pc[p] \in {"done", "failed"})
=============================================================================

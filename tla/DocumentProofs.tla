--------------------------- MODULE DocumentProofs ---------------------------
(***************************************************************************)
(* Proofs about DocumentStore, one document of the chat's backend, and     *)
(* about Conversations, where a request changes several of them, for any   *)
(* requests and bounds.                                                    *)
(*                                                                         *)
(* An acknowledged change survives because a request that is about to      *)
(* write has, under the lock, built its document on the cache or on the    *)
(* file, both of which hold every change acknowledged so far, and nobody   *)
(* else writes before it does.  The cache is filled from a file that has   *)
(* not been written since it was read, as a write leaves a cache behind.   *)
(*                                                                         *)
(* A conversation's document and its users' lists agree because whoever    *)
(* changes the document carries on to every list that no longer follows,   *)
(* and what is still to be done to a list is what the document says by     *)
(* now, unless two requests crossed.                                       *)
(*                                                                         *)
(* A page follows because there is always something on its way to it that  *)
(* says what holds since the last edit: the request that made the edit,    *)
(* its push, or a GET that was read since.  What was read before is older  *)
(* than what the page has been told, so that it counts as overtaken.       *)
(***************************************************************************)
EXTENDS DocumentStore, Conversations, SequenceTheorems, FiniteSetTheorems, TLAPS


Locked == {"reading locked", "read locked", "write"}

\* What a request knows, wherever it is.
Shape ==
    \A p \in Requests :
        /\ pc[p] = "write" => p \in doc[p] /\ cache # {}
        /\ pc[p] = "have" /\ doc[p] # {} => cache # {}
        /\ pc[p] = "lock" /\ op[p] # "blind" => cache # {}
        /\ pc[p] = "lock" /\ op[p] = "create" => p \in doc[p]
        /\ pc[p] \in {"reading locked", "read locked"} => op[p] = "blind"
        /\ pc[p] = "read" /\ cache = {} => doc[p] = disk
        /\ op[p] = "blind" => disk # {}

\* Without a clobber the lock tells who works on the file, a creation never
\* waits for it, and what will be written contains what was acknowledged.
Clean ==
    /\ acked \subseteq disk
    /\ cache # {} => acked \subseteq cache
    /\ \A p \in Requests :
        /\ holder = p <=> pc[p] \in Locked
        /\ pc[p] = "lock" => op[p] # "create"
        /\ pc[p] = "read locked" => acked \subseteq doc[p]
        /\ pc[p] = "write" => acked \subseteq doc[p] /\ doc[p] \subseteq cache

IInv == TypeOK /\ Shape /\ (~clobbered => Clean)

LEMMA InitIInv == Init => IInv
<1> SUFFICES ASSUME Init PROVE IInv
  OBVIOUS
<1> USE StoreAssumption DEF Init, NoDoc
<1>1. TypeOK
  <2>1. cache \in Document /\ disk \in Document /\ acked \in SUBSET Requests
    BY DEF Document
  <2>2. pc \in [Requests -> Labels] /\ doc \in [Requests -> Document]
    BY DEF Document, Labels
  <2>3. crashes \in 0..MaxCrashes /\ faults \in 0..MaxFaults
    BY SMT
  <2> QED BY <2>1, <2>2, <2>3 DEF TypeOK
<1>2. Shape /\ Clean
  BY DEF Shape, Clean, Locked
<1> QED BY <1>1, <1>2 DEF IInv

\* A request moves from one label to the next, and the others stay.
LEMMA Moves ==
  ASSUME TypeOK, NEW p \in Requests, NEW label \in Labels, Goto(p, label)
  PROVE  /\ pc' \in [Requests -> Labels]
         /\ pc'[p] = label
         /\ \A q \in Requests : q # p => pc'[q] = pc[q]
  BY DEF TypeOK, Goto

LEMMA Holds ==
  ASSUME TypeOK, NEW p \in Requests, NEW value \in Document, Hold(p, value)
  PROVE  /\ doc' \in [Requests -> Document]
         /\ doc'[p] = value
         /\ \A q \in Requests : q # p => doc'[q] = doc[q]
  BY DEF TypeOK, Hold

\* A request that reads and answers touches neither the file nor the lock.
LEMMA ReadingKeeps ==
  ASSUME IInv, op' = op, NEW p \in Requests,
         GetHit(p) \/ GetMiss(p) \/ Answer(p) \/ Enqueue(p)
  PROVE  IInv'
<1> USE StoreAssumption DEF IInv, NoDoc
<1>1. /\ pc' \in [Requests -> Labels]
      /\ \A q \in Requests : q # p => pc'[q] = pc[q]
      /\ pc[p] \notin Locked /\ pc'[p] \notin Locked
  BY Moves DEF GetHit, GetMiss, Answer, Enqueue, Labels, Locked
<1>2. /\ doc' \in [Requests -> Document]
      /\ \A q \in Requests : q # p => doc'[q] = doc[q]
      /\ UNCHANGED <<cache, disk, holder, acked, clobbered, crashes, faults>>
  BY Holds DEF GetHit, GetMiss, Answer, Enqueue, TypeOK
<1>3. /\ pc'[p] # "read"
      /\ pc'[p] = "have" => cache # {}
      /\ pc'[p] = "lock" => op[p] # "create" /\ (op[p] # "blind" => cache # {})
  BY Moves DEF GetHit, GetMiss, Answer, Enqueue, Labels, Shape
<1>4. TypeOK'
  BY <1>1, <1>2 DEF TypeOK
<1>5. Shape'
  BY <1>1, <1>2, <1>3 DEF Shape, Locked
<1>6. ~clobbered' => Clean'
  BY <1>1, <1>2, <1>3 DEF Clean, Locked
<1> QED BY <1>4, <1>5, <1>6

\* What readJson returns is the file, which holds what was acknowledged.
LEMMA ReadFileKeeps ==
  ASSUME IInv, op' = op, NEW p \in Requests, ReadFile(p) PROVE IInv'
<1> USE StoreAssumption DEF IInv, NoDoc, ReadFile
<1>1. /\ pc' \in [Requests -> Labels]
      /\ \A q \in Requests : q # p => pc'[q] = pc[q]
      /\ \/ pc[p] = "reading" /\ pc'[p] = "read"
         \/ pc[p] = "reading locked" /\ pc'[p] = "read locked"
  BY Moves DEF Labels
<1>2. /\ doc' \in [Requests -> Document] /\ doc'[p] = disk
      /\ \A q \in Requests : q # p => doc'[q] = doc[q]
  BY Holds DEF TypeOK
<1>3. TypeOK'
  BY <1>1, <1>2 DEF TypeOK
<1>4. Shape'
  BY <1>1, <1>2 DEF Shape
<1>5. ~clobbered' => Clean'
  BY <1>1, <1>2 DEF Clean, Locked
<1> QED BY <1>3, <1>4, <1>5

\* A fill that clobbers nothing fills an empty cache, with the file as it is.
LEMMA FillKeeps ==
  ASSUME IInv, op' = op, NEW p \in Requests, Fill(p) PROVE IInv'
<1> USE StoreAssumption DEF IInv, NoDoc, Fill
<1>1. /\ pc' \in [Requests -> Labels] /\ pc'[p] = "have"
      /\ \A q \in Requests : q # p => pc'[q] = pc[q]
  BY Moves DEF Labels
<1>2. TypeOK'
  BY <1>1 DEF TypeOK
<1>3. cache # {} => cache' # {}
  OBVIOUS
<1>4. Shape'
  BY <1>1, <1>3 DEF Shape
<1>5. ~clobbered' => Clean'
  <2> SUFFICES ASSUME ~clobbered' PROVE Clean'
    OBVIOUS
  <2>1. Clean /\ (cache' = cache \/ (cache = {} /\ cache' = disk))
    BY DEF Shape
  <2>2. \A q \in Requests : pc[q] = "write" => cache' = cache
    BY <2>1 DEF Shape
  <2> QED BY <1>1, <2>1, <2>2 DEF Clean, Locked
<1> QED BY <1>2, <1>4, <1>5

\* A creation that clobbers nothing finds no document and the lock free: a task
\* that held it would update a document there is.
LEMMA CreateKeeps ==
  ASSUME IInv, op' = op, NEW p \in Requests, Create(p) PROVE IInv'
<1> USE StoreAssumption DEF IInv, NoDoc, Create
<1>1. /\ pc' \in [Requests -> Labels]
      /\ \A q \in Requests : q # p => pc'[q] = pc[q]
      /\ \/ pc'[p] = "write" /\ holder = NoOne /\ holder' = p
         \/ pc'[p] = "lock" /\ holder # NoOne /\ holder' = holder
  BY Moves DEF Labels
<1>2. {p} \in Document
  BY DEF Document
<1>3. /\ doc' \in [Requests -> Document] /\ doc'[p] = {p}
      /\ \A q \in Requests : q # p => doc'[q] = doc[q]
  BY <1>2, Holds
<1>4. TypeOK'
  BY <1>1, <1>2, <1>3 DEF TypeOK
<1>5. Shape'
  BY <1>1, <1>3 DEF Shape
<1>6. ~clobbered' => Clean'
  <2> SUFFICES ASSUME ~clobbered' PROVE Clean'
    OBVIOUS
  <2>1. Clean /\ cache = {} /\ disk = {} /\ acked = {}
    BY DEF Clean
  <2>2. holder = NoOne
    <3> SUFFICES ASSUME NEW q \in Requests, holder = q PROVE FALSE
      BY DEF TypeOK
    <3> QED BY <2>1 DEF Clean, Shape, Locked
  <2>3. \A q \in Requests : pc[q] \notin Locked
    BY <2>1, <2>2 DEF Clean
  <2>4. pc'[p] = "write" /\ holder' = p /\ acked' = {} /\ cache' = {p}
    BY <1>1, <2>1, <2>2
  <2>5. ASSUME NEW q \in Requests, q # p
        PROVE  pc'[q] \notin Locked /\ (pc'[q] = "lock" => op[q] # "create")
    BY <1>1, <2>1, <2>3, <2>5 DEF Clean
  <2> QED BY <1>3, <2>4, <2>5 DEF Clean, Locked
<1> QED BY <1>4, <1>5, <1>6

\* What a task writes is its change on top of the cache.
LEMMA DraftKeeps ==
  ASSUME IInv, op' = op, NEW p \in Requests, NEW current \in Document, Draft(p, current),
         holder' \in Requests \cup {NoOne}, pc[p] \in {"lock", "read locked"},
         UNCHANGED <<disk, acked, crashes, faults>>,
         clobbered' \in BOOLEAN, clobbered => clobbered',
         ~clobbered' => /\ acked \subseteq current
                        /\ holder \in {NoOne, p} /\ holder' = p
  PROVE  IInv'
<1> USE StoreAssumption DEF IInv, NoDoc, Draft
<1>1. /\ pc' \in [Requests -> Labels] /\ pc'[p] = "write"
      /\ \A q \in Requests : q # p => pc'[q] = pc[q]
  BY Moves DEF Labels
<1>2. current \cup {p} \in Document
  BY DEF Document
<1>3. /\ doc' \in [Requests -> Document] /\ doc'[p] = current \cup {p}
      /\ \A q \in Requests : q # p => doc'[q] = doc[q]
  BY <1>2, Holds
<1>4. TypeOK'
  BY <1>1, <1>2, <1>3 DEF TypeOK
<1>5. Shape'
  BY <1>1, <1>3 DEF Shape
<1>6. ~clobbered' => Clean'
  <2> SUFFICES ASSUME ~clobbered' PROVE Clean'
    OBVIOUS
  <2>1. Clean /\ acked \subseteq cache' /\ cache' = doc'[p]
    BY <1>3
  <2>2. ASSUME NEW q \in Requests, q # p
        PROVE  /\ pc'[q] \notin Locked /\ holder' # q
               /\ pc'[q] = "lock" => op[q] # "create"
    <3>1. holder' = p /\ holder # q
      BY <2>2
    <3>2. pc[q] \notin Locked /\ (pc[q] = "lock" => op[q] # "create")
      BY <2>1, <3>1 DEF Clean
    <3> QED BY <1>1, <2>2, <3>1, <3>2
  <2>3. holder' = p
    OBVIOUS
  <2> QED BY <1>1, <1>3, <2>1, <2>2, <2>3 DEF Clean, Locked
<1> QED BY <1>4, <1>5, <1>6

LEMMA AcquireKeeps ==
  ASSUME IInv, op' = op, NEW p \in Requests, Acquire(p) PROVE IInv'
<1> USE StoreAssumption DEF IInv, NoDoc
<1>1. CASE op[p] # "create" /\ cache # {}
  <2>1. cache \in Document /\ Draft(p, cache) /\ holder' = p /\ pc[p] = "lock"
        /\ holder = NoOne /\ UNCHANGED <<disk, acked, clobbered, crashes, faults>>
    BY <1>1 DEF Acquire, TypeOK
  <2>2. ~clobbered => acked \subseteq cache
    BY <1>1 DEF Clean
  <2> QED BY <2>1, <2>2, DraftKeeps DEF TypeOK
<1>2. CASE ~(op[p] # "create" /\ cache # {})
  <2>1. /\ pc[p] = "lock" /\ holder = NoOne /\ holder' = p
        /\ UNCHANGED <<cache, doc, disk, acked, clobbered, crashes, faults>>
        /\ Goto(p, IF op[p] = "create" THEN "write" ELSE "reading locked")
    BY <1>2 DEF Acquire
  <2>2. /\ pc' \in [Requests -> Labels]
        /\ \A q \in Requests : q # p => pc'[q] = pc[q]
        /\ pc'[p] = IF op[p] = "create" THEN "write" ELSE "reading locked"
    BY <2>1, Moves DEF Labels
  <2>3. TypeOK'
    BY <2>1, <2>2 DEF TypeOK
  <2>4. Shape'
    BY <1>2, <2>1, <2>2 DEF Shape
  <2>5. ~clobbered' => Clean'
    BY <1>2, <2>1, <2>2 DEF Clean, Locked
  <2> QED BY <2>3, <2>4, <2>5
<1> QED BY <1>1, <1>2

\* A finished task leaves the lock, which nobody else has got meanwhile unless
\* it expired, free.
LEMMA LeavesLock ==
  ASSUME IInv, op' = op, NEW p \in Requests, pc[p] \in Locked, holder' = Released(p),
         NEW label \in {"done", "failed"}, Goto(p, label)
  PROVE  /\ pc' \in [Requests -> Labels] /\ pc'[p] = label
         /\ \A q \in Requests : q # p => pc'[q] = pc[q]
         /\ holder' \in Requests \cup {NoOne}
         /\ ~clobbered => /\ holder' = NoOne
                          /\ \A q \in Requests : pc'[q] \notin Locked
<1> USE StoreAssumption DEF IInv, Released
<1>1. /\ pc' \in [Requests -> Labels] /\ pc'[p] = label
      /\ \A q \in Requests : q # p => pc'[q] = pc[q]
  BY Moves DEF Labels
<1>2. ~clobbered => holder = p /\ \A q \in Requests : q # p => pc[q] \notin Locked
  BY DEF Clean
<1> QED BY <1>1, <1>2 DEF TypeOK, Locked

LEMMA DraftFromFileKeeps ==
  ASSUME IInv, op' = op, NEW p \in Requests, DraftFromFile(p) PROVE IInv'
<1> USE StoreAssumption DEF IInv, NoDoc, DraftFromFile
<1>1. CASE doc[p] # {}
  <2>1. doc[p] \in Document /\ Draft(p, doc[p]) /\ clobbered' \in BOOLEAN
    BY <1>1 DEF TypeOK
  <2>2. ~clobbered => acked \subseteq doc[p] /\ holder = p
    BY DEF Clean, Locked
  <2>3. ~clobbered => holder' = p
    BY <1>1, <2>2
  <2>4. clobbered => clobbered'
    BY <1>1
  <2> QED BY <1>1, <2>1, <2>2, <2>3, <2>4, DraftKeeps DEF TypeOK
<1>2. CASE doc[p] = {}
  <2>1. pc[p] \in Locked /\ holder' = Released(p) /\ Goto(p, "failed")
        /\ UNCHANGED <<cache, doc, clobbered, disk, acked, crashes, faults>>
    BY <1>2 DEF Locked
  <2>2. TypeOK'
    BY <2>1, LeavesLock DEF TypeOK
  <2>3. Shape'
    BY <2>1, LeavesLock DEF Shape
  <2>4. ~clobbered' => Clean'
    BY <2>1, LeavesLock DEF Clean, Locked
  <2> QED BY <2>2, <2>3, <2>4
<1> QED BY <1>1, <1>2

\* The rename: the file becomes what the task drafted, the cache holds it.
LEMMA WriteKeeps ==
  ASSUME IInv, op' = op, NEW p \in Requests, Write(p) PROVE IInv'
<1> USE StoreAssumption DEF IInv, NoDoc, Write
<1>1. pc[p] \in Locked /\ pc[p] = "write" /\ p \in doc[p]
  BY DEF Shape, Locked
<1>2. TypeOK'
  BY <1>1, LeavesLock DEF TypeOK
<1>3. Shape'
  BY <1>1, LeavesLock DEF Shape
<1>4. ~clobbered' => Clean'
  <2> SUFFICES ASSUME ~clobbered' PROVE Clean'
    OBVIOUS
  <2>1. Clean /\ acked' \subseteq disk' /\ disk' \subseteq cache'
    BY <1>1 DEF Clean
  <2>2. holder' = NoOne /\ \A q \in Requests : pc'[q] \notin Locked
    BY <1>1, LeavesLock
  <2>3. pc'[p] = "done" /\ \A q \in Requests : q # p => pc'[q] = pc[q]
    BY <1>1, LeavesLock
  <2>4. \A q \in Requests : pc'[q] = "lock" => op[q] # "create"
    BY <2>1, <2>3 DEF Clean
  <2> QED
    BY <2>1, <2>2, <2>4 DEF Clean, Locked
<1> QED BY <1>2, <1>3, <1>4

LEMMA WriteFailsKeeps ==
  ASSUME IInv, op' = op, NEW p \in Requests, WriteFails(p) PROVE IInv'
<1> USE StoreAssumption DEF IInv, NoDoc, WriteFails
<1>1. pc[p] \in Locked
  BY DEF Locked
<1>2. TypeOK'
  BY <1>1, LeavesLock DEF TypeOK
<1>3. Shape'
  BY <1>1, LeavesLock DEF Shape
<1>4. ~clobbered' => Clean'
  BY <1>1, LeavesLock DEF Clean, Locked
<1> QED BY <1>2, <1>3, <1>4

LEMMA LockExpiresKeeps ==
  ASSUME IInv, op' = op, LockExpires PROVE IInv'
  BY StoreAssumption DEF IInv, LockExpires, TypeOK, Shape

\* After a crash no request is anywhere and the cache is empty.
LEMMA CrashKeeps ==
  ASSUME IInv, op' = op, Crash PROVE IInv'
<1> USE StoreAssumption DEF IInv, NoDoc, Crash
<1>1. /\ pc' \in [Requests -> Labels]
      /\ \A q \in Requests : pc'[q] \in {"start", "done", "failed"}
  BY DEF TypeOK, Labels
<1>2. cache' \in Document /\ crashes' \in 0..MaxCrashes
  BY DEF TypeOK, Document
<1>3. TypeOK'
  BY <1>1, <1>2 DEF TypeOK
<1>4. Shape'
  BY <1>1 DEF Shape
<1>5. ~clobbered' => Clean'
  BY <1>1 DEF Clean, Locked
<1> QED BY <1>3, <1>4, <1>5

LEMMA StutterKeeps ==
  ASSUME IInv, UNCHANGED vars PROVE IInv'
  BY DEF vars, IInv, TypeOK, Shape, Clean

\* The invariant holds in every state the store can reach.
THEOREM Invariance == Spec => []IInv
<1>1. Init => IInv
  BY InitIInv
<1>2. IInv /\ [Next]_vars => IInv'
  <2> SUFFICES ASSUME IInv, [Next]_vars PROVE IInv'
    OBVIOUS
  <2>1. ASSUME NEW p \in Requests, Step(p) PROVE IInv'
    BY <2>1, ReadingKeeps, ReadFileKeeps, FillKeeps, CreateKeeps, AcquireKeeps,
       DraftFromFileKeeps, WriteKeeps, WriteFailsKeeps DEF Step
  <2>2. CASE (LockExpires \/ Crash) /\ UNCHANGED op
    BY <2>2, LockExpiresKeeps, CrashKeeps
  <2>3. CASE UNCHANGED vars
    BY <2>3, StutterKeeps
  <2> QED BY <2>1, <2>2, <2>3 DEF Next
<1> QED BY <1>1, <1>2, PTL DEF Spec

\* Type correctness of the stores of users and conversations.
THEOREM TypeCorrect == Spec => []TypeOK
<1>1. IInv => TypeOK
  BY DEF IInv
<1> QED BY <1>1, Invariance, PTL

\* An acknowledged change (update(), put() of the stores) is in the file unless
\* a stale fill, a second creation or an expired lock has clobbered something.
THEOREM NothingElseLoses == Spec => []UpdatesSurvive
<1>1. IInv => UpdatesSurvive
  BY DEF IInv, Clean, UpdatesSurvive, NoLostUpdate
<1> QED BY <1>1, Invariance, PTL

\* With the same exceptions the cache, once there, holds every acknowledged change.
THEOREM CacheCorrect == Spec => []CacheHasAcked
<1>1. IInv => CacheHasAcked
  BY DEF IInv, Clean, CacheHasAcked, NoDoc
<1> QED BY <1>1, Invariance, PTL

\* One task at a time is past the write queue's lock (WriteQueue.run).
THEOREM MutualExclusion == Spec => []OneWriter
<1>1. IInv => OneWriter
  BY DEF IInv, Clean, OneWriter, Locked
<1> QED BY <1>1, Invariance, PTL

(***************************************************************************)
(* The store is one document                                               *)
(***************************************************************************)
NotYet(p) == pc[p] \notin {"write", "done", "failed"} /\ (pc[p] = "lock" => op[p] # "create")

\* A change that has not been made is nowhere, and the file is no further than the
\* cache, nor than what was read under the lock.
Single ==
    /\ \A p \in Requests : NotYet(p) => /\ p \notin cache \cup disk
                                        /\ \A q \in Requests : p \notin doc[q]
    /\ ~clobbered => /\ cache # {} => disk \subseteq cache
                     /\ \A p \in Requests : pc[p] = "read locked" => doc[p] = disk

LEMMA InitSingle == Init => Single
  BY StoreAssumption DEF Init, Single, NotYet, NoDoc

\* What was clobbered stays so.
LEMMA OnceClobbered ==
  ASSUME IInv, TypeOK', [Next]_vars, ~clobbered'
  PROVE  Clean /\ clobbered = FALSE /\ clobbered' = FALSE
<1>1. clobbered => clobbered'
  BY DEF Next, Step, vars, GetHit, GetMiss, ReadFile, Fill, Answer, Enqueue, Create, Acquire,
     DraftFromFile, Draft, Write, WriteFails, LockExpires, Crash
<1> QED BY <1>1 DEF IInv, TypeOK

\* A request that reads or waits: what it holds is the cache or the file.
LEMMA ReadingSingle ==
  ASSUME IInv, Single, op' = op, NEW p \in Requests,
         GetHit(p) \/ GetMiss(p) \/ ReadFile(p) \/ Answer(p) \/ Enqueue(p)
  PROVE  Single'
<1> USE DEF IInv, NoDoc
<1>1. /\ pc' \in [Requests -> Labels] /\ \A q \in Requests : q # p => pc'[q] = pc[q]
      /\ NotYet(p)
      /\ pc'[p] = "read locked" => doc'[p] = disk
  <2>1. CASE GetHit(p) \/ GetMiss(p) \/ Answer(p) \/ Enqueue(p)
    BY <2>1, Moves DEF GetHit, GetMiss, Answer, Enqueue, Labels, NotYet
  <2>2. CASE ReadFile(p)
    BY <2>2, Moves, Holds DEF ReadFile, Labels, NotYet, TypeOK
  <2> QED BY <2>1, <2>2
<1>2. /\ doc' \in [Requests -> Document]
      /\ \A q \in Requests : q # p => doc'[q] = doc[q]
      /\ doc'[p] \in {doc[p], cache, disk}
      /\ UNCHANGED <<cache, disk, clobbered>>
  BY Holds DEF GetHit, GetMiss, ReadFile, Answer, Enqueue, TypeOK
<1>3. \A q \in Requests : NotYet(q)' => NotYet(q)
  BY <1>1 DEF NotYet
<1> QED BY <1>1, <1>2, <1>3 DEF Single

\* A request whose change is made or given up, with no new document but its own.
LEMMA WritingSingle ==
  ASSUME IInv, IInv', Single, op' = op, NEW p \in Requests,
         Fill(p) \/ Create(p) \/ Acquire(p) \/ DraftFromFile(p) \/ Write(p) \/ WriteFails(p)
  PROVE  Single'
<1> USE DEF IInv, NoDoc
<1>1. /\ pc' \in [Requests -> Labels] /\ \A q \in Requests : q # p => pc'[q] = pc[q]
      /\ pc'[p] # "read locked"
      /\ NotYet(p)' => NotYet(p) /\ cache' \in {cache, doc[p]} /\ UNCHANGED <<disk, doc>>
  <2>1. CASE Fill(p) \/ Write(p) \/ WriteFails(p)
    BY <2>1, Moves DEF Fill, Write, WriteFails, Labels, NotYet
  <2>2. CASE Create(p)
    BY <2>2, Moves DEF Create, Labels, NotYet
  <2>3. CASE Acquire(p)
    BY <2>3, Moves DEF Acquire, Draft, Labels, NotYet
  <2>4. CASE DraftFromFile(p)
    BY <2>4, Moves DEF DraftFromFile, Draft, Labels, NotYet
  <2> QED BY <2>1, <2>2, <2>3, <2>4
<1>2. /\ doc' \in [Requests -> Document] /\ \A q \in Requests : q # p => doc'[q] = doc[q]
      /\ doc'[p] \subseteq doc[p] \cup cache \cup {p}
      /\ cache' \subseteq doc[p] \cup cache \cup {p}
      /\ disk' \subseteq disk \cup doc[p]
  <2>1. CASE Create(p)
    <3>1. {p} \in Document BY DEF Document
    <3> QED BY <2>1, <3>1, Holds DEF Create
  <2>2. CASE Acquire(p) \/ DraftFromFile(p)
    <3>1. ASSUME NEW d \in Document PROVE d \cup {p} \in Document
      BY DEF Document
    <3>2. cache \cup {p} \in Document /\ doc[p] \cup {p} \in Document
      BY <3>1 DEF TypeOK
    <3>3. CASE UNCHANGED <<cache, doc>>
      BY <2>2, <3>3 DEF Acquire, DraftFromFile, TypeOK
    <3>4. CASE Draft(p, cache) \/ Draft(p, doc[p])
      BY <2>2, <3>2, <3>4, Holds DEF Acquire, DraftFromFile, Draft
    <3> QED BY <2>2, <3>3, <3>4 DEF Acquire, DraftFromFile
  <2>3. CASE Fill(p) \/ Write(p) \/ WriteFails(p)
    BY <2>3 DEF Fill, Write, WriteFails, TypeOK
  <2> QED BY <2>1, <2>2, <2>3
<1>3. ASSUME NEW q \in Requests, NotYet(q)'
      PROVE  q \notin cache' \cup disk' /\ \A r \in Requests : q \notin doc'[r]
  <2>1. NotYet(q)
    BY <1>1, <1>3 DEF NotYet
  <2>2. CASE q = p
    BY <1>1, <1>3, <2>1, <2>2 DEF Single
  <2>3. CASE q # p
    BY <1>2, <2>1, <2>3 DEF Single
  <2> QED BY <2>2, <2>3
<1> DEFINE Unspoilt == Clean /\ clobbered = FALSE /\ clobbered' = FALSE
<1>0. ASSUME ~clobbered' PROVE Unspoilt
  <2>1. [Next]_vars
    BY DEF Next, Step
  <2> QED BY <1>0, <2>1, OnceClobbered
<1>4. ASSUME ~clobbered', cache' # {} PROVE disk' \subseteq cache'
  <2>1. Unspoilt
    BY <1>0, <1>4
  <2>2. CASE Fill(p)
    BY <1>4, <2>1, <2>2 DEF Fill, Shape, Single
  <2>3. CASE Create(p)
    BY <1>4, <2>3 DEF Create
  <2>4. CASE Acquire(p)
    BY <1>4, <2>1, <2>4 DEF Acquire, Draft, Single
  <2>5. CASE DraftFromFile(p)
    BY <1>4, <2>1, <2>5 DEF DraftFromFile, Draft, Single
  <2>6. CASE Write(p)
    BY <2>1, <2>6 DEF Write, Clean
  <2>7. CASE WriteFails(p)
    BY <1>4, <2>1, <2>7 DEF WriteFails, Single
  <2> QED BY <2>2, <2>3, <2>4, <2>5, <2>6, <2>7
<1>5. ASSUME ~clobbered', NEW q \in Requests, pc'[q] = "read locked" PROVE doc'[q] = disk'
  <2>1. Unspoilt /\ q # p /\ pc[q] = "read locked"
    BY <1>0, <1>1, <1>5
  <2>2. disk' = disk
    BY <2>1 DEF Fill, Create, Acquire, DraftFromFile, Write, WriteFails, Clean, Locked
  <2> QED BY <1>2, <2>1, <2>2 DEF Single
<1> QED BY <1>3, <1>4, <1>5 DEF Single

LEMMA OtherSingle ==
  ASSUME IInv, Single, op' = op, LockExpires \/ Crash PROVE Single'
<1> USE DEF IInv, NoDoc
<1>1. CASE LockExpires
  BY <1>1 DEF LockExpires, Single, NotYet
<1>2. CASE Crash
  BY <1>2 DEF Crash, Single, NotYet, TypeOK
<1> QED BY <1>1, <1>2

\* The three kinds of step that the abstract document takes.
LEMMA ReadIsAtomic ==
  ASSUME IInv, Single, ~clobbered, NEW p \in Requests, GetHit(p) \/ ReadFile(p)
  PROVE  Whole!Next
<1> USE DEF IInv, NoDoc
<1>1. PICK v : Hold(p, v) /\ (v = disk \/ (v = cache /\ cache # {}))
  BY DEF GetHit, ReadFile
<1>2. acked \subseteq v /\ v \subseteq Content
  BY <1>1 DEF Clean, Single, Content
<1>3. UNCHANGED <<Content, acked, clobbered>>
  BY DEF GetHit, ReadFile, Content
<1> QED BY <1>1, <1>2, <1>3 DEF Hold, Whole!Next, Whole!Read

LEMMA ChangeIsAtomic ==
  ASSUME Single, NEW p \in Requests, NotYet(p),
         cache' = Content \cup {p}, Hold(p, cache'), UNCHANGED <<disk, acked, clobbered>>
  PROVE  Whole!Next
<1>1. Content' = cache' /\ p \notin Content
  BY DEF Content, Single, NoDoc
<1> QED BY <1>1 DEF Hold, Whole!Next, Whole!Change

LEMMA StepIsAtomic ==
  ASSUME IInv, Single, Clean, clobbered = FALSE, clobbered' = FALSE, op' = op, NEW p \in Requests, Step(p)
  PROVE  [Whole!Next]_<<Content, acked, doc, clobbered>>
<1> USE DEF IInv, NoDoc
<1> DEFINE Still == UNCHANGED <<Content, acked, doc, clobbered>>
<1>1. CASE GetHit(p) \/ ReadFile(p)
  BY <1>1, ReadIsAtomic
<1>2. CASE GetMiss(p) \/ Answer(p) \/ Enqueue(p) \/ WriteFails(p)
  <2>1. Still
    BY <1>2 DEF GetMiss, Answer, Enqueue, WriteFails, Content
  <2> QED BY <2>1
<1>3. CASE Fill(p)
  <2>1. Still
    BY <1>3 DEF Fill, Content, Shape
  <2> QED BY <2>1
<1>4. CASE Create(p)
  <2>1. Content = {} /\ NotYet(p)
    BY <1>4 DEF Create, Content, NotYet
  <2>2. cache' = Content \cup {p} /\ Hold(p, cache') /\ UNCHANGED <<disk, acked, clobbered>>
    BY <1>4, <2>1 DEF Create
  <2> QED BY <2>1, <2>2, ChangeIsAtomic
<1>5. CASE Acquire(p)
  <2>1. CASE op[p] # "create" /\ cache # {}
    <3>1. cache = Content /\ NotYet(p)
      BY <1>5, <2>1 DEF Acquire, Content, NotYet
    <3>2. cache' = Content \cup {p} /\ Hold(p, cache') /\ UNCHANGED <<disk, acked, clobbered>>
      BY <1>5, <2>1, <3>1 DEF Acquire, Draft
    <3> QED BY <3>1, <3>2, ChangeIsAtomic
  <2>2. CASE ~(op[p] # "create" /\ cache # {})
    <3>1. Still
      BY <1>5, <2>2 DEF Acquire, Content
    <3> QED BY <3>1
  <2> QED BY <2>1, <2>2
<1>6. CASE DraftFromFile(p)
  <2>1. CASE doc[p] # {}
    <3>1. doc[p] = Content /\ NotYet(p)
      BY <1>6, <2>1 DEF DraftFromFile, Content, NotYet, Single
    <3>2. cache' = Content \cup {p} /\ Hold(p, cache') /\ UNCHANGED <<disk, acked, clobbered>>
      BY <1>6, <2>1, <3>1 DEF DraftFromFile, Draft
    <3> QED BY <3>1, <3>2, ChangeIsAtomic
  <2>2. CASE doc[p] = {}
    <3>1. Still
      BY <1>6, <2>2 DEF DraftFromFile, Content
    <3> QED BY <3>1
  <2> QED BY <2>1, <2>2
<1>7. CASE Write(p)
  <2>1. p \in doc[p] /\ cache # {} /\ doc[p] \subseteq cache
    BY <1>7 DEF Write, Shape, Clean
  <2>2. UNCHANGED <<Content, doc, clobbered>> /\ p \in Content /\ acked' = acked \cup {p}
    BY <1>7, <2>1 DEF Write, Content
  <2> QED BY <2>1, <2>2 DEF Whole!Next, Whole!Acknowledge
<1> QED BY <1>1, <1>2, <1>3, <1>4, <1>5, <1>6, <1>7 DEF Step

LEMMA CrashIsAtomic == ASSUME IInv, Single, ~clobbered, Crash PROVE Whole!Next
<1>1. acked \subseteq Content' /\ Content' \subseteq Content /\ UNCHANGED <<acked, doc, clobbered>>
  BY DEF IInv, Crash, Content, NoDoc, Clean, Single
<1> QED BY <1>1 DEF Whole!Next, Whole!Restart

\* Cache, file and lock (conversationStore.js, userStore.js, atomicJson.js) implement one
\* document that is read and changed in one step each: for any requests, crashes and
\* failures, until a stale fill, a second creation or an expired lock clobbers something.
THEOREM StoreIsAtomic == Spec => IsAtomicDocument
<1>1. Init => Single /\ Whole!Init
  <2>1. Init => Whole!Init
    BY StoreAssumption DEF Init, Whole!Init, Content, NoDoc
  <2> QED BY <2>1, InitSingle
<1>2. IInv /\ IInv' /\ Single /\ [Next]_vars =>
        Single' /\ [Whole!Next]_<<Content, acked, doc, clobbered>>
  <2> SUFFICES ASSUME IInv, IInv', Single, [Next]_vars
               PROVE  Single' /\ [Whole!Next]_<<Content, acked, doc, clobbered>>
    OBVIOUS
  <2>1. CASE UNCHANGED vars
    BY <2>1 DEF vars, Single, NotYet, Content
  <2>2. ASSUME NEW p \in Requests, Step(p), op' = op
        PROVE  Single' /\ [Whole!Next]_<<Content, acked, doc, clobbered>>
    <3>1. Single'
      BY <2>2, ReadingSingle, WritingSingle DEF Step
    <3>2. CASE clobbered'
      BY <3>1, <3>2 DEF Whole!Next, IInv, TypeOK
    <3>3. CASE ~clobbered'
      BY <2>2, <3>1, <3>3, OnceClobbered, StepIsAtomic DEF IInv
    <3> QED BY <3>1, <3>2, <3>3
  <2>3. CASE (LockExpires \/ Crash) /\ UNCHANGED op
    <3>1. Single'
      BY <2>3, OtherSingle
    <3>2. Whole!Next
      <4>1. CASE clobbered'
        BY <4>1 DEF Whole!Next, IInv, TypeOK
      <4>2. CASE ~clobbered'
        <5>1. Crash /\ ~clobbered
          BY <2>3, <4>2 DEF LockExpires, Crash
        <5> QED BY <5>1, CrashIsAtomic
      <4> QED BY <4>1, <4>2
    <3> QED BY <3>1, <3>2
  <2> QED BY <2>1, <2>2, <2>3 DEF Next, Step
<1> QED BY <1>1, <1>2, Invariance, PTL DEF Spec, IsAtomicDocument, Whole!Spec

(***************************************************************************)
(* Membership, which is kept twice                                         *)
(***************************************************************************)
RequestType ==
    [op : RouteKinds \cup {"none"}, by : Users \cup {Nobody}, about : SUBSET Users,
     pc : {"idle", "new", "lists", "push", "answer", "done"}, lists : SUBSET Users,
     fails : BOOLEAN, doc : Documents \cup {Nobody}, at : Nat]

ServerOK ==
    /\ conv \in Documents \cup {Nobody} /\ listed \in SUBSET Users /\ torn \in SUBSET Users
    /\ req \in [RequestIds -> RequestType]
    /\ now \in Nat /\ changed \in Nat

\* Before there is a conversation nothing is about it but its creation.
Unmade == conv = Nobody =>
    /\ listed = {}
    /\ \A r \in RequestIds : req[r].pc \in {"idle", "new", "done"}
    /\ \A r \in RequestIds : req[r].pc = "new" => req[r].op = "create"

\* A request is somebody's, and only a group's members come and go.
Sensible == \A r \in RequestIds :
    /\ req[r].pc \in {"new", "lists"} => req[r].op # "none"
    /\ req[r].pc = "new" => req[r].by \in Users
    /\ req[r].pc = "new" /\ req[r].op \in {"add", "remove"} => kind = "group"

\* What a request is still to do to a list is what the document says, unless
\* another request was about the same user.
Following == \A r \in RequestIds : req[r].pc = "lists" =>
    \A u \in req[r].lists \ torn : Joining(r) <=> u \in Owners(conv)

\* A list that differs from the document is still to be written.
Behind == conv # Nobody => \A u \in Users \ torn :
    \/ u \in listed <=> u \in Owners(conv)
    \/ \E r \in RequestIds : req[r].pc = "lists" /\ u \in req[r].lists

MembershipInv == ServerOK /\ Unmade /\ Sensible /\ Following /\ Behind

LEMMA NewDocumentIsOne ==
    ASSUME NEW u \in Users, NEW us \in SUBSET Users
    PROVE  NewDocument(u, us) \in Documents /\ NewDocument(u, us) # Nobody /\ Owners(NewDocument(u, us)) \in SUBSET Users
<1>1. NewDocument(u, us) \in Documents
  BY DEF NewDocument, Documents
<1>2. \A d \in Documents : d # Nobody /\ Owners(d) \in SUBSET Users
  BY ConversationAssumption DEF Documents, Owners
<1> QED BY <1>1, <1>2

LEMMA MembershipInit == ConversationInit => MembershipInv
<1> SUFFICES ASSUME ConversationInit PROVE MembershipInv
  OBVIOUS
<1>1. Idle \in RequestType /\ Idle.pc = "idle"
  BY DEF Idle, RequestType
<1>2. req = [r \in RequestIds |-> Idle] /\ torn = {} /\ now = 0 /\ changed = 0
  BY DEF ConversationInit
<1>3. \A r \in RequestIds : req[r] = Idle
  BY <1>2
<1>4. CASE conv = Nobody /\ listed = {}
  <2>1. ServerOK
    BY <1>1, <1>2, <1>4 DEF ServerOK
  <2> QED BY <1>1, <1>3, <1>4, <2>1 DEF MembershipInv, Unmade, Sensible, Following, Behind
<1>5. CASE \E u \in Users, us \in SUBSET Users : conv = NewDocument(u, us \ {u}) /\ listed = Owners(conv)
  <2>1. conv \in Documents /\ conv # Nobody /\ listed \in SUBSET Users /\ listed = Owners(conv)
    BY <1>5, NewDocumentIsOne
  <2>2. ServerOK
    BY <1>1, <1>2, <2>1 DEF ServerOK
  <2> QED BY <1>1, <1>3, <2>1, <2>2 DEF MembershipInv, Unmade, Sensible, Following, Behind
<1> QED BY <1>4, <1>5 DEF ConversationInit, Exists

\* What a request's step leaves of the others.
LEMMA ReqStep ==
    ASSUME ServerOK, NEW r \in RequestIds, NEW q \in RequestType, req' = [req EXCEPT ![r] = q]
    PROVE  req' \in [RequestIds -> RequestType] /\ req'[r] = q /\ \A s \in RequestIds \ {r} : req'[s] = req[s]
BY DEF ServerOK

LEMMA AskMembership == ASSUME MembershipInv, NEW r \in RequestIds, Ask(r), UNCHANGED kind PROVE MembershipInv'
<1>1. PICK o \in RouteKinds, u \in Users, us \in SUBSET Users :
        Allowed(o, u, us) /\ req' = [req EXCEPT ![r] = [@ EXCEPT !.op = o, !.by = u, !.about = us, !.pc = "new"]]
  BY DEF Ask
<1>2. PICK q : q = [req[r] EXCEPT !.op = o, !.by = u, !.about = us, !.pc = "new"]
  OBVIOUS
<1>3. req[r] \in RequestType /\ ServerOK /\ UNCHANGED <<conv, listed, torn, now, changed>> /\ req[r].pc = "idle"
  BY DEF MembershipInv, ServerOK, Ask
<1>4. q \in RequestType /\ q.op = o /\ q.by = u /\ q.about = us /\ q.pc = "new"
  BY <1>2, <1>3 DEF RequestType
<1>5. req' \in [RequestIds -> RequestType] /\ req'[r] = q /\ \A s \in RequestIds \ {r} : req'[s] = req[s]
  <2>1. req' = [req EXCEPT ![r] = q]
    BY <1>1, <1>2
  <2> QED BY <1>3, <1>4, <2>1, ReqStep
<1>6. ServerOK'
  BY <1>3, <1>5 DEF ServerOK
<1>7. Unmade'
  BY <1>1, <1>3, <1>4, <1>5 DEF MembershipInv, Unmade, Allowed
<1>8. Sensible'
  BY <1>1, <1>3, <1>4, <1>5 DEF MembershipInv, Sensible, Allowed, RouteKinds
<1>9. Following'
  <2> SUFFICES ASSUME NEW s \in RequestIds, req'[s].pc = "lists", NEW v \in req'[s].lists \ torn'
               PROVE Joining(s)' <=> v \in Owners(conv)'
    BY DEF Following
  <2>1. s # r /\ req'[s] = req[s]
    BY <1>4, <1>5
  <2> QED BY <1>3, <2>1 DEF MembershipInv, Following, Joining, Owners
<1>10. Behind'
  <2> SUFFICES ASSUME conv # Nobody, NEW v \in Users \ torn
               PROVE  (v \in listed <=> v \in Owners(conv)') \/ \E s \in RequestIds : req'[s].pc = "lists" /\ v \in req'[s].lists
    BY <1>3 DEF Behind
  <2>1. Owners(conv)' = Owners(conv)
    BY <1>3 DEF Owners
  <2>2. (v \in listed <=> v \in Owners(conv)) \/ \E s \in RequestIds : req[s].pc = "lists" /\ v \in req[s].lists
    BY DEF MembershipInv, Behind
  <2> QED BY <1>3, <1>5, <2>1, <2>2
<1> QED BY <1>6, <1>7, <1>8, <1>9, <1>10 DEF MembershipInv


\* A request leaves its lists behind.
LEMMA RequestGoesOn ==
    ASSUME MembershipInv, NEW r \in RequestIds, NEW q \in RequestType, req' = [req EXCEPT ![r] = q],
           q.pc \in {"push", "answer", "done"}, conv # Nobody,
           req[r].pc = "lists" => req[r].lists = {}, UNCHANGED <<kind, conv, listed, torn, now, changed>>
    PROVE  MembershipInv'
<1>1. ServerOK
  BY DEF MembershipInv
<1>2. req' \in [RequestIds -> RequestType] /\ req'[r] = q /\ \A s \in RequestIds \ {r} : req'[s] = req[s]
  BY <1>1, ReqStep
<1>3. ServerOK' /\ Unmade'
  BY <1>1, <1>2 DEF ServerOK, Unmade
<1>4. Sensible'
  BY <1>1, <1>2 DEF MembershipInv, Sensible
<1>5. Following'
  <2> SUFFICES ASSUME NEW s \in RequestIds, req'[s].pc = "lists", NEW v \in req'[s].lists \ torn'
               PROVE Joining(s)' <=> v \in Owners(conv)'
    BY DEF Following
  <2>1. s # r /\ req'[s] = req[s]
    BY <1>2
  <2> QED BY <2>1 DEF MembershipInv, Following, Joining, Owners
<1>6. Behind'
  <2> SUFFICES ASSUME NEW v \in Users \ torn
               PROVE  (v \in listed <=> v \in Owners(conv)') \/ \E s \in RequestIds : req'[s].pc = "lists" /\ v \in req'[s].lists
    BY DEF Behind
  <2>1. Owners(conv)' = Owners(conv)
    BY DEF Owners
  <2>2. (v \in listed <=> v \in Owners(conv)) \/ \E s \in RequestIds : req[s].pc = "lists" /\ v \in req[s].lists
    BY DEF MembershipInv, Behind
  <2> QED BY <1>2, <2>1, <2>2
<1> QED BY <1>3, <1>4, <1>5, <1>6 DEF MembershipInv

LEMMA OverIsOne == ASSUME NEW q \in RequestType PROVE Over(q) \in RequestType /\ Over(q).pc = "done" /\ Over(q).lists = {} /\ Over(q).at = 0
<1>1. Over(q) = [Idle EXCEPT !.pc = "done", !.op = q.op]
  BY DEF Over
<1>2. Over(q) = [op |-> q.op, by |-> Nobody, about |-> {}, pc |-> "done",
                 lists |-> {}, fails |-> FALSE, doc |-> Nobody, at |-> 0]
  BY <1>1 DEF Idle
<1> QED BY <1>2 DEF RequestType

LEMMA PushMembership == ASSUME MembershipInv, NEW r \in RequestIds, Push(r), UNCHANGED kind PROVE MembershipInv'
<1>1. /\ req[r].pc = "push" \/ (req[r].pc = "lists" /\ req[r].lists = {})
      /\ UNCHANGED <<conv, listed, torn, now, changed>>
      /\ req' = [req EXCEPT ![r] = IF @.by = Me THEN [@ EXCEPT !.pc = "answer"] ELSE Over(@)]
  BY DEF Push
<1>2. req[r] \in RequestType /\ conv # Nobody
  BY <1>1 DEF MembershipInv, ServerOK, Unmade
<1>3. PICK q : q = IF req[r].by = Me THEN [req[r] EXCEPT !.pc = "answer"] ELSE Over(req[r])
  OBVIOUS
<1>4. q \in RequestType /\ q.pc \in {"answer", "done"}
  BY <1>2, <1>3, OverIsOne DEF RequestType
<1>5. req' = [req EXCEPT ![r] = q]
  BY <1>1, <1>3
<1> QED BY <1>1, <1>2, <1>4, <1>5, RequestGoesOn

LEMMA FailMembership == ASSUME MembershipInv, NEW r \in RequestIds, Fail(r), UNCHANGED kind PROVE MembershipInv'
<1>1. /\ req[r].pc = "lists" /\ req[r].lists = {}
      /\ UNCHANGED <<conv, listed, torn, now, changed>> /\ req' = [req EXCEPT ![r] = Over(@)]
  BY DEF Fail
<1>2. req[r] \in RequestType /\ conv # Nobody
  BY <1>1 DEF MembershipInv, ServerOK, Unmade
<1>3. PICK q : q = Over(req[r])
  OBVIOUS
<1>4. q \in RequestType /\ q.pc \in {"answer", "done"} /\ req' = [req EXCEPT ![r] = q]
  BY <1>1, <1>2, <1>3, OverIsOne
<1> QED BY <1>1, <1>2, <1>4, RequestGoesOn

LEMMA OwnAnswerMembership == ASSUME MembershipInv, NEW r \in RequestIds, OwnAnswer(r), UNCHANGED kind PROVE MembershipInv'
<1>1. /\ req[r].pc = "answer"
      /\ UNCHANGED <<conv, listed, torn, now, changed>> /\ req' = [req EXCEPT ![r] = Over(@)]
  BY DEF OwnAnswer
<1>2. req[r] \in RequestType /\ conv # Nobody
  BY <1>1 DEF MembershipInv, ServerOK, Unmade
<1>3. PICK q : q = Over(req[r])
  OBVIOUS
<1>4. q \in RequestType /\ q.pc \in {"answer", "done"} /\ req' = [req EXCEPT ![r] = q]
  BY <1>1, <1>2, <1>3, OverIsOne
<1> QED BY <1>1, <1>2, <1>4, RequestGoesOn

\* One list is written, or will not be.
LEMMA ListMembership ==
    ASSUME MembershipInv, NEW r \in RequestIds, NEW gone \in SUBSET Users, NEW q \in RequestType, req[r].pc = "lists",
           req' = [req EXCEPT ![r] = q], q.pc = "lists", q.op = req[r].op, q.lists = req[r].lists \ gone,
           UNCHANGED <<kind, conv>>, now' \in Nat, changed' \in Nat, listed' \in SUBSET Users, torn' \in SUBSET Users,
           torn \subseteq torn',
           \A v \in Users \ gone : v \in listed' <=> v \in listed,
           \A v \in gone \ torn' : v \in req[r].lists /\ (v \in listed' <=> Joining(r))
    PROVE  MembershipInv'
<1>1. ServerOK /\ conv # Nobody
  BY DEF MembershipInv, Unmade
<1>2. req' \in [RequestIds -> RequestType] /\ req'[r] = q /\ \A s \in RequestIds \ {r} : req'[s] = req[s]
  BY <1>1, ReqStep
<1>3. ServerOK' /\ Unmade'
  BY <1>1, <1>2 DEF ServerOK, Unmade
<1>4. Sensible'
  BY <1>1, <1>2 DEF MembershipInv, Sensible
<1>5. Owners(conv)' = Owners(conv)
  BY DEF Owners
<1>6. Following'
  <2> SUFFICES ASSUME NEW s \in RequestIds, req'[s].pc = "lists", NEW v \in req'[s].lists \ torn'
               PROVE Joining(s)' <=> v \in Owners(conv)'
    BY DEF Following
  <2>1. req[s].pc = "lists" /\ v \in req[s].lists \ torn /\ req'[s].op = req[s].op
    BY <1>2
  <2> QED BY <1>5, <2>1 DEF MembershipInv, Following, Joining
<1>7. Behind'
  <2> SUFFICES ASSUME NEW v \in Users \ torn'
               PROVE  (v \in listed' <=> v \in Owners(conv)') \/ \E s \in RequestIds : req'[s].pc = "lists" /\ v \in req'[s].lists
    BY DEF Behind
  <2>1. CASE v \in gone
    <3>1. Joining(r) <=> v \in Owners(conv)
      BY <2>1 DEF MembershipInv, Following
    <3> QED BY <1>5, <2>1, <3>1
  <2>2. CASE v \notin gone
    <3>1. (v \in listed <=> v \in Owners(conv)) \/ \E s \in RequestIds : req[s].pc = "lists" /\ v \in req[s].lists
      BY <1>1 DEF MembershipInv, Behind
    <3>2. ASSUME NEW s \in RequestIds, req[s].pc = "lists", v \in req[s].lists
          PROVE  req'[s].pc = "lists" /\ v \in req'[s].lists
      BY <1>2, <2>2, <3>2
    <3> QED BY <1>5, <2>2, <3>1, <3>2
  <2> QED BY <2>1, <2>2
<1> QED BY <1>3, <1>4, <1>6, <1>7 DEF MembershipInv

LEMMA ListUpdateMembership ==
    ASSUME MembershipInv, NEW r \in RequestIds, NEW u \in Users, ListUpdate(r, u), UNCHANGED kind PROVE MembershipInv'
<1>1. /\ req[r].pc = "lists" /\ u \in req[r].lists /\ UNCHANGED <<conv, torn>>
      /\ listed' = IF Joining(r) THEN listed \cup {u} ELSE listed \ {u}
      /\ IF u = Me THEN now' = now + 1 /\ changed' = now' ELSE UNCHANGED <<now, changed>>
      /\ req' = [req EXCEPT ![r] = [req[r] EXCEPT !.lists = req[r].lists \ {u},
                                                  !.at = IF u = Me /\ ~Joining(r) THEN now' ELSE req[r].at]]
  BY DEF ListUpdate, Lists, Turn
<1>2. req[r] \in RequestType /\ now' \in Nat /\ changed' \in Nat /\ listed \in SUBSET Users /\ torn' \in SUBSET Users
  BY <1>1 DEF MembershipInv, ServerOK
<1>3. PICK q : q = [req[r] EXCEPT !.lists = req[r].lists \ {u}, !.at = IF u = Me /\ ~Joining(r) THEN now' ELSE req[r].at]
  OBVIOUS
<1>4. q \in RequestType /\ q.pc = "lists" /\ q.op = req[r].op /\ q.lists = req[r].lists \ {u}
  <2>1. PICK t \in Nat : t = IF u = Me /\ ~Joining(r) THEN now' ELSE req[r].at
    BY <1>2 DEF RequestType
  <2>2. PICK w \in RequestType : w = req[r]
    BY <1>2
  <2>3. PICK n \in SUBSET Users : n = req[r].lists \ {u}
    BY <1>2 DEF RequestType
  <2>4. q = [w EXCEPT !.lists = n, !.at = t]
    BY <1>3, <2>1, <2>2, <2>3
  <2>5. q \in RequestType /\ q.pc = w.pc /\ q.op = w.op /\ q.lists = n
    BY <2>1, <2>2, <2>3, <2>4 DEF RequestType
  <2> QED BY <1>1, <2>2, <2>3, <2>5
<1>5. req' = [req EXCEPT ![r] = q]
  BY <1>1, <1>3
<1>6. listed' \in SUBSET Users /\ (\A v \in Users \ {u} : v \in listed' <=> v \in listed) /\ (u \in listed' <=> Joining(r))
  <2>1. CASE Joining(r)
    BY <1>1, <1>2, <2>1
  <2>2. CASE ~Joining(r)
    BY <1>1, <1>2, <2>2
  <2> QED BY <2>1, <2>2 DEF Joining
<1>7. \A v \in {u} \ torn' : v \in req[r].lists /\ (v \in listed' <=> Joining(r))
  BY <1>1, <1>6
<1>8. \A v \in Users \ {u} : v \in listed' <=> v \in listed
  BY <1>6
<1>9. {u} \in SUBSET Users /\ torn \subseteq torn' /\ listed' \in SUBSET Users
  BY <1>1, <1>6
<1> QED BY <1>1, <1>2, <1>4, <1>5, <1>7, <1>8, <1>9, ListMembership

\* A failing write, of a list or of the document before all of them, gives up lists that
\* the request had still to write, and touches no other list.
GivesUp(r, us) ==
    /\ req[r].pc = "lists" /\ us \subseteq req[r].lists /\ Abandons(r, us)
    /\ listed' \in SUBSET Users /\ \A v \in Users \ us : v \in listed' <=> v \in listed

LEMMA ListFailsGivesUp ==
    ASSUME MembershipInv, NEW r \in RequestIds, NEW u \in Users, ListFails(r, u)
    PROVE  \E us \in SUBSET Users : GivesUp(r, us)
<1>1. PICK gone : gone = IF kind = "dm" THEN req[r].lists ELSE {u}
  OBVIOUS
<1>2. /\ req[r].pc = "lists" /\ u \in req[r].lists /\ Abandons(r, gone)
      /\ listed' \in {listed, IF Joining(r) THEN listed \cup {u} ELSE listed \ {u}}
  BY <1>1 DEF ListFails, Turn
<1>3. req[r] \in RequestType /\ listed \in SUBSET Users
  BY DEF MembershipInv, ServerOK
<1>4. gone \in SUBSET Users /\ gone \subseteq req[r].lists /\ u \in gone
  BY <1>1, <1>2, <1>3 DEF RequestType
<1>5. listed' \in SUBSET Users /\ \A v \in Users \ gone : v \in listed' <=> v \in listed
  BY <1>2, <1>3, <1>4
<1> QED BY <1>2, <1>4, <1>5 DEF GivesUp

LEMMA DocumentFailsGivesUp ==
    ASSUME MembershipInv, NEW r \in RequestIds, DocumentFails(r)
    PROVE  \E us \in SUBSET Users : GivesUp(r, us)
<1>1. req[r] \in RequestType /\ listed \in SUBSET Users
  BY DEF MembershipInv, ServerOK
<1>2. req[r].lists \in SUBSET Users
  BY <1>1 DEF RequestType
<1> QED BY <1>1, <1>2 DEF DocumentFails, Writing, GivesUp

LEMMA GivesUpMembership ==
    ASSUME MembershipInv, NEW r \in RequestIds, NEW gone \in SUBSET Users, GivesUp(r, gone), UNCHANGED kind
    PROVE  MembershipInv'
<1>2. /\ req[r].pc = "lists" /\ gone \subseteq req[r].lists /\ UNCHANGED <<conv, now, changed>>
      /\ listed' \in SUBSET Users /\ \A v \in Users \ gone : v \in listed' <=> v \in listed
      /\ torn' = torn \cup gone
      /\ req' = [req EXCEPT ![r] = [req[r] EXCEPT !.lists = req[r].lists \ gone, !.fails = TRUE]]
  BY DEF GivesUp, Abandons
<1>3. /\ req[r] \in RequestType /\ now' \in Nat /\ changed' \in Nat /\ torn' \in SUBSET Users
  BY <1>2 DEF MembershipInv, ServerOK
<1>4. PICK q : q = [req[r] EXCEPT !.lists = req[r].lists \ gone, !.fails = TRUE]
  OBVIOUS
<1>5. q \in RequestType /\ q.pc = "lists" /\ q.op = req[r].op /\ q.lists = req[r].lists \ gone
  <2>1. PICK w \in RequestType : w = req[r]
    BY <1>3
  <2>2. PICK n \in SUBSET Users : n = req[r].lists \ gone
    BY <1>3 DEF RequestType
  <2>3. q = [w EXCEPT !.lists = n, !.fails = TRUE]
    BY <1>4, <2>1, <2>2
  <2>4. q \in RequestType /\ q.pc = w.pc /\ q.op = w.op /\ q.lists = n
    BY <2>1, <2>2, <2>3 DEF RequestType
  <2> QED BY <1>2, <2>1, <2>2, <2>4
<1>6. req' = [req EXCEPT ![r] = q]
  BY <1>2, <1>4
<1>7. \A v \in gone \ torn' : FALSE
  BY <1>2
<1> QED BY <1>2, <1>3, <1>5, <1>6, <1>7, ListMembership


\* The document changes, and whose lists are to follow differ from it until they do.
LEMMA UpdateMembership ==
    ASSUME MembershipInv, NEW r \in RequestIds, NEW d \in Documents, NEW lists \in SUBSET Users,
           conv # Nobody, req[r].pc = "new", Update(r, d, lists), UNCHANGED <<kind, listed, changed>>,
           \A v \in lists : Joining(r) <=> v \in Owners(d),
           \A v \in Users \ lists : v \in Owners(d) <=> v \in Owners(conv)
    PROVE  MembershipInv'
<1>1. /\ ServerOK /\ req[r] \in RequestType /\ d # Nobody
  BY ConversationAssumption DEF MembershipInv, ServerOK
<1>2. /\ conv' = d /\ now' = now + 1
      /\ torn' = IF Crosses(r, lists) THEN torn \cup lists ELSE torn
  BY DEF Update
<1>3. PICK q : q = [req[r] EXCEPT !.pc = "lists", !.lists = lists, !.about = lists, !.doc = d, !.at = now']
  OBVIOUS
<1>4. q \in RequestType /\ q.pc = "lists" /\ q.lists = lists /\ q.op = req[r].op
  <2>1. PICK w \in RequestType : w = req[r]
    BY <1>1
  <2>2. PICK t \in Nat : t = now'
    BY <1>1, <1>2 DEF ServerOK
  <2>3. q = [w EXCEPT !.pc = "lists", !.lists = lists, !.about = lists, !.doc = d, !.at = t]
    BY <1>3, <2>1, <2>2
  <2> QED BY <2>1, <2>2, <2>3 DEF RequestType
<1>5. req' = [req EXCEPT ![r] = q]
  BY <1>3 DEF Update
<1>6. req' \in [RequestIds -> RequestType] /\ req'[r] = q /\ \A s \in RequestIds \ {r} : req'[s] = req[s]
  BY <1>1, <1>4, <1>5, ReqStep
<1>7. torn' \in SUBSET Users /\ torn \subseteq torn' /\ (Crosses(r, lists) => lists \subseteq torn')
  BY <1>1, <1>2 DEF ServerOK
<1>8. ServerOK' /\ Unmade'
  BY <1>1, <1>2, <1>6, <1>7 DEF ServerOK, Unmade
<1>9. Sensible'
  BY <1>4, <1>6 DEF MembershipInv, Sensible
<1>10. Owners(conv)' = Owners(d)
  BY <1>2 DEF Owners
<1>11. Following'
  <2> SUFFICES ASSUME NEW s \in RequestIds, req'[s].pc = "lists", NEW v \in req'[s].lists \ torn'
               PROVE Joining(s)' <=> v \in Owners(conv)'
    BY DEF Following
  <2>1. CASE s = r
    BY <1>4, <1>6, <1>10, <2>1 DEF Joining
  <2>2. CASE s # r
    <3>1. req'[s] = req[s] /\ v \in req[s].lists \ torn /\ v \in Users
      BY <1>1, <1>6, <1>7, <2>2 DEF ServerOK, RequestType
    <3>2. Joining(s) <=> v \in Owners(conv)
      BY <3>1 DEF MembershipInv, Following
    <3>3. CASE v \in lists
      <4>1. ~Crosses(r, lists)
        BY <1>7, <3>3
      <4>2. Joining(s) = Joining(r)
        BY <2>2, <3>1, <3>3, <4>1 DEF Crosses
      <4> QED BY <1>10, <3>1, <3>3, <4>2 DEF Joining
    <3>4. CASE v \notin lists
      BY <1>10, <3>1, <3>2, <3>4 DEF Joining
    <3> QED BY <3>3, <3>4
  <2> QED BY <2>1, <2>2
<1>12. Behind'
  <2> SUFFICES ASSUME NEW v \in Users \ torn'
               PROVE  (v \in listed' <=> v \in Owners(conv)') \/ \E s \in RequestIds : req'[s].pc = "lists" /\ v \in req'[s].lists
    BY DEF Behind
  <2>1. CASE v \in lists
    BY <1>4, <1>6, <2>1
  <2>2. CASE v \notin lists
    <3>1. (v \in listed <=> v \in Owners(conv)) \/ \E s \in RequestIds : req[s].pc = "lists" /\ v \in req[s].lists
      BY <1>7 DEF MembershipInv, Behind
    <3>2. ASSUME NEW s \in RequestIds, req[s].pc = "lists", v \in req[s].lists
          PROVE  req'[s].pc = "lists" /\ v \in req'[s].lists
      BY <1>6, <3>2
    <3> QED BY <1>10, <2>2, <3>1, <3>2
  <2> QED BY <2>1, <2>2
<1> QED BY <1>8, <1>9, <1>11, <1>12 DEF MembershipInv

LEMMA CreateMembership ==
    ASSUME MembershipInv, NEW r \in RequestIds, req[r].pc = "new", create(r, req[r].by, req[r].about),
           UNCHANGED <<kind, listed, changed, torn>>
    PROVE  MembershipInv'
<1>1. ServerOK /\ req[r] \in RequestType /\ req[r].by \in Users /\ req[r].about \in SUBSET Users
  BY DEF MembershipInv, ServerOK, Sensible, RequestType
<1>2. CASE conv # Nobody
  <2>1. UNCHANGED <<conv, now>> /\ req' = [req EXCEPT ![r] = [@ EXCEPT !.pc = "push", !.doc = conv, !.at = now]]
    BY <1>2 DEF create
  <2>2. PICK w \in RequestType, d \in Documents, t \in Nat : w = req[r] /\ d = conv /\ t = now
    BY <1>1, <1>2 DEF ServerOK
  <2>3. PICK q : q = [w EXCEPT !.pc = "push", !.doc = d, !.at = t]
    OBVIOUS
  <2>4. q \in RequestType /\ q.pc = "push" /\ req' = [req EXCEPT ![r] = q]
    BY <2>1, <2>2, <2>3 DEF RequestType
  <2> QED BY <1>2, <2>1, <2>4, RequestGoesOn
<1>3. CASE conv = Nobody
  <2>1. PICK d \in Documents, n \in SUBSET Users, a \in SUBSET Users :
          d = NewDocument(req[r].by, req[r].about) /\ d # Nobody /\ n = Owners(d) /\ a = Owners(d) \ {req[r].by}
    <3>1. NewDocument(req[r].by, req[r].about) \in Documents /\ NewDocument(req[r].by, req[r].about) # Nobody
          /\ Owners(NewDocument(req[r].by, req[r].about)) \in SUBSET Users
      BY <1>1, NewDocumentIsOne
    <3> QED BY <3>1
  <2>2. /\ conv' = d /\ now' = now + 1
        /\ req' = [req EXCEPT ![r] = [@ EXCEPT !.pc = "lists", !.lists = n, !.about = a, !.doc = d, !.at = now']]
    BY <1>3, <2>1 DEF create
  <2>3. PICK w \in RequestType, t \in Nat : w = req[r] /\ t = now'
    BY <1>1, <2>2 DEF ServerOK
  <2>4. PICK q : q = [w EXCEPT !.pc = "lists", !.lists = n, !.about = a, !.doc = d, !.at = t]
    OBVIOUS
  <2>5. q \in RequestType /\ q.pc = "lists" /\ q.lists = n /\ q.op = w.op
    BY <2>3, <2>4 DEF RequestType
  <2>6. req' = [req EXCEPT ![r] = q]
    BY <2>2, <2>3, <2>4
  <2>7. req' \in [RequestIds -> RequestType] /\ req'[r] = q /\ \A s \in RequestIds \ {r} : req'[s] = req[s]
    BY <1>1, <2>5, <2>6, ReqStep
  <2>8. ServerOK' /\ Unmade'
    BY <1>1, <2>1, <2>2, <2>7 DEF ServerOK, Unmade
  <2>9. Sensible'
    BY <2>3, <2>5, <2>7 DEF MembershipInv, Sensible
  <2>10. Owners(conv)' = n
    BY <2>1, <2>2 DEF Owners
  <2>11. listed = {} /\ req[r].op = "create" /\ \A s \in RequestIds : req[s].pc # "lists"
    BY <1>3 DEF MembershipInv, Unmade
  <2>12. Following'
    <3> SUFFICES ASSUME NEW s \in RequestIds, req'[s].pc = "lists", NEW v \in req'[s].lists \ torn'
                 PROVE Joining(s)' <=> v \in Owners(conv)'
      BY DEF Following
    <3>1. s = r
      BY <2>7, <2>11
    <3> QED BY <2>3, <2>5, <2>7, <2>10, <2>11, <3>1 DEF Joining
  <2>13. Behind'
    <3> SUFFICES ASSUME NEW v \in Users \ torn'
                 PROVE  (v \in listed' <=> v \in Owners(conv)') \/ \E s \in RequestIds : req'[s].pc = "lists" /\ v \in req'[s].lists
      BY DEF Behind
    <3> QED BY <2>5, <2>7, <2>10, <2>11
  <2> QED BY <2>8, <2>9, <2>12, <2>13 DEF MembershipInv
<1> QED BY <1>2, <1>3

LEMMA ChangeMembership == ASSUME MembershipInv, NEW r \in RequestIds, Change(r), UNCHANGED kind PROVE MembershipInv'
<1>1. /\ ServerOK /\ req[r] \in RequestType /\ req[r].pc = "new" /\ UNCHANGED <<listed, changed>>
      /\ req[r].about \in SUBSET Users /\ (conv # Nobody => conv \in Documents)
  BY DEF MembershipInv, ServerOK, RequestType, Change
<1>2. CASE req[r].op = "create" /\ create(r, req[r].by, req[r].about) /\ UNCHANGED torn
  BY <1>1, <1>2, CreateMembership
<1>3. CASE req[r].op = "add" /\ addMembers(r, req[r].about)
  <2>1. conv # Nobody /\ conv \in Documents /\ kind = "group" /\ Joining(r)
    BY <1>1, <1>3 DEF MembershipInv, Unmade, Sensible, Joining
  <2>2. PICK d, l : d = [conv EXCEPT !.members = @ \cup req[r].about] /\ l = req[r].about \ conv.members
    OBVIOUS
  <2>3. d \in Documents /\ d.members = conv.members \cup req[r].about /\ l \in SUBSET Users
    BY <1>1, <2>1, <2>2 DEF Documents
  <2>4. Update(r, d, l)
    BY <1>3, <2>2 DEF addMembers
  <2>5. Owners(d) = d.members /\ Owners(conv) = conv.members
    BY <2>1 DEF Owners
  <2>6. /\ \A v \in l : Joining(r) <=> v \in Owners(d)
        /\ \A v \in Users \ l : v \in Owners(d) <=> v \in Owners(conv)
    BY <2>1, <2>2, <2>3, <2>5 DEF Joining
  <2> QED BY <1>1, <2>1, <2>3, <2>4, <2>6, UpdateMembership
<1>4. CASE req[r].op = "remove" /\ removeMember(r, req[r].about)
  <2>1. conv # Nobody /\ conv \in Documents /\ kind = "group" /\ ~Joining(r)
    BY <1>1, <1>4 DEF MembershipInv, Unmade, Sensible, Joining
  <2>2. PICK d, l : d = [conv EXCEPT !.members = @ \ req[r].about, !.admins = @ \ req[r].about] /\ l = req[r].about
    OBVIOUS
  <2>3. d \in Documents /\ d.members = conv.members \ req[r].about /\ l \in SUBSET Users
    BY <1>1, <2>1, <2>2 DEF Documents
  <2>4. Update(r, d, l)
    BY <1>4, <2>2 DEF removeMember
  <2>5. Owners(d) = d.members /\ Owners(conv) = conv.members
    BY <2>1 DEF Owners
  <2>6. /\ \A v \in l : Joining(r) <=> v \in Owners(d)
        /\ \A v \in Users \ l : v \in Owners(d) <=> v \in Owners(conv)
    BY <2>1, <2>2, <2>3, <2>5 DEF Joining
  <2> QED BY <1>1, <2>1, <2>3, <2>4, <2>6, UpdateMembership
<1>5. CASE req[r].op = "rename" /\ rename(r)
  <2>1. conv # Nobody /\ conv \in Documents
    BY <1>1, <1>5 DEF MembershipInv, Unmade
  <2>2. PICK d : d = [conv EXCEPT !.title = @ + 1]
    OBVIOUS
  <2>3. d \in Documents /\ d.members = conv.members /\ d.admins = conv.admins
    BY <2>1, <2>2 DEF Documents
  <2>4. Update(r, d, {})
    BY <1>5, <2>2 DEF rename
  <2>5. Owners(d) = Owners(conv)
    BY <2>3 DEF Owners
  <2> QED BY <1>1, <2>1, <2>3, <2>4, <2>5, UpdateMembership
<1> QED BY <1>2, <1>3, <1>4, <1>5 DEF Change


LEMMA MembershipStays == ASSUME MembershipInv, UNCHANGED <<kind, serverVars>> PROVE MembershipInv'
BY DEF MembershipInv, ServerOK, Unmade, Sensible, Following, Behind, Joining, Owners, serverVars

LEMMA MembershipStep == ASSUME MembershipInv, [ConversationNext]_conversationVars PROVE MembershipInv'
<1>1. CASE UNCHANGED conversationVars
  BY <1>1, MembershipStays DEF conversationVars
<1>2. CASE ConversationNext
  <2>1. UNCHANGED kind
    BY <1>2 DEF ConversationNext
  <2>2. CASE \E r \in RequestIds : Serves(r)
    BY <2>1, <2>2, AskMembership, ChangeMembership, ListUpdateMembership, GivesUpMembership,
       ListFailsGivesUp, DocumentFailsGivesUp DEF Serves
  <2>3. CASE \E r \in RequestIds : Tells(r)
    BY <2>1, <2>3, PushMembership, FailMembership DEF Tells
  <2>4. CASE \E r \in RequestIds : OwnAnswer(r)
    BY <2>1, <2>4, OwnAnswerMembership
  <2>5. CASE UNCHANGED serverVars
    BY <2>1, <2>5, MembershipStays
  <2>6. CASE Connection
    BY <2>1, <2>6, MembershipStays DEF Connection
  <2> QED BY <1>2, <2>2, <2>3, <2>4, <2>5, <2>6 DEF ConversationNext
<1> QED BY <1>1, <1>2

\* The inductive invariant of membership.
THEOREM MembershipInvariance == ConversationSpec => []MembershipInv
<1>1. ConversationInit => MembershipInv
  BY MembershipInit
<1>2. MembershipInv /\ [ConversationNext]_conversationVars => MembershipInv'
  BY MembershipStep
<1> QED BY <1>1, <1>2, PTL DEF ConversationSpec

\* Whoever is in a conversation has it in the own list, and nobody else, for any users and any
\* requests that cross (conversationService.js), but for users that two of them were about
\* at once or whose list could not be written.
THEOREM MembersHaveIt == ConversationSpec => []ListsAgree
<1>1. MembershipInv => ListsAgree
  <2> SUFFICES ASSUME MembershipInv, Served, conv # Nobody, NEW u \in Users \ torn
               PROVE  u \in listed <=> u \in Owners(conv)
    BY DEF ListsAgree
  <2> QED BY DEF MembershipInv, Behind, Served
<1> QED BY <1>1, MembershipInvariance, PTL

(***************************************************************************)
(* Me's page, which is to show what the lists say                          *)
(***************************************************************************)
\* What the page is to show once the lists are written, and since when: a document that was
\* edited, a list that Me was taken off.
Mine == conv # Nobody /\ isMember(conv, Me)
Truth == IF Mine THEN View(conv) ELSE Nobody
Since(e) == IF Mine THEN e ELSE changed

\* What was said after that is right, while Me is still to be taken off the list at worst.
Rightly(e, says, when) == when >= Since(e) => says = Truth \/ (~Mine /\ Me \in listed)

UnderWay(r) == req[r].pc \in {"lists", "push", "answer"}
Own(r) == UnderWay(r) /\ req[r].by = Me /\ req[r].op # "remove"
Removes(r) == UnderWay(r) /\ req[r].op = "remove" /\ Me \in req[r].about
Denies(a) == a.what = "list" /\ a.stage = "answered" /\ a.says = Nobody

\* A request knows whom it is about; only one who may renames, and Me does not.
RequestsOK ==
    /\ \A r \in RequestIds :
        /\ req[r].pc = "lists" => \A u \in req[r].lists \ req[r].about : u = req[r].by /\ req[r].op = "create"
        /\ req[r].pc = "answer" => req[r].by = Me
        /\ req[r].pc \in {"new", "lists"} /\ req[r].op = "rename" => req[r].about = {}
        /\ req[r].pc = "new" /\ req[r].op = "rename" =>
            kind # "dm" /\ req[r].by # Me /\ (kind = "broadcast" => conv # Nobody /\ req[r].by \in conv.admins)
    /\ kind = "broadcast" /\ conv # Nobody => \E u \in Users : conv.admins = {u}

AskType == [what : {"conversation", "list"}, stage : {"asked", "named", "answered"},
            says : Views \cup {Nobody}, at : Nat, read : Nat, fresh : BOOLEAN]
NewsType == [type : {"added", "updated", "removed"}, at : Nat]

\* An answer was true when it was read, one that names nothing since the list changed.
Timely(a) ==
    /\ a.at <= a.read /\ a.read <= now
    /\ a.stage = "asked" => a.says = Nobody
    /\ a.stage = "named" => a.what = "list" /\ a.at = a.read /\ conv # Nobody
    /\ a.stage = "answered" => IF a.says = Nobody THEN a.what = "list" /\ a.at <= changed ELSE a.at = a.read

\* A list that was read since news was lost is later than one that was not.
Later(a, b) ==
    /\ a.what = "list" /\ a.stage # "asked" /\ ~a.fresh
    /\ b.what = "list" /\ b.stage # "asked" /\ b.fresh
    => a.read <= b.read /\ (Denies(a) /\ Denies(b) => a.at <= b.at)

AsksOK ==
    /\ asks \in Seq(AskType)
    /\ \A a \in Range(asks) : Timely(a)
    /\ \A a, b \in Range(asks) : Later(a, b)
PageOK ==
    /\ AsksOK
    /\ queue \in Seq(NewsType) /\ (~wire => queue = <<>>)
    /\ \A n \in Range(queue) : n.at <= now
    /\ \A r \in RequestIds : req[r].at <= now
    /\ age \in Nat /\ age <= now /\ changed <= now

\* What is said, or will be shown, was right at the time.
SaysRightly(e) ==
    /\ \A a \in Range(asks) :
        /\ a.stage = "answered" => Rightly(e, a.says, a.at)
        /\ a.stage = "named" => Rightly(e, View(conv), a.at)
    /\ \A n \in Range(queue) : n.type = "removed" => Rightly(e, Nobody, n.at)
    /\ \A r \in RequestIds :
        /\ Own(r) /\ isMember(req[r].doc, Me) => Rightly(e, View(req[r].doc), req[r].at)
        /\ Removes(r) => Rightly(e, Nobody, req[r].at)

\* Me's list lags behind the document only until one request has written it.
Lags(e) ==
    /\ e \in Nat /\ e <= now
    /\ Mine /\ Me \notin listed => changed < e
    /\ \A r \in RequestIds : Mine /\ req[r].pc = "lists" /\ Me \in req[r].lists =>
        /\ req[r].at > changed
        /\ \A q \in RequestIds : req[q].pc = "lists" /\ Me \in req[q].lists => q = r

\* What will have the page show what it is to show: a request that is to tell it, news, an
\* answer or a question.
Brings(r, e) ==
    IF Mine THEN \/ UnderWay(r) /\ req[r].pc # "answer" /\ News(r) \in {{"added"}, {"updated"}}
                 \/ Own(r) /\ req[r].at >= e /\ isMember(req[r].doc, Me)
    ELSE Removes(r) /\ ((req[r].pc = "lists" /\ Me \in req[r].lists) \/ req[r].at >= changed)
Announces(n) ==
    IF Mine THEN n.type # "removed" ELSE n.type = "removed" /\ n.at >= changed
Finds(a, e) ==
    \/ a.stage = "asked" /\ (a.what = "list" \/ Mine)
    \/ a.stage = "named" /\ Mine /\ a.at >= e
    \/ a.stage = "answered" /\ a.says = Truth /\ a.at >= Since(e)
Coming(e) ==
    \/ page = "out"
    \/ \E r \in RequestIds : Brings(r, e)
    \/ \E n \in Range(queue) : Announces(n)
    \/ \E a \in Range(asks) : Finds(a, e)

\* A list that was read between the document's edit and the list's.
TooEarly(a, e) == Mine /\ Denies(a) /\ a.read >= e

\* No news was lost that a list will not make up for.
Informed == ~missed \/ \E a \in Range(asks) : a.what = "list" /\ a.fresh /\ a.stage # "asked"

Told(e) == Informed => age >= Since(e) \/ Coming(e) \/ \E a \in Range(asks) : TooEarly(a, e)
Believes(e) == ~missed /\ ~overtaken /\ age >= Since(e) =>
    shown = Truth \/ Coming(e) \/ (Mine /\ \E r \in RequestIds : Own(r))

\* An answer that names nothing although Me has joined is late, or will be put right.
Unnamed(a, e) == a.at < age \/ Coming(e) \/ \E r \in RequestIds : Own(r) /\ req[r].at > a.at
PutRight(e) == \A a \in Range(asks) : Mine /\ Denies(a) /\ (~missed \/ a.fresh) => Unnamed(a, e)

Converging(e) == SaysRightly(e) /\ Lags(e) /\ Told(e) /\ Believes(e) /\ PutRight(e)
ConvergeInv == Me \notin torn => RequestsOK /\ PageOK /\ \E e \in Nat : Converging(e)

LEMMA RangeOfAppend ==
    ASSUME NEW S, NEW s \in Seq(S), NEW x \in S
    PROVE  Append(s, x) \in Seq(S) /\ Range(Append(s, x)) = Range(s) \cup {x}
<1>1. Append(s, x) \in Seq(S) /\ Len(Append(s, x)) = Len(s) + 1
      /\ \A i \in 1..(Len(s) + 1) : Append(s, x)[i] = IF i <= Len(s) THEN s[i] ELSE x
  OBVIOUS
<1>2. DOMAIN s = 1..Len(s) /\ DOMAIN Append(s, x) = 1..(Len(s) + 1) /\ Len(s) \in Nat
  BY <1>1
<1>3. ASSUME NEW y \in Range(Append(s, x)) PROVE y \in Range(s) \cup {x}
  <2>1. PICK i \in 1..(Len(s) + 1) : y = Append(s, x)[i]
    BY <1>2 DEF Range
  <2> QED BY <1>1, <1>2, <2>1 DEF Range
<1>4. ASSUME NEW y \in Range(s) PROVE y \in Range(Append(s, x))
  <2>1. PICK i \in 1..Len(s) : y = s[i]
    BY <1>2 DEF Range
  <2>2. i \in 1..(Len(s) + 1) /\ Append(s, x)[i] = y
    BY <1>1, <1>2, <2>1
  <2> QED BY <1>2, <2>2 DEF Range
<1>5. x \in Range(Append(s, x))
  <2>1. Len(s) + 1 \in 1..(Len(s) + 1) /\ Append(s, x)[Len(s) + 1] = x
    BY <1>1, <1>2
  <2> QED BY <1>2, <2>1 DEF Range
<1> QED BY <1>1, <1>3, <1>4, <1>5

LEMMA RangeOfTail ==
    ASSUME NEW S, NEW s \in Seq(S), s # <<>>
    PROVE  /\ Tail(s) \in Seq(S) /\ Head(s) \in Range(s)
           /\ Range(Tail(s)) \subseteq Range(s) /\ Range(s) \subseteq Range(Tail(s)) \cup {Head(s)}
<1>1. Len(s) \in Nat \ {0} /\ DOMAIN s = 1..Len(s) /\ Head(s) = s[1]
  OBVIOUS
<1>2. Tail(s) \in Seq(S) /\ Len(Tail(s)) = Len(s) - 1 /\ \A i \in 1..(Len(s) - 1) : Tail(s)[i] = s[i + 1]
  BY <1>1
<1>3. DOMAIN Tail(s) = 1..(Len(s) - 1)
  BY <1>1, <1>2
<1>4. Head(s) \in Range(s)
  BY <1>1 DEF Range
<1>5. ASSUME NEW y \in Range(Tail(s)) PROVE y \in Range(s)
  <2>1. PICK i \in 1..(Len(s) - 1) : y = Tail(s)[i]
    BY <1>3 DEF Range
  <2>2. i + 1 \in 1..Len(s) /\ y = s[i + 1]
    BY <1>1, <1>2, <2>1
  <2> QED BY <1>1, <2>2 DEF Range
<1>6. ASSUME NEW y \in Range(s), y # Head(s) PROVE y \in Range(Tail(s))
  <2>1. PICK i \in 1..Len(s) : y = s[i]
    BY <1>1 DEF Range
  <2>2. i # 1
    BY <1>1, <1>6, <2>1
  <2>3. i - 1 \in 1..(Len(s) - 1) /\ (i - 1) + 1 = i
    BY <1>1, <2>1, <2>2
  <2>4. y = Tail(s)[i - 1]
    BY <1>2, <2>1, <2>3
  <2> QED BY <1>3, <2>3, <2>4 DEF Range
<1> QED BY <1>2, <1>4, <1>5, <1>6

LEMMA RangeOfRemoved ==
    ASSUME NEW S, NEW s \in Seq(S), NEW i \in DOMAIN s
    PROVE  /\ RemoveAt(s, i) \in Seq(S) /\ s[i] \in Range(s)
           /\ Range(RemoveAt(s, i)) \subseteq Range(s) /\ Range(s) \subseteq Range(RemoveAt(s, i)) \cup {s[i]}
<1>0. DOMAIN s = 1..Len(s) /\ Len(s) \in Nat /\ i \in 1..Len(s)
  OBVIOUS
<1> DEFINE a == SubSeq(s, 1, i - 1)
           b == SubSeq(s, i + 1, Len(s))
           t == RemoveAt(s, i)
<1>1. a \in Seq(S) /\ Len(a) = i - 1 /\ \A j \in 1..(i - 1) : a[j] = s[j]
  BY <1>0, SubSeqProperties
<1>2. b \in Seq(S) /\ Len(b) = Len(s) - i /\ \A j \in 1..(Len(s) - i) : b[j] = s[i + j]
  <2>1. /\ b \in Seq(S)
        /\ Len(b) = IF i + 1 <= Len(s) THEN Len(s) - (i + 1) + 1 ELSE 0
        /\ \A j \in 1..(Len(s) - (i + 1) + 1) : b[j] = s[(i + 1) + j - 1]
    BY <1>0, SubSeqProperties
  <2> HIDE DEF b
  <2>2. Len(s) - (i + 1) + 1 = Len(s) - i
    BY <1>0
  <2>3. Len(b) = Len(s) - i
    <3>1. CASE i + 1 <= Len(s)
      BY <2>1, <2>2, <3>1
    <3>2. CASE i = Len(s)
      <4>1. ~(i + 1 <= Len(s)) /\ Len(s) - i = 0
        BY <1>0, <3>2
      <4> QED BY <2>1, <4>1
    <3> QED BY <1>0, <3>1, <3>2
  <2>4. \A j \in 1..(Len(s) - i) : (i + 1) + j - 1 = i + j
    BY <1>0
  <2> QED BY <2>1, <2>2, <2>3, <2>4
<1>3. t = a \o b
  BY DEF RemoveAt
<1> HIDE DEF a, b
<1>4. t \in Seq(S) /\ Len(t) = Len(s) - 1 /\ \A j \in 1..(Len(s) - 1) : t[j] = IF j <= i - 1 THEN a[j] ELSE b[j - (i - 1)]
  <2>1. /\ a \o b \in Seq(S) /\ Len(a \o b) = Len(a) + Len(b)
        /\ \A j \in 1..(Len(a) + Len(b)) : (a \o b)[j] = IF j <= Len(a) THEN a[j] ELSE b[j - Len(a)]
    BY <1>1, <1>2
  <2>2. Len(a) + Len(b) = Len(s) - 1
    BY <1>0, <1>1, <1>2
  <2> QED BY <1>1, <1>3, <2>1, <2>2
<1> HIDE DEF t
<1>5. \A j \in 1..(Len(s) - 1) : t[j] = IF j < i THEN s[j] ELSE s[j + 1]
  <2> SUFFICES ASSUME NEW j \in 1..(Len(s) - 1) PROVE t[j] = IF j < i THEN s[j] ELSE s[j + 1]
    OBVIOUS
  <2>1. CASE j < i
    <3>1. j \in 1..(i - 1) /\ j <= i - 1
      BY <1>0, <2>1
    <3> QED BY <1>1, <1>4, <2>1, <3>1
  <2>2. CASE ~(j < i)
    <3>1. j - (i - 1) \in 1..(Len(s) - i) /\ i + (j - (i - 1)) = j + 1 /\ ~(j <= i - 1)
      BY <1>0, <2>2
    <3>2. b[j - (i - 1)] = s[i + (j - (i - 1))]
      BY <1>2, <3>1
    <3> QED BY <1>4, <2>2, <3>1, <3>2
  <2> QED BY <2>1, <2>2
<1>6. DOMAIN t = 1..(Len(s) - 1)
  BY <1>0, <1>4
<1>7. ASSUME NEW y \in Range(t) PROVE y \in Range(s)
  <2>1. PICK j \in 1..(Len(s) - 1) : y = t[j]
    BY <1>6 DEF Range
  <2>2. j \in 1..Len(s) /\ j + 1 \in 1..Len(s)
    BY <1>0, <2>1
  <2> QED BY <1>0, <1>5, <2>1, <2>2 DEF Range
<1>8. ASSUME NEW y \in Range(s), y # s[i] PROVE y \in Range(t)
  <2>1. PICK j \in 1..Len(s) : y = s[j]
    BY <1>0 DEF Range
  <2>2. j # i
    BY <1>8, <2>1
  <2>3. CASE j < i
    <3>1. j \in 1..(Len(s) - 1) /\ t[j] = y
      BY <1>0, <1>5, <2>1, <2>3
    <3> QED BY <1>6, <3>1 DEF Range
  <2>4. CASE j > i
    <3>1. j - 1 \in 1..(Len(s) - 1) /\ ~(j - 1 < i) /\ (j - 1) + 1 = j
      BY <1>0, <2>1, <2>4
    <3>2. t[j - 1] = y
      BY <1>5, <2>1, <3>1
    <3> QED BY <1>6, <3>1, <3>2 DEF Range
  <2> QED BY <1>0, <2>1, <2>2, <2>3, <2>4
<1>9. s[i] \in Range(s)
  BY <1>0 DEF Range
<1> QED BY <1>4, <1>7, <1>8, <1>9 DEF t

LEMMA RangeOfChanged ==
    ASSUME NEW S, NEW s \in Seq(S), NEW i \in DOMAIN s, NEW x \in S
    PROVE  /\ [s EXCEPT ![i] = x] \in Seq(S) /\ s[i] \in Range(s) /\ x \in Range([s EXCEPT ![i] = x])
           /\ Range([s EXCEPT ![i] = x]) \subseteq Range(s) \cup {x}
           /\ Range(s) \subseteq Range([s EXCEPT ![i] = x]) \cup {s[i]}
<1>0. PICK t : t = [s EXCEPT ![i] = x]
  OBVIOUS
<1>1. /\ DOMAIN s = 1..Len(s) /\ t \in Seq(S) /\ DOMAIN t = DOMAIN s
      /\ \A j \in DOMAIN s : t[j] = IF j = i THEN x ELSE s[j]
  BY <1>0
<1>2. s[i] \in Range(s)
  BY DEF Range
<1>3. x \in Range(t)
  BY <1>1 DEF Range
<1>4. ASSUME NEW y \in Range(t) PROVE y \in Range(s) \cup {x}
  BY <1>1 DEF Range
<1>5. ASSUME NEW y \in Range(s) PROVE y \in Range(t) \cup {s[i]}
  BY <1>1 DEF Range
<1> QED BY <1>0, <1>1, <1>2, <1>3, <1>4, <1>5

LEMMA RangeOfStale ==
    ASSUME NEW s \in Seq(AskType)
    PROVE  /\ Stale(s) \in Seq(AskType)
           /\ \A b \in Range(Stale(s)) : ~b.fresh /\ \E a \in Range(s) : b = [a EXCEPT !.fresh = FALSE]
<1>1. DOMAIN s = 1..Len(s) /\ Len(s) \in Nat /\ \A i \in DOMAIN s : s[i] \in AskType
  OBVIOUS
<1>2. \A a \in AskType : [a EXCEPT !.fresh = FALSE] \in AskType /\ ~[a EXCEPT !.fresh = FALSE].fresh
  BY DEF AskType
<1>3. DOMAIN Stale(s) = 1..Len(s) /\ \A i \in DOMAIN s : Stale(s)[i] = [s[i] EXCEPT !.fresh = FALSE]
  BY <1>1 DEF Stale
<1>4. Stale(s) \in Seq(AskType)
  <2>1. Stale(s) = [i \in 1..Len(s) |-> [s[i] EXCEPT !.fresh = FALSE]]
    BY <1>1 DEF Stale
  <2>2. \A i \in 1..Len(s) : [s[i] EXCEPT !.fresh = FALSE] \in AskType
    BY <1>1, <1>2
  <2> QED BY <1>1, <2>1, <2>2
<1>5. ASSUME NEW b \in Range(Stale(s)) PROVE ~b.fresh /\ \E a \in Range(s) : b = [a EXCEPT !.fresh = FALSE]
  <2>1. PICK i \in DOMAIN s : b = Stale(s)[i]
    BY <1>1, <1>3 DEF Range
  <2>2. s[i] \in Range(s) /\ b = [s[i] EXCEPT !.fresh = FALSE]
    BY <1>3, <2>1 DEF Range
  <2> QED BY <1>1, <1>2, <2>2
<1> QED BY <1>4, <1>5

LEMMA RangeOfConcat ==
    ASSUME NEW S, NEW s \in Seq(S), NEW t \in Seq(S)
    PROVE  s \o t \in Seq(S) /\ Range(s \o t) = Range(s) \cup Range(t)
<1>1. /\ s \o t \in Seq(S) /\ Len(s \o t) = Len(s) + Len(t) /\ Len(s) \in Nat /\ Len(t) \in Nat
      /\ \A i \in 1..(Len(s) + Len(t)) : (s \o t)[i] = IF i <= Len(s) THEN s[i] ELSE t[i - Len(s)]
  OBVIOUS
<1>2. DOMAIN s = 1..Len(s) /\ DOMAIN t = 1..Len(t) /\ DOMAIN (s \o t) = 1..(Len(s) + Len(t))
  BY <1>1
<1>3. ASSUME NEW y \in Range(s \o t) PROVE y \in Range(s) \cup Range(t)
  <2>1. PICK i \in 1..(Len(s) + Len(t)) : y = (s \o t)[i]
    BY <1>2 DEF Range
  <2>2. CASE i <= Len(s)
    BY <1>1, <1>2, <2>1, <2>2 DEF Range
  <2>3. CASE ~(i <= Len(s))
    <3>1. i - Len(s) \in 1..Len(t) /\ y = t[i - Len(s)]
      BY <1>1, <2>1, <2>3
    <3> QED BY <1>2, <3>1 DEF Range
  <2> QED BY <2>2, <2>3
<1>4. ASSUME NEW y \in Range(s) PROVE y \in Range(s \o t)
  <2>1. PICK i \in 1..Len(s) : y = s[i]
    BY <1>2 DEF Range
  <2>2. i \in 1..(Len(s) + Len(t)) /\ (s \o t)[i] = y
    BY <1>1, <2>1
  <2> QED BY <1>2, <2>2 DEF Range
<1>5. ASSUME NEW y \in Range(t) PROVE y \in Range(s \o t)
  <2>1. PICK i \in 1..Len(t) : y = t[i]
    BY <1>2 DEF Range
  <2>2. Len(s) + i \in 1..(Len(s) + Len(t)) /\ ~(Len(s) + i <= Len(s)) /\ (Len(s) + i) - Len(s) = i
    BY <1>1, <2>1
  <2>3. (s \o t)[Len(s) + i] = y
    BY <1>1, <2>1, <2>2
  <2> QED BY <1>2, <2>2, <2>3 DEF Range
<1> QED BY <1>1, <1>3, <1>4, <1>5

\* The community modules' SetToSeq, of no or one element.
LEMMA SetToSeqOfFew ==
    ASSUME NEW x
    PROVE  SetToSeq({}) = <<>> /\ SetToSeq({x}) = <<x>>
<1>1. Cardinality({}) = 0 /\ Cardinality({x}) = 1
  BY FS_EmptySet, FS_Singleton
<1>2. SetToSeq({}) = <<>>
  <2>1. 1..0 = {} /\ <<>> \in [1..0 -> {}] /\ \A f \in [1..0 -> {}] : f = <<>>
    OBVIOUS
  <2>2. IsInjective(<<>>)
    BY DEF IsInjective
  <2> QED BY <1>1, <2>1, <2>2 DEF SetToSeq
<1>3. SetToSeq({x}) = <<x>>
  <2>1. 1..1 = {1} /\ <<x>> \in [1..1 -> {x}] /\ \A f \in [1..1 -> {x}] : f = <<x>>
    OBVIOUS
  <2>2. IsInjective(<<x>>)
    BY DEF IsInjective
  <2> QED BY <1>1, <2>1, <2>2 DEF SetToSeq
<1> QED BY <1>2, <1>3

LEMMA ViewIsOne ==
    ASSUME NEW d \in Documents
    PROVE  View(d) \in Views /\ View(d) # Nobody
<1>1. View(d) \in Views
  BY DEF View, Views, Documents
<1> QED BY <1>1, ConversationAssumption

LEMMA MineIsOwned == ASSUME ServerOK PROVE Mine <=> conv # Nobody /\ Me \in Owners(conv)
BY DEF Mine, isMember, Owners

\* Nothing changed what the page is to show.
LEMMA TruthStays ==
    ASSUME UNCHANGED <<kind, conv, changed>>, Me \in listed' <=> Me \in listed, NEW e \in Nat
    PROVE  /\ Mine' = Mine /\ Truth' = Truth /\ Since(e)' = Since(e)
           /\ \A says, n : Rightly(e, says, n)' <=> Rightly(e, says, n)
           /\ \A n : Announces(n)' <=> Announces(n)
           /\ \A a : (Finds(a, e)' <=> Finds(a, e)) /\ (TooEarly(a, e)' <=> TooEarly(a, e))
<1>1. Mine' = Mine
  BY DEF Mine, isMember
<1>2. Truth' = Truth
  BY <1>1 DEF Truth, View
<1>3. Since(e)' = Since(e)
  BY <1>1 DEF Since
<1>4. \A says, n : Rightly(e, says, n)' <=> Rightly(e, says, n)
  BY <1>1, <1>2, <1>3 DEF Rightly
<1>5. \A n : Announces(n)' <=> Announces(n)
  BY <1>1 DEF Announces
<1>6. \A a : (Finds(a, e)' <=> Finds(a, e)) /\ (TooEarly(a, e)' <=> TooEarly(a, e))
  BY <1>1, <1>2, <1>3 DEF Finds, TooEarly
<1> QED BY <1>1, <1>2, <1>3, <1>4, <1>5, <1>6

LEMMA RequestStays ==
    ASSUME UNCHANGED <<kind, conv, changed>>, NEW e \in Nat, NEW r \in RequestIds, req'[r] = req[r]
    PROVE  /\ UnderWay(r)' = UnderWay(r) /\ Own(r)' = Own(r) /\ Removes(r)' = Removes(r)
           /\ News(r)' = News(r) /\ Brings(r, e)' = Brings(r, e)
           /\ isMember(req[r].doc, Me)' = isMember(req[r].doc, Me) /\ View(req[r].doc)' = View(req[r].doc)
<1>1. Mine' = Mine /\ isMember(req[r].doc, Me)' = isMember(req[r].doc, Me) /\ View(req[r].doc)' = View(req[r].doc)
  BY DEF Mine, isMember, View
<1>2. UnderWay(r)' = UnderWay(r)
  BY DEF UnderWay
<1>3. Own(r)' = Own(r) /\ Removes(r)' = Removes(r)
  BY <1>2 DEF Own, Removes
<1>4. News(r)' = News(r)
  BY DEF News
<1>5. Brings(r, e)' = Brings(r, e)
  BY <1>1, <1>2, <1>3, <1>4 DEF Brings
<1> QED BY <1>1, <1>2, <1>3, <1>4, <1>5

\* The page's asks: one more, one answered, one gone, all of them stale.
LEMMA AsksStay ==
    ASSUME AsksOK, UNCHANGED asks, now \in Nat, changed \in Nat, now' \in Nat, changed' \in Nat,
           now <= now', changed <= changed', conv # Nobody => conv' # Nobody
    PROVE  AsksOK'
<1>1. \A a \in Range(asks) : Timely(a)'
  <2> SUFFICES ASSUME NEW a \in Range(asks) PROVE Timely(a)'
    OBVIOUS
  <2>1. a \in AskType /\ Timely(a)
    BY DEF AsksOK, Range
  <2> QED BY <2>1 DEF Timely, AskType
<1> QED BY <1>1 DEF AsksOK, Later, Denies

LEMMA AskedMore ==
    ASSUME AsksOK, NEW w \in {"conversation", "list"}, asks' = Append(asks, NewAsk(w)), now \in Nat,
           UNCHANGED <<conv, now, changed>>
    PROVE  AsksOK' /\ Range(asks') = Range(asks) \cup {NewAsk(w)} /\ NewAsk(w).stage = "asked" /\ NewAsk(w).what = w
<1>1. PICK x : x = NewAsk(w)
  OBVIOUS
<1>2. x \in AskType /\ x.stage = "asked" /\ x.what = w /\ x.says = Nobody /\ x.at = 0 /\ x.read = 0
  BY <1>1 DEF NewAsk, AskType
<1>3. asks' \in Seq(AskType) /\ Range(asks') = Range(asks) \cup {x}
  BY <1>1, <1>2, RangeOfAppend DEF AsksOK
<1>4. Timely(x)'
  BY <1>2 DEF Timely
<1>5. \A a \in Range(asks) : Timely(a)'
  BY DEF AsksOK, Timely
<1>6. \A a : Later(a, x) /\ Later(x, a)
  BY <1>2 DEF Later
<1>7. \A a, b \in Range(asks') : Later(a, b)
  BY <1>3, <1>6 DEF AsksOK
<1>8. \A a \in Range(asks') : Timely(a)'
  BY <1>3, <1>4, <1>5
<1>9. AsksOK'
  BY <1>3, <1>7, <1>8 DEF AsksOK, Later, Denies
<1> QED BY <1>1, <1>2, <1>3, <1>9

LEMMA AskAnswered ==
    ASSUME AsksOK, NEW i \in DOMAIN asks, NEW b \in AskType, asks' = [asks EXCEPT ![i] = b],
           UNCHANGED <<conv, now, changed>>,
           Timely(b), \A a \in Range(asks) : Later(a, b) /\ Later(b, a)
    PROVE  /\ AsksOK' /\ asks[i] \in Range(asks) /\ b \in Range(asks')
           /\ Range(asks') \subseteq Range(asks) \cup {b} /\ Range(asks) \subseteq Range(asks') \cup {asks[i]}
<1>1. /\ asks' \in Seq(AskType) /\ asks[i] \in Range(asks) /\ b \in Range(asks')
      /\ Range(asks') \subseteq Range(asks) \cup {b} /\ Range(asks) \subseteq Range(asks') \cup {asks[i]}
  <2>1. asks \in Seq(AskType)
    BY DEF AsksOK
  <2> QED BY <2>1, RangeOfChanged
<1>2. Later(b, b)
  BY DEF Later
<1>3. \A a, c \in Range(asks') : Later(a, c)
  BY <1>1, <1>2 DEF AsksOK
<1>4. \A a \in Range(asks') : Timely(a)'
  BY <1>1 DEF AsksOK, Timely
<1>5. AsksOK'
  BY <1>1, <1>3, <1>4 DEF AsksOK, Later, Denies
<1> QED BY <1>1, <1>5

LEMMA AskGone ==
    ASSUME AsksOK, NEW i \in DOMAIN asks, asks' = RemoveAt(asks, i), UNCHANGED <<conv, now, changed>>
    PROVE  /\ AsksOK' /\ asks[i] \in Range(asks)
           /\ Range(asks') \subseteq Range(asks) /\ Range(asks) \subseteq Range(asks') \cup {asks[i]}
<1>1. /\ asks' \in Seq(AskType) /\ asks[i] \in Range(asks)
      /\ Range(asks') \subseteq Range(asks) /\ Range(asks) \subseteq Range(asks') \cup {asks[i]}
  BY RangeOfRemoved DEF AsksOK
<1>2. \A a, c \in Range(asks') : Later(a, c)
  BY <1>1 DEF AsksOK
<1>3. \A a \in Range(asks') : Timely(a)'
  BY <1>1 DEF AsksOK, Timely
<1>4. AsksOK'
  BY <1>1, <1>2, <1>3 DEF AsksOK, Later, Denies
<1> QED BY <1>1, <1>4

LEMMA AsksLost ==
    ASSUME AsksOK, NEW s \in Seq(AskType), Range(s) \subseteq Range(asks), asks' = Stale(s), UNCHANGED <<conv, now, changed>>
    PROVE  AsksOK' /\ \A b \in Range(asks') : ~b.fresh /\ \E a \in Range(asks) :
                          b.what = a.what /\ b.stage = a.stage /\ b.says = a.says /\ b.at = a.at
<1>1. asks' \in Seq(AskType) /\ \A b \in Range(asks') : ~b.fresh /\ \E a \in Range(s) : b = [a EXCEPT !.fresh = FALSE]
  BY RangeOfStale
<1>2. \A a \in Range(s) : a \in AskType
  BY DEF Range
<1>3. \A b \in Range(asks') : ~b.fresh /\ \E a \in Range(asks) :
          b.what = a.what /\ b.stage = a.stage /\ b.says = a.says /\ b.at = a.at /\ b.read = a.read
  <2> SUFFICES ASSUME NEW b \in Range(asks')
               PROVE ~b.fresh /\ \E a \in Range(asks) :
                     b.what = a.what /\ b.stage = a.stage /\ b.says = a.says /\ b.at = a.at /\ b.read = a.read
    OBVIOUS
  <2>1. PICK a \in Range(s) : b = [a EXCEPT !.fresh = FALSE]
    BY <1>1
  <2>2. a \in AskType /\ a \in Range(asks) /\ ~b.fresh
    BY <1>1, <1>2
  <2>3. b.what = a.what /\ b.stage = a.stage /\ b.says = a.says /\ b.at = a.at /\ b.read = a.read
    BY <2>1, <2>2 DEF AskType
  <2> QED BY <2>2, <2>3
<1>4. \A b \in Range(asks') : Timely(b)'
  <2> SUFFICES ASSUME NEW b \in Range(asks') PROVE Timely(b)'
    OBVIOUS
  <2>1. PICK a \in Range(asks) : b.what = a.what /\ b.stage = a.stage /\ b.says = a.says /\ b.at = a.at /\ b.read = a.read
    BY <1>3
  <2>2. Timely(a)
    BY DEF AsksOK
  <2> QED BY <2>1, <2>2 DEF Timely
<1>5. \A a, b \in Range(asks') : Later(a, b)
  BY <1>3 DEF Later
<1>6. AsksOK'
  BY <1>1, <1>4, <1>5 DEF AsksOK, Later, Denies
<1> QED BY <1>3, <1>6

(***************************************************************************)
(* How the page stays on its way                                           *)
(***************************************************************************)
LEMMA ComingConverges ==
    ASSUME NEW e \in Nat, SaysRightly(e)', Lags(e)', Coming(e)'
    PROVE  Converging(e)'
BY DEF Converging, Told, Believes, PutRight, Unnamed

LEMMA LostConverges ==
    ASSUME NEW e \in Nat, SaysRightly(e)', Lags(e)', missed', \A a \in Range(asks') : ~a.fresh \/ a.stage = "asked"
    PROVE  Converging(e)'
<1>1. ~Informed'
  BY DEF Informed
<1>2. Told(e)' /\ Believes(e)'
  BY <1>1 DEF Told, Believes
<1>3. PutRight(e)'
  BY DEF PutRight, Denies
<1> QED BY <1>2, <1>3 DEF Converging

LEMMA StillConverges ==
    ASSUME NEW e \in Nat, Converging(e), UNCHANGED <<shown, age, overtaken>>, missed' <=> missed,
           Mine' = Mine, Truth' = Truth, Since(e)' = Since(e),
           SaysRightly(e)', Lags(e)', Coming(e) => Coming(e)', Informed' => Informed,
           \A r \in RequestIds : Own(r) => Own(r)' /\ req'[r].at = req[r].at,
           \A a \in Range(asks) : Denies(a) => a \in Range(asks'),
           \A a \in Range(asks') : Denies(a) => a \in Range(asks)
    PROVE  Converging(e)'
<1>1. \A a : TooEarly(a, e)' <=> TooEarly(a, e)
  BY DEF TooEarly
<1>2. Told(e)'
  <2>1. \A a \in Range(asks) : TooEarly(a, e) => a \in Range(asks')
    BY DEF TooEarly
  <2> QED BY <1>1, <2>1 DEF Converging, Told
<1>3. Believes(e)'
  BY <1>1 DEF Converging, Believes
<1>4. PutRight(e)'
  <2> SUFFICES ASSUME NEW a \in Range(asks'), Mine', Denies(a)', (~missed \/ a.fresh)' PROVE Unnamed(a, e)'
    BY DEF PutRight
  <2>1. a \in Range(asks) /\ Denies(a)
    BY DEF Denies
  <2>2. Unnamed(a, e)
    BY <1>1, <2>1 DEF Converging, PutRight
  <2> QED BY <2>2 DEF Unnamed
<1> QED BY <1>2, <1>3, <1>4 DEF Converging

\* Who is no longer in it and has it listed is to be taken off by a request, which says so.
LEMMA Leaving ==
    ASSUME MembershipInv, RequestsOK, Me \notin torn, ~Mine, Me \in listed
    PROVE  \E r \in RequestIds : Removes(r) /\ req[r].pc = "lists" /\ Me \in req[r].lists
<1>1. ServerOK /\ conv # Nobody /\ Me \in Users \ torn
  BY InboxAssumption DEF MembershipInv, Unmade
<1>2. Me \notin Owners(conv)
  BY <1>1, MineIsOwned
<1>3. PICK r \in RequestIds : req[r].pc = "lists" /\ Me \in req[r].lists
  BY <1>1, <1>2 DEF MembershipInv, Behind
<1>4. ~Joining(r)
  BY <1>1, <1>2, <1>3 DEF MembershipInv, Following
<1>5. req[r].op \in RouteKinds
  BY <1>1, <1>3 DEF ServerOK, RequestType, MembershipInv, Sensible
<1>6. req[r].op \in {"remove", "rename"}
  BY <1>4, <1>5 DEF Joining, RouteKinds
<1>7. Me \in req[r].about
  BY <1>3, <1>6 DEF RequestsOK
<1>8. req[r].op = "remove"
  BY <1>3, <1>6, <1>7 DEF RequestsOK
<1> QED BY <1>3, <1>7, <1>8 DEF Removes, UnderWay

\* Who is in it and has it not listed is to be told by the request that adds to the list.
LEMMA Arriving ==
    ASSUME MembershipInv, RequestsOK, Me \notin torn, Mine, Me \notin listed
    PROVE  \E r \in RequestIds : /\ req[r].pc = "lists" /\ Me \in req[r].lists
                                 /\ News(r) = {"added"} \/ Own(r)
<1>1. ServerOK /\ conv # Nobody /\ Me \in Users \ torn
  BY InboxAssumption DEF MembershipInv, Mine
<1>2. Me \in Owners(conv)
  BY <1>1, MineIsOwned
<1>3. PICK r \in RequestIds : req[r].pc = "lists" /\ Me \in req[r].lists
  BY <1>1, <1>2 DEF MembershipInv, Behind
<1>4. Joining(r)
  BY <1>1, <1>2, <1>3 DEF MembershipInv, Following
<1>5. Me \in req[r].about \/ (req[r].by = Me /\ req[r].op = "create")
  BY <1>3 DEF RequestsOK
<1>6. CASE Me \in req[r].about
  <2>1. News(r) = {"added"}
    BY <1>4, <1>6 DEF News, Joining
  <2> QED BY <1>3, <2>1
<1>7. CASE req[r].by = Me /\ req[r].op = "create"
  BY <1>3, <1>7 DEF Own, UnderWay
<1> QED BY <1>5, <1>6, <1>7

(***************************************************************************)
(* The page's steps                                                        *)
(***************************************************************************)
LEMMA fetchConversationConverges ==
    ASSUME MembershipInv, RequestsOK, PageOK, Me \notin torn, NEW e \in Nat, Converging(e),
           NEW i \in DOMAIN asks, fetchConversation(i), UNCHANGED <<kind, serverVars, inboxVars>>
    PROVE  Converging(e)' /\ AsksOK'
<1>1. /\ asks[i].what = "conversation" /\ asks[i].stage = "asked" /\ AsksOK
      /\ UNCHANGED <<kind, conv, listed, req, now, changed, page, queue, shown, age, missed, overtaken>>
      /\ ServerOK /\ now \in Nat
  BY DEF fetchConversation, serverVars, inboxVars, PageOK, MembershipInv, ServerOK
<1>2. /\ Mine' = Mine /\ Truth' = Truth /\ Since(e)' = Since(e)
      /\ \A says, n : Rightly(e, says, n)' <=> Rightly(e, says, n)
      /\ \A n : Announces(n)' <=> Announces(n)
      /\ \A a : (Finds(a, e)' <=> Finds(a, e)) /\ (TooEarly(a, e)' <=> TooEarly(a, e))
  BY <1>1, TruthStays
<1>3. \A r \in RequestIds :
        /\ Own(r)' = Own(r) /\ Removes(r)' = Removes(r) /\ Brings(r, e)' = Brings(r, e)
        /\ isMember(req[r].doc, Me)' = isMember(req[r].doc, Me) /\ View(req[r].doc)' = View(req[r].doc)
  BY <1>1, RequestStays
<1>4. Lags(e)'
  BY <1>1, <1>2 DEF Converging, Lags
<1>5. CASE Mine
  <2>1. conv \in Documents /\ e <= now
    BY <1>1, <1>5 DEF Mine, ServerOK, Converging, Lags
  <2>2. PICK b : b = [asks[i] EXCEPT !.stage = "answered", !.says = View(conv), !.at = now, !.read = now]
    OBVIOUS
  <2>3. asks[i] \in AskType
    BY <1>1 DEF AsksOK
  <2>4. /\ b \in AskType /\ b.what = "conversation" /\ b.stage = "answered" /\ b.says = View(conv)
        /\ b.at = now /\ b.read = now /\ b.says # Nobody
    BY <1>1, <2>1, <2>2, <2>3, ViewIsOne DEF AskType
  <2>5. asks' = [asks EXCEPT ![i] = b]
    BY <1>5, <2>2 DEF fetchConversation, Mine
  <2>6. Timely(b) /\ \A a \in Range(asks) : Later(a, b) /\ Later(b, a)
    BY <1>1, <2>4 DEF Timely, Later
  <2>7. AsksOK' /\ b \in Range(asks') /\ Range(asks') \subseteq Range(asks) \cup {b}
    BY <1>1, <2>4, <2>5, <2>6, AskAnswered
  <2>8. b.says = Truth /\ b.at >= Since(e)
    BY <1>1, <1>5, <2>1, <2>4 DEF Truth, Since
  <2>9. SaysRightly(e)'
    <3>1. Rightly(e, b.says, b.at)
      BY <2>8 DEF Rightly
    <3>2. \A a \in Range(asks') :
            /\ a.stage = "answered" => Rightly(e, a.says, a.at)
            /\ a.stage = "named" => Rightly(e, View(conv), a.at)
      BY <2>4, <2>7, <3>1 DEF Converging, SaysRightly
    <3> QED BY <1>1, <1>2, <1>3, <3>2 DEF Converging, SaysRightly, View
  <2>10. Coming(e)'
    <3>1. Finds(b, e)
      BY <2>4, <2>8 DEF Finds
    <3> QED BY <1>2, <2>7, <3>1 DEF Coming
  <2> QED BY <1>4, <2>7, <2>9, <2>10, ComingConverges
<1>6. CASE ~Mine
  <2>1. asks' = RemoveAt(asks, i)
    BY <1>6 DEF fetchConversation, Mine
  <2>2. /\ AsksOK' /\ asks[i] \in Range(asks) /\ Range(asks') \subseteq Range(asks)
        /\ Range(asks) \subseteq Range(asks') \cup {asks[i]}
    BY <1>1, <2>1, AskGone
  <2>3. SaysRightly(e)'
    <3>1. \A a \in Range(asks') :
            /\ a.stage = "answered" => Rightly(e, a.says, a.at)
            /\ a.stage = "named" => Rightly(e, View(conv), a.at)
      BY <2>2 DEF Converging, SaysRightly
    <3> QED BY <1>1, <1>2, <1>3, <3>1 DEF Converging, SaysRightly, View
  <2>4. Coming(e) => Coming(e)'
    <3>1. ~Finds(asks[i], e)
      BY <1>1, <1>6 DEF Finds
    <3> QED BY <1>1, <1>2, <1>3, <2>2, <3>1 DEF Coming
  <2>5. Informed' => Informed
    BY <1>1, <2>2 DEF Informed
  <2>6. /\ \A a \in Range(asks) : Denies(a) => a \in Range(asks')
        /\ \A a \in Range(asks') : Denies(a) => a \in Range(asks)
    BY <1>1, <2>2 DEF Denies
  <2> QED BY <1>1, <1>2, <1>3, <1>4, <2>2, <2>3, <2>4, <2>5, <2>6, StillConverges
<1> QED BY <1>5, <1>6

LEMMA listForUserConverges ==
    ASSUME MembershipInv, RequestsOK, PageOK, Me \notin torn, NEW e \in Nat, Converging(e),
           NEW i \in DOMAIN asks, listForUser(i), UNCHANGED <<kind, serverVars, inboxVars>>
    PROVE  Converging(e)' /\ AsksOK'
<1>1. /\ asks[i].what = "list" /\ asks[i].stage = "asked" /\ AsksOK
      /\ UNCHANGED <<kind, conv, listed, req, now, changed, page, queue, shown, age, missed, overtaken>>
      /\ ServerOK /\ now \in Nat /\ changed \in Nat /\ changed <= now
  BY DEF listForUser, serverVars, inboxVars, PageOK, MembershipInv, ServerOK
<1>2. /\ Mine' = Mine /\ Truth' = Truth /\ Since(e)' = Since(e)
      /\ \A says, n : Rightly(e, says, n)' <=> Rightly(e, says, n)
      /\ \A a : (Finds(a, e)' <=> Finds(a, e)) /\ (TooEarly(a, e)' <=> TooEarly(a, e))
  BY <1>1, TruthStays
<1>3. \A r \in RequestIds :
        /\ Own(r)' = Own(r) /\ Removes(r)' = Removes(r) /\ Brings(r, e)' = Brings(r, e)
        /\ isMember(req[r].doc, Me)' = isMember(req[r].doc, Me) /\ View(req[r].doc)' = View(req[r].doc)
  BY <1>1, RequestStays
<1>4. Lags(e)' /\ e <= now
  BY <1>1, <1>2 DEF Converging, Lags
<1>5. asks[i] \in AskType /\ asks[i] \in Range(asks) /\ asks[i].says = Nobody
  <2>1. asks[i] \in AskType
    BY <1>1 DEF AsksOK
  <2>2. asks[i] \in Range(asks)
    BY DEF Range
  <2> QED BY <1>1, <2>1, <2>2 DEF AsksOK, Timely
<1>6. PICK b : b = [asks[i] EXCEPT !.fresh = TRUE, !.read = now,
                      !.at = IF Me \in listed THEN now ELSE changed,
                      !.stage = IF Me \in listed THEN "named" ELSE "answered"]
  OBVIOUS
<1>7. /\ b \in AskType /\ b.what = "list" /\ b.says = Nobody /\ b.fresh /\ b.read = now
      /\ b.at = (IF Me \in listed THEN now ELSE changed)
      /\ b.stage = (IF Me \in listed THEN "named" ELSE "answered")
  BY <1>1, <1>5, <1>6 DEF AskType
<1>8. Me \in listed => conv # Nobody
  BY DEF MembershipInv, Unmade
<1>9. Timely(b)
  BY <1>1, <1>7, <1>8 DEF Timely
<1>10. \A a \in Range(asks) : Later(a, b) /\ Later(b, a)
  <2> SUFFICES ASSUME NEW a \in Range(asks) PROVE Later(a, b) /\ Later(b, a)
    OBVIOUS
  <2>1. Timely(a)
    BY <1>1 DEF AsksOK
  <2>2. Denies(a) => a.at <= changed
    BY <2>1 DEF Timely, Denies
  <2>3. Denies(b) => b.at = changed
    BY <1>7 DEF Denies
  <2> QED BY <1>7, <2>1, <2>2, <2>3 DEF Timely, Later
<1>11. asks' = [asks EXCEPT ![i] = b]
  BY <1>6 DEF listForUser
<1>12. AsksOK' /\ b \in Range(asks') /\ Range(asks') \subseteq Range(asks) \cup {b}
  BY <1>1, <1>7, <1>9, <1>10, <1>11, AskAnswered
<1>13. SaysRightly(e)'
  <2>1. /\ b.stage = "answered" => Rightly(e, b.says, b.at)
        /\ b.stage = "named" => Rightly(e, View(conv), b.at)
    <3>1. CASE Mine
      <4>1. Me \in listed => Truth = View(conv)
        BY <1>1, <3>1 DEF Truth
      <4>2. Me \notin listed => ~(b.at >= Since(e))
        BY <1>1, <1>7, <3>1 DEF Converging, Lags, Since
      <4> QED BY <1>7, <4>1, <4>2 DEF Rightly
    <3>2. CASE ~Mine
      <4>1. Truth = Nobody
        BY <3>2 DEF Truth
      <4> QED BY <1>7, <3>2, <4>1 DEF Rightly
    <3> QED BY <3>1, <3>2
  <2>2. \A a \in Range(asks') :
          /\ a.stage = "answered" => Rightly(e, a.says, a.at)
          /\ a.stage = "named" => Rightly(e, View(conv), a.at)
    BY <1>12, <2>1 DEF Converging, SaysRightly
  <2> QED BY <1>1, <1>2, <1>3, <2>2 DEF Converging, SaysRightly, View
<1>14. CASE Mine /\ Me \in listed
  <2>1. Finds(b, e)
    BY <1>1, <1>4, <1>7, <1>14 DEF Finds
  <2>2. Coming(e)'
    BY <1>2, <1>12, <2>1 DEF Coming
  <2> QED BY <1>4, <1>12, <1>13, <2>2, ComingConverges
<1>15. CASE ~Mine /\ Me \in listed
  <2>1. PICK r \in RequestIds : Removes(r) /\ req[r].pc = "lists" /\ Me \in req[r].lists
    BY <1>15, Leaving
  <2>2. Brings(r, e)
    BY <1>15, <2>1 DEF Brings
  <2>3. Coming(e)'
    BY <1>3, <2>2 DEF Coming
  <2> QED BY <1>4, <1>12, <1>13, <2>3, ComingConverges
<1>16. CASE ~Mine /\ Me \notin listed
  <2>1. Finds(b, e)
    BY <1>1, <1>7, <1>16 DEF Finds, Truth, Since
  <2>2. Coming(e)'
    BY <1>2, <1>12, <2>1 DEF Coming
  <2> QED BY <1>4, <1>12, <1>13, <2>2, ComingConverges
<1>17. CASE Mine /\ Me \notin listed
  <2>1. PICK r \in RequestIds : req[r].pc = "lists" /\ Me \in req[r].lists /\ (News(r) = {"added"} \/ Own(r))
    BY <1>17, Arriving
  <2>2. CASE News(r) = {"added"}
    <3>1. Brings(r, e)
      BY <1>17, <2>1, <2>2 DEF Brings, UnderWay
    <3>2. Coming(e)'
      BY <1>3, <3>1 DEF Coming
    <3> QED BY <1>4, <1>12, <1>13, <3>2, ComingConverges
  <2>3. CASE Own(r)
    <3>1. Own(r)' /\ Mine'
      BY <1>2, <1>3, <1>17, <2>3
    <3>2. TooEarly(b, e)
      BY <1>1, <1>4, <1>7, <1>17 DEF TooEarly, Denies
    <3>3. Told(e)'
      BY <1>2, <1>12, <3>2 DEF Told
    <3>4. Believes(e)'
      BY <3>1 DEF Believes
    <3>5. PutRight(e)'
      <4> SUFFICES ASSUME NEW a \in Range(asks'), Denies(a) PROVE Unnamed(a, e)'
        BY DEF PutRight, Denies
      <4>1. a.at <= changed /\ a.at \in Nat
        <5>1. Timely(a)' /\ a \in AskType
          BY <1>12 DEF AsksOK, Range
        <5> QED BY <1>1, <5>1 DEF Timely, Denies, AskType
      <4>2. req[r].at > changed /\ req[r].at \in Nat
        BY <1>1, <1>17, <2>1 DEF Converging, Lags, ServerOK, RequestType
      <4>3. req'[r].at > a.at
        BY <1>1, <4>1, <4>2
      <4> QED BY <3>1, <4>3 DEF Unnamed
    <3> QED BY <1>4, <1>12, <1>13, <3>3, <3>4, <3>5 DEF Converging
  <2> QED BY <2>1, <2>2, <2>3
<1> QED BY <1>14, <1>15, <1>16, <1>17

\* What is said stays right where nothing is added but what is.
LEMMA SaysStays ==
    ASSUME NEW e \in Nat, SaysRightly(e), UNCHANGED <<kind, conv>>,
           \A says, n : Rightly(e, says, n) => Rightly(e, says, n)',
           \A a \in Range(asks') :
               \/ \E c \in Range(asks) : a.stage = c.stage /\ a.says = c.says /\ a.at = c.at
               \/ a.stage = "asked"
               \/ a.stage = "answered" /\ Rightly(e, a.says, a.at),
           \A n \in Range(queue') : n \in Range(queue) \/ (n.type = "removed" => Rightly(e, Nobody, n.at)),
           \A r \in RequestIds :
               \/ ~UnderWay(r)'
               \/ /\ UnderWay(r) /\ req'[r].by = req[r].by /\ req'[r].op = req[r].op
                  /\ req'[r].about = req[r].about /\ req'[r].doc = req[r].doc /\ req'[r].at = req[r].at
               \/ /\ Own(r)' /\ isMember(req[r].doc, Me)' => Rightly(e, View(req'[r].doc), req'[r].at)
                  /\ Removes(r)' => Rightly(e, Nobody, req'[r].at)
    PROVE  SaysRightly(e)'
<1>1. \A says, n : Rightly(e, says, n) => Rightly(e, says, n)'
  OBVIOUS
<1>2. \A a \in Range(asks') :
        /\ a.stage = "answered" => Rightly(e, a.says, a.at)
        /\ a.stage = "named" => Rightly(e, View(conv), a.at)
  BY DEF SaysRightly
<1>3. \A n \in Range(queue') : n.type = "removed" => Rightly(e, Nobody, n.at)
  BY DEF SaysRightly
<1>4. ASSUME NEW r \in RequestIds
      PROVE  /\ Own(r)' /\ isMember(req[r].doc, Me)' => Rightly(e, View(req'[r].doc), req'[r].at)
             /\ Removes(r)' => Rightly(e, Nobody, req'[r].at)
  <2>1. CASE ~UnderWay(r)'
    BY <2>1 DEF Own, Removes
  <2>2. CASE UnderWay(r) /\ /\ req'[r].by = req[r].by /\ req'[r].op = req[r].op /\ req'[r].about = req[r].about
                            /\ req'[r].doc = req[r].doc /\ req'[r].at = req[r].at
    <3>1. Own(r)' => Own(r)
      BY <2>2 DEF Own
    <3>2. Removes(r)' => Removes(r)
      BY <2>2 DEF Removes
    <3>3. isMember(req[r].doc, Me)' = isMember(req[r].doc, Me) /\ View(req'[r].doc) = View(req[r].doc)
      BY <2>2 DEF isMember, View
    <3> QED BY <2>2, <3>1, <3>2, <3>3 DEF SaysRightly
  <2> QED BY <2>1, <2>2
<1>5. \A r \in RequestIds : View(req[r].doc)' = View(req'[r].doc)
  BY DEF View
<1>6. View(conv)' = View(conv)
  BY DEF View
<1> QED BY <1>1, <1>2, <1>3, <1>4, <1>5, <1>6 DEF SaysRightly

LEMMA LagsStays ==
    ASSUME NEW e \in Nat, Lags(e), UNCHANGED <<kind, conv, changed, now>>, Me \in listed' <=> Me \in listed,
           \A r \in RequestIds : req'[r] = req[r] \/ req'[r].pc # "lists"
    PROVE  Lags(e)'
<1>1. Mine' = Mine
  BY DEF Mine, isMember
<1>2. \A r \in RequestIds : req'[r].pc = "lists" => req'[r] = req[r]
  OBVIOUS
<1> QED BY <1>1, <1>2 DEF Lags

\* The page shows what was right at n, or finds that it came late.
LEMMA ShownConverges ==
    ASSUME MembershipInv, RequestsOK, PageOK, Me \notin torn, NEW e \in Nat, Converging(e),
           UNCHANGED <<kind, conv, listed, changed, missed, asks>>, NEW says, NEW n \in Nat,
           shown' = says, age' = (IF n > age THEN n ELSE age), ~overtaken' => n >= age /\ Rightly(e, says, n),
           Coming(e) => Coming(e)' \/ n >= Since(e),
           \A r \in RequestIds : Own(r) => req[r].at <= n \/ (Own(r)' /\ req'[r].at = req[r].at),
           \A r \in RequestIds : req[r].pc = "lists" => req'[r] = req[r],
           SaysRightly(e)', Lags(e)'
    PROVE  Converging(e)'
<1>1. /\ Mine' = Mine /\ Truth' = Truth /\ Since(e)' = Since(e)
      /\ \A a : TooEarly(a, e)' <=> TooEarly(a, e)
  BY TruthStays
<1>2. age \in Nat /\ age' \in Nat /\ age' >= age /\ age' >= n /\ Since(e) \in Nat
  BY DEF PageOK, MembershipInv, ServerOK, Since
<1>3. Told(e)'
  <2>1. SUFFICES ASSUME Informed' PROVE age' >= Since(e) \/ Coming(e)' \/ \E a \in Range(asks) : TooEarly(a, e)
    BY <1>1 DEF Told
  <2>2. Informed
    BY <2>1 DEF Informed
  <2>3. age >= Since(e) \/ Coming(e) \/ \E a \in Range(asks) : TooEarly(a, e)
    BY <2>2 DEF Converging, Told
  <2> QED BY <1>2, <2>3
<1>4. Believes(e)'
  <2> SUFFICES ASSUME ~overtaken', age' >= Since(e), shown' # Truth PROVE Coming(e)'
    BY <1>1 DEF Believes
  <2>1. n >= Since(e)
    BY <1>2
  <2>2. ~Mine /\ Me \in listed
    BY <2>1 DEF Rightly
  <2>3. PICK r \in RequestIds : Removes(r) /\ req[r].pc = "lists" /\ Me \in req[r].lists
    BY <2>2, Leaving
  <2>4. Brings(r, e)
    BY <2>2, <2>3 DEF Brings
  <2>5. Brings(r, e)'
    BY <2>3, <2>4, RequestStays
  <2> QED BY <2>5 DEF Coming
<1>5. PutRight(e)'
  <2> SUFFICES ASSUME NEW a \in Range(asks), Mine, Denies(a), ~missed \/ a.fresh PROVE Unnamed(a, e)'
    BY <1>1 DEF PutRight, Denies
  <2>1. Unnamed(a, e)
    BY DEF Converging, PutRight
  <2>2. a \in AskType
    BY DEF PageOK, AsksOK, Range
  <2>3. a.at \in Nat /\ a.at < Since(e)
    <3>1. Rightly(e, Nobody, a.at)
      BY DEF Converging, SaysRightly, Denies
    <3>2. Truth # Nobody
      BY ViewIsOne DEF Truth, Mine, MembershipInv, ServerOK
    <3> QED BY <1>2, <2>2, <3>1, <3>2 DEF Rightly, AskType
  <2>4. CASE a.at < age
    BY <1>2, <2>3, <2>4 DEF Unnamed
  <2>5. CASE Coming(e)
    BY <1>2, <2>3, <2>5 DEF Unnamed
  <2>6. CASE \E r \in RequestIds : Own(r) /\ req[r].at > a.at
    <3>1. PICK r \in RequestIds : Own(r) /\ req[r].at > a.at
      BY <2>6
    <3>2. req[r].at \in Nat
      BY DEF MembershipInv, ServerOK, RequestType
    <3> QED BY <1>2, <2>3, <3>1, <3>2 DEF Unnamed
  <2> QED BY <2>1, <2>4, <2>5, <2>6 DEF Unnamed
<1> QED BY <1>3, <1>4, <1>5 DEF Converging

LEMMA ReadNamedConverges ==
    ASSUME MembershipInv, RequestsOK, PageOK, Me \notin torn, NEW e \in Nat, Converging(e),
           NEW i \in DOMAIN asks, ReadNamed(i), UNCHANGED <<kind, serverVars, inboxVars>>
    PROVE  Converging(e)' /\ AsksOK'
<1>1. /\ asks[i].stage = "named" /\ AsksOK
      /\ UNCHANGED <<kind, conv, listed, req, now, changed, page, queue, shown, age, missed, overtaken>>
      /\ ServerOK
  BY DEF ReadNamed, serverVars, inboxVars, PageOK, MembershipInv
<1>2. /\ asks[i] \in AskType /\ asks[i] \in Range(asks) /\ conv \in Documents
      /\ asks[i].what = "list" /\ asks[i].at = asks[i].read /\ Timely(asks[i])
  <2>1. asks[i] \in AskType
    BY <1>1 DEF AsksOK
  <2>2. asks[i] \in Range(asks)
    BY DEF Range
  <2> QED BY <1>1, <2>1, <2>2 DEF AsksOK, Timely, ServerOK
<1>3. PICK b : b = [asks[i] EXCEPT !.stage = "answered", !.says = View(conv)]
  OBVIOUS
<1>4. /\ b \in AskType /\ b.what = "list" /\ b.stage = "answered" /\ b.says = View(conv) /\ b.says # Nobody
      /\ b.at = asks[i].at /\ b.read = asks[i].read /\ b.fresh = asks[i].fresh
  BY <1>2, <1>3, ViewIsOne DEF AskType
<1>5. asks' = [asks EXCEPT ![i] = b]
  BY <1>3 DEF ReadNamed
<1>6. Timely(b)
  BY <1>2, <1>4 DEF Timely
<1>7. \A a \in Range(asks) : Later(a, b) /\ Later(b, a)
  <2>1. \A a \in Range(asks) : Later(a, asks[i]) /\ Later(asks[i], a)
    BY <1>1, <1>2 DEF AsksOK
  <2>2. ~Denies(b)
    BY <1>4 DEF Denies
  <2> QED BY <1>1, <1>2, <1>4, <2>1, <2>2 DEF Later
<1>8. /\ AsksOK' /\ b \in Range(asks') /\ Range(asks') \subseteq Range(asks) \cup {b}
      /\ Range(asks) \subseteq Range(asks') \cup {asks[i]}
  BY <1>1, <1>4, <1>5, <1>6, <1>7, AskAnswered
<1>9. Rightly(e, b.says, b.at)
  BY <1>1, <1>2, <1>4 DEF Converging, SaysRightly
<1>10. /\ Mine' = Mine /\ Truth' = Truth /\ Since(e)' = Since(e)
       /\ \A says, n : Rightly(e, says, n)' <=> Rightly(e, says, n)
       /\ \A a : Finds(a, e)' <=> Finds(a, e)
       /\ \A n : Announces(n)' <=> Announces(n)
       /\ \A r \in RequestIds : Own(r)' = Own(r) /\ Brings(r, e)' = Brings(r, e)
  BY <1>1, TruthStays, RequestStays
<1>11. SaysRightly(e)'
  BY <1>1, <1>4, <1>8, <1>9, <1>10, SaysStays DEF Converging, UnderWay
<1>12. Lags(e)'
  BY <1>1, LagsStays DEF Converging
<1>13. Coming(e) => Coming(e)'
  <2>1. Finds(asks[i], e) => Finds(b, e)
    BY <1>1, <1>4 DEF Finds, Truth, Since
  <2> QED BY <1>1, <1>8, <1>10, <2>1 DEF Coming
<1>14. Informed' => Informed
  BY <1>1, <1>2, <1>4, <1>8 DEF Informed
<1>15. /\ \A a \in Range(asks) : Denies(a) => a \in Range(asks')
       /\ \A a \in Range(asks') : Denies(a) => a \in Range(asks)
  BY <1>1, <1>4, <1>8 DEF Denies
<1> QED BY <1>1, <1>8, <1>10, <1>11, <1>12, <1>13, <1>14, <1>15, StillConverges

LEMMA AnswerShownConverges ==
    ASSUME MembershipInv, RequestsOK, PageOK, Me \notin torn, NEW e \in Nat, Converging(e),
           NEW i \in DOMAIN asks, AnswerShown(i), UNCHANGED <<kind, serverVars, inboxVars>>
    PROVE  Converging(e)' /\ AsksOK' /\ age' \in Nat /\ age' <= now
<1>1. /\ asks[i].stage = "answered" /\ AsksOK /\ ServerOK /\ asks' = RemoveAt(asks, i)
      /\ UNCHANGED <<kind, conv, listed, req, now, changed, page, queue>>
      /\ shown' = asks[i].says /\ age' = (IF asks[i].read > age THEN asks[i].read ELSE age)
      /\ overtaken' = (asks[i].at < age \/ (overtaken /\ asks[i].at = age))
      /\ missed' = IF asks[i].what = "list" /\ asks[i].fresh THEN FALSE ELSE missed
  BY DEF AnswerShown, Shows, serverVars, inboxVars, PageOK, MembershipInv
<1>2. PICK a0 : a0 = asks[i]
  OBVIOUS
<1>3. /\ AsksOK' /\ a0 \in Range(asks) /\ Range(asks') \subseteq Range(asks) /\ Range(asks) \subseteq Range(asks') \cup {a0}
  BY <1>1, <1>2, AskGone
<1>4. /\ a0 \in AskType /\ Timely(a0) /\ a0.stage = "answered" /\ Rightly(e, a0.says, a0.at)
  <2>1. a0 \in AskType
    BY <1>1, <1>2 DEF AsksOK
  <2> QED BY <1>1, <1>2, <1>3, <2>1 DEF AsksOK, Converging, SaysRightly
<1>5. /\ age \in Nat /\ age' \in Nat /\ age' >= age /\ age' >= a0.read /\ Since(e) \in Nat
      /\ a0.at \in Nat /\ a0.read \in Nat /\ a0.at <= a0.read /\ age' <= now
  BY <1>1, <1>2, <1>4 DEF PageOK, MembershipInv, ServerOK, Since, AskType, Timely
<1>6. /\ Mine' = Mine /\ Truth' = Truth /\ Since(e)' = Since(e)
      /\ \A says, n : Rightly(e, says, n)' <=> Rightly(e, says, n)
      /\ \A n : Announces(n)' <=> Announces(n)
      /\ \A a : (Finds(a, e)' <=> Finds(a, e)) /\ (TooEarly(a, e)' <=> TooEarly(a, e))
      /\ \A r \in RequestIds : Own(r)' = Own(r) /\ Brings(r, e)' = Brings(r, e)
  BY <1>1, TruthStays, RequestStays
<1>7. SaysRightly(e)'
  BY <1>1, <1>3, <1>6, SaysStays DEF Converging, UnderWay
<1>8. Lags(e)'
  BY <1>1, LagsStays DEF Converging
<1>9. Coming(e) => Coming(e)' \/ (a0.says = Truth /\ a0.at >= Since(e))
  <2>1. Finds(a0, e) => a0.says = Truth /\ a0.at >= Since(e)
    BY <1>4 DEF Finds
  <2> QED BY <1>1, <1>3, <1>6, <2>1 DEF Coming
<1>10. Informed => age >= Since(e) \/ Coming(e) \/ \E a \in Range(asks) : TooEarly(a, e)
  BY DEF Converging, Told
<1>11. Told(e)'
  <2> SUFFICES ASSUME Informed' PROVE age' >= Since(e) \/ Coming(e)' \/ \E a \in Range(asks') : TooEarly(a, e)
    BY <1>6 DEF Told
  <2>1. Informed
    <3>1. CASE ~missed'
      BY <1>1, <1>2, <1>3, <3>1 DEF Informed
    <3>2. CASE missed'
      BY <1>3, <3>2 DEF Informed
    <3> QED BY <3>1, <3>2
  <2>2. CASE age >= Since(e)
    BY <1>5, <2>2
  <2>3. CASE Coming(e)
    BY <1>5, <1>9, <2>3
  <2>4. CASE \E a \in Range(asks) : TooEarly(a, e)
    <3>1. PICK a \in Range(asks) : TooEarly(a, e)
      BY <2>4
    <3>2. CASE a = a0
      BY <1>5, <3>1, <3>2 DEF TooEarly, Since
    <3>3. CASE a # a0
      BY <1>3, <3>1, <3>3
    <3> QED BY <3>2, <3>3
  <2> QED BY <1>10, <2>1, <2>2, <2>3, <2>4
<1>12. Mine => Truth # Nobody
  BY <1>1, ViewIsOne DEF Truth, Mine, ServerOK
<1>13. Believes(e)'
  <2> SUFFICES ASSUME ~missed', ~overtaken', age' >= Since(e), shown' # Truth
               PROVE  Coming(e)' \/ (Mine /\ \E r \in RequestIds : Own(r))
    BY <1>6 DEF Believes
  <2>1. a0.at >= age /\ shown' = a0.says /\ (~missed \/ (a0.what = "list" /\ a0.fresh))
    <3>1. shown' = a0.says /\ (~missed \/ (a0.what = "list" /\ a0.fresh))
      BY <1>1, <1>2
    <3>2. ~(a0.at < age)
      BY <1>1, <1>2
    <3> QED BY <1>5, <3>1, <3>2
  <2>2. CASE a0.says # Nobody
    <3>1. a0.at = a0.read
      BY <1>4, <2>2 DEF Timely
    <3>2. a0.at >= Since(e)
      BY <1>1, <1>2, <1>5, <2>1, <3>1
    <3>3. ~Mine /\ Me \in listed
      BY <1>4, <2>1, <3>2 DEF Rightly
    <3>4. PICK r \in RequestIds : Removes(r) /\ req[r].pc = "lists" /\ Me \in req[r].lists
      BY <3>3, Leaving
    <3>5. Brings(r, e)'
      BY <1>6, <3>3, <3>4 DEF Brings
    <3> QED BY <3>5 DEF Coming
  <2>3. CASE a0.says = Nobody
    <3>1. Mine
      BY <2>1, <2>3 DEF Truth
    <3>2. Denies(a0) /\ (~missed \/ a0.fresh)
      BY <1>4, <2>1, <2>3 DEF Denies, Timely
    <3>3. Unnamed(a0, e)
      BY <1>3, <3>1, <3>2 DEF Converging, PutRight
    <3>4. ~(a0.at < age)
      BY <1>5, <2>1
    <3>5. Coming(e) \/ \E r \in RequestIds : Own(r)
      BY <3>3, <3>4 DEF Unnamed
    <3> QED BY <1>9, <1>12, <2>3, <3>1, <3>5
  <2> QED BY <2>2, <2>3
<1>14. PutRight(e)'
  <2> SUFFICES ASSUME NEW a \in Range(asks'), Mine, Denies(a), ~missed' \/ a.fresh PROVE Unnamed(a, e)'
    BY <1>6 DEF PutRight, Denies
  <2>1. a \in Range(asks) /\ a \in AskType
    BY <1>1, <1>3 DEF AsksOK, Range
  <2>2. a.at \in Nat /\ a.read \in Nat /\ a.at < Since(e) /\ Since(e) = e
    <3>1. Rightly(e, Nobody, a.at)
      BY <2>1 DEF Converging, SaysRightly, Denies
    <3> QED BY <1>5, <1>12, <2>1, <3>1 DEF Rightly, AskType, Since
  <2>3. \A r \in RequestIds : Own(r) /\ req[r].at > a.at => Unnamed(a, e)'
    BY <1>1, <1>6 DEF Unnamed
  <2>4. Coming(e) => Unnamed(a, e)'
    <3>1. a0.at >= Since(e) => a.at < age'
      BY <1>5, <2>2
    <3> QED BY <1>9, <3>1 DEF Unnamed
  <2>5. a.at < age => Unnamed(a, e)'
    BY <1>5, <2>2 DEF Unnamed
  <2>6. CASE ~missed \/ a.fresh
    <3>1. Unnamed(a, e)
      BY <2>1, <2>6 DEF Converging, PutRight
    <3> QED BY <2>3, <2>4, <2>5, <3>1 DEF Unnamed
  <2>7. CASE missed /\ ~a.fresh
    <3>1. a0.what = "list" /\ a0.fresh
      BY <1>1, <1>2, <2>7
    <3>2. Informed
      BY <1>3, <1>4, <3>1 DEF Informed
    <3>3. CASE age >= Since(e)
      <4>1. a.at < age
        BY <1>5, <2>2, <3>3
      <4> QED BY <2>5, <4>1
    <3>4. CASE \E z \in Range(asks) : TooEarly(z, e)
      <4>1. PICK z \in Range(asks) : TooEarly(z, e)
        BY <3>4
      <4>2. Denies(z) /\ z.read >= e /\ z \in AskType
        BY <1>1, <4>1 DEF TooEarly, AsksOK, Range
      <4>3. CASE ~z.fresh
        <5>1. Later(z, a0)
          BY <1>1, <1>3 DEF AsksOK
        <5>2. z.read <= a0.read
          BY <1>4, <3>1, <4>2, <4>3, <5>1 DEF Later, Denies
        <5>3. a.at < age'
          BY <1>5, <2>2, <4>2, <5>2 DEF AskType
        <5> QED BY <5>3 DEF Unnamed
      <4>4. CASE z.fresh
        <5>1. Later(a, z)
          BY <1>1, <2>1 DEF AsksOK
        <5>2. a.at <= z.at
          BY <2>7, <4>2, <4>4, <5>1 DEF Later, Denies
        <5>3. Unnamed(z, e)
          BY <4>2, <4>4 DEF Converging, PutRight
        <5>4. z.at < age => a.at < age
          BY <1>5, <2>2, <4>2, <5>2 DEF AskType
        <5>5. \A r \in RequestIds : req[r].at > z.at => req[r].at > a.at
          BY <1>1, <2>2, <4>2, <5>2 DEF AskType, ServerOK, RequestType
        <5> QED BY <2>3, <2>4, <2>5, <5>3, <5>4, <5>5 DEF Unnamed
      <4> QED BY <4>3, <4>4
    <3> QED BY <1>10, <2>4, <3>2, <3>3, <3>4
  <2> QED BY <2>6, <2>7
<1> QED BY <1>3, <1>5, <1>7, <1>8, <1>11, <1>13, <1>14 DEF Converging

LEMMA AskFailsConverges ==
    ASSUME MembershipInv, RequestsOK, PageOK, Me \notin torn, NEW e \in Nat, Converging(e),
           NEW i \in DOMAIN asks, AskFails(i), UNCHANGED <<kind, serverVars>>
    PROVE  Converging(e)' /\ AsksOK'
<1>1. /\ UNCHANGED <<kind, conv, listed, req, now, changed, queue>> /\ missed' /\ AsksOK
      /\ asks' = Stale(RemoveAt(asks, i))
  BY DEF AskFails, serverVars, PageOK
<1>2. RemoveAt(asks, i) \in Seq(AskType) /\ Range(RemoveAt(asks, i)) \subseteq Range(asks)
  <2>1. asks \in Seq(AskType)
    BY <1>1 DEF AsksOK
  <2> QED BY <2>1, RangeOfRemoved
<1>3. AsksOK' /\ \A b \in Range(asks') : ~b.fresh /\ \E a \in Range(asks) :
                    b.what = a.what /\ b.stage = a.stage /\ b.says = a.says /\ b.at = a.at
  BY <1>1, <1>2, AsksLost
<1>4. SaysRightly(e)'
  BY <1>1, <1>3, TruthStays, SaysStays DEF Converging, UnderWay
<1>5. Lags(e)'
  BY <1>1, LagsStays DEF Converging
<1> QED BY <1>1, <1>3, <1>4, <1>5, LostConverges

LEMMA ReceiveConverges ==
    ASSUME MembershipInv, RequestsOK, PageOK, Me \notin torn, NEW e \in Nat, Converging(e),
           Receive, UNCHANGED <<kind, serverVars, inboxVars>>
    PROVE  Converging(e)' /\ AsksOK' /\ queue' \in Seq(NewsType) /\ Range(queue') \subseteq Range(queue)
           /\ age' \in Nat /\ age' <= now
<1>1. /\ UNCHANGED <<kind, conv, listed, req, now, changed, page, missed>> /\ AsksOK /\ ServerOK /\ now \in Nat
      /\ queue # <<>> /\ queue' = Tail(queue) /\ queue \in Seq(NewsType)
  BY DEF Receive, serverVars, inboxVars, PageOK, MembershipInv, ServerOK
<1>2. PICK h : h = Head(queue)
  OBVIOUS
<1>3. queue' \in Seq(NewsType) /\ h \in Range(queue) /\ Range(queue') \subseteq Range(queue) /\ Range(queue) \subseteq Range(queue') \cup {h}
  BY <1>1, <1>2, RangeOfTail
<1>4. h \in NewsType /\ h.at \in Nat /\ h.at <= now
  <2>1. \A n \in Range(queue) : n \in NewsType
    BY <1>1 DEF Range
  <2> QED BY <1>3, <2>1 DEF NewsType, PageOK
<1>5. Lags(e)'
  BY <1>1, LagsStays DEF Converging
<1>6. /\ Mine' = Mine /\ Truth' = Truth /\ Since(e)' = Since(e)
      /\ \A says, n : Rightly(e, says, n)' <=> Rightly(e, says, n)
      /\ \A n : Announces(n)' <=> Announces(n)
      /\ \A a : Finds(a, e)' <=> Finds(a, e)
      /\ \A r \in RequestIds : Own(r)' = Own(r) /\ Brings(r, e)' = Brings(r, e)
  BY <1>1, TruthStays, RequestStays
<1>7. CASE h.type = "removed"
  <2>1. /\ UNCHANGED asks /\ shown' = Nobody /\ age' = (IF h.at > age THEN h.at ELSE age)
        /\ overtaken' = (h.at < age \/ (overtaken /\ h.at = age))
    BY <1>2, <1>7 DEF Receive, Shows
  <2>2. ~overtaken' => h.at >= age /\ Rightly(e, Nobody, h.at)
    <3>1. Rightly(e, Nobody, h.at)
      BY <1>3, <1>7 DEF Converging, SaysRightly
    <3>2. ~overtaken' => ~(h.at < age)
      BY <2>1
    <3> QED BY <1>4, <3>1, <3>2 DEF PageOK
  <2>3. Coming(e) => Coming(e)' \/ h.at >= Since(e)
    <3>1. Announces(h) => h.at >= Since(e)
      BY <1>7 DEF Announces, Since
    <3> QED BY <1>1, <1>3, <1>6, <2>1, <3>1 DEF Coming
  <2>4. SaysRightly(e)'
    BY <1>1, <1>3, <1>6, <2>1, SaysStays DEF Converging, UnderWay
  <2>5. Converging(e)'
    BY <1>1, <1>4, <1>5, <1>6, <2>1, <2>2, <2>3, <2>4, ShownConverges
  <2>6. AsksOK'
    BY <1>1, <2>1, AsksStay DEF MembershipInv, ServerOK
  <2>7. age' \in Nat /\ age' <= now
    BY <1>4, <2>1 DEF PageOK
  <2> QED BY <1>3, <2>5, <2>6, <2>7
<1>8. CASE h.type # "removed"
  <2>1. UNCHANGED <<shown, age, overtaken>> /\ asks' = Append(asks, NewAsk("conversation"))
    BY <1>2, <1>8 DEF Receive
  <2>2. /\ AsksOK' /\ Range(asks') = Range(asks) \cup {NewAsk("conversation")}
        /\ NewAsk("conversation").stage = "asked" /\ NewAsk("conversation").what = "conversation"
    BY <1>1, <2>1, AskedMore
  <2>3. PICK x : x = NewAsk("conversation")
    OBVIOUS
  <2>4. SaysRightly(e)'
    BY <1>1, <1>3, <1>6, <2>2, SaysStays DEF Converging, UnderWay
  <2>5. Coming(e) => Coming(e)'
    <3>1. CASE Mine
      <4>1. Finds(x, e)
        BY <2>2, <2>3, <3>1 DEF Finds
      <4> QED BY <1>6, <2>2, <2>3, <4>1 DEF Coming
    <3>2. CASE ~Mine
      <4>1. ~Announces(h)
        BY <1>8, <3>2 DEF Announces
      <4> QED BY <1>1, <1>3, <1>6, <2>2, <4>1 DEF Coming
    <3> QED BY <3>1, <3>2
  <2>6. Informed' => Informed
    BY <1>1, <2>2 DEF Informed
  <2>7. /\ \A a \in Range(asks) : Denies(a) => a \in Range(asks')
        /\ \A a \in Range(asks') : Denies(a) => a \in Range(asks)
    BY <2>2 DEF Denies
  <2>8. Converging(e)'
    BY <1>1, <1>5, <1>6, <2>1, <2>4, <2>5, <2>6, <2>7, StillConverges
  <2> QED BY <1>3, <2>1, <2>2, <2>8 DEF PageOK
<1> QED BY <1>7, <1>8

(***************************************************************************)
(* The requests' steps                                                     *)
(***************************************************************************)
LEMMA OwnAnswerConverges ==
    ASSUME MembershipInv, RequestsOK, PageOK, Me \notin torn, NEW e \in Nat, Converging(e),
           NEW r \in RequestIds, OwnAnswer(r), UNCHANGED <<kind, inboxVars>>
    PROVE  Converging(e)' /\ AsksOK' /\ age' \in Nat /\ age' <= now
<1>1. /\ req[r].pc = "answer" /\ req[r].by = Me /\ AsksOK /\ ServerOK /\ now \in Nat
      /\ UNCHANGED <<kind, conv, listed, now, changed, page, queue, missed>>
      /\ req[r].at \in Nat /\ req[r].at <= now
  BY DEF OwnAnswer, inboxVars, PageOK, RequestsOK, MembershipInv, ServerOK, RequestType
<1>2. PICK q \in RequestType : q = Over(req[r])
  BY <1>1, OverIsOne DEF ServerOK
<1>3. q.pc = "done" /\ req' = [req EXCEPT ![r] = q]
  BY <1>1, <1>2, OverIsOne DEF OwnAnswer, ServerOK
<1>4. req'[r].pc = "done" /\ \A s \in RequestIds \ {r} : req'[s] = req[s]
  BY <1>1, <1>3, ReqStep
<1>5. /\ Mine' = Mine /\ Truth' = Truth /\ Since(e)' = Since(e)
      /\ \A says, n : Rightly(e, says, n)' <=> Rightly(e, says, n)
      /\ \A n : Announces(n)' <=> Announces(n)
      /\ \A a : Finds(a, e)' <=> Finds(a, e)
      /\ \A s \in RequestIds \ {r} : Own(s)' = Own(s) /\ Brings(s, e)' = Brings(s, e)
  BY <1>1, <1>4, TruthStays, RequestStays
<1>6. UnderWay(r) /\ ~UnderWay(r)'
  BY <1>1, <1>4 DEF UnderWay
<1>7. \A s \in RequestIds \ {r} : UnderWay(s)' = UnderWay(s)
  BY <1>4 DEF UnderWay
<1>8. Lags(e)'
  BY <1>1, <1>4, LagsStays DEF Converging
<1>9. Brings(r, e) => req[r].op # "remove" \/ Me \in req[r].about
  BY <1>1 DEF Brings, Own, Removes
<1>10. Brings(r, e) => req[r].at >= Since(e)
  BY <1>1 DEF Brings, Removes, Since
<1>11. \A s \in RequestIds : Own(s) => req[s].at <= req[r].at \/ (Own(s)' /\ req'[s].at = req[s].at)
  BY <1>1, <1>4, <1>5
<1>12. \A s \in RequestIds : req[s].pc = "lists" => req'[s] = req[s]
  BY <1>1, <1>4
<1>13. CASE UNCHANGED asks
  <2>1. SaysRightly(e)'
    BY <1>1, <1>4, <1>5, <1>6, <1>7, <1>13, SaysStays DEF Converging
  <2>2. Coming(e) => Coming(e)' \/ req[r].at >= Since(e)
    BY <1>1, <1>5, <1>10, <1>13 DEF Coming
  <2>3. AsksOK'
    BY <1>1, <1>13, AsksStay DEF ServerOK
  <2>4. CASE req[r].op # "remove"
    <3>1. /\ shown' = View(req[r].doc) /\ age' = (IF req[r].at > age THEN req[r].at ELSE age)
          /\ overtaken' = (~isMember(req[r].doc, Me) \/ req[r].at < age \/ (overtaken /\ req[r].at = age))
      BY <2>4 DEF OwnAnswer, Upserts
    <3>2. ~overtaken' => req[r].at >= age /\ Rightly(e, View(req[r].doc), req[r].at)
      <4>1. ~overtaken' => isMember(req[r].doc, Me) /\ ~(req[r].at < age)
        BY <3>1
      <4>2. Own(r)
        BY <1>1, <1>6, <2>4 DEF Own
      <4> QED BY <1>1, <4>1, <4>2 DEF Converging, SaysRightly, PageOK
    <3>3. Converging(e)'
      BY <1>1, <1>8, <1>11, <1>12, <1>13, <2>1, <2>2, <3>1, <3>2, ShownConverges
    <3> QED BY <1>1, <2>3, <3>1, <3>3 DEF PageOK
  <2>5. CASE req[r].op = "remove" /\ Me \in req[r].about
    <3>1. /\ shown' = Nobody /\ age' = (IF req[r].at > age THEN req[r].at ELSE age)
          /\ overtaken' = (req[r].at < age \/ (overtaken /\ req[r].at = age))
      BY <2>5 DEF OwnAnswer, Shows
    <3>2. ~overtaken' => req[r].at >= age /\ Rightly(e, Nobody, req[r].at)
      <4>1. ~overtaken' => ~(req[r].at < age)
        BY <3>1
      <4>2. Removes(r)
        BY <1>6, <2>5 DEF Removes
      <4> QED BY <1>1, <4>1, <4>2 DEF Converging, SaysRightly, PageOK
    <3>3. Converging(e)'
      BY <1>1, <1>8, <1>11, <1>12, <1>13, <2>1, <2>2, <3>1, <3>2, ShownConverges
    <3> QED BY <1>1, <2>3, <3>1, <3>3 DEF PageOK
  <2>6. ~(req[r].op = "remove" /\ Me \notin req[r].about)
    <3>1. SUFFICES ASSUME req[r].op = "remove", Me \notin req[r].about PROVE FALSE
      OBVIOUS
    <3>2. asks' = Append(asks, NewAsk("conversation"))
      BY <3>1 DEF OwnAnswer
    <3>3. asks \in Seq(AskType) /\ NewAsk("conversation") \in AskType
      BY <1>1 DEF AsksOK, AskType, NewAsk
    <3>4. Len(asks') = Len(asks) + 1
      BY <3>2, <3>3
    <3> QED BY <1>13, <3>3, <3>4
  <2> QED BY <2>4, <2>5, <2>6
<1>14. CASE req[r].op = "remove" /\ Me \notin req[r].about
  <2>1. UNCHANGED <<shown, age, overtaken>> /\ asks' = Append(asks, NewAsk("conversation"))
    BY <1>14 DEF OwnAnswer
  <2>2. /\ AsksOK' /\ Range(asks') = Range(asks) \cup {NewAsk("conversation")}
        /\ NewAsk("conversation").stage = "asked" /\ NewAsk("conversation").what = "conversation"
    BY <1>1, <2>1, AskedMore
  <2>3. SaysRightly(e)'
    BY <1>1, <1>4, <1>5, <1>6, <1>7, <2>2, SaysStays DEF Converging
  <2>4. Coming(e) => Coming(e)'
    BY <1>1, <1>5, <1>9, <1>14, <2>2 DEF Coming
  <2>5. Informed' => Informed
    BY <1>1, <2>2 DEF Informed
  <2>6. /\ \A a \in Range(asks) : Denies(a) => a \in Range(asks')
        /\ \A a \in Range(asks') : Denies(a) => a \in Range(asks)
    BY <2>2 DEF Denies
  <2>7. \A s \in RequestIds : Own(s) => Own(s)' /\ req'[s].at = req[s].at
    BY <1>4, <1>5, <1>14 DEF Own
  <2>8. Converging(e)'
    BY <1>1, <1>5, <1>8, <2>1, <2>3, <2>4, <2>5, <2>6, <2>7, StillConverges
  <2> QED BY <2>1, <2>2, <2>8 DEF PageOK
<1> QED BY <1>13, <1>14 DEF OwnAnswer, Upserts, Shows

\* What a push puts on its way.
LEMMA NewsOf ==
    ASSUME NEW r \in RequestIds
    PROVE  \/ News(r) = {} /\ SetToSeq([type : News(r), at : {req[r].at}]) = <<>>
           \/ \E t \in {"added", "updated", "removed"} :
                 News(r) = {t} /\ SetToSeq([type : News(r), at : {req[r].at}]) = <<[type |-> t, at |-> req[r].at]>>
<1>1. \A n : [type : {}, at : {n}] = {}
  OBVIOUS
<1>2. \A t, n : [type : {t}, at : {n}] = {[type |-> t, at |-> n]}
  <2> SUFFICES ASSUME NEW t, NEW n PROVE [type : {t}, at : {n}] = {[type |-> t, at |-> n]}
    OBVIOUS
  <2>1. [type |-> t, at |-> n] \in [type : {t}, at : {n}]
    OBVIOUS
  <2>2. \A x \in [type : {t}, at : {n}] : x = [type |-> t, at |-> n]
    OBVIOUS
  <2> QED BY <2>1, <2>2
<1>3. CASE News(r) = {}
  BY <1>1, <1>3, SetToSeqOfFew
<1>4. ASSUME NEW t \in {"added", "updated", "removed"}, News(r) = {t}
      PROVE  SetToSeq([type : News(r), at : {req[r].at}]) = <<[type |-> t, at |-> req[r].at]>>
  <2>1. [type : News(r), at : {req[r].at}] = {[type |-> t, at |-> req[r].at]}
    BY <1>2, <1>4
  <2> QED BY <2>1, SetToSeqOfFew
<1>5. News(r) = {} \/ \E t \in {"added", "updated", "removed"} : News(r) = {t}
  BY DEF News
<1> QED BY <1>3, <1>4, <1>5

LEMMA PushConverges ==
    ASSUME MembershipInv, RequestsOK, PageOK, Me \notin torn, NEW e \in Nat, Converging(e),
           NEW r \in RequestIds, Push(r), UNCHANGED <<kind, inboxVars, shown, age, overtaken>>
    PROVE  Converging(e)' /\ AsksOK' /\ queue' \in Seq(NewsType) /\ (\A n \in Range(queue') : n.at <= now)
           /\ (~wire' => queue' = <<>>)
<1>1. /\ req[r].pc = "push" \/ (req[r].pc = "lists" /\ req[r].lists = {})
      /\ AsksOK /\ ServerOK /\ now \in Nat /\ UNCHANGED <<kind, conv, listed, now, changed, page>>
      /\ req[r] \in RequestType /\ req[r].at \in Nat /\ req[r].at <= now /\ wire' = wire
      /\ queue \in Seq(NewsType) /\ (\A n \in Range(queue) : n.at <= now) /\ (~wire => queue = <<>>)
  BY DEF Push, inboxVars, PageOK, MembershipInv, ServerOK, RequestType
<1>2. PICK q : q = IF req[r].by = Me THEN [req[r] EXCEPT !.pc = "answer"] ELSE Over(req[r])
  OBVIOUS
<1>3. q \in RequestType /\ q.pc \in {"answer", "done"} /\ req' = [req EXCEPT ![r] = q]
  BY <1>1, <1>2, OverIsOne DEF Push, RequestType
<1>4. req'[r] = q /\ \A s \in RequestIds \ {r} : req'[s] = req[s]
  BY <1>1, <1>3, ReqStep
<1>5. IF req[r].by = Me
      THEN /\ q.pc = "answer" /\ q.by = req[r].by /\ q.op = req[r].op /\ q.about = req[r].about
           /\ q.doc = req[r].doc /\ q.at = req[r].at
      ELSE q.pc = "done"
  BY <1>1, <1>2, OverIsOne DEF RequestType
<1>6. /\ Mine' = Mine /\ Truth' = Truth /\ Since(e)' = Since(e)
      /\ \A says, n : Rightly(e, says, n)' <=> Rightly(e, says, n)
      /\ \A n : Announces(n)' <=> Announces(n)
      /\ \A a : Finds(a, e)' <=> Finds(a, e)
      /\ \A s \in RequestIds \ {r} : Own(s)' = Own(s) /\ Brings(s, e)' = Brings(s, e)
  BY <1>1, <1>4, TruthStays, RequestStays
<1>7. UnderWay(r) /\ (UnderWay(r)' <=> req[r].by = Me) /\ \A s \in RequestIds \ {r} : UnderWay(s)' = UnderWay(s)
  BY <1>1, <1>4, <1>5 DEF UnderWay
<1>8. \A s \in RequestIds :
        \/ ~UnderWay(s)'
        \/ /\ UnderWay(s) /\ req'[s].by = req[s].by /\ req'[s].op = req[s].op
           /\ req'[s].about = req[s].about /\ req'[s].doc = req[s].doc /\ req'[s].at = req[s].at
  BY <1>4, <1>5, <1>7
<1>9. Lags(e)'
  BY <1>1, <1>3, <1>4, LagsStays DEF Converging
<1>10. CASE queue' = queue /\ Loses
  <2>1. missed' /\ asks' = Stale(asks) /\ asks \in Seq(AskType)
    BY <1>1, <1>10 DEF Loses, AsksOK
  <2>2. AsksOK' /\ \A b \in Range(asks') : ~b.fresh /\ \E a \in Range(asks) :
                      b.what = a.what /\ b.stage = a.stage /\ b.says = a.says /\ b.at = a.at
    BY <1>1, <2>1, AsksLost
  <2>3. SaysRightly(e)'
    BY <1>1, <1>6, <1>8, <1>10, <2>2, SaysStays DEF Converging
  <2>4. Converging(e)'
    BY <1>9, <2>1, <2>2, <2>3, LostConverges
  <2> QED BY <1>1, <1>10, <2>2, <2>4
<1>11. CASE /\ Reaches \/ SetToSeq([type : News(r), at : {req[r].at}]) = <<>>
            /\ queue' = queue \o SetToSeq([type : News(r), at : {req[r].at}])
            /\ UNCHANGED <<missed, asks>>
  <2>1. PICK news : news = SetToSeq([type : News(r), at : {req[r].at}])
    OBVIOUS
  <2>2. \/ News(r) = {} /\ news = <<>>
        \/ \E t \in {"added", "updated", "removed"} : News(r) = {t} /\ news = <<[type |-> t, at |-> req[r].at]>>
    BY <2>1, NewsOf
  <2>3. /\ news \in Seq(NewsType)
        /\ \A n \in Range(news) : n.at = req[r].at /\ News(r) = {n.type}
        /\ \A t : News(r) = {t} => \E n \in Range(news) : n.at = req[r].at /\ n.type = t
    <3>1. CASE News(r) = {} /\ news = <<>>
      BY <3>1 DEF Range
    <3>2. ASSUME NEW t \in {"added", "updated", "removed"}, News(r) = {t}, news = <<[type |-> t, at |-> req[r].at]>>
          PROVE  <2>3!1 /\ <2>3!2 /\ <2>3!3
      <4>1. PICK n : n = [type |-> t, at |-> req[r].at]
        OBVIOUS
      <4>2. n \in NewsType /\ n.type = t /\ n.at = req[r].at
        BY <1>1, <4>1 DEF NewsType
      <4>3. news = <<n>> /\ Range(news) = {n}
        BY <3>2, <4>1 DEF Range
      <4>4. \A u : {t} = {u} => t = u
        OBVIOUS
      <4> QED BY <3>2, <4>2, <4>3, <4>4
    <3> QED BY <2>2, <3>1, <3>2
  <2>4. queue' \in Seq(NewsType) /\ Range(queue') = Range(queue) \cup Range(news)
    <3>1. queue' = queue \o news
      BY <1>11, <2>1
    <3>2. queue \o news \in Seq(NewsType) /\ Range(queue \o news) = Range(queue) \cup Range(news)
      BY <1>1, <2>3, RangeOfConcat
    <3> QED BY <3>1, <3>2
  <2>5. \A n \in Range(news) : n.type = "removed" => Rightly(e, Nobody, n.at)
    <3> SUFFICES ASSUME NEW n \in Range(news), n.type = "removed" PROVE Rightly(e, Nobody, n.at)
      OBVIOUS
    <3>1. News(r) = {"removed"} /\ n.at = req[r].at
      BY <2>3
    <3>2. Removes(r)
      <4>1. News(r) # {"added"} /\ News(r) # {"updated"} /\ News(r) # {}
        BY <3>1
      <4> QED BY <1>7, <4>1 DEF News, Removes
    <3> QED BY <3>1, <3>2 DEF Converging, SaysRightly
  <2>6. SaysRightly(e)'
    BY <1>1, <1>6, <1>8, <1>11, <2>4, <2>5, SaysStays DEF Converging
  <2>7. \A s \in RequestIds : Own(s) => Own(s)' /\ req'[s].at = req[s].at
    <3>1. Own(r) => Own(r)' /\ req'[r].at = req[r].at
      BY <1>4, <1>5, <1>7 DEF Own
    <3> QED BY <1>4, <1>6, <3>1
  <2>8. Brings(r, e) => Coming(e)'
    <3>1. CASE Mine /\ News(r) \in {{"added"}, {"updated"}}
      <4>1. PICK n \in Range(news) : n.type # "removed"
        BY <2>3, <3>1
      <4> QED BY <1>6, <2>4, <3>1, <4>1 DEF Coming, Announces
    <3>2. CASE Mine /\ Own(r) /\ req[r].at >= e /\ isMember(req[r].doc, Me)
      <4>1. Own(r)' /\ req'[r].at = req[r].at /\ req'[r].doc = req[r].doc
        BY <1>4, <1>5, <2>7, <3>2 DEF Own
      <4>2. isMember(req[r].doc, Me)'
        BY <1>1, <3>2, <4>1 DEF isMember
      <4>3. Brings(r, e)'
        BY <1>6, <3>2, <4>1, <4>2 DEF Brings
      <4> QED BY <4>3 DEF Coming
    <3>3. CASE ~Mine /\ Brings(r, e)
      <4>1. Removes(r) /\ req[r].at >= changed
        BY <1>1, <3>3 DEF Brings
      <4>2. News(r) = {"removed"}
        BY <4>1 DEF Removes, News
      <4>3. PICK n \in Range(news) : n.type = "removed" /\ n.at = req[r].at
        BY <2>3, <4>2
      <4> QED BY <1>1, <1>6, <2>4, <3>3, <4>1, <4>3 DEF Coming, Announces
    <3> QED BY <3>1, <3>2, <3>3 DEF Brings
  <2>9. Coming(e) => Coming(e)'
    BY <1>1, <1>6, <1>11, <2>4, <2>8 DEF Coming
  <2>10. Informed' => Informed
    BY <1>11 DEF Informed
  <2>11. Converging(e)'
    BY <1>1, <1>6, <1>9, <1>11, <2>6, <2>7, <2>9, <2>10, StillConverges
  <2>12. \A n \in Range(queue') : n.at <= now
    BY <1>1, <2>3, <2>4
  <2>13. AsksOK'
    BY <1>1, <1>11 DEF AsksOK, Timely, Later, Denies
  <2>14. ~wire' => queue' = <<>>
    BY <1>1, <1>11 DEF Reaches
  <2> QED BY <2>4, <2>11, <2>12, <2>13, <2>14
<1> QED BY <1>10, <1>11 DEF Push, Loses

LEMMA FailConverges ==
    ASSUME MembershipInv, RequestsOK, PageOK, Me \notin torn, NEW e \in Nat, Converging(e),
           NEW r \in RequestIds, Fail(r), UNCHANGED <<kind, inboxVars, shown, age, overtaken>>
    PROVE  Converging(e)' /\ AsksOK'
<1>1. /\ req[r].pc = "lists" /\ req[r].lists = {}
      /\ AsksOK /\ ServerOK /\ UNCHANGED <<kind, conv, listed, now, changed, page, queue>>
  BY DEF Fail, inboxVars, PageOK, MembershipInv
<1>2. PICK q \in RequestType : q = Over(req[r])
  BY <1>1, OverIsOne DEF ServerOK
<1>3. q.pc = "done" /\ req' = [req EXCEPT ![r] = q]
  BY <1>1, <1>2, OverIsOne DEF Fail, ServerOK
<1>4. req'[r].pc = "done" /\ \A s \in RequestIds \ {r} : req'[s] = req[s]
  BY <1>1, <1>3, ReqStep
<1>5. /\ Mine' = Mine /\ Truth' = Truth /\ Since(e)' = Since(e)
      /\ \A says, n : Rightly(e, says, n)' <=> Rightly(e, says, n)
      /\ \A n : Announces(n)' <=> Announces(n)
      /\ \A a : Finds(a, e)' <=> Finds(a, e)
      /\ \A s \in RequestIds \ {r} : Own(s)' = Own(s) /\ Brings(s, e)' = Brings(s, e)
  BY <1>1, <1>4, TruthStays, RequestStays
<1>6. ~UnderWay(r)' /\ \A s \in RequestIds \ {r} : UnderWay(s)' = UnderWay(s)
  BY <1>4 DEF UnderWay
<1>7. Lags(e)'
  BY <1>1, <1>4, LagsStays DEF Converging
<1>8. CASE Loses
  <2>1. missed' /\ asks' = Stale(asks) /\ asks \in Seq(AskType)
    BY <1>1, <1>8 DEF Loses, AsksOK
  <2>2. AsksOK' /\ \A b \in Range(asks') : ~b.fresh /\ \E a \in Range(asks) :
                      b.what = a.what /\ b.stage = a.stage /\ b.says = a.says /\ b.at = a.at
    BY <1>1, <2>1, AsksLost
  <2>3. SaysRightly(e)'
    BY <1>1, <1>4, <1>5, <1>6, <2>2, SaysStays DEF Converging
  <2> QED BY <1>7, <2>1, <2>2, <2>3, LostConverges
<1>9. CASE News(r) = {} /\ req[r].by # Me /\ UNCHANGED <<missed, asks>>
  <2>1. SaysRightly(e)'
    BY <1>1, <1>4, <1>5, <1>6, <1>9, SaysStays DEF Converging
  <2>2. ~Brings(r, e) /\ ~Own(r)
    <3>1. ~Own(r)
      BY <1>9 DEF Own
    <3>2. ~Removes(r)
      BY <1>9 DEF Removes, News
    <3>3. News(r) \notin {{"added"}, {"updated"}}
      BY <1>9
    <3> QED BY <3>1, <3>2, <3>3 DEF Brings
  <2>3. Coming(e) => Coming(e)'
    BY <1>1, <1>5, <1>9, <2>2 DEF Coming
  <2>4. \A s \in RequestIds : Own(s) => Own(s)' /\ req'[s].at = req[s].at
    BY <1>4, <1>5, <2>2
  <2>5. Converging(e)'
    BY <1>1, <1>5, <1>7, <1>9, <2>1, <2>3, <2>4, StillConverges DEF Informed
  <2>6. AsksOK'
    BY <1>1, <1>9 DEF AsksOK, Timely, Later, Denies
  <2> QED BY <2>5, <2>6
<1> QED BY <1>8, <1>9 DEF Fail

LEMMA ConnectionConverges ==
    ASSUME MembershipInv, RequestsOK, PageOK, Me \notin torn, NEW e \in Nat, Converging(e), Connection, UNCHANGED kind
    PROVE  Converging(e)' /\ AsksOK' /\ queue' \in Seq(NewsType) /\ (\A n \in Range(queue') : n.at <= now)
           /\ (~wire' => queue' = <<>>)
<1> DEFINE loads == SignIn \/ (page = "reconnecting" /\ page' = "connected")
           lost == wire /\ ~wire' /\ queue # <<>>
<1>1. /\ AsksOK /\ ServerOK /\ now \in Nat /\ UNCHANGED <<kind, conv, listed, req, now, changed, shown, age, overtaken>>
      /\ queue \in Seq(NewsType) /\ (\A n \in Range(queue) : n.at <= now) /\ (~wire => queue = <<>>)
      /\ queue' = (IF wire' THEN queue ELSE <<>>) /\ asks \in Seq(AskType)
  BY DEF Connection, serverVars, PageOK, MembershipInv, ServerOK, AsksOK
<1>2. /\ missed' = (missed \/ lost)
      /\ asks' = IF loads THEN Append(IF lost THEN Stale(asks) ELSE asks, NewAsk("list"))
                 ELSE IF lost THEN Stale(asks) ELSE asks
  BY DEF Connection
<1>3. ~(loads /\ lost) /\ (page = "out" => loads \/ page' = "out")
  BY DEF Connection, SignIn, Join, Drop, Reap, RoomCloses
<1> HIDE DEF loads
<1>4. queue' \in Seq(NewsType) /\ (queue' = queue \/ queue' = <<>>) /\ (~lost => queue' = queue)
  <2>1. <<>> \in Seq(NewsType)
    OBVIOUS
  <2> QED BY <1>1, <2>1
<1>5. Range(queue') \subseteq Range(queue) /\ (\A n \in Range(queue') : n.at <= now) /\ (~wire' => queue' = <<>>)
  <2>1. Range(<<>>) = {}
    BY DEF Range
  <2> QED BY <1>1, <1>4, <2>1
<1>6. /\ Mine' = Mine /\ Truth' = Truth /\ Since(e)' = Since(e)
      /\ \A says, n : Rightly(e, says, n)' <=> Rightly(e, says, n)
      /\ \A n : Announces(n)' <=> Announces(n)
      /\ \A a : Finds(a, e)' <=> Finds(a, e)
      /\ \A s \in RequestIds : Own(s)' = Own(s) /\ Brings(s, e)' = Brings(s, e)
  BY <1>1, TruthStays, RequestStays
<1>7. Lags(e)'
  BY <1>1, LagsStays DEF Converging
<1>8. CASE lost
  <2>1. missed' /\ asks' = Stale(asks)
    BY <1>2, <1>3, <1>8
  <2>2. AsksOK' /\ \A b \in Range(asks') : ~b.fresh /\ \E a \in Range(asks) :
                      b.what = a.what /\ b.stage = a.stage /\ b.says = a.says /\ b.at = a.at
    BY <1>1, <2>1, AsksLost
  <2>3. SaysRightly(e)'
    BY <1>1, <1>5, <1>6, <2>2, SaysStays DEF Converging, UnderWay
  <2>4. Converging(e)'
    BY <1>7, <2>1, <2>2, <2>3, LostConverges
  <2> QED BY <1>4, <1>5, <2>2, <2>4
<1>9. CASE ~lost /\ loads
  <2>1. asks' = Append(asks, NewAsk("list"))
    BY <1>2, <1>9
  <2>2. /\ AsksOK' /\ Range(asks') = Range(asks) \cup {NewAsk("list")}
        /\ NewAsk("list").stage = "asked" /\ NewAsk("list").what = "list"
    BY <1>1, <2>1, AskedMore
  <2>3. PICK x : x = NewAsk("list")
    OBVIOUS
  <2>4. SaysRightly(e)'
    BY <1>1, <1>5, <1>6, <2>2, SaysStays DEF Converging, UnderWay
  <2>5. Coming(e)'
    <3>1. Finds(x, e)
      BY <2>2, <2>3 DEF Finds
    <3> QED BY <1>6, <2>2, <2>3, <3>1 DEF Coming
  <2>6. Converging(e)'
    BY <1>7, <2>4, <2>5, ComingConverges
  <2> QED BY <1>4, <1>5, <2>2, <2>6
<1>10. CASE ~lost /\ ~loads
  <2>1. asks' = asks /\ queue' = queue /\ (missed' <=> missed)
    BY <1>2, <1>4, <1>10
  <2>2. SaysRightly(e)'
    BY <1>1, <1>6, <2>1, SaysStays DEF Converging, UnderWay
  <2>3. Coming(e) => Coming(e)'
    BY <1>3, <1>6, <1>10, <2>1 DEF Coming
  <2>4. Converging(e)'
    BY <1>1, <1>6, <1>7, <2>1, <2>2, <2>3, StillConverges DEF Informed
  <2>5. AsksOK'
    BY <1>1, <2>1 DEF AsksOK, Timely, Later, Denies
  <2> QED BY <1>4, <1>5, <2>4, <2>5
<1> QED BY <1>8, <1>9, <1>10

\* A request that is not under way, or that writes others' lists, changes nothing about it.
LEMMA OtherConverges ==
    ASSUME MembershipInv, RequestsOK, PageOK, Me \notin torn, NEW e \in Nat, Converging(e),
           NEW r \in RequestIds, NEW q \in RequestType, req' = [req EXCEPT ![r] = q],
           UNCHANGED <<kind, conv, now, changed, page, clientVars>>, Me \in listed' <=> Me \in listed,
           \/ ~UnderWay(r) /\ q.pc = "new"
           \/ /\ req[r].pc = "lists" /\ q.pc = "lists" /\ q.op = req[r].op /\ q.by = req[r].by /\ q.about = req[r].about
              /\ q.doc = req[r].doc /\ q.at = req[r].at /\ (Me \in q.lists <=> Me \in req[r].lists)
           \/ /\ ~UnderWay(r) /\ conv # Nobody /\ q.pc = "push" /\ q.op = "create" /\ q.doc = conv /\ q.at = now
    PROVE  Converging(e)'
<1>1. ServerOK /\ UNCHANGED <<queue, asks, shown, age, missed, overtaken>>
  BY DEF clientVars, MembershipInv
<1>2. req'[r] = q /\ \A s \in RequestIds \ {r} : req'[s] = req[s]
  BY <1>1, ReqStep
<1>3. /\ Mine' = Mine /\ Truth' = Truth /\ Since(e)' = Since(e)
      /\ \A says, n : Rightly(e, says, n)' <=> Rightly(e, says, n)
      /\ \A n : Announces(n)' <=> Announces(n)
      /\ \A a : Finds(a, e)' <=> Finds(a, e)
      /\ \A s \in RequestIds \ {r} : Own(s)' = Own(s) /\ Brings(s, e)' = Brings(s, e)
  BY <1>2, TruthStays, RequestStays
<1>4. \A s \in RequestIds \ {r} : UnderWay(s)' = UnderWay(s)
  BY <1>2 DEF UnderWay
<1>5. /\ \/ ~UnderWay(r)'
         \/ /\ UnderWay(r) /\ req'[r].by = req[r].by /\ req'[r].op = req[r].op
            /\ req'[r].about = req[r].about /\ req'[r].doc = req[r].doc /\ req'[r].at = req[r].at
         \/ /\ Own(r)' /\ isMember(req[r].doc, Me)' => Rightly(e, View(req'[r].doc), req'[r].at)
            /\ Removes(r)' => Rightly(e, Nobody, req'[r].at)
      /\ Brings(r, e) => Brings(r, e)'
      /\ Own(r) => Own(r)' /\ req'[r].at = req[r].at
  <2>1. CASE ~UnderWay(r) /\ q.pc = "new"
    <3>1. ~UnderWay(r)'
      BY <1>2, <2>1 DEF UnderWay
    <3> QED BY <2>1, <3>1 DEF Brings, Own, Removes
  <2>2. CASE /\ req[r].pc = "lists" /\ q.pc = "lists" /\ q.op = req[r].op /\ q.by = req[r].by /\ q.about = req[r].about
             /\ q.doc = req[r].doc /\ q.at = req[r].at /\ (Me \in q.lists <=> Me \in req[r].lists)
    <3>1. UnderWay(r) /\ UnderWay(r)'
      BY <1>2, <2>2 DEF UnderWay
    <3>2. Own(r)' = Own(r) /\ Removes(r)' = Removes(r)
      BY <1>2, <2>2, <3>1 DEF Own, Removes
    <3>3. News(r)' = News(r)
      BY <1>2, <2>2 DEF News
    <3>4. isMember(req[r].doc, Me)' = isMember(req[r].doc, Me)
      BY <1>2, <2>2 DEF isMember
    <3>5. Brings(r, e)' = Brings(r, e)
      BY <1>2, <1>3, <2>2, <3>1, <3>2, <3>3, <3>4 DEF Brings
    <3> QED BY <1>2, <2>2, <3>1, <3>2, <3>5
  <2>3. CASE ~UnderWay(r) /\ conv # Nobody /\ q.pc = "push" /\ q.op = "create" /\ q.doc = conv /\ q.at = now
    <3>1. ~Brings(r, e) /\ ~Own(r)
      BY <2>3 DEF Brings, Own, Removes
    <3>2. ~Removes(r)'
      BY <1>2, <2>3 DEF Removes
    <3>3. isMember(req[r].doc, Me)' <=> isMember(conv, Me)
      BY <1>2, <2>3 DEF isMember
    <3>4. isMember(req[r].doc, Me)' => Rightly(e, View(req'[r].doc), req'[r].at)
      BY <1>2, <2>3, <3>3 DEF Rightly, Truth, Mine
    <3> QED BY <3>1, <3>2, <3>4
  <2> QED BY <2>1, <2>2, <2>3
<1>6. SaysRightly(e)'
  <2>1. \A s \in RequestIds :
          \/ ~UnderWay(s)'
          \/ /\ UnderWay(s) /\ req'[s].by = req[s].by /\ req'[s].op = req[s].op
             /\ req'[s].about = req[s].about /\ req'[s].doc = req[s].doc /\ req'[s].at = req[s].at
          \/ /\ Own(s)' /\ isMember(req[s].doc, Me)' => Rightly(e, View(req'[s].doc), req'[s].at)
             /\ Removes(s)' => Rightly(e, Nobody, req'[s].at)
    BY <1>2, <1>4, <1>5
  <2> QED BY <1>1, <1>3, <2>1, SaysStays DEF Converging
<1>7. Lags(e)'
  <2>1. \A s \in RequestIds : req'[s].pc = "lists" /\ Me \in req'[s].lists =>
            req[s].pc = "lists" /\ Me \in req[s].lists /\ req'[s].at = req[s].at
    BY <1>2
  <2> QED BY <1>3, <2>1 DEF Converging, Lags
<1>8. Coming(e) => Coming(e)'
  BY <1>1, <1>3, <1>5 DEF Coming
<1>9. \A s \in RequestIds : Own(s) => Own(s)' /\ req'[s].at = req[s].at
  BY <1>2, <1>3, <1>5
<1> QED BY <1>1, <1>3, <1>6, <1>7, <1>8, <1>9, StillConverges DEF Informed

(***************************************************************************)
(* The document's edits                                                    *)
(***************************************************************************)
\* What an edit by r leaves: it is r that tells Me of it, and nobody else is to write Me's list
\* as Me is or is no longer in it.
Edits(r) ==
    /\ now' = now + 1 /\ conv' \in Documents /\ UNCHANGED <<kind, listed, changed>>
    /\ ~UnderWay(r) /\ req'[r].pc = "lists" /\ req'[r].doc = conv' /\ req'[r].at = now'
    /\ \A s \in RequestIds \ {r} : req'[s] = req[s]
    /\ Removes(r)' => ~Mine'
    /\ Mine' => Own(r)' \/ News(r)' \in {{"added"}, {"updated"}}
    /\ Mine' => \/ Mine /\ Me \notin req'[r].lists
                \/ \A s \in RequestIds \ {r} : ~(req[s].pc = "lists" /\ Me \in req[s].lists)
    /\ Mine /\ ~Mine' => Removes(r)' /\ Me \in req'[r].lists /\ Me \in listed

LEMMA UpdateEdits ==
    ASSUME MembershipInv, NEW r \in RequestIds, NEW d \in Documents, NEW lists \in SUBSET Users,
           conv # Nobody, req[r].pc = "new", Update(r, d, lists), UNCHANGED <<kind, listed, changed>>, Me \notin torn',
           req[r].op # "create", lists # {} => req[r].op # "rename",
           Me \in lists => (Joining(r) <=> Me \in Owners(d)),
           Me \in lists /\ Joining(r) => Me \notin Owners(conv),
           Me \notin lists => (Me \in Owners(d) <=> Me \in Owners(conv)),
           Me \in Owners(d) /\ Me \notin lists => Me \in d.members
    PROVE  Edits(r)
<1>1. /\ ServerOK /\ req[r] \in RequestType /\ d # Nobody /\ Me \in Users
  BY ConversationAssumption, InboxAssumption DEF MembershipInv, ServerOK
<1>2. /\ conv' = d /\ now' = now + 1 /\ (Me \in lists => ~Crosses(r, lists)) /\ Me \notin torn
  BY <1>1 DEF Update, ServerOK
<1>3. PICK q : q = [req[r] EXCEPT !.pc = "lists", !.lists = lists, !.about = lists, !.doc = d, !.at = now']
  OBVIOUS
<1>4. /\ q \in RequestType /\ q.pc = "lists" /\ q.lists = lists /\ q.op = req[r].op /\ q.about = lists
      /\ q.doc = d /\ q.at = now'
  <2>1. PICK w \in RequestType : w = req[r]
    BY <1>1
  <2>2. PICK t \in Nat : t = now'
    BY <1>1, <1>2 DEF ServerOK
  <2>3. q = [w EXCEPT !.pc = "lists", !.lists = lists, !.about = lists, !.doc = d, !.at = t]
    BY <1>3, <2>1, <2>2
  <2> QED BY <2>1, <2>2, <2>3 DEF RequestType
<1>5. req' = [req EXCEPT ![r] = q]
  BY <1>3 DEF Update
<1>6. req'[r] = q /\ \A s \in RequestIds \ {r} : req'[s] = req[s]
  BY <1>1, <1>4, <1>5, ReqStep
<1>7. (Mine <=> Me \in Owners(conv)) /\ (Mine' <=> Me \in Owners(d))
  BY <1>1, <1>2, MineIsOwned DEF Mine, isMember, Owners
<1>8. ~UnderWay(r) /\ UnderWay(r)'
  BY <1>4, <1>6 DEF UnderWay
<1>9. Removes(r)' <=> req[r].op = "remove" /\ Me \in lists
  BY <1>4, <1>6, <1>8 DEF Removes
<1>10. req[r].op = "remove" => ~Joining(r)
  BY DEF Joining
<1>11. \A s \in RequestIds \ {r} : req[s].pc = "lists" /\ Me \in req[s].lists =>
          (Joining(s) <=> Me \in Owners(conv)) /\ (Me \in lists => Joining(s) = Joining(r))
  <2> SUFFICES ASSUME NEW s \in RequestIds \ {r}, req[s].pc = "lists", Me \in req[s].lists
               PROVE  (Joining(s) <=> Me \in Owners(conv)) /\ (Me \in lists => Joining(s) = Joining(r))
    OBVIOUS
  <2>1. Joining(s) <=> Me \in Owners(conv)
    BY <1>1, <1>2 DEF MembershipInv, Following
  <2>2. Me \in lists => Joining(s) = Joining(r)
    BY <1>2 DEF Crosses
  <2> QED BY <2>1, <2>2
<1>12. Mine' => News(r)' \in {{"added"}, {"updated"}}
  <2> SUFFICES ASSUME Mine' PROVE News(r)' \in {{"added"}, {"updated"}}
    OBVIOUS
  <2>1. CASE Me \in lists
    <3>1. q.op \in {"create", "add"} /\ Me \in q.about
      BY <1>4, <1>7, <2>1 DEF Joining
    <3> QED BY <1>6, <3>1 DEF News
  <2>2. CASE Me \notin lists
    <3>1. Me \in q.doc.members /\ Me \notin q.about /\ q.op # "create"
      BY <1>4, <1>7, <2>2
    <3> QED BY <1>6, <3>1 DEF News
  <2> QED BY <2>1, <2>2
<1>13. Mine' => \/ Mine /\ Me \notin lists
                \/ \A s \in RequestIds \ {r} : ~(req[s].pc = "lists" /\ Me \in req[s].lists)
  BY <1>7, <1>11
<1>14. Mine /\ ~Mine' => req[r].op = "remove" /\ Me \in lists /\ Me \in listed
  <2> SUFFICES ASSUME Mine, ~Mine' PROVE req[r].op = "remove" /\ Me \in lists /\ Me \in listed
    OBVIOUS
  <2>1. Me \in lists /\ ~Joining(r)
    BY <1>7
  <2>2. req[r].op \in RouteKinds
    BY <1>1 DEF MembershipInv, Sensible, RequestType
  <2>3. req[r].op = "remove"
    BY <2>1, <2>2 DEF Joining, RouteKinds
  <2>4. Me \in listed
    <3>1. \/ Me \in listed
          \/ \E s \in RequestIds : req[s].pc = "lists" /\ Me \in req[s].lists
      BY <1>1, <1>2, <1>7 DEF MembershipInv, Behind
    <3>2. \A s \in RequestIds : req[s].pc = "lists" => s # r
      OBVIOUS
    <3> QED BY <1>7, <1>11, <2>1, <3>1, <3>2
  <2> QED BY <2>1, <2>3, <2>4
<1>15. Removes(r)' => ~Mine'
  BY <1>7, <1>9, <1>10
<1> QED BY <1>2, <1>4, <1>6, <1>8, <1>9, <1>12, <1>13, <1>14, <1>15 DEF Edits

LEMMA CreateEdits ==
    ASSUME MembershipInv, NEW r \in RequestIds, req[r].pc = "new", req[r].op = "create", conv = Nobody,
           create(r, req[r].by, req[r].about), UNCHANGED <<kind, listed, changed>>
    PROVE  Edits(r)
<1>1. ServerOK /\ req[r] \in RequestType /\ req[r].by \in Users /\ req[r].about \in SUBSET Users /\ Me \in Users
  BY InboxAssumption DEF MembershipInv, ServerOK, Sensible, RequestType
<1>2. PICK d \in Documents, n \in SUBSET Users, a \in SUBSET Users :
        d = NewDocument(req[r].by, req[r].about) /\ d # Nobody /\ n = Owners(d) /\ a = Owners(d) \ {req[r].by}
  BY <1>1, NewDocumentIsOne
<1>3. /\ conv' = d /\ now' = now + 1
      /\ req' = [req EXCEPT ![r] = [@ EXCEPT !.pc = "lists", !.lists = n, !.about = a, !.doc = d, !.at = now']]
  BY <1>2 DEF create
<1>4. PICK w \in RequestType, t \in Nat : w = req[r] /\ t = now'
  BY <1>1, <1>3 DEF ServerOK
<1>5. PICK q : q = [w EXCEPT !.pc = "lists", !.lists = n, !.about = a, !.doc = d, !.at = t]
  OBVIOUS
<1>6. q \in RequestType /\ q.pc = "lists" /\ q.lists = n /\ q.op = "create" /\ q.about = a /\ q.by = w.by /\ q.doc = d /\ q.at = t
  BY <1>4, <1>5 DEF RequestType
<1>7. req' = [req EXCEPT ![r] = q]
  BY <1>3, <1>4, <1>5
<1>8. req'[r] = q /\ \A s \in RequestIds \ {r} : req'[s] = req[s]
  BY <1>1, <1>6, <1>7, ReqStep
<1>9. (Mine' <=> Me \in n) /\ ~Mine
  BY <1>2, <1>3 DEF Mine, isMember, Owners
<1>10. ~UnderWay(r) /\ UnderWay(r)' /\ ~Removes(r)'
  BY <1>6, <1>8 DEF UnderWay, Removes
<1>11. \A s \in RequestIds : req[s].pc # "lists"
  BY DEF MembershipInv, Unmade
<1>12. Mine' => Own(r)' \/ News(r)' \in {{"added"}, {"updated"}}
  <2>1. CASE req[r].by = Me
    BY <1>4, <1>6, <1>8, <1>10, <2>1 DEF Own
  <2>2. CASE req[r].by # Me /\ Mine'
    <3>1. Me \in q.about
      BY <1>2, <1>6, <1>9, <2>2
    <3> QED BY <1>6, <1>8, <3>1 DEF News
  <2> QED BY <2>1, <2>2
<1> QED BY <1>3, <1>4, <1>6, <1>8, <1>9, <1>10, <1>11, <1>12 DEF Edits

LEMMA ChangeEdits ==
    ASSUME MembershipInv, RequestsOK, NEW r \in RequestIds, Change(r), UNCHANGED kind, Me \notin torn',
           req[r].op = "create" => conv = Nobody
    PROVE  Edits(r)
<1>1. /\ ServerOK /\ req[r] \in RequestType /\ req[r].pc = "new" /\ UNCHANGED <<listed, changed>>
      /\ req[r].about \in SUBSET Users /\ (conv # Nobody => conv \in Documents)
  BY DEF MembershipInv, ServerOK, RequestType, Change
<1>2. CASE req[r].op = "create" /\ create(r, req[r].by, req[r].about)
  BY <1>1, <1>2, CreateEdits
<1>3. CASE req[r].op = "add" /\ addMembers(r, req[r].about)
  <2>1. conv # Nobody /\ conv \in Documents /\ kind = "group" /\ Joining(r)
    BY <1>1, <1>3 DEF MembershipInv, Unmade, Sensible, Joining
  <2>2. PICK d, l : d = [conv EXCEPT !.members = @ \cup req[r].about] /\ l = req[r].about \ conv.members
    OBVIOUS
  <2>3. d \in Documents /\ d.members = conv.members \cup req[r].about /\ l \in SUBSET Users
    BY <1>1, <2>1, <2>2 DEF Documents
  <2>4. Update(r, d, l)
    BY <1>3, <2>2 DEF addMembers
  <2>5. Owners(d) = d.members /\ Owners(conv) = conv.members
    BY <2>1 DEF Owners
  <2>6. /\ Me \in l => (Joining(r) <=> Me \in Owners(d))
        /\ Me \in l /\ Joining(r) => Me \notin Owners(conv)
        /\ Me \notin l => (Me \in Owners(d) <=> Me \in Owners(conv))
        /\ Me \in Owners(d) /\ Me \notin l => Me \in d.members
    BY <2>1, <2>2, <2>3, <2>5
  <2> QED BY <1>1, <1>3, <2>1, <2>3, <2>4, <2>6, UpdateEdits
<1>4. CASE req[r].op = "remove" /\ removeMember(r, req[r].about)
  <2>1. conv # Nobody /\ conv \in Documents /\ kind = "group" /\ ~Joining(r)
    BY <1>1, <1>4 DEF MembershipInv, Unmade, Sensible, Joining
  <2>2. PICK d, l : d = [conv EXCEPT !.members = @ \ req[r].about, !.admins = @ \ req[r].about] /\ l = req[r].about
    OBVIOUS
  <2>3. d \in Documents /\ d.members = conv.members \ req[r].about /\ l \in SUBSET Users
    BY <1>1, <2>1, <2>2 DEF Documents
  <2>4. Update(r, d, l)
    BY <1>4, <2>2 DEF removeMember
  <2>5. Owners(d) = d.members /\ Owners(conv) = conv.members
    BY <2>1 DEF Owners
  <2>6. /\ Me \in l => (Joining(r) <=> Me \in Owners(d))
        /\ Me \in l /\ Joining(r) => Me \notin Owners(conv)
        /\ Me \notin l => (Me \in Owners(d) <=> Me \in Owners(conv))
        /\ Me \in Owners(d) /\ Me \notin l => Me \in d.members
    BY <2>1, <2>2, <2>3, <2>5
  <2> QED BY <1>1, <1>4, <2>1, <2>3, <2>4, <2>6, UpdateEdits
<1>5. CASE req[r].op = "rename" /\ rename(r)
  <2>1. conv # Nobody /\ conv \in Documents
    BY <1>1, <1>5 DEF MembershipInv, Unmade
  <2>2. PICK d : d = [conv EXCEPT !.title = @ + 1]
    OBVIOUS
  <2>3. d \in Documents /\ d.members = conv.members /\ d.admins = conv.admins
    BY <2>1, <2>2 DEF Documents
  <2>4. Update(r, d, {})
    BY <1>5, <2>2 DEF rename
  <2>5. Owners(d) = Owners(conv)
    BY <2>3 DEF Owners
  <2>6. Me \in Owners(d) => Me \in d.members
    <3>1. CASE kind = "broadcast"
      <4>1. PICK u \in Users : conv.admins = {u}
        BY <2>1, <3>1 DEF RequestsOK
      <4>2. req[r].by \in conv.admins /\ req[r].by # Me
        BY <1>1, <1>5, <3>1 DEF RequestsOK
      <4> QED BY <2>3, <3>1, <4>1, <4>2 DEF Owners
    <3>2. CASE kind # "broadcast"
      BY <3>2 DEF Owners
    <3> QED BY <3>1, <3>2
  <2> QED BY <1>1, <1>5, <2>1, <2>3, <2>4, <2>5, <2>6, UpdateEdits
<1> QED BY <1>2, <1>3, <1>4, <1>5 DEF Change

\* The page is on its way to what the document says now, as of now.
LEMMA EditConverges ==
    ASSUME MembershipInv, RequestsOK, PageOK, NEW e \in Nat, Converging(e), NEW r \in RequestIds, Edits(r),
           UNCHANGED <<page, clientVars>>
    PROVE  \E m \in Nat : Converging(m)'
<1>0. PICK n \in Nat : n = now'
  BY DEF Edits, MembershipInv, ServerOK
<1>1. /\ ServerOK /\ now \in Nat /\ changed \in Nat /\ AsksOK /\ e <= now /\ changed <= now /\ n = now + 1 /\ now' = now + 1
      /\ UNCHANGED <<queue, asks, shown, age, missed, overtaken>> /\ age \in Nat /\ age <= now
      /\ conv' \in Documents /\ conv' # Nobody
  BY <1>0, ConversationAssumption DEF clientVars, MembershipInv, ServerOK, PageOK, Converging, Lags, Edits
<1>2. \A s \in RequestIds \ {r} : req'[s] = req[s] /\ req[s].at \in Nat /\ req[s].at <= now
  BY <1>1 DEF Edits, PageOK, ServerOK, RequestType
<1>3. \A a \in Range(asks) : a.at \in Nat /\ a.read \in Nat /\ a.at <= now /\ (a.stage = "named" => conv # Nobody)
  <2> SUFFICES ASSUME NEW a \in Range(asks)
               PROVE a.at \in Nat /\ a.read \in Nat /\ a.at <= now /\ (a.stage = "named" => conv # Nobody)
    OBVIOUS
  <2>1. a \in AskType /\ Timely(a)
    BY <1>1 DEF AsksOK, Range
  <2> QED BY <1>1, <2>1 DEF AskType, Timely
<1>4. \A m \in Range(queue) : m.at \in Nat /\ m.at <= now
  <2>1. \A m \in Range(queue) : m \in NewsType
    BY DEF PageOK, Range
  <2> QED BY <2>1 DEF PageOK, NewsType
<1>5. req'[r].pc = "lists" /\ req'[r].at = n /\ req'[r].doc = conv' /\ UnderWay(r)'
  BY <1>0 DEF Edits, UnderWay
<1>6. CASE Mine'
  <2>1. Truth' = View(conv)' /\ Since(n)' = n
    BY <1>6 DEF Truth, Since
  <2>2. \A says, m : m \in Nat /\ m <= now => Rightly(n, says, m)'
    BY <1>1, <2>1 DEF Rightly
  <2>3. SaysRightly(n)'
    <3>1. ~Removes(r)' /\ Rightly(n, View(req[r].doc), req[r].at)'
      <4>1. View(req[r].doc)' = View(conv)'
        BY <1>5 DEF View
      <4> QED BY <1>6, <2>1, <4>1 DEF Edits, Rightly
    <3>2. \A s \in RequestIds \ {r} : Rightly(n, View(req[s].doc), req[s].at)' /\ Rightly(n, Nobody, req[s].at)'
      BY <1>2, <2>2
    <3>3. \A a \in Range(asks) : Rightly(n, a.says, a.at)' /\ Rightly(n, View(conv), a.at)'
      BY <1>3, <2>2
    <3>4. \A m \in Range(queue) : Rightly(n, Nobody, m.at)'
      BY <1>4, <2>2
    <3> QED BY <1>1, <3>1, <3>2, <3>3, <3>4 DEF SaysRightly
  <2>4. Lags(n)'
    <3>1. \A s \in RequestIds : req'[s].pc = "lists" /\ Me \in req'[s].lists =>
            /\ req'[s].at > changed
            /\ \A z \in RequestIds : req'[z].pc = "lists" /\ Me \in req'[z].lists => z = s
      <4>1. CASE \A s \in RequestIds \ {r} : ~(req[s].pc = "lists" /\ Me \in req[s].lists)
        BY <1>1, <1>2, <1>5, <4>1
      <4>2. CASE Mine /\ Me \notin req'[r].lists
        BY <1>1, <1>2, <4>2 DEF Converging, Lags
      <4> QED BY <1>6, <4>1, <4>2 DEF Edits
    <3> QED BY <1>1, <3>1 DEF Edits, Lags
  <2>5. Brings(r, n)'
    <3>1. isMember(req[r].doc, Me)' /\ req'[r].at >= n
      BY <1>1, <1>5, <1>6 DEF Mine, isMember
    <3> QED BY <1>5, <1>6, <3>1 DEF Edits, Brings
  <2>6. Coming(n)'
    BY <2>5 DEF Coming
  <2> QED BY <2>3, <2>4, <2>6, ComingConverges
<1>7. CASE Mine /\ ~Mine'
  <2>1. Removes(r)' /\ Me \in req'[r].lists /\ Me \in listed'
    BY <1>7 DEF Edits
  <2>2. \A says, m : Rightly(n, says, m)'
    BY <1>7, <2>1 DEF Rightly
  <2>3. SaysRightly(n)'
    BY <2>2 DEF SaysRightly
  <2>4. Lags(n)'
    BY <1>1, <1>7 DEF Lags
  <2>5. Brings(r, n)'
    BY <1>5, <1>7, <2>1 DEF Brings
  <2>6. Coming(n)'
    BY <2>5 DEF Coming
  <2> QED BY <2>3, <2>4, <2>6, ComingConverges
<1>8. CASE ~Mine /\ ~Mine'
  <2>1. /\ Mine' = Mine /\ Truth' = Truth /\ Since(e)' = Since(e) /\ Truth = Nobody /\ UNCHANGED <<kind, changed, listed>>
    <3>1. UNCHANGED <<kind, changed, listed>>
      BY DEF Edits
    <3>2. Mine' = Mine
      BY <1>8 DEF Mine, isMember
    <3>3. Truth' = Nobody /\ Truth = Nobody /\ Since(e)' = Since(e)
      BY <1>8, <3>1 DEF Truth, Since
    <3> QED BY <3>1, <3>2, <3>3
  <2>2. \A says, m : Rightly(e, says, m) => Rightly(e, says, m)'
    BY <2>1 DEF Rightly
  <2>3. \A s \in RequestIds \ {r} :
          /\ Own(s)' = Own(s) /\ Removes(s)' = Removes(s) /\ Brings(s, e)' = Brings(s, e)
          /\ isMember(req[s].doc, Me)' = isMember(req[s].doc, Me) /\ View(req[s].doc)' = View(req[s].doc)
    <3>1. \A s \in RequestIds \ {r} : Own(s)' = Own(s) /\ Removes(s)' = Removes(s)
      BY <1>2 DEF Own, Removes, UnderWay
    <3>2. \A s \in RequestIds \ {r} : isMember(req[s].doc, Me)' = isMember(req[s].doc, Me) /\ View(req[s].doc)' = View(req[s].doc)
      BY <1>2, <2>1 DEF isMember, View
    <3>3. \A s \in RequestIds \ {r} : Brings(s, e)' = Brings(s, e)
      BY <1>2, <1>8, <2>1, <3>1 DEF Brings
    <3> QED BY <3>1, <3>2, <3>3
  <2>4. SaysRightly(e)'
    <3>1. Rightly(e, Nobody, req[r].at)' /\ ~(isMember(req[r].doc, Me)')
      <4>1. Rightly(e, Nobody, req[r].at)'
        BY <2>1 DEF Rightly
      <4>2. ~(isMember(req[r].doc, Me)')
        BY <1>1, <1>5, <1>8 DEF Mine, isMember
      <4> QED BY <4>1, <4>2
    <3>2. \A s \in RequestIds \ {r} :
            /\ Own(s)' /\ isMember(req[s].doc, Me)' => Rightly(e, View(req[s].doc), req[s].at)'
            /\ Removes(s)' => Rightly(e, Nobody, req[s].at)'
      BY <1>2, <2>2, <2>3 DEF Converging, SaysRightly
    <3>3. ASSUME NEW a \in Range(asks)
          PROVE  /\ a.stage = "answered" => Rightly(e, a.says, a.at)'
                 /\ a.stage = "named" => Rightly(e, View(conv), a.at)'
      <4>1. a.stage = "answered" => Rightly(e, a.says, a.at)'
        BY <2>2 DEF Converging, SaysRightly
      <4>2. CASE a.stage = "named"
        <5>1. View(conv) # Nobody /\ Rightly(e, View(conv), a.at)
          BY <1>1, <1>3, <4>2, ViewIsOne DEF Converging, SaysRightly, ServerOK
        <5>2. ~(a.at >= Since(e)) \/ Me \in listed
          BY <2>1, <5>1 DEF Rightly
        <5> QED BY <1>8, <2>1, <4>1, <5>2 DEF Rightly
      <4> QED BY <4>1, <4>2
    <3>4. \A m \in Range(queue) : m.type = "removed" => Rightly(e, Nobody, m.at)'
      BY <2>2 DEF Converging, SaysRightly
    <3> QED BY <1>1, <3>1, <3>2, <3>3, <3>4 DEF SaysRightly
  <2>5. Lags(e)'
    BY <1>1, <1>8 DEF Lags
  <2>6. Coming(e) => Coming(e)'
    <3>1. ~Brings(r, e)
      BY <1>8 DEF Edits, Brings, Removes
    <3>2. /\ \A m : Announces(m)' <=> Announces(m)
          /\ \A a : Finds(a, e)' <=> Finds(a, e)
      BY <2>1 DEF Announces, Finds
    <3> QED BY <1>1, <2>3, <3>1, <3>2 DEF Coming
  <2>7. \A s \in RequestIds : Own(s) => Own(s)' /\ req'[s].at = req[s].at
    <3>1. ~Own(r)
      BY DEF Edits, Own
    <3> QED BY <1>2, <2>3, <3>1
  <2> QED BY <1>1, <2>1, <2>4, <2>5, <2>6, <2>7, StillConverges DEF Informed
<1> QED BY <1>6, <1>7, <1>8

LEMMA ChangeConverges ==
    ASSUME MembershipInv, RequestsOK, PageOK, Me \notin torn', NEW e \in Nat, Converging(e),
           NEW r \in RequestIds, Change(r), UNCHANGED <<kind, page, clientVars>>
    PROVE  \E m \in Nat : Converging(m)'
<1>1. /\ ServerOK /\ req[r] \in RequestType /\ req[r].pc = "new" /\ UNCHANGED <<listed, changed>> /\ now \in Nat
  BY DEF MembershipInv, ServerOK, Change
<1>2. CASE req[r].op = "create" => conv = Nobody
  <2>1. Edits(r)
    BY <1>2, ChangeEdits
  <2> QED BY <2>1, EditConverges
<1>3. CASE req[r].op = "create" /\ conv # Nobody
  <2>1. /\ UNCHANGED <<conv, now, torn>> /\ Me \notin torn
        /\ req' = [req EXCEPT ![r] = [@ EXCEPT !.pc = "push", !.doc = conv, !.at = now]]
    BY <1>3 DEF Change, create
  <2>2. PICK w \in RequestType, d \in Documents, t \in Nat : w = req[r] /\ d = conv /\ t = now
    BY <1>1, <1>3 DEF ServerOK
  <2>3. PICK q : q = [w EXCEPT !.pc = "push", !.doc = d, !.at = t]
    OBVIOUS
  <2>4. /\ q \in RequestType /\ q.pc = "push" /\ q.op = "create" /\ q.doc = conv /\ q.at = now
        /\ req' = [req EXCEPT ![r] = q]
    BY <1>3, <2>1, <2>2, <2>3 DEF RequestType
  <2>5. ~UnderWay(r) /\ (Me \in listed' <=> Me \in listed)
    BY <1>1 DEF UnderWay
  <2>6. Converging(e)'
    BY <1>1, <1>3, <2>1, <2>4, <2>5, OtherConverges
  <2> QED BY <2>6
<1> QED BY <1>2, <1>3

LEMMA AskConverges ==
    ASSUME MembershipInv, RequestsOK, PageOK, Me \notin torn, NEW e \in Nat, Converging(e),
           NEW r \in RequestIds, Ask(r), UNCHANGED <<kind, page, clientVars>>
    PROVE  Converging(e)'
<1>1. PICK o \in RouteKinds, u \in Users, us \in SUBSET Users :
        req' = [req EXCEPT ![r] = [@ EXCEPT !.op = o, !.by = u, !.about = us, !.pc = "new"]]
  BY DEF Ask
<1>2. PICK q : q = [req[r] EXCEPT !.op = o, !.by = u, !.about = us, !.pc = "new"]
  OBVIOUS
<1>3. req[r] \in RequestType /\ UNCHANGED <<conv, listed, now, changed>> /\ ~UnderWay(r)
  BY DEF MembershipInv, ServerOK, Ask, UnderWay
<1>4. q \in RequestType /\ q.pc = "new" /\ req' = [req EXCEPT ![r] = q]
  BY <1>1, <1>2, <1>3 DEF RequestType
<1>5. Me \in listed' <=> Me \in listed
  BY <1>3
<1> QED BY <1>3, <1>4, <1>5, OtherConverges

\* Of a request's fields those it leaves alone can be written again.
LEMMA FieldsStay ==
    ASSUME NEW w \in RequestType
    PROVE  /\ \A n : [w EXCEPT !.lists = n] = [w EXCEPT !.lists = n, !.at = w.at, !.fails = w.fails]
           /\ \A n, t : [w EXCEPT !.lists = n, !.at = t] = [w EXCEPT !.lists = n, !.at = t, !.fails = w.fails]
           /\ \A n, f : [w EXCEPT !.lists = n, !.fails = f] = [w EXCEPT !.lists = n, !.at = w.at, !.fails = f]
BY DEF RequestType

LEMMA ListUpdateWritten ==
    ASSUME MembershipInv, NEW r \in RequestIds, NEW u \in Users, ListUpdate(r, u)
    PROVE  \E q \in RequestType :
             /\ req' = [req EXCEPT ![r] = q] /\ q.pc = "lists" /\ q.op = req[r].op /\ q.by = req[r].by
             /\ q.about = req[r].about /\ q.doc = req[r].doc /\ q.lists = req[r].lists \ {u}
             /\ q.at = IF u = Me /\ ~Joining(r) THEN now' ELSE req[r].at
<1>1. /\ ServerOK /\ req[r].pc = "lists"
      /\ IF u = Me THEN now' = now + 1 ELSE now' = now
      /\ req' = [req EXCEPT ![r] = [req[r] EXCEPT !.lists = req[r].lists \ {u},
                                                  !.at = IF u = Me /\ ~Joining(r) THEN now' ELSE req[r].at]]
  BY DEF MembershipInv, ListUpdate, Lists
<1>2. PICK w \in RequestType : w = req[r]
  BY <1>1 DEF ServerOK
<1>3. PICK t \in Nat : t = IF u = Me /\ ~Joining(r) THEN now' ELSE req[r].at
  BY <1>1, <1>2 DEF ServerOK, RequestType
<1>4. PICK f \in BOOLEAN : f = w.fails
  BY DEF RequestType
<1>5. req' = [req EXCEPT ![r] = [req[r] EXCEPT !.lists = req[r].lists \ {u}, !.at = t, !.fails = f]]
  BY <1>1, <1>2, <1>3, <1>4, FieldsStay
<1>6. PICK n \in SUBSET Users : n = w.lists \ {u}
  BY DEF RequestType
<1>7. PICK q : q = [w EXCEPT !.lists = n, !.at = t, !.fails = f]
  OBVIOUS
<1>8. /\ q \in RequestType /\ q.pc = w.pc /\ q.op = w.op /\ q.by = w.by
      /\ q.about = w.about /\ q.doc = w.doc /\ q.at = t /\ q.lists = n
  BY <1>7 DEF RequestType
<1>9. req' = [req EXCEPT ![r] = q] /\ req[r].pc = "lists"
  BY <1>1, <1>2, <1>5, <1>6, <1>7
<1> QED BY <1>2, <1>3, <1>6, <1>8, <1>9

LEMMA GivesUpWritten ==
    ASSUME MembershipInv, NEW r \in RequestIds, NEW gone \in SUBSET Users, GivesUp(r, gone)
    PROVE  /\ torn \subseteq torn'
           /\ \E q \in RequestType :
                /\ req' = [req EXCEPT ![r] = q] /\ q.pc = "lists" /\ q.op = req[r].op /\ q.by = req[r].by
                /\ q.about = req[r].about /\ q.doc = req[r].doc /\ q.at = req[r].at
                /\ q.lists \subseteq req[r].lists /\ (Me \notin torn' => (Me \in q.lists <=> Me \in req[r].lists))
<1>2. /\ ServerOK /\ req[r].pc = "lists" /\ torn' = torn \cup gone
      /\ req' = [req EXCEPT ![r] = [req[r] EXCEPT !.lists = req[r].lists \ gone, !.fails = TRUE]]
  BY DEF MembershipInv, GivesUp, Abandons
<1>3. PICK w \in RequestType : w = req[r]
  BY <1>2 DEF ServerOK
<1>4. PICK t \in Nat : t = w.at
  BY DEF RequestType
<1>5. PICK f \in BOOLEAN : f = TRUE
  OBVIOUS
<1>6. req' = [req EXCEPT ![r] = [req[r] EXCEPT !.lists = req[r].lists \ gone, !.at = t, !.fails = f]]
  BY <1>2, <1>3, <1>4, <1>5, FieldsStay
<1>7. PICK n \in SUBSET Users : n = w.lists \ gone
  BY DEF RequestType
<1>8. PICK q : q = [w EXCEPT !.lists = n, !.at = t, !.fails = f]
  OBVIOUS
<1>9. /\ q \in RequestType /\ q.pc = w.pc /\ q.op = w.op /\ q.by = w.by
      /\ q.about = w.about /\ q.doc = w.doc /\ q.at = t /\ q.lists = n
  BY <1>8 DEF RequestType
<1>10. req' = [req EXCEPT ![r] = q] /\ req[r].pc = "lists"
  BY <1>2, <1>3, <1>6, <1>7, <1>8
<1>11. /\ q.lists \subseteq req[r].lists
       /\ Me \notin torn' => (Me \in q.lists <=> Me \in req[r].lists)
  BY <1>2, <1>3, <1>7, <1>9
<1> QED BY <1>2, <1>3, <1>4, <1>9, <1>10, <1>11

LEMMA GivesUpConverges ==
    ASSUME MembershipInv, RequestsOK, PageOK, Me \notin torn', NEW e \in Nat, Converging(e),
           NEW r \in RequestIds, NEW gone \in SUBSET Users, GivesUp(r, gone), UNCHANGED <<kind, clientVars>>
    PROVE  Converging(e)'
<1>1. /\ req[r].pc = "lists" /\ UNCHANGED <<conv, now, changed, page>> /\ Me \notin torn /\ Me \notin gone
  BY GivesUpWritten DEF GivesUp, Abandons, Fails
<1>2. PICK q \in RequestType :
        /\ req' = [req EXCEPT ![r] = q] /\ q.pc = "lists" /\ q.op = req[r].op /\ q.by = req[r].by
        /\ q.about = req[r].about /\ q.doc = req[r].doc /\ q.at = req[r].at
        /\ (Me \in q.lists <=> Me \in req[r].lists)
  BY GivesUpWritten
<1>3. Me \in listed' <=> Me \in listed
  BY <1>1, InboxAssumption DEF GivesUp
<1> QED BY <1>1, <1>2, <1>3, OtherConverges

LEMMA ListUpdateConverges ==
    ASSUME MembershipInv, RequestsOK, PageOK, Me \notin torn, NEW e \in Nat, Converging(e),
           NEW r \in RequestIds, NEW u \in Users, ListUpdate(r, u), UNCHANGED <<kind, page, clientVars>>
    PROVE  Converging(e)'
<1>1. /\ ServerOK /\ now \in Nat /\ changed \in Nat /\ e <= now /\ changed <= now
      /\ req[r].pc = "lists" /\ u \in req[r].lists /\ UNCHANGED <<kind, conv, page, queue, asks, shown, age, missed, overtaken>>
      /\ listed' = (IF Joining(r) THEN listed \cup {u} ELSE listed \ {u})
      /\ IF u = Me THEN now' = now + 1 /\ changed' = now' ELSE UNCHANGED <<now, changed>>
  BY DEF ListUpdate, Lists, Turn, MembershipInv, ServerOK, PageOK, Converging, Lags, clientVars
<1>2. PICK q \in RequestType :
        /\ req' = [req EXCEPT ![r] = q] /\ q.pc = "lists" /\ q.op = req[r].op /\ q.by = req[r].by
        /\ q.about = req[r].about /\ q.doc = req[r].doc /\ q.lists = req[r].lists \ {u}
        /\ q.at = IF u = Me /\ ~Joining(r) THEN now' ELSE req[r].at
  BY ListUpdateWritten
<1>3. req'[r] = q /\ \A s \in RequestIds \ {r} : req'[s] = req[s]
  BY <1>1, <1>2, ReqStep
<1>4. CASE u # Me
  <2>1. (Me \in listed' <=> Me \in listed) /\ (Me \in q.lists <=> Me \in req[r].lists) /\ q.at = req[r].at
    BY <1>1, <1>2, <1>4
  <2> QED BY <1>1, <1>2, <1>4, <2>1, OtherConverges
<1>5. CASE u = Me
  <2>1. /\ now' = now + 1 /\ changed' = now' /\ Me \in Users /\ conv # Nobody
        /\ (Joining(r) <=> Mine) /\ Mine' = Mine /\ Truth' = Truth
    <3>1. conv # Nobody /\ Me \in req[r].lists \ torn
      BY <1>1, <1>5 DEF MembershipInv, Unmade
    <3>2. Joining(r) <=> Mine
      BY <1>1, <3>1, MineIsOwned DEF MembershipInv, Following
    <3>3. Mine' = Mine
      BY <1>1 DEF Mine, isMember
    <3>4. Truth' = Truth
      BY <1>1, <3>3 DEF Truth, View
    <3> QED BY <1>1, <1>5, <3>1, <3>2, <3>3, <3>4
  <2>2. UnderWay(r) /\ UnderWay(r)' /\ \A s \in RequestIds \ {r} : UnderWay(s)' = UnderWay(s)
    BY <1>1, <1>2, <1>3 DEF UnderWay
  <2>3. CASE Mine
    <3>1. q.at = req[r].at /\ Me \in listed' /\ Since(e)' = Since(e)
      BY <1>1, <1>2, <1>5, <2>1, <2>3 DEF Since
    <3>2. \A says, n : Rightly(e, says, n) => Rightly(e, says, n)'
      BY <2>1, <2>3, <3>1 DEF Rightly
    <3>3. \A s \in RequestIds :
            \/ ~UnderWay(s)'
            \/ /\ UnderWay(s) /\ req'[s].by = req[s].by /\ req'[s].op = req[s].op
               /\ req'[s].about = req[s].about /\ req'[s].doc = req[s].doc /\ req'[s].at = req[s].at
      BY <1>2, <1>3, <2>2, <3>1
    <3>4. SaysRightly(e)'
      BY <1>1, <3>2, <3>3, SaysStays DEF Converging
    <3>5. Lags(e)'
      <4>1. \A s \in RequestIds : ~(req'[s].pc = "lists" /\ Me \in req'[s].lists)
        <5>1. \A s \in RequestIds : req[s].pc = "lists" /\ Me \in req[s].lists => s = r
          BY <1>1, <1>5, <2>3 DEF Converging, Lags
        <5> QED BY <1>2, <1>3, <1>5, <5>1
      <4> QED BY <1>1, <2>1, <3>1, <4>1 DEF Lags
    <3>6. \A s \in RequestIds : Own(s)' = Own(s) /\ News(s)' = News(s) /\ req'[s].at = req[s].at
                                /\ req'[s].pc = req[s].pc /\ isMember(req[s].doc, Me)' = isMember(req[s].doc, Me)
      <4>1. \A s \in RequestIds : /\ req'[s].by = req[s].by /\ req'[s].op = req[s].op /\ req'[s].pc = req[s].pc
                                  /\ req'[s].about = req[s].about /\ req'[s].doc = req[s].doc /\ req'[s].at = req[s].at
        BY <1>1, <1>2, <1>3, <3>1
      <4> QED BY <1>1, <2>2, <4>1 DEF Own, News, isMember
    <3>7. Coming(e) => Coming(e)'
      <4>1. \A s \in RequestIds : Brings(s, e) => Brings(s, e)'
        BY <2>1, <2>2, <2>3, <3>6 DEF Brings
      <4>2. /\ \A m : Announces(m)' <=> Announces(m)
            /\ \A a : Finds(a, e)' <=> Finds(a, e)
        BY <2>1, <2>3, <3>1 DEF Announces, Finds
      <4> QED BY <1>1, <4>1, <4>2 DEF Coming
    <3> QED BY <1>1, <2>1, <3>1, <3>4, <3>5, <3>6, <3>7, StillConverges DEF Informed
  <2>4. CASE ~Mine
    <3>1. q.at = now' /\ Since(e)' = now' /\ Truth' = Nobody /\ ~Joining(r)
      BY <1>2, <1>5, <2>1, <2>4 DEF Since, Truth
    <3>2. q.op = "remove" /\ Me \in q.about
      <4>1. req[r].op \in RouteKinds
        BY <1>1 DEF MembershipInv, Sensible, ServerOK, RequestType
      <4>2. req[r].op \in {"remove", "rename"}
        BY <3>1, <4>1 DEF Joining, RouteKinds
      <4>3. Me \in req[r].about
        BY <1>1, <1>5, <4>2 DEF RequestsOK
      <4> QED BY <1>1, <1>2, <4>2, <4>3 DEF RequestsOK
    <3>3. Removes(r)' /\ ~Own(r)'
      BY <1>3, <2>2, <3>2 DEF Removes, Own
    <3>4. \A says, n : n \in Nat /\ n <= now => Rightly(e, says, n)'
      BY <1>1, <2>1, <3>1 DEF Rightly
    <3>5. SaysRightly(e)'
      <4>1. Rightly(e, Nobody, req[r].at)'
        BY <3>1 DEF Rightly
      <4>2. \A s \in RequestIds \ {r} : Rightly(e, View(req[s].doc), req[s].at)' /\ Rightly(e, Nobody, req[s].at)'
        <5>1. \A s \in RequestIds \ {r} : req'[s] = req[s] /\ req[s].at \in Nat /\ req[s].at <= now
          BY <1>1, <1>3 DEF PageOK, ServerOK, RequestType
        <5> QED BY <3>4, <5>1
      <4>3. \A a \in Range(asks) : Rightly(e, a.says, a.at)' /\ Rightly(e, View(conv), a.at)'
        <5> SUFFICES ASSUME NEW a \in Range(asks) PROVE a.at \in Nat /\ a.at <= now
          BY <3>4
        <5>1. a \in AskType /\ Timely(a)
          BY DEF PageOK, AsksOK, Range
        <5> QED BY <1>1, <5>1 DEF AskType, Timely
      <4>4. \A m \in Range(queue) : Rightly(e, Nobody, m.at)'
        <5>1. \A m \in Range(queue) : m \in NewsType /\ m.at <= now
          BY DEF PageOK, Range
        <5> QED BY <3>4, <5>1 DEF NewsType
      <4> QED BY <1>1, <3>3, <4>1, <4>2, <4>3, <4>4 DEF SaysRightly
    <3>6. Lags(e)'
      BY <1>1, <2>1, <2>4 DEF Lags
    <3>7. Brings(r, e)'
      BY <1>1, <1>3, <2>1, <2>4, <3>1, <3>3 DEF Brings
    <3>8. Coming(e)'
      BY <3>7 DEF Coming
    <3> QED BY <3>5, <3>6, <3>8, ComingConverges
  <2> QED BY <2>3, <2>4
<1> QED BY <1>4, <1>5

(***************************************************************************)
(* What the requests and the page know goes on holding                     *)
(***************************************************************************)
LEMMA RequestsStay ==
    ASSUME ServerOK, RequestsOK, PageOK, NEW r \in RequestIds, NEW q \in RequestType, req' = [req EXCEPT ![r] = q],
           UNCHANGED kind, now' \in Nat, now <= now', q.at <= now',
           kind = "broadcast" /\ conv # Nobody => conv' # Nobody /\ conv'.admins = conv.admins,
           kind = "broadcast" /\ conv' # Nobody => \E u \in Users : conv'.admins = {u},
           q.pc = "lists" => \A v \in q.lists \ q.about : v = q.by /\ q.op = "create",
           q.pc = "answer" => q.by = Me,
           q.pc \in {"new", "lists"} /\ q.op = "rename" => q.about = {},
           q.pc = "new" /\ q.op = "rename" =>
               kind # "dm" /\ q.by # Me /\ (kind = "broadcast" => conv' # Nobody /\ q.by \in conv'.admins)
    PROVE  RequestsOK' /\ \A s \in RequestIds : req'[s].at <= now'
<1>1. req'[r] = q /\ \A s \in RequestIds \ {r} : req'[s] = req[s]
  BY ReqStep
<1>2. \A s \in RequestIds : req'[s].at <= now'
  <2>1. \A s \in RequestIds \ {r} : req[s].at \in Nat /\ req[s].at <= now
    BY DEF PageOK, ServerOK, RequestType
  <2> QED BY <1>1, <2>1 DEF ServerOK
<1>3. RequestsOK'
  <2>1. \A s \in RequestIds :
          /\ req'[s].pc = "lists" => \A v \in req'[s].lists \ req'[s].about : v = req'[s].by /\ req'[s].op = "create"
          /\ req'[s].pc = "answer" => req'[s].by = Me
          /\ req'[s].pc \in {"new", "lists"} /\ req'[s].op = "rename" => req'[s].about = {}
          /\ req'[s].pc = "new" /\ req'[s].op = "rename" =>
               kind # "dm" /\ req'[s].by # Me /\ (kind = "broadcast" => conv' # Nobody /\ req'[s].by \in conv'.admins)
    <3> SUFFICES ASSUME NEW s \in RequestIds
                 PROVE
          /\ req'[s].pc = "lists" => \A v \in req'[s].lists \ req'[s].about : v = req'[s].by /\ req'[s].op = "create"
          /\ req'[s].pc = "answer" => req'[s].by = Me
          /\ req'[s].pc \in {"new", "lists"} /\ req'[s].op = "rename" => req'[s].about = {}
          /\ req'[s].pc = "new" /\ req'[s].op = "rename" =>
               kind # "dm" /\ req'[s].by # Me /\ (kind = "broadcast" => conv' # Nobody /\ req'[s].by \in conv'.admins)
      OBVIOUS
    <3>1. CASE s = r
      BY <1>1, <3>1
    <3>2. CASE s # r
      BY <1>1, <3>2 DEF RequestsOK
    <3> QED BY <3>1, <3>2
  <2> QED BY <2>1 DEF RequestsOK
<1> QED BY <1>2, <1>3

LEMMA AskKnown ==
    ASSUME ServerOK, RequestsOK, PageOK, NEW r \in RequestIds, Ask(r), UNCHANGED kind
    PROVE  RequestsOK' /\ \A s \in RequestIds : req'[s].at <= now'
<1>1. PICK o \in RouteKinds, u \in Users, us \in SUBSET Users :
        /\ Allowed(o, u, us) /\ (u = Me => o # "rename")
        /\ req' = [req EXCEPT ![r] = [@ EXCEPT !.op = o, !.by = u, !.about = us, !.pc = "new"]]
  BY DEF Ask
<1>2. PICK q : q = [req[r] EXCEPT !.op = o, !.by = u, !.about = us, !.pc = "new"]
  OBVIOUS
<1>3. req[r] \in RequestType /\ UNCHANGED <<conv, now>> /\ now \in Nat /\ req[r].at <= now
  BY DEF ServerOK, PageOK, Ask
<1>4. q \in RequestType /\ q.op = o /\ q.by = u /\ q.about = us /\ q.pc = "new" /\ q.at = req[r].at
  BY <1>2, <1>3 DEF RequestType
<1>5. req' = [req EXCEPT ![r] = q]
  BY <1>1, <1>2
<1>6. o = "rename" => us = {} /\ kind # "dm" /\ u # Me /\ conv # Nobody /\ u \in conv.admins
  BY <1>1 DEF Allowed, isAdmin
<1>7. kind = "broadcast" /\ conv' # Nobody => \E v \in Users : conv'.admins = {v}
  BY <1>3 DEF RequestsOK
<1>8. /\ now' \in Nat /\ now <= now' /\ q.at <= now'
      /\ kind = "broadcast" /\ conv # Nobody => conv' # Nobody /\ conv'.admins = conv.admins
      /\ q.pc = "lists" => \A v \in q.lists \ q.about : v = q.by /\ q.op = "create"
      /\ q.pc = "answer" => q.by = Me
      /\ q.pc \in {"new", "lists"} /\ q.op = "rename" => q.about = {}
      /\ q.pc = "new" /\ q.op = "rename" =>
           kind # "dm" /\ q.by # Me /\ (kind = "broadcast" => conv' # Nobody /\ q.by \in conv'.admins)
  BY <1>3, <1>4, <1>6
<1> QED BY <1>4, <1>5, <1>7, <1>8, RequestsStay

LEMMA UpdateKnown ==
    ASSUME ServerOK, RequestsOK, PageOK, NEW r \in RequestIds, NEW d \in Documents, NEW lists \in SUBSET Users,
           conv # Nobody, Update(r, d, lists), UNCHANGED kind,
           kind = "broadcast" => d.admins = conv.admins, req[r].op = "rename" => lists = {}
    PROVE  RequestsOK' /\ \A s \in RequestIds : req'[s].at <= now'
<1>1. req[r] \in RequestType /\ now \in Nat /\ conv' = d /\ now' = now + 1 /\ d # Nobody
  BY ConversationAssumption DEF ServerOK, Update
<1>2. PICK w \in RequestType, t \in Nat : w = req[r] /\ t = now'
  BY <1>1
<1>3. PICK q : q = [w EXCEPT !.pc = "lists", !.lists = lists, !.about = lists, !.doc = d, !.at = t]
  OBVIOUS
<1>4. q \in RequestType /\ q.pc = "lists" /\ q.lists = lists /\ q.op = w.op /\ q.about = lists /\ q.at = t
  BY <1>2, <1>3 DEF RequestType
<1>5. req' = [req EXCEPT ![r] = q]
  BY <1>2, <1>3 DEF Update
<1>6. kind = "broadcast" /\ conv' # Nobody => \E v \in Users : conv'.admins = {v}
  BY <1>1 DEF RequestsOK
<1>7. /\ now' \in Nat /\ now <= now' /\ q.at <= now'
      /\ kind = "broadcast" /\ conv # Nobody => conv' # Nobody /\ conv'.admins = conv.admins
      /\ q.pc = "lists" => \A v \in q.lists \ q.about : v = q.by /\ q.op = "create"
      /\ q.pc = "answer" => q.by = Me
      /\ q.pc \in {"new", "lists"} /\ q.op = "rename" => q.about = {}
      /\ q.pc = "new" /\ q.op = "rename" =>
           kind # "dm" /\ q.by # Me /\ (kind = "broadcast" => conv' # Nobody /\ q.by \in conv'.admins)
  BY <1>1, <1>2, <1>4
<1> QED BY <1>4, <1>5, <1>6, <1>7, RequestsStay

LEMMA CreateKnown ==
    ASSUME MembershipInv, RequestsOK, PageOK, NEW r \in RequestIds, req[r].pc = "new", req[r].op = "create",
           create(r, req[r].by, req[r].about), UNCHANGED kind
    PROVE  RequestsOK' /\ \A s \in RequestIds : req'[s].at <= now'
<1>1. ServerOK /\ req[r] \in RequestType /\ req[r].by \in Users /\ req[r].about \in SUBSET Users /\ now \in Nat
  BY DEF MembershipInv, ServerOK, Sensible, RequestType
<1>2. CASE conv # Nobody
  <2>1. UNCHANGED <<conv, now>> /\ req' = [req EXCEPT ![r] = [@ EXCEPT !.pc = "push", !.doc = conv, !.at = now]]
    BY <1>2 DEF create
  <2>2. PICK w \in RequestType, d \in Documents, t \in Nat : w = req[r] /\ d = conv /\ t = now
    BY <1>1, <1>2 DEF ServerOK
  <2>3. PICK q : q = [w EXCEPT !.pc = "push", !.doc = d, !.at = t]
    OBVIOUS
  <2>4. q \in RequestType /\ q.pc = "push" /\ q.at = t /\ req' = [req EXCEPT ![r] = q]
    BY <2>1, <2>2, <2>3 DEF RequestType
  <2>5. kind = "broadcast" /\ conv' # Nobody => \E v \in Users : conv'.admins = {v}
    BY <2>1 DEF RequestsOK
  <2>6. /\ now' \in Nat /\ now <= now' /\ q.at <= now'
        /\ kind = "broadcast" /\ conv # Nobody => conv' # Nobody /\ conv'.admins = conv.admins
        /\ q.pc = "lists" => \A v \in q.lists \ q.about : v = q.by /\ q.op = "create"
        /\ q.pc = "answer" => q.by = Me
        /\ q.pc \in {"new", "lists"} /\ q.op = "rename" => q.about = {}
        /\ q.pc = "new" /\ q.op = "rename" =>
             kind # "dm" /\ q.by # Me /\ (kind = "broadcast" => conv' # Nobody /\ q.by \in conv'.admins)
    BY <1>1, <2>1, <2>2, <2>4
  <2> QED BY <1>1, <2>4, <2>5, <2>6, RequestsStay
<1>3. CASE conv = Nobody
  <2>1. PICK d \in Documents, n \in SUBSET Users, a \in SUBSET Users :
          d = NewDocument(req[r].by, req[r].about) /\ d # Nobody /\ n = Owners(d) /\ a = Owners(d) \ {req[r].by}
    BY <1>1, NewDocumentIsOne
  <2>2. /\ conv' = d /\ now' = now + 1
        /\ req' = [req EXCEPT ![r] = [@ EXCEPT !.pc = "lists", !.lists = n, !.about = a, !.doc = d, !.at = now']]
    BY <1>3, <2>1 DEF create
  <2>3. PICK w \in RequestType, t \in Nat : w = req[r] /\ t = now'
    BY <1>1, <2>2
  <2>4. PICK q : q = [w EXCEPT !.pc = "lists", !.lists = n, !.about = a, !.doc = d, !.at = t]
    OBVIOUS
  <2>5. q \in RequestType /\ q.pc = "lists" /\ q.lists = n /\ q.op = "create" /\ q.about = a /\ q.by = w.by /\ q.at = t
    BY <2>3, <2>4 DEF RequestType
  <2>6. req' = [req EXCEPT ![r] = q]
    BY <2>2, <2>3, <2>4
  <2>7. kind = "broadcast" /\ conv' # Nobody => \E v \in Users : conv'.admins = {v}
    BY <1>1, <2>1, <2>2 DEF NewDocument
  <2>8. /\ now' \in Nat /\ now <= now' /\ q.at <= now'
        /\ kind = "broadcast" /\ conv # Nobody => conv' # Nobody /\ conv'.admins = conv.admins
        /\ q.pc = "lists" => \A v \in q.lists \ q.about : v = q.by /\ q.op = "create"
        /\ q.pc = "answer" => q.by = Me
        /\ q.pc \in {"new", "lists"} /\ q.op = "rename" => q.about = {}
        /\ q.pc = "new" /\ q.op = "rename" =>
             kind # "dm" /\ q.by # Me /\ (kind = "broadcast" => conv' # Nobody /\ q.by \in conv'.admins)
    BY <1>1, <1>3, <2>1, <2>2, <2>3, <2>5
  <2> QED BY <1>1, <2>5, <2>6, <2>7, <2>8, RequestsStay
<1> QED BY <1>2, <1>3

LEMMA ChangeKnown ==
    ASSUME MembershipInv, RequestsOK, PageOK, NEW r \in RequestIds, Change(r), UNCHANGED kind
    PROVE  RequestsOK' /\ \A s \in RequestIds : req'[s].at <= now'
<1>1. /\ ServerOK /\ req[r] \in RequestType /\ req[r].pc = "new" /\ req[r].about \in SUBSET Users
      /\ (conv # Nobody => conv \in Documents)
  BY DEF MembershipInv, ServerOK, RequestType, Change
<1>2. CASE req[r].op = "create" /\ create(r, req[r].by, req[r].about)
  BY <1>1, <1>2, CreateKnown
<1>3. CASE req[r].op = "add" /\ addMembers(r, req[r].about)
  <2>1. conv # Nobody /\ conv \in Documents /\ kind = "group"
    BY <1>1, <1>3 DEF MembershipInv, Unmade, Sensible
  <2>2. PICK d, l : d = [conv EXCEPT !.members = @ \cup req[r].about] /\ l = req[r].about \ conv.members
    OBVIOUS
  <2>3. d \in Documents /\ l \in SUBSET Users
    BY <1>1, <2>1, <2>2 DEF Documents
  <2>4. Update(r, d, l)
    BY <1>3, <2>2 DEF addMembers
  <2> QED BY <1>1, <1>3, <2>1, <2>3, <2>4, UpdateKnown
<1>4. CASE req[r].op = "remove" /\ removeMember(r, req[r].about)
  <2>1. conv # Nobody /\ conv \in Documents /\ kind = "group"
    BY <1>1, <1>4 DEF MembershipInv, Unmade, Sensible
  <2>2. PICK d, l : d = [conv EXCEPT !.members = @ \ req[r].about, !.admins = @ \ req[r].about] /\ l = req[r].about
    OBVIOUS
  <2>3. d \in Documents /\ l \in SUBSET Users
    BY <1>1, <2>1, <2>2 DEF Documents
  <2>4. Update(r, d, l)
    BY <1>4, <2>2 DEF removeMember
  <2> QED BY <1>1, <1>4, <2>1, <2>3, <2>4, UpdateKnown
<1>5. CASE req[r].op = "rename" /\ rename(r)
  <2>1. conv # Nobody /\ conv \in Documents
    BY <1>1, <1>5 DEF MembershipInv, Unmade
  <2>2. PICK d : d = [conv EXCEPT !.title = @ + 1]
    OBVIOUS
  <2>3. d \in Documents /\ d.admins = conv.admins
    BY <2>1, <2>2 DEF Documents
  <2>4. Update(r, d, {})
    BY <1>5, <2>2 DEF rename
  <2> QED BY <1>1, <2>1, <2>3, <2>4, UpdateKnown
<1> QED BY <1>2, <1>3, <1>4, <1>5 DEF Change

\* A request that writes lists, or is over, is about the same users still.
LEMMA LaterKnown ==
    ASSUME ServerOK, RequestsOK, PageOK, NEW r \in RequestIds, NEW q \in RequestType, req' = [req EXCEPT ![r] = q],
           UNCHANGED <<kind, conv>>, now' \in Nat, now <= now', q.at <= now',
           \/ q.pc = "done"
           \/ q.pc = "answer" /\ q.by = Me
           \/ /\ req[r].pc = "lists" /\ q.pc = "lists" /\ q.op = req[r].op /\ q.by = req[r].by
              /\ q.about = req[r].about /\ q.lists \subseteq req[r].lists
    PROVE  RequestsOK' /\ \A s \in RequestIds : req'[s].at <= now'
<1>1. kind = "broadcast" /\ conv' # Nobody => \E v \in Users : conv'.admins = {v}
  BY DEF RequestsOK
<1>2. /\ q.pc = "lists" => \A v \in q.lists \ q.about : v = q.by /\ q.op = "create"
      /\ q.pc = "answer" => q.by = Me
      /\ q.pc \in {"new", "lists"} /\ q.op = "rename" => q.about = {}
      /\ q.pc # "new"
  <2>1. req[r].pc = "lists" =>
          /\ \A v \in req[r].lists \ req[r].about : v = req[r].by /\ req[r].op = "create"
          /\ req[r].op = "rename" => req[r].about = {}
    BY DEF RequestsOK
  <2> QED BY <2>1
<1> QED BY <1>1, <1>2, RequestsStay

LEMMA ListUpdateKnown ==
    ASSUME MembershipInv, RequestsOK, PageOK, NEW r \in RequestIds, NEW u \in Users, ListUpdate(r, u), UNCHANGED kind
    PROVE  RequestsOK' /\ \A s \in RequestIds : req'[s].at <= now'
<1>1. /\ ServerOK /\ now \in Nat /\ conv' = conv /\ req[r].pc = "lists" /\ req[r].at \in Nat /\ req[r].at <= now
      /\ IF u = Me THEN now' = now + 1 ELSE now' = now
  BY DEF MembershipInv, ServerOK, RequestType, PageOK, ListUpdate, Lists
<1>2. PICK q \in RequestType :
        /\ req' = [req EXCEPT ![r] = q] /\ q.pc = "lists" /\ q.op = req[r].op /\ q.by = req[r].by
        /\ q.about = req[r].about /\ q.doc = req[r].doc /\ q.lists = req[r].lists \ {u}
        /\ q.at = IF u = Me /\ ~Joining(r) THEN now' ELSE req[r].at
  BY ListUpdateWritten
<1>3. now' \in Nat /\ now <= now' /\ q.at <= now' /\ q.lists \subseteq req[r].lists
  BY <1>1, <1>2
<1> QED BY <1>1, <1>2, <1>3, LaterKnown

LEMMA GivesUpKnown ==
    ASSUME MembershipInv, RequestsOK, PageOK, NEW r \in RequestIds, NEW gone \in SUBSET Users, GivesUp(r, gone), UNCHANGED kind
    PROVE  RequestsOK' /\ \A s \in RequestIds : req'[s].at <= now'
<1>1. ServerOK /\ now \in Nat /\ conv' = conv /\ now' = now /\ req[r].pc = "lists" /\ req[r].at <= now
  BY DEF MembershipInv, ServerOK, PageOK, GivesUp, Abandons
<1>2. PICK q \in RequestType :
        /\ req' = [req EXCEPT ![r] = q] /\ q.pc = "lists" /\ q.op = req[r].op /\ q.by = req[r].by
        /\ q.about = req[r].about /\ q.at = req[r].at /\ q.lists \subseteq req[r].lists
  BY GivesUpWritten
<1>3. now' \in Nat /\ now <= now' /\ q.at <= now'
  BY <1>1, <1>2
<1> QED BY <1>1, <1>2, <1>3, LaterKnown

\* A request that has pushed its news, or whose answer is shown.
LEMMA PushKnown ==
    ASSUME MembershipInv, RequestsOK, PageOK, NEW r \in RequestIds, Push(r), UNCHANGED kind
    PROVE  RequestsOK' /\ \A s \in RequestIds : req'[s].at <= now'
<1>1. ServerOK /\ req[r] \in RequestType /\ now \in Nat /\ conv' = conv /\ now' = now /\ req[r].at <= now
  BY DEF MembershipInv, ServerOK, PageOK, Push
<1>2. PICK q : q = IF req[r].by = Me THEN [req[r] EXCEPT !.pc = "answer"] ELSE Over(req[r])
  OBVIOUS
<1>3. q \in RequestType /\ req' = [req EXCEPT ![r] = q] /\ (q.pc = "done" \/ (q.pc = "answer" /\ q.by = Me))
  BY <1>1, <1>2, OverIsOne DEF Push, RequestType
<1>4. now' \in Nat /\ now <= now' /\ q.at <= now'
  BY <1>1, <1>2, OverIsOne DEF RequestType
<1> QED BY <1>1, <1>3, <1>4, LaterKnown

LEMMA OverKnown ==
    ASSUME MembershipInv, RequestsOK, PageOK, NEW r \in RequestIds, req' = [req EXCEPT ![r] = Over(@)],
           UNCHANGED <<kind, conv, now>>
    PROVE  RequestsOK' /\ \A s \in RequestIds : req'[s].at <= now'
<1>1. ServerOK /\ req[r] \in RequestType /\ now \in Nat
  BY DEF MembershipInv, ServerOK
<1>2. PICK q : q = Over(req[r])
  OBVIOUS
<1>3. q \in RequestType /\ req' = [req EXCEPT ![r] = q] /\ q.pc = "done" /\ q.at = 0
  BY <1>1, <1>2, OverIsOne
<1>4. now' \in Nat /\ now <= now' /\ q.at <= now'
  BY <1>1, <1>3
<1> QED BY <1>1, <1>3, <1>4, LaterKnown

\* What the server does to itself the page still knows.
LEMMA ServerKnown ==
    ASSUME PageOK, ServerOK, ServerOK', UNCHANGED <<wire, queue, asks, age>>, \A s \in RequestIds : req'[s].at <= now',
           now <= now', changed <= changed', changed' <= now', conv # Nobody => conv' # Nobody
    PROVE  PageOK'
<1>1. now \in Nat /\ changed \in Nat /\ now' \in Nat /\ changed' \in Nat
  BY DEF ServerOK
<1>2. AsksOK'
  BY <1>1, AsksStay DEF PageOK
<1>3. \A n \in Range(queue) : n.at <= now'
  <2> SUFFICES ASSUME NEW n \in Range(queue) PROVE n.at <= now'
    OBVIOUS
  <2>1. n \in NewsType /\ n.at <= now
    BY DEF PageOK, Range
  <2> QED BY <1>1, <2>1 DEF NewsType
<1> QED BY <1>1, <1>2, <1>3 DEF PageOK

\* Who is torn stays so.
LEMMA TornGrows == ASSUME MembershipInv, [ConversationNext]_conversationVars PROVE torn \subseteq torn'
<1>1. CASE UNCHANGED torn
  BY <1>1
<1>2. CASE \E r \in RequestIds : Change(r)
  <2>1. \A r, d, lists : Update(r, d, lists) => torn \subseteq torn'
    BY DEF Update
  <2> QED BY <1>2, <2>1 DEF Change, addMembers, removeMember, rename
<1>3. CASE \E r \in RequestIds : \E us : Abandons(r, us)
  BY <1>3 DEF Abandons
<1> QED BY <1>1, <1>2, <1>3
        DEF ConversationNext, conversationVars, serverVars, Serves, Tells, Ask, ListUpdate, Lists, ListFails, DocumentFails,
            Push, Fail, OwnAnswer, Connection

LEMMA ServesConverges ==
    ASSUME MembershipInv, MembershipInv', RequestsOK, PageOK, Me \notin torn, Me \notin torn', NEW e \in Nat, Converging(e),
           NEW r \in RequestIds, Serves(r), UNCHANGED <<kind, clientVars>>
    PROVE  RequestsOK' /\ PageOK' /\ \E m \in Nat : Converging(m)'
<1>1. /\ ServerOK /\ ServerOK' /\ now \in Nat /\ changed \in Nat /\ changed <= now
      /\ UNCHANGED <<kind, clientVars, wire, page, queue, asks, age>>
  BY DEF MembershipInv, ServerOK, PageOK, clientVars, Serves, inboxVars, ListFails, DocumentFails, Abandons, Fails
<1>2. CASE Ask(r)
  <2>1. RequestsOK' /\ \A s \in RequestIds : req'[s].at <= now'
    BY <1>1, <1>2, AskKnown
  <2>2. now <= now' /\ changed <= changed' /\ changed' <= now' /\ (conv # Nobody => conv' # Nobody)
    BY <1>1, <1>2 DEF Ask
  <2>3. PageOK'
    BY <1>1, <2>1, <2>2, ServerKnown
  <2>4. Converging(e)'
    BY <1>1, <1>2, AskConverges
  <2> QED BY <2>1, <2>3, <2>4
<1>3. CASE Change(r)
  <2>1. RequestsOK' /\ \A s \in RequestIds : req'[s].at <= now'
    BY <1>1, <1>3, ChangeKnown
  <2>2. now <= now' /\ changed' = changed /\ changed' <= now' /\ (conv # Nobody => conv' # Nobody)
    <3>1. now' \in {now, now + 1} /\ changed' = changed
      BY <1>3 DEF Change, create, addMembers, removeMember, rename, Update
    <3>2. conv # Nobody => conv' # Nobody
      <4>1. CASE req[r].op = "create" /\ conv # Nobody
        BY <1>3, <4>1 DEF Change, create
      <4>2. CASE req[r].op = "create" => conv = Nobody
        <5>1. Edits(r)
          BY <1>1, <1>3, <4>2, ChangeEdits
        <5> QED BY <5>1, ConversationAssumption DEF Edits
      <4> QED BY <4>1, <4>2
    <3> QED BY <1>1, <3>1, <3>2
  <2>3. PageOK'
    BY <1>1, <2>1, <2>2, ServerKnown
  <2>4. \E m \in Nat : Converging(m)'
    BY <1>1, <1>3, ChangeConverges
  <2> QED BY <2>1, <2>3, <2>4
<1>4. ASSUME NEW u \in Users, ListUpdate(r, u) PROVE RequestsOK' /\ PageOK' /\ \E m \in Nat : Converging(m)'
  <2>1. RequestsOK' /\ \A s \in RequestIds : req'[s].at <= now'
    BY <1>1, <1>4, ListUpdateKnown
  <2>2. now <= now' /\ changed <= changed' /\ changed' <= now' /\ (conv # Nobody => conv' # Nobody)
    BY <1>1, <1>4 DEF ListUpdate, Lists
  <2>3. PageOK'
    BY <1>1, <2>1, <2>2, ServerKnown
  <2>4. Converging(e)'
    BY <1>1, <1>4, ListUpdateConverges
  <2> QED BY <2>1, <2>3, <2>4
<1>5. ASSUME NEW gone \in SUBSET Users, GivesUp(r, gone) PROVE RequestsOK' /\ PageOK' /\ \E m \in Nat : Converging(m)'
  <2>1. RequestsOK' /\ \A s \in RequestIds : req'[s].at <= now'
    BY <1>1, <1>5, GivesUpKnown
  <2>2. now <= now' /\ changed <= changed' /\ changed' <= now' /\ (conv # Nobody => conv' # Nobody)
    BY <1>1, <1>5 DEF GivesUp, Abandons
  <2>3. PageOK'
    BY <1>1, <2>1, <2>2, ServerKnown
  <2>4. Converging(e)'
    BY <1>1, <1>5, GivesUpConverges
  <2> QED BY <2>1, <2>3, <2>4
<1> QED BY <1>2, <1>3, <1>4, <1>5, ListFailsGivesUp, DocumentFailsGivesUp DEF Serves

LEMMA TellsConverges ==
    ASSUME MembershipInv, RequestsOK, PageOK, Me \notin torn, NEW e \in Nat, Converging(e),
           NEW r \in RequestIds, Tells(r), UNCHANGED <<kind, inboxVars, shown, age, overtaken>>
    PROVE  RequestsOK' /\ PageOK' /\ Converging(e)'
<1>1. now \in Nat /\ changed \in Nat /\ UNCHANGED <<now, changed, conv, age, wire>>
  BY DEF MembershipInv, ServerOK, Tells, Push, Fail, inboxVars
<1>2. CASE Push(r)
  <2>1. RequestsOK' /\ \A s \in RequestIds : req'[s].at <= now'
    BY <1>2, PushKnown
  <2>2. Converging(e)' /\ AsksOK' /\ queue' \in Seq(NewsType) /\ (\A n \in Range(queue') : n.at <= now)
        /\ (~wire' => queue' = <<>>)
    BY <1>2, PushConverges
  <2> QED BY <1>1, <2>1, <2>2 DEF PageOK
<1>3. CASE Fail(r)
  <2>1. req' = [req EXCEPT ![r] = Over(@)] /\ UNCHANGED queue
    BY <1>3 DEF Fail
  <2>2. RequestsOK' /\ \A s \in RequestIds : req'[s].at <= now'
    BY <1>1, <2>1, OverKnown
  <2>3. Converging(e)' /\ AsksOK'
    BY <1>3, FailConverges
  <2> QED BY <1>1, <2>1, <2>2, <2>3 DEF PageOK
<1> QED BY <1>2, <1>3 DEF Tells

LEMMA OwnAnswerKnown ==
    ASSUME MembershipInv, RequestsOK, PageOK, Me \notin torn, NEW e \in Nat, Converging(e),
           NEW r \in RequestIds, OwnAnswer(r), UNCHANGED <<kind, inboxVars>>
    PROVE  RequestsOK' /\ PageOK' /\ Converging(e)'
<1>1. UNCHANGED <<now, changed, conv, queue, wire>> /\ req' = [req EXCEPT ![r] = Over(@)]
  BY DEF OwnAnswer, inboxVars
<1>2. RequestsOK' /\ \A s \in RequestIds : req'[s].at <= now'
  BY <1>1, OverKnown
<1>3. Converging(e)' /\ AsksOK' /\ age' \in Nat /\ age' <= now
  BY OwnAnswerConverges
<1> QED BY <1>1, <1>2, <1>3 DEF PageOK

\* The requests wait meanwhile.
LEMMA RequestsWait == ASSUME RequestsOK, UNCHANGED <<kind, conv, req>> PROVE RequestsOK'
BY DEF RequestsOK

LEMMA ReceiveKnown ==
    ASSUME MembershipInv, RequestsOK, PageOK, Me \notin torn, NEW e \in Nat, Converging(e),
           Receive, UNCHANGED <<kind, serverVars, inboxVars>>
    PROVE  RequestsOK' /\ PageOK' /\ Converging(e)'
<1>1. UNCHANGED <<kind, conv, req, now, changed, wire>> /\ queue # <<>>
  BY DEF serverVars, inboxVars, Receive
<1>2. /\ Converging(e)' /\ AsksOK' /\ queue' \in Seq(NewsType) /\ Range(queue') \subseteq Range(queue)
      /\ age' \in Nat /\ age' <= now
  BY ReceiveConverges
<1> QED BY <1>1, <1>2, RequestsWait DEF PageOK

LEMMA AnswersConverges ==
    ASSUME MembershipInv, RequestsOK, PageOK, Me \notin torn, NEW e \in Nat, Converging(e),
           NEW i \in DOMAIN asks, Answers(i), UNCHANGED <<kind, serverVars>>
    PROVE  RequestsOK' /\ PageOK' /\ Converging(e)'
<1>1. UNCHANGED <<kind, conv, req, now, changed, wire, queue>>
  BY DEF serverVars, inboxVars, Answers, fetchConversation, listForUser, ReadNamed, AnswerShown, AskFails, Fails
<1>2. Converging(e)' /\ AsksOK' /\ age' \in Nat /\ age' <= now
  <2>1. age \in Nat /\ age <= now
    BY DEF PageOK
  <2>2. CASE fetchConversation(i) /\ UNCHANGED inboxVars
    <3>1. Converging(e)' /\ AsksOK'
      BY <2>2, fetchConversationConverges
    <3> QED BY <2>1, <2>2, <3>1 DEF fetchConversation
  <2>3. CASE listForUser(i) /\ UNCHANGED inboxVars
    <3>1. Converging(e)' /\ AsksOK'
      BY <2>3, listForUserConverges
    <3> QED BY <2>1, <2>3, <3>1 DEF listForUser
  <2>4. CASE ReadNamed(i) /\ UNCHANGED inboxVars
    <3>1. Converging(e)' /\ AsksOK'
      BY <2>4, ReadNamedConverges
    <3> QED BY <2>1, <2>4, <3>1 DEF ReadNamed
  <2>5. CASE AnswerShown(i) /\ UNCHANGED inboxVars
    BY <2>5, AnswerShownConverges
  <2>6. CASE AskFails(i)
    <3>1. Converging(e)' /\ AsksOK'
      BY <2>6, AskFailsConverges
    <3> QED BY <2>1, <2>6, <3>1 DEF AskFails
  <2> QED BY <2>2, <2>3, <2>4, <2>5, <2>6 DEF Answers
<1> QED BY <1>1, <1>2, RequestsWait DEF PageOK

LEMMA ConnectionKnown ==
    ASSUME MembershipInv, RequestsOK, PageOK, Me \notin torn, NEW e \in Nat, Converging(e), Connection, UNCHANGED kind
    PROVE  RequestsOK' /\ PageOK' /\ Converging(e)'
<1>1. UNCHANGED <<kind, conv, req, now, changed, age>>
  BY DEF Connection, serverVars
<1>2. Converging(e)' /\ AsksOK' /\ queue' \in Seq(NewsType) /\ (\A n \in Range(queue') : n.at <= now)
      /\ (~wire' => queue' = <<>>)
  BY ConnectionConverges
<1> QED BY <1>1, <1>2, RequestsWait DEF PageOK

LEMMA NothingConverges ==
    ASSUME MembershipInv, RequestsOK, PageOK, NEW e \in Nat, Converging(e), UNCHANGED conversationVars
    PROVE  RequestsOK' /\ PageOK' /\ Converging(e)'
<1>1. UNCHANGED <<kind, conv, listed, req, now, changed, page, wire, queue, asks, shown, age, missed, overtaken>>
  BY DEF conversationVars, serverVars, clientVars, inboxVars
<1>2. ServerOK
  BY DEF MembershipInv
<1>3. AsksOK'
  BY <1>1, <1>2, AsksStay DEF PageOK, ServerOK
<1>4. PageOK'
  BY <1>1, <1>3 DEF PageOK
<1>5. /\ Mine' = Mine /\ Truth' = Truth /\ Since(e)' = Since(e)
      /\ \A n : Announces(n)' <=> Announces(n)
      /\ \A a : Finds(a, e)' <=> Finds(a, e)
      /\ \A s \in RequestIds : Own(s)' = Own(s) /\ Brings(s, e)' = Brings(s, e)
  BY <1>1, TruthStays, RequestStays
<1>6. SaysRightly(e)'
  <2>1. \A says, n : Rightly(e, says, n)' <=> Rightly(e, says, n)
    BY <1>1, TruthStays
  <2> QED BY <1>1, <1>5, <2>1, SaysStays DEF Converging, UnderWay
<1>7. Lags(e)'
  BY <1>1, LagsStays DEF Converging
<1>8. Coming(e) => Coming(e)'
  BY <1>1, <1>5 DEF Coming
<1>9. Converging(e)'
  BY <1>1, <1>5, <1>6, <1>7, <1>8, StillConverges DEF Informed
<1> QED BY <1>1, <1>4, <1>9, RequestsWait

LEMMA ConvergeStep ==
    ASSUME MembershipInv, ConvergeInv, [ConversationNext]_conversationVars
    PROVE  ConvergeInv'
<1>1. SUFFICES ASSUME Me \notin torn' PROVE RequestsOK' /\ PageOK' /\ \E m \in Nat : Converging(m)'
  BY DEF ConvergeInv
<1>2. MembershipInv' /\ Me \notin torn
  <2>1. MembershipInv'
    BY MembershipStep
  <2>2. torn \subseteq torn'
    BY TornGrows
  <2> QED BY <1>1, <2>1, <2>2
<1>3. RequestsOK /\ PageOK
  BY <1>2 DEF ConvergeInv
<1>4. PICK e \in Nat : Converging(e)
  BY <1>2 DEF ConvergeInv
<1>5. CASE UNCHANGED conversationVars
  BY <1>3, <1>4, <1>5, NothingConverges
<1>6. CASE ConversationNext
  <2>1. UNCHANGED kind
    BY <1>6 DEF ConversationNext
  <2>2. ASSUME NEW r \in RequestIds, Serves(r), UNCHANGED clientVars
        PROVE  RequestsOK' /\ PageOK' /\ \E m \in Nat : Converging(m)'
    BY <1>1, <1>2, <1>3, <1>4, <2>1, <2>2, ServesConverges
  <2>3. ASSUME NEW r \in RequestIds, Tells(r), UNCHANGED <<inboxVars, shown, age, overtaken>>
        PROVE  RequestsOK' /\ PageOK' /\ Converging(e)'
    BY <1>2, <1>3, <1>4, <2>1, <2>3, TellsConverges
  <2>4. ASSUME NEW r \in RequestIds, OwnAnswer(r), UNCHANGED inboxVars
        PROVE  RequestsOK' /\ PageOK' /\ Converging(e)'
    BY <1>2, <1>3, <1>4, <2>1, <2>4, OwnAnswerKnown
  <2>5. CASE Receive /\ UNCHANGED <<inboxVars, serverVars>>
    BY <1>2, <1>3, <1>4, <2>1, <2>5, ReceiveKnown
  <2>6. ASSUME NEW i \in DOMAIN asks, Answers(i), UNCHANGED serverVars
        PROVE  RequestsOK' /\ PageOK' /\ Converging(e)'
    BY <1>2, <1>3, <1>4, <2>1, <2>6, AnswersConverges
  <2>7. CASE Connection
    BY <1>2, <1>3, <1>4, <2>1, <2>7, ConnectionKnown
  <2> QED BY <1>6, <2>2, <2>3, <2>4, <2>5, <2>6, <2>7 DEF ConversationNext
<1> QED BY <1>5, <1>6

LEMMA ConvergeInit == ConversationInit => ConvergeInv
<1> SUFFICES ASSUME ConversationInit PROVE ConvergeInv
  OBVIOUS
<1>1. /\ req = [r \in RequestIds |-> Idle] /\ queue = <<>> /\ asks = <<>> /\ shown = Nobody
      /\ now = 0 /\ changed = 0 /\ age = 0 /\ page = "out"
  BY DEF ConversationInit, InboxInit
<1>2. Range(queue) = {} /\ Range(asks) = {} /\ queue \in Seq(NewsType) /\ asks \in Seq(AskType)
  BY <1>1 DEF Range
<1>3. \A r \in RequestIds : req[r].pc = "idle" /\ req[r].at = 0
  BY <1>1 DEF Idle
<1>4. RequestsOK
  <2>1. ASSUME kind = "broadcast", conv # Nobody PROVE \E u \in Users : conv.admins = {u}
    <3>1. PICK u \in Users, us \in SUBSET Users : conv = NewDocument(u, us \ {u})
      BY <2>1 DEF ConversationInit, Exists
    <3> QED BY <2>1, <3>1 DEF NewDocument
  <2> QED BY <1>3, <2>1 DEF RequestsOK
<1>5. PageOK
  BY <1>1, <1>2, <1>3 DEF PageOK, AsksOK
<1>6. Converging(0)
  <2>1. Coming(0)
    BY <1>1 DEF Coming
  <2>2. SaysRightly(0)
    BY <1>2, <1>3 DEF SaysRightly, Own, Removes, UnderWay
  <2>3. Lags(0)
    <3>1. Mine => Me \in listed
      <4>1. Mine => \E u \in Users, us \in SUBSET Users : listed = Owners(conv)
        BY DEF Mine, ConversationInit, Exists
      <4> QED BY <4>1 DEF Mine, isMember, Owners
    <3> QED BY <1>1, <1>3, <3>1 DEF Lags
  <2> QED BY <2>1, <2>2, <2>3 DEF Converging, Told, Believes, PutRight, Unnamed
<1> QED BY <1>4, <1>5, <1>6 DEF ConvergeInv

\* The inductive invariant of Me's page.
THEOREM ConvergeInvariance == ConversationSpec => []ConvergeInv
<1>1. ConversationInit => ConvergeInv
  BY ConvergeInit
<1>2. MembershipInv /\ ConvergeInv /\ [ConversationNext]_conversationVars => ConvergeInv'
  BY ConvergeStep
<1> QED BY <1>1, <1>2, MembershipInvariance, PTL DEF ConversationSpec

\* When everything is delivered and answered, a connected page (contexts/chat-context.tsx) shows
\* the conversation as it is, or not at all, as its user's list says, for any users, requests and
\* order of the answers: unless news was lost and no list read since, or an older answer came last.
THEOREM PageFollows == ConversationSpec => []ListConverges
<1>1. MembershipInv /\ ConvergeInv => ListConverges
  <2> SUFFICES ASSUME MembershipInv, ConvergeInv, Served, queue = <<>>, asks = <<>>, page = "connected",
                      ~missed, ~overtaken, Me \notin torn
               PROVE  shown = IF Me \in listed THEN View(conv) ELSE Nobody
    BY DEF ListConverges
  <2>1. PICK e \in Nat : Converging(e)
    BY DEF ConvergeInv
  <2>2. Range(queue) = {} /\ Range(asks) = {}
    BY DEF Range
  <2>3. \A r \in RequestIds : ~UnderWay(r)
    BY DEF Served, UnderWay
  <2>4. ~Coming(e)
    BY <2>2, <2>3 DEF Coming, Brings, Own, Removes
  <2>5. age >= Since(e)
    BY <2>1, <2>2, <2>4 DEF Converging, Told, Informed
  <2>6. shown = Truth
    BY <2>1, <2>3, <2>4, <2>5 DEF Converging, Believes, Own
  <2>7. Mine <=> Me \in listed
    <3>1. CASE conv = Nobody
      BY <3>1 DEF MembershipInv, Unmade, Mine
    <3>2. CASE conv # Nobody
      <4>1. Me \in Users \ torn /\ ServerOK
        BY InboxAssumption DEF MembershipInv
      <4>2. \A r \in RequestIds : req[r].pc # "lists"
        BY <2>3 DEF UnderWay
      <4>3. Me \in listed <=> Me \in Owners(conv)
        BY <3>2, <4>1, <4>2 DEF MembershipInv, Behind
      <4> QED BY <3>2, <4>1, <4>3, MineIsOwned
    <3> QED BY <3>1, <3>2
  <2> QED BY <2>6, <2>7 DEF Truth
<1> QED BY <1>1, MembershipInvariance, ConvergeInvariance, PTL

============================================================================

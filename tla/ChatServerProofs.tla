-------------------------- MODULE ChatServerProofs --------------------------
(***************************************************************************)
(* The chat server's process, its message store and its accounts, for any  *)
(* conversations, names, requests, faults and restarts; and what it tells  *)
(* a page of who is online, and of a file that is sent to it.              *)
(*                                                                         *)
(* Messages: that no change is forgotten rests on the lock: at most one    *)
(* write of a conversation is past it, so a version that was serialised is *)
(* never older than the file it is about to replace.                       *)
(*                                                                         *)
(* Stops: whoever was told of a message was told before the stores were    *)
(* closed, because the port waits for its connections; by then the message *)
(* is in its file or in a write that the close waits for.                  *)
(*                                                                         *)
(* Accounts: an account that was reported made is found by its name, in    *)
(* memory and on disk, unless the code's two races met it.  The index's    *)
(* file may be written by a copy that is older than an account that is     *)
(* there.  That it does not take the account's name out again rests on the *)
(* turns: as long as they are taken in order, whoever writes after the     *)
(* account copied the index after the account was entered in it.           *)
(*                                                                         *)
(* Presence: who came or went last is on its way to the page, or was lost  *)
(* or heard, and what travels is true of the time it says it is of.        *)
(*                                                                         *)
(* Files: a transfer that began has rung at the page, which then has the   *)
(* file at the end or has met with a loss or a timer.                      *)
(***************************************************************************)
EXTENDS ChatServer, FileTransfer, SequenceTheorems, FiniteSetTheorems, WellFoundedInduction, TLAPS

(***************************************************************************)
(* The message store                                                       *)
(***************************************************************************)
\* At most one write of a conversation is past the lock.
OneWriter ==
    \A c \in Convs, f, g \in Flushes :
        job[f][c] \in {"open", "writing"} /\ job[g][c] \in {"open", "writing"} => f = g

\* The file, what a write serialised and memory are ordered by age.
Ordered ==
    \A c \in Convs :
        /\ disk[c] <= mem[c]
        /\ \A f \in Flushes : job[f][c] = "writing" =>
              disk[c] <= snap[f][c] /\ snap[f][c] <= mem[c]

\* A flush has no write left of an earlier one: the timer is armed when its
\* flush is done, never again after close(), which flushes once.
FlushesApart ==
    /\ timer => \A c \in Convs : job["timer"][c] = "none"
    /\ timer => phase = "running"
    /\ phase = "running" => \A c \in Convs : job["close"][c] = "none"

\* What is dirty after close() emptied the set became so while it ran.
DirtyExcused ==
    /\ phase # "running" => dirty \subseteq late \cup refused
    /\ phase = "closed" => job = NoJobs

StoreInv ==
    /\ TypeOK
    /\ OneWriter
    /\ Ordered
    /\ FlushesApart
    /\ DirtyExcused
    /\ NothingForgotten

LEMMA StoreInitially == Init => StoreInv
<1> SUFFICES ASSUME Init PROVE StoreInv
  OBVIOUS
<1> USE BoundAssumption DEF Init, Flushes, NoJobs
<1>1. TypeOK
  BY DEF TypeOK, Versions, JobStates
<1>2. OneWriter /\ Ordered /\ FlushesApart /\ DirtyExcused /\ NothingForgotten
  BY DEF OneWriter, Ordered, FlushesApart, DirtyExcused, NothingForgotten
<1> QED BY <1>1, <1>2 DEF StoreInv

\* A conversation's job moves from one state to the next.
LEMMA JobMoves ==
  ASSUME TypeOK, NEW f \in Flushes, NEW c \in Convs, NEW st \in JobStates,
         job' = [job EXCEPT ![f][c] = st]
  PROVE  /\ job' \in [Flushes -> [Convs -> JobStates]]
         /\ job'[f][c] = st
         /\ \A g \in Flushes, d \in Convs : ~(g = f /\ d = c) => job'[g][d] = job[g][d]
  BY DEF TypeOK

\* A change is newer than the file and is dirty.
LEMMA ChangeKeeps ==
  ASSUME StoreInv, NEW c \in Convs, Change(c) PROVE StoreInv'
<1> USE BoundAssumption DEF StoreInv, Change
<1>1. /\ mem'[c] = mem[c] + 1 /\ mem' \in [Convs -> Versions]
      /\ \A d \in Convs : d # c => mem'[d] = mem[d]
  BY DEF TypeOK, Versions
<1>2. TypeOK'
  BY <1>1 DEF TypeOK
<1>3. OneWriter' /\ FlushesApart' /\ DirtyExcused'
  BY DEF OneWriter, FlushesApart, DirtyExcused, TypeOK, NoJobs
<1>4. Ordered'
  BY <1>1 DEF Ordered, TypeOK, Versions, Flushes
<1>5. NothingForgotten'
  BY <1>1 DEF NothingForgotten
<1> QED BY <1>2, <1>3, <1>4, <1>5

\* A flush that has no write left queues one for every dirty conversation.
LEMMA FlushMoves ==
  ASSUME TypeOK, NEW f \in Flushes, Flush(f)
  PROVE  /\ job' \in [Flushes -> [Convs -> JobStates]]
         /\ \A c \in Convs : job'[f][c] = IF c \in dirty THEN "queued" ELSE "none"
         /\ \A g \in Flushes : g # f => job'[g] = job[g]
  BY DEF TypeOK, Flush, JobStates

LEMMA FlushKeeps ==
  ASSUME StoreInv, NEW f \in Flushes, Flush(f), \A c \in Convs : job[f][c] = "none",
         UNCHANGED <<mem, disk, snap>>
  PROVE  OneWriter' /\ Ordered' /\ NothingForgotten'
<1> USE DEF StoreInv
<1> USE FlushMoves
<1>1. OneWriter'
  BY DEF OneWriter
<1>2. Ordered'
  BY DEF Ordered
<1>3. NothingForgotten'
  BY DEF NothingForgotten
<1> QED BY <1>1, <1>2, <1>3

LEMMA TimerFiresKeeps ==
  ASSUME StoreInv, TimerFires PROVE StoreInv'
<1> USE DEF StoreInv, TimerFires
<1>1. "timer" \in Flushes /\ "close" \in Flushes
  BY DEF Flushes
<1>2. OneWriter' /\ Ordered' /\ NothingForgotten'
  BY <1>1, FlushKeeps DEF FlushesApart
<1>3. TypeOK'
  BY <1>1, FlushMoves DEF TypeOK, Flush
<1>4. FlushesApart'
  BY <1>1, FlushMoves DEF FlushesApart
<1>5. DirtyExcused'
  <2>1. phase # "closed"
    BY <1>1 DEF DirtyExcused, FlushesApart
  <2> QED BY <2>1 DEF DirtyExcused, Flush
<1> QED BY <1>2, <1>3, <1>4, <1>5

LEMMA RescheduleKeeps ==
  ASSUME StoreInv, Reschedule PROVE StoreInv'
<1> USE DEF StoreInv, Reschedule
<1>1. TypeOK' /\ OneWriter' /\ Ordered'
  BY DEF TypeOK, OneWriter, Ordered
<1>2. FlushesApart' /\ DirtyExcused' /\ NothingForgotten'
  BY DEF FlushesApart, DirtyExcused, NothingForgotten, NoJobs
<1> QED BY <1>1, <1>2

\* The actions of a write change the job of one conversation: what the
\* invariant says of the state of the flushes survives them.
LEMMA WriteStep ==
  ASSUME StoreInv, NEW f \in Flushes, NEW c \in Convs, job[f][c] # "none",
         NEW st \in JobStates, job' = [job EXCEPT ![f][c] = st],
         UNCHANGED <<timer, phase, late>>,
         phase # "running" => dirty' \subseteq dirty \cup refused' /\ refused \subseteq refused'
  PROVE  FlushesApart' /\ DirtyExcused'
<1> USE DEF StoreInv
<1>1. phase # "closed"
  BY DEF DirtyExcused, NoJobs
<1>2. FlushesApart'
  BY JobMoves DEF FlushesApart, Flushes
<1>3. DirtyExcused'
  BY <1>1 DEF DirtyExcused
<1> QED BY <1>2, <1>3

LEMMA OpenKeeps ==
  ASSUME StoreInv, NEW f \in Flushes, NEW c \in Convs, Open(f, c) PROVE StoreInv'
<1> USE DEF StoreInv, Open
<1>1. "open" \in JobStates
  BY DEF JobStates
<1>2. FlushesApart' /\ DirtyExcused'
  BY <1>1, WriteStep
<1>3. TypeOK'
  BY <1>1, JobMoves DEF TypeOK
<1>4. OneWriter'
  BY <1>1, JobMoves DEF OneWriter, LockFree
<1>5. Ordered'
  BY <1>1, JobMoves DEF Ordered
<1>6. NothingForgotten'
  BY <1>1, JobMoves DEF NothingForgotten
<1> QED BY <1>2, <1>3, <1>4, <1>5, <1>6

LEMMA SerialiseKeeps ==
  ASSUME StoreInv, NEW f \in Flushes, NEW c \in Convs, Serialise(f, c) PROVE StoreInv'
<1> USE DEF StoreInv, Serialise
<1>1. "writing" \in JobStates
  BY DEF JobStates
<1>2. /\ snap' \in [Flushes -> [Convs -> Versions]]
      /\ snap'[f][c] = mem[c]
      /\ \A g \in Flushes, d \in Convs : ~(g = f /\ d = c) => snap'[g][d] = snap[g][d]
  BY DEF TypeOK
<1>3. FlushesApart' /\ DirtyExcused'
  BY <1>1, WriteStep
<1>4. TypeOK'
  BY <1>1, <1>2, JobMoves DEF TypeOK
<1>5. OneWriter'
  BY <1>1, JobMoves DEF OneWriter
<1>6. Ordered'
  <2>1. mem[c] \in Nat /\ disk[c] <= mem[c]
    BY DEF TypeOK, Versions, Ordered
  <2> QED BY <2>1, <1>1, <1>2, JobMoves DEF Ordered
<1>7. NothingForgotten'
  BY <1>1, <1>2, JobMoves DEF NothingForgotten
<1> QED BY <1>3, <1>4, <1>5, <1>6, <1>7

\* The file takes the version the one write past the lock serialised: memory's,
\* or the conversation is dirty or waits for another write.
LEMMA RenameKeeps ==
  ASSUME StoreInv, NEW f \in Flushes, NEW c \in Convs, Rename(f, c) PROVE StoreInv'
<1> USE DEF StoreInv, Rename
<1>1. "none" \in JobStates
  BY DEF JobStates
<1>2. /\ disk' \in [Convs -> Versions] /\ disk'[c] = snap[f][c]
      /\ \A d \in Convs : d # c => disk'[d] = disk[d]
  BY DEF TypeOK
<1>3. \A g \in Flushes : g # f => job[g][c] \notin {"open", "writing"}
  BY DEF OneWriter
<1>4. FlushesApart' /\ DirtyExcused'
  BY <1>1, WriteStep
<1>5. TypeOK'
  BY <1>1, <1>2, JobMoves DEF TypeOK
<1>6. OneWriter'
  BY <1>1, JobMoves DEF OneWriter
<1>7. Ordered'
  <2>1. disk'[c] <= mem[c] /\ \A g \in Flushes : job'[g][c] # "writing"
    BY <1>1, <1>2, <1>3, JobMoves DEF Ordered
  <2>2. ASSUME NEW d \in Convs, d # c
        PROVE  /\ disk'[d] <= mem[d]
               /\ \A g \in Flushes : job'[g][d] = "writing" =>
                     disk'[d] <= snap[g][d] /\ snap[g][d] <= mem[d]
    BY <1>1, <1>2, <2>2, JobMoves DEF Ordered
  <2> QED BY <2>1, <2>2 DEF Ordered
<1>8. NothingForgotten'
  <2>1. NothingForgotten /\ disk[c] <= snap[f][c] /\ snap[f][c] <= mem[c]
    BY DEF Ordered
  <2>2. disk[c] \in Nat /\ snap[f][c] \in Nat /\ mem[c] \in Nat
    BY DEF TypeOK, Versions
  <2>3. \/ disk'[c] = mem[c] \/ c \in dirty
        \/ \E g \in Flushes : job'[g][c] \in {"queued", "open"}
    BY <1>1, <1>2, <1>3, <2>1, <2>2, JobMoves DEF NothingForgotten
  <2>4. ASSUME NEW d \in Convs, d # c
        PROVE  \/ disk'[d] = mem[d] \/ d \in dirty
               \/ \E g \in Flushes :
                     \/ job'[g][d] \in {"queued", "open"}
                     \/ job'[g][d] = "writing" /\ snap[g][d] = mem[d]
    BY <1>1, <1>2, <2>4, JobMoves DEF NothingForgotten
  <2> QED BY <2>3, <2>4 DEF NothingForgotten
<1> QED BY <1>4, <1>5, <1>6, <1>7, <1>8

LEMMA WriteFailsKeeps ==
  ASSUME StoreInv, NEW f \in Flushes, NEW c \in Convs, WriteFails(f, c) PROVE StoreInv'
<1> USE BoundAssumption DEF StoreInv, WriteFails
<1>1. "none" \in JobStates
  BY DEF JobStates
<1>2. phase # "running" => dirty' \subseteq dirty \cup refused' /\ refused \subseteq refused'
  BY DEF DirtyExcused, NoJobs, TypeOK
<1>3. FlushesApart' /\ DirtyExcused'
  BY <1>1, <1>2, WriteStep
<1>4. TypeOK'
  BY <1>1, JobMoves DEF TypeOK
<1>5. OneWriter' /\ Ordered'
  BY <1>1, JobMoves DEF OneWriter, Ordered
<1>6. NothingForgotten'
  BY <1>1, JobMoves DEF NothingForgotten
<1> QED BY <1>3, <1>4, <1>5, <1>6

LEMMA CloseKeeps ==
  ASSUME StoreInv, Close PROVE StoreInv'
<1> USE DEF StoreInv, Close
<1>1. "timer" \in Flushes /\ "close" \in Flushes
  BY DEF Flushes
<1>2. OneWriter' /\ Ordered' /\ NothingForgotten'
  BY <1>1, FlushKeeps DEF FlushesApart
<1>3. TypeOK'
  BY <1>1, FlushMoves DEF TypeOK, Flush
<1>4. FlushesApart' /\ DirtyExcused'
  BY DEF FlushesApart, DirtyExcused, Flush
<1> QED BY <1>2, <1>3, <1>4

LEMMA CloseDoneKeeps ==
  ASSUME StoreInv, CloseDone PROVE StoreInv'
<1> USE DEF StoreInv, CloseDone
<1>1. TypeOK' /\ OneWriter' /\ Ordered'
  BY DEF TypeOK, OneWriter, Ordered
<1>2. FlushesApart' /\ DirtyExcused' /\ NothingForgotten'
  BY DEF FlushesApart, DirtyExcused, NothingForgotten
<1> QED BY <1>1, <1>2

LEMMA RestartKeeps ==
  ASSUME StoreInv, Restart PROVE StoreInv'
<1> USE BoundAssumption DEF StoreInv, Restart, NoJobs, Flushes
<1>1. TypeOK'
  BY DEF TypeOK, JobStates
<1>2. \A c \in Convs : disk[c] \in Nat
  BY DEF TypeOK, Versions
<1>3. OneWriter' /\ Ordered' /\ FlushesApart' /\ DirtyExcused' /\ NothingForgotten'
  BY <1>2 DEF OneWriter, Ordered, FlushesApart, DirtyExcused, NothingForgotten
<1> QED BY <1>1, <1>3

LEMMA StutterKeeps ==
  ASSUME StoreInv, UNCHANGED vars PROVE StoreInv'
  BY DEF vars, StoreInv, TypeOK, OneWriter, Ordered, FlushesApart, DirtyExcused, NothingForgotten

LEMMA StoreStepKeeps == ASSUME StoreInv, [Next]_vars PROVE StoreInv'
<1>1. ASSUME NEW c \in Convs, Change(c) PROVE StoreInv'
  BY <1>1, ChangeKeeps
<1>2. ASSUME NEW f \in Flushes, NEW c \in Convs,
             Open(f, c) \/ Serialise(f, c) \/ Rename(f, c) \/ WriteFails(f, c)
      PROVE  StoreInv'
  BY <1>2, OpenKeeps, SerialiseKeeps, RenameKeeps, WriteFailsKeeps
<1>3. CASE TimerFires \/ Reschedule \/ Close \/ CloseDone \/ Restart
  BY <1>3, TimerFiresKeeps, RescheduleKeeps, CloseKeeps, CloseDoneKeeps, RestartKeeps
<1>4. CASE UNCHANGED vars
  BY <1>4, StutterKeeps
<1> QED BY <1>1, <1>2, <1>3, <1>4 DEF Next

\* Every step of the store is one of the write-behind store's or a stutter.
LEMMA StepImplements == ASSUME StoreInv, [Next]_vars PROVE [Log!Next]_<<mem, disk>>
<1> SUFFICES ASSUME ~UNCHANGED <<mem, disk>> PROVE Log!Next
  OBVIOUS
<1>1. ASSUME NEW c \in Convs, Change(c) PROVE Log!Next
  BY <1>1 DEF Change, Log!Next, Log!Change
<1>2. ASSUME NEW f \in Flushes, NEW c \in Convs, Rename(f, c) PROVE Log!Next
  <2>1. snap[f][c] \in disk[c]..mem[c]
    BY <1>2 DEF Rename, StoreInv, Ordered, TypeOK, Versions
  <2>2. disk' = [disk EXCEPT ![c] = snap[f][c]] /\ mem' = mem
    BY <1>2 DEF Rename
  <2> QED BY <2>1, <2>2 DEF Log!Next, Log!Persist
<1>3. CASE Restart
  BY <1>3 DEF Restart, Log!Next, Log!Restart
<1> QED
  BY <1>1, <1>2, <1>3 DEF Next, vars, TimerFires, Reschedule, Open, Serialise,
     WriteFails, Close, CloseDone

(***************************************************************************)
(* The greatest of some numbers                                            *)
(***************************************************************************)
\* Every set of numbers has a least one: the initial segments up to them are
\* finite sets, which are well-founded by inclusion.
LEMMA Least == ASSUME NEW T, T \subseteq Nat, T # {} PROVE \E x \in T : \A y \in T : x <= y
<1> DEFINE F == {0..x : x \in T}
<1>1. F \subseteq FiniteSubsetsOf(Nat)
  <2>1. \A x \in T : 0..x \in SUBSET Nat /\ IsFiniteSet(0..x)
    BY FS_Interval
  <2> QED BY <2>1 DEF FiniteSubsetsOf
<1>2. F # {}
  OBVIOUS
<1> HIDE DEF F
<1>3. PICK D \in F : \A E \in F : ~(<<E, D>> \in StrictSubsetOrdering(Nat))
  BY <1>1, <1>2, WFMin, FS_StrictSubsetOrderingWellFounded
<1>4. PICK x \in T : D = 0..x
  BY DEF F
<1>5. ASSUME NEW y \in T, y < x PROVE FALSE
  <2>1. 0..y \in F /\ D \in F
    BY DEF F
  <2>2. x \in 0..x /\ x \notin 0..y /\ 0..y \subseteq 0..x
    BY <1>5
  <2>3. <<0..y, D>> \in StrictSubsetOrdering(Nat)
    BY <2>1, <2>2, <1>4, <1>5 DEF StrictSubsetOrdering
  <2> QED BY <1>3, <2>1, <2>3
<1> QED BY <1>5

\* Some numbers that are bounded have a greatest one, which is Max's.
LEMMA Greatest ==
  ASSUME NEW S, S \subseteq Nat, S # {}, NEW n \in Nat, \A x \in S : x <= n
  PROVE  Max(S) \in S /\ \A x \in S : x <= Max(S)
<1> DEFINE T == {n - x : x \in S}
<1>1. T \subseteq Nat /\ T # {}
  <2>1. \A x \in S : x \in Nat /\ n - x \in Nat
    OBVIOUS
  <2> QED BY <2>1
<1>2. PICK m \in T : \A y \in T : m <= y
  BY <1>1, Least
<1>3. PICK x \in S : m = n - x
  OBVIOUS
<1>4. \A y \in S : x >= y
  <2> SUFFICES ASSUME NEW y \in S PROVE x >= y
    OBVIOUS
  <2>1. n - y \in T
    OBVIOUS
  <2> QED BY <2>1, <1>2, <1>3
<1>5. Max(S) \in S /\ \A y \in S : Max(S) >= y
  BY <1>4 DEF Max
<1> QED BY <1>5

(***************************************************************************)
(* The stores of the running server                                        *)
(***************************************************************************)
Handled == {"none", "open", "gone", "done"}
Reqs == [Requests -> [conn : Handled, made : Seq(Nat), writes : BOOLEAN]]

\* A request whose handler runs has appended to the conversations it wants to post
\* to, and made no version that memory lacks; nobody was told of one.
RequestsOK ==
    /\ wants \in Workloads
    /\ req \in Reqs
    /\ told \in [Convs -> Nat]
    /\ \A r \in Requests :
        /\ req[r].conn = "none" => req[r].made = <<>>
        /\ HandlerRuns(r) =>
            /\ r \in DOMAIN wants
            /\ \A i \in 1..Len(req[r].made) :
                  wants[r][i] \in Convs /\ req[r].made[i] <= mem[wants[r][i]]
    /\ \A c \in Convs : told[c] <= mem[c]

\* What a step of the process does to the message store: a step of the store, or
\* something else has gone wrong.
Faulty ==
    /\ faults < MaxFaults /\ faults' = faults + 1
    /\ UNCHANGED <<mem, disk, dirty, timer, phase, job, snap, late, refused, crashes>>

\* The conversation a request posts to next.
LEMMA PostsTo ==
  ASSUME RequestsOK, NEW r \in Requests, Post(r)
  PROVE  wants[r][Len(req[r].made) + 1] \in Convs
<1>1. HandlerRuns(r) /\ wants[r] \notin Names /\ Len(req[r].made) < Len(wants[r])
  BY DEF Post, More
<1>2. r \in DOMAIN wants /\ wants[r] \in Seq(Convs)
  BY <1>1, WorkloadAssumption DEF RequestsOK
<1>3. Len(req[r].made) \in Nat
  BY DEF RequestsOK, Reqs
<1> QED BY <1>1, <1>2, <1>3

LEMMA ServerStepsStore ==
  ASSUME RequestsOK, [ServerNext]_serverVars PROVE [Next]_vars \/ Faulty
<1>1. CASE UNCHANGED serverVars
  BY <1>1 DEF serverVars
<1>2. CASE Again
  BY <1>2 DEF Again, Next
<1>3. ASSUME NEW r \in Requests, Arrive(r) \/ Written(r) \/ Answer(r) \/ HangUp(r) \/ AccountStep(r)
      PROVE  UNCHANGED vars
  BY <1>3 DEF Arrive, Written, Answer, HangUp, AccountStep
<1>4. ASSUME NEW r \in Requests, PostFails(r) \/ AccountFails(r)
      PROVE  Faulty
  BY <1>4 DEF PostFails, AccountFails, Faulty
<1>5. ASSUME NEW r \in Requests, Post(r) PROVE Next
  BY <1>5, PostsTo DEF Post, Next
<1>6. CASE TakeTurn \/ Started \/ Signal \/ Stopped \/ StoresClosed
  BY <1>6 DEF TakeTurn, Started, Signal, Stopped, StoresClosed
<1>7. CASE HttpClosed \/ Storage
  BY <1>7 DEF HttpClosed, Storage, StoreStep, Next
<1> QED BY <1>1, <1>2, <1>3, <1>4, <1>5, <1>6, <1>7 DEF ServerNext, Runs

LEMMA FaultyKeeps == ASSUME StoreInv, Faulty PROVE StoreInv'
BY BoundAssumption DEF Faulty, StoreInv, TypeOK, OneWriter, Ordered, FlushesApart, DirtyExcused,
   NothingForgotten, NoJobs

LEMMA RequestsInitially == ServerInit => RequestsOK
<1> SUFFICES ASSUME ServerInit PROVE RequestsOK
  OBVIOUS
<1>1. \A r \in Requests : req[r] = [conn |-> "none", made |-> <<>>, writes |-> FALSE]
  BY DEF ServerInit, NoRequest
<1>2. <<>> \in Seq(Nat)
  OBVIOUS
<1>3. req \in Reqs
  BY <1>1, <1>2 DEF ServerInit, NoRequest, Reqs, Handled
<1> QED BY <1>1, <1>3 DEF ServerInit, Init, RequestsOK, HandlerRuns

(***************************************************************************)
(* The requests                                                            *)
(***************************************************************************)
\* A request is over, or goes from one state of its connection or of its writes to another.
LEMMA RequestMoves ==
  ASSUME RequestsOK, NEW r \in Requests, NEW s \in Handled, NEW w \in BOOLEAN,
         \/ req' = [req EXCEPT ![r] = Over] /\ s = "done"
         \/ req' = [req EXCEPT ![r].conn = s]
         \/ req' = [req EXCEPT ![r].writes = w] /\ s = req[r].conn
  PROVE  /\ req' \in Reqs /\ req'[r].conn = s /\ req'[r].made \in {req[r].made, <<>>}
         /\ s # "done" => req'[r].made = req[r].made
         /\ \A q \in Requests : q # r => req'[q] = req[q]
<1>1. req \in Reqs
  BY DEF RequestsOK
<1>2. Over \in [conn : Handled, made : Seq(Nat), writes : BOOLEAN] /\ Over.conn = "done" /\ Over.made = <<>>
  BY DEF Over, Handled
<1>3. CASE req' = [req EXCEPT ![r] = Over] /\ s = "done"
  BY <1>1, <1>2, <1>3 DEF Reqs
<1>4. CASE req' = [req EXCEPT ![r].conn = s]
  BY <1>1, <1>4 DEF Reqs
<1>5. CASE req' = [req EXCEPT ![r].writes = w] /\ s = req[r].conn
  BY <1>1, <1>5 DEF Reqs
<1> QED BY <1>3, <1>4, <1>5

LEMMA ConnStep ==
  ASSUME RequestsOK, NEW r \in Requests, NEW s \in Handled \ {"none"},
         s \in {"open", "gone"} => r \in DOMAIN wants /\ (req[r].conn = "none" \/ HandlerRuns(r)),
         req' \in Reqs, req'[r].conn = s, s # "done" => req'[r].made = req[r].made,
         \A q \in Requests : q # r => req'[q] = req[q],
         UNCHANGED <<wants, told, mem>>
  PROVE  RequestsOK'
<1>1. req' \in Reqs
  OBVIOUS
<1>3. req'[r].conn = s
  OBVIOUS
<1>4. ASSUME NEW q \in Requests, HandlerRuns(q)'
      PROVE  /\ q \in DOMAIN wants
             /\ \A i \in 1..Len(req'[q].made) :
                   wants[q][i] \in Convs /\ req'[q].made[i] <= mem[wants[q][i]]
  <2>1. CASE q # r
    BY <1>4, <2>1 DEF HandlerRuns, RequestsOK
  <2>2. CASE q = r
    <3>1. req'[r].made = req[r].made /\ s \in {"open", "gone"}
      BY <1>3, <1>4, <2>2 DEF HandlerRuns
    <3>2. CASE req[r].conn = "none"
      <4>1. req[r].made = <<>> /\ Len(req[r].made) = 0
        BY <3>2 DEF RequestsOK
      <4> QED BY <2>2, <3>1, <4>1
    <3>3. CASE HandlerRuns(r)
      BY <2>2, <3>1, <3>3 DEF RequestsOK
    <3> QED BY <3>1, <3>2, <3>3
  <2> QED BY <2>1, <2>2
<1>5. ASSUME NEW q \in Requests, req'[q].conn = "none" PROVE req'[q].made = <<>>
  BY <1>3, <1>5 DEF RequestsOK
<1> QED BY <1>1, <1>4, <1>5 DEF RequestsOK

\* What leaves the requests and memory alone.
LEMMA RequestsStay ==
  ASSUME RequestsOK, UNCHANGED <<wants, req, told, mem>> PROVE RequestsOK'
BY DEF RequestsOK, Reqs, HandlerRuns

LEMMA PostRequests ==
  ASSUME RequestsOK, StoreInv, StoreInv', NEW r \in Requests, Post(r), UNCHANGED wants
  PROVE  RequestsOK'
<1> DEFINE n == Len(req[r].made) + 1
           c == wants[r][n]
<1>1. c \in Convs
  BY PostsTo
<1>2. Change(c) /\ req' = [req EXCEPT ![r].made = Append(@, mem'[c]), ![r].writes = TRUE] /\ UNCHANGED told
      /\ HandlerRuns(r)
  BY DEF Post
<1>3. /\ \A d \in Convs : mem[d] \in Nat /\ mem'[d] \in Nat
      /\ \A d \in Convs : mem[d] <= mem'[d]
  BY <1>1, <1>2, SMTT(30) DEF StoreInv, TypeOK, Versions, Change
<1>4. req[r].made \in Seq(Nat) /\ n = Len(req[r].made) + 1 /\ Len(req[r].made) \in Nat
  BY DEF RequestsOK, Reqs
<1> DEFINE made == Append(req[r].made, mem'[c])
<1>5. /\ made \in Seq(Nat) /\ Len(made) = n /\ made[n] = mem'[c]
      /\ \A i \in 1..Len(req[r].made) : made[i] = req[r].made[i]
  BY <1>1, <1>3, <1>4
<1>6. /\ req' \in Reqs
      /\ req'[r].made = made /\ req'[r].conn = req[r].conn
      /\ \A q \in Requests : q # r => req'[q] = req[q]
  BY <1>2, <1>5 DEF RequestsOK, Reqs
<1> HIDE DEF n, c, made
<1>7. ASSUME NEW q \in Requests, HandlerRuns(q)'
      PROVE  /\ q \in DOMAIN wants
             /\ \A i \in 1..Len(req'[q].made) :
                   wants[q][i] \in Convs /\ req'[q].made[i] <= mem'[wants[q][i]]
  <2>1. CASE q # r
    <3>1. HandlerRuns(q) /\ req'[q] = req[q]
      BY <2>1, <1>6, <1>7 DEF HandlerRuns
    <3>2. \A i \in 1..Len(req[q].made) : req[q].made[i] \in Nat
      BY DEF RequestsOK, Reqs
    <3> QED BY <3>1, <3>2, <1>3 DEF RequestsOK
  <2>2. CASE q = r
    <3>1. r \in DOMAIN wants
      BY <1>2 DEF RequestsOK
    <3>2. ASSUME NEW i \in 1..Len(made)
          PROVE  wants[r][i] \in Convs /\ made[i] <= mem'[wants[r][i]]
      <4>1. CASE i = n
        BY <4>1, <1>1, <1>3, <1>5 DEF c
      <4>2. CASE i # n
        <5>1. i \in 1..Len(req[r].made)
          <6>1. \A k \in Nat : i \in 1..(k + 1) /\ i # k + 1 => i \in 1..k
            OBVIOUS
          <6> QED BY <6>1, <4>2, <1>4, <1>5
        <5>3. req[r].made[i] \in Nat
          BY <5>1, <1>4
        <5>2. wants[r][i] \in Convs /\ req[r].made[i] <= mem[wants[r][i]]
          BY <5>1, <1>2 DEF RequestsOK
        <5> QED BY <5>1, <5>2, <5>3, <1>3, <1>5
      <4> QED BY <4>1, <4>2
    <3> QED BY <2>2, <3>1, <3>2, <1>6
  <2> QED BY <2>1, <2>2
<1>8. \A d \in Convs : told[d] <= mem'[d]
  BY <1>3 DEF RequestsOK
<1>9. \A q \in Requests : req'[q].conn = "none" => req'[q].made = <<>>
  BY <1>2, <1>6 DEF RequestsOK, HandlerRuns
<1>10. told' \in [Convs -> Nat]
  BY <1>2 DEF RequestsOK
<1>11. wants' \in Workloads /\ req' \in Reqs
  BY <1>6 DEF RequestsOK
<1>12. \A q \in Requests : HandlerRuns(q)' =>
          /\ q \in DOMAIN wants'
          /\ \A i \in 1..Len(req'[q].made) :
                wants'[q][i] \in Convs /\ req'[q].made[i] <= mem'[wants'[q][i]]
  BY <1>7
<1>13. \A d \in Convs : told'[d] <= mem'[d]
  BY <1>2, <1>8
<1> QED BY <1>9, <1>10, <1>11, <1>12, <1>13, Zenon DEF RequestsOK

\* Whoever is answered was told of versions that memory has.
LEMMA AnswerTells ==
  ASSUME RequestsOK, StoreInv, NEW r \in Requests, Answer(r), NEW c \in Convs
  PROVE  told'[c] \in Nat /\ told'[c] <= mem[c]
<1> DEFINE Of == {j \in DOMAIN req[r].made : wants[r][j] = c}
           S == {told[c]} \cup {req[r].made[i] : i \in Of}
<1>1. told'[c] = Max(S)
  BY DEF Answer
<1>2. HandlerRuns(r) /\ DOMAIN req[r].made = 1..Len(req[r].made)
  BY DEF Answer, RequestsOK, Reqs, HandlerRuns
<1>3. mem[c] \in Nat /\ told[c] \in Nat /\ told[c] <= mem[c]
  BY DEF RequestsOK, StoreInv, TypeOK, Versions
<1>4. \A i \in Of : req[r].made[i] \in Nat /\ req[r].made[i] <= mem[c]
  BY <1>2 DEF RequestsOK, Reqs
<1>5. S \subseteq Nat /\ S # {} /\ \A x \in S : x <= mem[c]
  BY <1>3, <1>4
<1> HIDE DEF S
<1> QED BY <1>1, <1>3, <1>5, Greatest

LEMMA AnswerRequests ==
  ASSUME RequestsOK, StoreInv, NEW r \in Requests, Answer(r), UNCHANGED wants
  PROVE  RequestsOK'
<1>1. /\ req' = [req EXCEPT ![r] = Over] /\ mem' = mem
      /\ told' = [c \in Convs |-> told'[c]]
  BY DEF Answer, vars
<1>2. told' \in [Convs -> Nat] /\ \A c \in Convs : told'[c] <= mem[c]
  BY <1>1, AnswerTells
<1>3. /\ req' \in Reqs
      /\ \A q \in Requests : q # r => req'[q] = req[q]
      /\ req'[r].conn = "done"
  BY <1>1, RequestMoves DEF Handled
<1> QED BY <1>1, <1>2, <1>3 DEF RequestsOK, HandlerRuns

LEMMA AgainRequests ==
  ASSUME RequestsOK, StoreInv, Again, UNCHANGED wants
  PROVE  RequestsOK'
<1>1. mem' = disk
  BY DEF Again, Restart
<1>2. \A r \in Requests :
         /\ req'[r] \in [conn : Handled, made : Seq(Nat), writes : BOOLEAN]
         /\ req'[r].conn \in {"none", "done"}
         /\ req'[r].conn = "none" => req'[r].made = <<>>
  BY DEF Again, RequestsOK, Reqs, Handled, Over
<1>3. req' \in Reqs
  BY <1>2 DEF Again, Reqs
<1>4. told' \in [Convs -> Nat] /\ \A c \in Convs : told'[c] <= mem'[c]
  BY <1>1 DEF Again, RequestsOK, StoreInv, TypeOK, Versions
<1> QED BY <1>2, <1>3, <1>4 DEF RequestsOK, HandlerRuns

LEMMA RequestsRight ==
  ASSUME RequestsOK, StoreInv, StoreInv', [ServerNext]_serverVars PROVE RequestsOK'
<1>1. ASSUME NEW r \in Requests, Arrive(r), UNCHANGED wants PROVE RequestsOK'
  <2>1. /\ req' = [req EXCEPT ![r].conn = "open"] /\ UNCHANGED <<told, mem>>
        /\ r \in DOMAIN wants /\ req[r].conn = "none"
    BY <1>1 DEF Arrive, vars
  <2> QED BY <1>1, <2>1, ConnStep, RequestMoves DEF Handled
<1>2. ASSUME NEW r \in Requests, PostFails(r), UNCHANGED wants PROVE RequestsOK'
  <2>1. req' = [req EXCEPT ![r] = Over] /\ UNCHANGED <<told, mem>>
    BY <1>2 DEF PostFails
  <2> QED BY <1>2, <2>1, ConnStep, RequestMoves DEF Handled
<1>3. ASSUME NEW r \in Requests, HangUp(r), UNCHANGED wants PROVE RequestsOK'
  <2>1. HandlerRuns(r) /\ r \in DOMAIN wants
    BY <1>3 DEF HangUp, HandlerRuns, RequestsOK
  <2>2. req' = [req EXCEPT ![r].conn = "gone"] /\ UNCHANGED <<told, mem>>
    BY <1>3 DEF HangUp, vars
  <2> QED BY <1>3, <2>1, <2>2, ConnStep, RequestMoves DEF Handled
<1>11. ASSUME NEW r \in Requests, Written(r), UNCHANGED wants PROVE RequestsOK'
  <2>1. PICK w \in BOOLEAN : req' = [req EXCEPT ![r].writes = w]
    BY <1>11 DEF Written
  <2>2. HandlerRuns(r) /\ UNCHANGED <<told, mem>>
    BY <1>11 DEF Written, vars
  <2>3. req[r].conn \in Handled \ {"none"} /\ r \in DOMAIN wants
    BY <2>2 DEF RequestsOK, HandlerRuns, Handled
  <2>4. /\ req' \in Reqs /\ req'[r].conn = req[r].conn /\ req'[r].made = req[r].made
        /\ \A q \in Requests : q # r => req'[q] = req[q]
    BY <2>1 DEF RequestsOK, Reqs
  <2> QED BY <1>11, <2>2, <2>3, <2>4, ConnStep
<1>4. ASSUME NEW r \in Requests, Post(r) \/ Answer(r), UNCHANGED wants PROVE RequestsOK'
  BY <1>4, PostRequests, AnswerRequests
<1>5. CASE Again /\ UNCHANGED wants
  BY <1>5, AgainRequests
<1>6. ASSUME NEW r \in Requests, AccountStep(r) \/ AccountFails(r)
      PROVE  UNCHANGED <<req, told, mem>>
  BY <1>6 DEF AccountStep, AccountFails, vars
<1>7. CASE TakeTurn \/ Started \/ Signal \/ Stopped \/ StoresClosed
  <2>1. UNCHANGED <<req, told, mem>>
    BY <1>7 DEF TakeTurn, Started, Signal, Stopped, StoresClosed, vars
  <2>2. UNCHANGED wants
    BY <1>7 DEF ServerNext, serverVars
  <2> QED BY <2>1, <2>2, RequestsStay
<1>8. CASE HttpClosed \/ Storage
  <2>1. UNCHANGED <<req, told, mem>>
    BY <1>8 DEF HttpClosed, Storage, StoreStep, Close, Open, Serialise, Rename, WriteFails,
       TimerFires, Reschedule, CloseDone
  <2>2. UNCHANGED wants
    BY <1>8 DEF ServerNext, serverVars
  <2> QED BY <2>1, <2>2, RequestsStay
<1>9. CASE UNCHANGED serverVars
  BY <1>9, RequestsStay DEF serverVars, vars
<1> QED BY <1>1, <1>2, <1>3, <1>4, <1>5, <1>6, <1>7, <1>8, <1>9, <1>11, RequestsStay DEF ServerNext, Runs

(***************************************************************************)
(* The stop                                                                *)
(***************************************************************************)
\* The store is closed when the stop gets there, and the process does not leave before
\* the store is closed, unless a write that it waits for fails.
ProcessOK ==
    /\ start \in 1..4 /\ stop \in 1..5 /\ cut \in BOOLEAN /\ raced \in BOOLEAN
    /\ phase = "running" <=> stop <= 3
    /\ awaits # {} => stop >= 4
    /\ stop = 5 => phase = "closed" \/ cut

\* Once the port is shut and its connections are waited for, nobody is answered, unless
\* the port is opened after all.
PortOK ==
    /\ port \in {"closed", "open", "shut"}
    /\ port = "open" => stop <= 2 \/ raced
    /\ port = "closed" => \A r \in Requests : req[r].conn \in {"none", "done"}
    /\ raced => start = 4
    /\ stop >= 4 /\ ~raced => \A r \in Requests : req[r].conn # "open"

\* A write that is to come puts there what clients were told of.
Coming(c) ==
    \E f \in Flushes :
        job[f][c] \in {"queued", "open"} \/ (job[f][c] = "writing" /\ snap[f][c] >= told[c])

Covered ==
    stop >= 4 /\ ~raced => \A c \in Convs : c \in refused \/ disk[c] >= told[c] \/ Coming(c)

LEMMA StageIs ==
  ASSUME stop \in 1..5
  PROVE  /\ Stage = "no" <=> stop = 1
         /\ Stage = "parts" <=> stop = 2
         /\ Stage = "http" <=> stop = 3
         /\ Stage = "stores" <=> stop = 4
         /\ Alive <=> stop <= 4
<1>1. CASE stop = 1
  BY <1>1 DEF Alive, Stage, Stopping
<1>2. CASE stop = 2
  BY <1>2 DEF Alive, Stage, Stopping
<1>3. CASE stop = 3
  BY <1>3 DEF Alive, Stage, Stopping
<1>4. CASE stop = 4
  BY <1>4 DEF Alive, Stage, Stopping
<1>5. CASE stop = 5
  BY <1>5 DEF Alive, Stage, Stopping
<1> QED BY <1>1, <1>2, <1>3, <1>4, <1>5

LEMMA StartIs ==
  ASSUME start \in 1..4
  PROVE  /\ start < Len(Starting) <=> start <= 3
         /\ Starting[start] = "listen" <=> start = 3
<1>1. Len(Starting) = 4
  BY DEF Starting
<1>2. CASE start = 1
  BY <1>1, <1>2 DEF Starting
<1>3. CASE start = 2
  BY <1>1, <1>3 DEF Starting
<1>4. CASE start = 3
  BY <1>1, <1>4 DEF Starting
<1>5. CASE start = 4
  BY <1>1, <1>5 DEF Starting
<1> QED BY <1>2, <1>3, <1>4, <1>5

LEMMA ProcessRight ==
  ASSUME StoreInv, ProcessOK, [ServerNext]_serverVars PROVE ProcessOK'
<1> USE StageIs, StartIs DEF ProcessOK
<1>1. ASSUME NEW r \in Requests, Arrive(r) \/ Post(r) \/ Answer(r) \/ HangUp(r)
      PROVE  ProcessOK'
  BY <1>1 DEF Arrive, Post, Answer, HangUp, Change, processVars, vars
<1>2. ASSUME NEW r \in Requests, Written(r) \/ AccountStep(r) PROVE ProcessOK'
  BY <1>2 DEF Written, AccountStep, vars
<1>3. ASSUME NEW r \in Requests, PostFails(r) \/ AccountFails(r), Alive PROVE ProcessOK'
  <2>0. Rejects(r) /\ UNCHANGED <<phase, start, raced, awaits>>
    BY <1>3 DEF PostFails, AccountFails
  <2>1. CASE r \in awaits
    <3>1. stop = 4 /\ stop' = 5
      BY <1>3, <2>0, <2>1 DEF Rejects
    <3>2. phase \in {"closing", "closed"}
      BY <3>1 DEF StoreInv, TypeOK
    <3>3. cut' \in BOOLEAN /\ (phase = "closing" => cut')
      BY <2>0, <2>1 DEF Rejects
    <3> QED BY <2>0, <3>1, <3>2, <3>3
  <2>2. CASE r \notin awaits
    <3>1. stop' = stop
      BY <2>0, <2>2 DEF Rejects
    <3>2. cut' = cut
      BY <2>0, <2>2, Zenon DEF Rejects
    <3> QED BY <2>0, <3>1, <3>2
  <2> QED BY <2>1, <2>2
<1>4. CASE TakeTurn \/ Signal \/ Stopped
  BY <1>4 DEF TakeTurn, Signal, Stopped, processVars, vars
<1>5. CASE Started
  <2>1. start' \in 1..4 /\ UNCHANGED <<stop, phase, awaits, cut>>
    BY <1>5 DEF Started, vars
  <2>2. raced' = raced \/ raced' = (Stage \in {"http", "stores"})
    BY <1>5, Zenon DEF Started
  <2>3. raced' \in BOOLEAN
    <3>1. \A x \in BOOLEAN : raced' = x => raced' \in BOOLEAN
      OBVIOUS
    <3>2. (Stage \in {"http", "stores"}) \in BOOLEAN
      OBVIOUS
    <3> QED BY <2>2, <3>1, <3>2, Zenon
  <2> QED BY <2>1, <2>3
<1>6. CASE HttpClosed
  BY <1>6 DEF HttpClosed, Close
<1>7. CASE StoresClosed
  BY <1>7 DEF StoresClosed, vars
<1>8. CASE Storage /\ Alive
  BY <1>8 DEF Storage, StoreStep, Open, Serialise, Rename, WriteFails, TimerFires, Reschedule,
     CloseDone, processVars
<1>9. CASE Again
  <2>1. start' = 1 /\ stop' = 1 /\ phase' = "running" /\ awaits' = {}
    BY <1>9 DEF Again, Restart
  <2>2. cut' \in BOOLEAN /\ raced' \in BOOLEAN
    BY <1>9, Zenon DEF Again
  <2> QED BY <2>1, <2>2
<1>10. CASE UNCHANGED serverVars
  BY <1>10 DEF serverVars, processVars, vars
<1> QED BY <1>1, <1>2, <1>3, <1>4, <1>5, <1>6, <1>7, <1>8, <1>9, <1>10 DEF ServerNext, Runs

\* A step that changes no connection, nor the process before its port is done with.
LEMMA PortStays ==
  ASSUME PortOK, ProcessOK, UNCHANGED <<start, port, raced>>, \A r \in Requests : req'[r].conn = req[r].conn,
         stop' = stop \/ stop >= 4
  PROVE  PortOK'
<1>1. port = "open" => stop' <= 2 \/ raced
  BY DEF PortOK, ProcessOK
<1>2. stop' >= 4 => stop >= 4
  BY DEF ProcessOK
<1> QED BY <1>1, <1>2 DEF PortOK

LEMMA PortRight ==
  ASSUME RequestsOK, ProcessOK, PortOK, [ServerNext]_serverVars PROVE PortOK'
<1> USE StageIs, StartIs
<1>1. ASSUME NEW r \in Requests, NEW s \in Handled, req'[r].conn = s,
             \A q \in Requests : q # r => req'[q] = req[q],
             port = "open" \/ s # "open", port # "closed" \/ s = "done",
             stop' = stop \/ stop >= 4, UNCHANGED <<start, port, raced>>
      PROVE  PortOK'
  <2>1. port = "open" => stop' <= 2 \/ raced
    BY <1>1 DEF PortOK, ProcessOK
  <2>2. port = "closed" => \A q \in Requests : req'[q].conn \in {"none", "done"}
    BY <1>1 DEF PortOK
  <2>3. ASSUME stop' >= 4, ~raced, NEW q \in Requests PROVE req'[q].conn # "open"
    <3>1. stop >= 4 /\ port # "open"
      BY <1>1, <2>3 DEF ProcessOK, PortOK
    <3> QED BY <1>1, <2>3, <3>1 DEF PortOK
  <2>4. /\ port' \in {"closed", "open", "shut"}
        /\ port' = "open" => stop' <= 2 \/ raced'
        /\ port' = "closed" => \A q \in Requests : req'[q].conn \in {"none", "done"}
        /\ raced' => start' = 4
    BY <1>1, <2>1, <2>2 DEF PortOK
  <2>5. stop' >= 4 /\ ~raced' => \A q \in Requests : req'[q].conn # "open"
    BY <1>1, <2>3
  <2> QED BY <2>4, <2>5, Zenon DEF PortOK
<1>2. ASSUME NEW r \in Requests, Arrive(r) PROVE PortOK'
  BY <1>1, <1>2, RequestMoves DEF Arrive, Handled, processVars
<1>3. ASSUME NEW r \in Requests, PostFails(r) PROVE PortOK'
  <2>1. req' = [req EXCEPT ![r] = Over] /\ UNCHANGED <<start, port, raced>>
    BY <1>3 DEF PostFails
  <2>2. stop' = stop \/ stop >= 4
    BY <1>3 DEF PostFails, Rejects, ProcessOK
  <2> QED BY <1>1, <2>1, <2>2, RequestMoves DEF Handled
<1>4. ASSUME NEW r \in Requests, Answer(r) PROVE PortOK'
  BY <1>1, <1>4, RequestMoves DEF Answer, Handled, processVars
<1>5. ASSUME NEW r \in Requests, HangUp(r) PROVE PortOK'
  <2>1. port # "closed"
    BY <1>5 DEF HangUp, PortOK
  <2> QED BY <1>1, <1>5, <2>1, RequestMoves DEF HangUp, Handled, processVars
<1>6. ASSUME NEW r \in Requests, Post(r) PROVE PortOK'
  <2>1. \A q \in Requests : req'[q].conn = req[q].conn
    BY <1>6 DEF Post, RequestsOK, Reqs
  <2> QED BY <1>6, <2>1, PortStays DEF Post, processVars
<1>16. ASSUME NEW r \in Requests, Written(r) PROVE PortOK'
  <2>1. \A q \in Requests : req'[q].conn = req[q].conn
    BY <1>16 DEF Written, RequestsOK, Reqs
  <2> QED BY <1>16, <2>1, PortStays DEF Written
<1>7. ASSUME NEW r \in Requests, AccountStep(r) \/ AccountFails(r) PROVE PortOK'
  <2>1. UNCHANGED <<start, port, raced, req>>
    BY <1>7 DEF AccountStep, AccountFails
  <2>2. stop' = stop \/ stop >= 4
    BY <1>7 DEF AccountStep, AccountFails, Rejects, ProcessOK
  <2> QED BY <2>1, <2>2, PortStays
<1>8. CASE TakeTurn \/ Storage
  BY <1>8, PortStays DEF TakeTurn, Storage, processVars
<1>9. CASE Started /\ Alive
  <2>1. start \in 1..3 /\ start' = start + 1 /\ UNCHANGED <<req, stop>> /\ stop \in 1..4
    BY <1>9 DEF Started, ProcessOK
  <2>2. CASE start = 3
    <3>1. port' = "open" /\ start' = 4
      BY <1>9, <2>1, <2>2 DEF Started, ProcessOK
    <3>2. raced' = (Stage \in {"http", "stores"})
      BY <1>9, <2>1, <2>2 DEF Started, ProcessOK
    <3>3. stop \in {3, 4} => Stage \in {"http", "stores"}
      BY <2>1
    <3>4. stop \in {3, 4} => raced'
      BY <3>2, <3>3, Zenon
    <3>5. stop \in {1, 2, 3, 4}
      BY <2>1
    <3> QED BY <2>1, <3>1, <3>4, <3>5 DEF PortOK, ProcessOK
  <2>3. CASE start # 3
    <3>1. UNCHANGED <<port, raced>>
      BY <1>9, <2>3 DEF Started, ProcessOK
    <3> QED BY <2>1, <3>1 DEF PortOK, ProcessOK
  <2> QED BY <2>2, <2>3
<1>10. CASE Signal
  BY <1>10 DEF Signal, PortOK, ProcessOK
<1>11. CASE Stopped
  BY <1>11 DEF Stopped, PortOK, ProcessOK
<1>12. CASE HttpClosed
  <2>1. stop = 3 /\ stop' = 4 /\ UNCHANGED <<start, port, raced, req>>
    BY <1>12 DEF HttpClosed, ProcessOK
  <2>2. ~raced => \A r \in Requests : req[r].conn # "open"
    BY <1>12, <2>1 DEF HttpClosed, PortOK
  <2> QED BY <2>1, <2>2 DEF PortOK
<1>13. CASE StoresClosed
  BY <1>13, PortStays DEF StoresClosed, PortOK, ProcessOK
<1>14. CASE Again
  <2>1. start' = 1 /\ stop' = 1 /\ port' = "closed" /\ ~raced'
    BY <1>14 DEF Again
  <2>2. \A r \in Requests : req'[r].conn \in {"none", "done"}
    BY <1>14 DEF Again, RequestsOK, Reqs, Over
  <2> QED BY <2>1, <2>2 DEF PortOK
<1>15. CASE UNCHANGED serverVars
  BY <1>15, PortStays DEF serverVars, processVars
<1> QED BY <1>2, <1>3, <1>4, <1>5, <1>6, <1>7, <1>8, <1>9, <1>10, <1>11, <1>12, <1>13, <1>14, <1>15,
        <1>16 DEF ServerNext, Runs

\* What leaves the files, their writes and what clients were told of alone.
LEMMA CoveredStays ==
  ASSUME Covered, UNCHANGED <<disk, job, snap, told>>, refused \subseteq refused',
         (stop' >= 4 /\ ~raced') => (stop >= 4 /\ ~raced)
  PROVE  Covered'
BY DEF Covered, Coming

\* Closing the store queues a write of whatever is dirty.
LEMMA CloseCovers ==
  ASSUME RequestsOK, StoreInv, Close, UNCHANGED told
  PROVE  \A c \in Convs : disk'[c] >= told'[c] \/ Coming(c)'
<1> SUFFICES ASSUME NEW c \in Convs PROVE disk'[c] >= told'[c] \/ Coming(c)'
  OBVIOUS
<1>1. "timer" \in Flushes /\ "close" \in Flushes /\ UNCHANGED <<mem, disk, snap, told>>
  BY DEF Flushes, Close
<1>2. told[c] <= mem[c] /\ told[c] \in Nat /\ mem[c] \in Nat
  BY DEF RequestsOK, StoreInv, TypeOK, Versions
<1>3. /\ job'["close"][c] = IF c \in dirty THEN "queued" ELSE "none"
      /\ job'["timer"] = job["timer"]
  BY <1>1, FlushMoves DEF Close, StoreInv
<1>4. job["close"][c] = "none"
  BY DEF Close, StoreInv, FlushesApart
<1>5. CASE disk[c] = mem[c]
  BY <1>1, <1>2, <1>5
<1>6. CASE c \in dirty
  BY <1>1, <1>3, <1>6 DEF Coming
<1>7. ASSUME NEW f \in Flushes,
             job[f][c] \in {"queued", "open"} \/ (job[f][c] = "writing" /\ snap[f][c] = mem[c])
      PROVE  Coming(c)'
  <2>1. f = "timer"
    BY <1>4, <1>7 DEF Flushes
  <2> QED BY <1>1, <1>2, <1>3, <1>7, <2>1 DEF Coming
<1> QED BY <1>5, <1>6, <1>7 DEF StoreInv, NothingForgotten

LEMMA StoreStepCovers ==
  ASSUME RequestsOK, StoreInv, StoreInv', ProcessOK, Covered, StoreStep, UNCHANGED <<told, stop, raced>>
  PROVE  Covered'
<1> SUFFICES ASSUME stop >= 4, ~raced, NEW c \in Convs
             PROVE  c \in refused' \/ disk'[c] >= told[c] \/ Coming(c)'
  BY DEF Covered, Coming
<1> USE DEF Covered
<1>0. phase # "running" /\ ~timer
  BY DEF ProcessOK, StoreInv, FlushesApart
<1>1. told[c] \in Nat /\ mem[c] \in Nat /\ disk[c] \in Nat /\ told[c] <= mem[c]
  BY DEF RequestsOK, StoreInv, TypeOK, Versions
<1>2. TypeOK
  BY DEF StoreInv
<1>3. ASSUME NEW f \in Flushes, NEW d \in Convs, Open(f, d)
      PROVE  c \in refused' \/ disk'[c] >= told[c] \/ Coming(c)'
  <2>1. "open" \in JobStates
    BY DEF JobStates
  <2>2. /\ job'[f][d] = "open" /\ UNCHANGED <<disk, snap, refused>>
        /\ \A g \in Flushes, e \in Convs : ~(g = f /\ e = d) => job'[g][e] = job[g][e]
    <3>1. job' = [job EXCEPT ![f][d] = "open"] /\ UNCHANGED <<disk, snap, refused>>
      BY <1>3 DEF Open
    <3> QED BY <1>2, <2>1, <3>1, JobMoves, ZenonT(60)
  <2> QED BY <2>2 DEF Coming
<1>4. ASSUME NEW f \in Flushes, NEW d \in Convs, Serialise(f, d)
      PROVE  c \in refused' \/ disk'[c] >= told[c] \/ Coming(c)'
  <2>1. "writing" \in JobStates
    BY DEF JobStates
  <2>2. /\ job'[f][d] = "writing" /\ UNCHANGED <<disk, refused>>
        /\ \A g \in Flushes, e \in Convs : ~(g = f /\ e = d) => job'[g][e] = job[g][e]
    <3>1. job' = [job EXCEPT ![f][d] = "writing"] /\ UNCHANGED <<disk, refused>>
      BY <1>4 DEF Serialise
    <3> QED BY <1>2, <2>1, <3>1, JobMoves, ZenonT(60)
  <2>3. /\ snap'[f][d] = mem[d]
        /\ \A g \in Flushes, e \in Convs : ~(g = f /\ e = d) => snap'[g][e] = snap[g][e]
    BY <1>2, <1>4 DEF Serialise, TypeOK
  <2> QED BY <1>1, <2>2, <2>3 DEF Coming
<1>5. ASSUME NEW f \in Flushes, NEW d \in Convs, Rename(f, d)
      PROVE  c \in refused' \/ disk'[c] >= told[c] \/ Coming(c)'
  <2>1. "none" \in JobStates
    BY DEF JobStates
  <2>2. /\ job[f][d] = "writing" /\ UNCHANGED <<snap, refused>>
        /\ \A g \in Flushes, e \in Convs : ~(g = f /\ e = d) => job'[g][e] = job[g][e]
    BY <1>2, <1>5, <2>1, JobMoves DEF Rename
  <2>3. disk'[d] = snap[f][d] /\ \A e \in Convs : e # d => disk'[e] = disk[e]
    BY <1>2, <1>5 DEF Rename, TypeOK
  <2>4. disk[d] <= snap[f][d] /\ snap[f][d] \in Nat
    BY <1>2, <2>2 DEF StoreInv, Ordered, TypeOK, Versions
  <2>5. CASE c # d
    BY <2>2, <2>3, <2>5 DEF Coming
  <2>6. CASE c = d /\ disk[c] >= told[c]
    BY <1>1, <2>3, <2>4, <2>6
  <2>7. CASE c = d /\ Coming(c)
    BY <2>2, <2>3, <2>7 DEF Coming
  <2> QED BY <2>2, <2>5, <2>6, <2>7
<1>6. ASSUME NEW f \in Flushes, NEW d \in Convs, WriteFails(f, d)
      PROVE  c \in refused' \/ disk'[c] >= told[c] \/ Coming(c)'
  <2>1. "none" \in JobStates
    BY DEF JobStates
  <2>2. /\ job[f][d] # "none" /\ UNCHANGED <<snap, disk>>
        /\ \A g \in Flushes, e \in Convs : ~(g = f /\ e = d) => job'[g][e] = job[g][e]
    BY <1>2, <1>6, <2>1, JobMoves DEF WriteFails
  <2>3. phase = "closing"
    BY <1>0, <2>2 DEF StoreInv, TypeOK, DirtyExcused, NoJobs
  <2>4. refused' = refused \cup {d}
    BY <1>6, <2>3 DEF WriteFails
  <2>5. CASE c # d
    BY <2>2, <2>4, <2>5 DEF Coming
  <2> QED BY <2>4, <2>5
<1>7. CASE CloseDone
  BY <1>7 DEF CloseDone, Coming
<1> QED BY <1>0, <1>3, <1>4, <1>5, <1>6, <1>7 DEF StoreStep, TimerFires, Reschedule

LEMMA CoveredRight ==
  ASSUME RequestsOK, StoreInv, StoreInv', ProcessOK, ProcessOK', PortOK, Covered, [ServerNext]_serverVars
  PROVE  Covered'
<1> USE StageIs, StartIs
<1>1. ASSUME NEW r \in Requests, Arrive(r) \/ Written(r) \/ HangUp(r) \/ AccountStep(r)
      PROVE  Covered'
  BY <1>1, CoveredStays DEF Arrive, Written, HangUp, AccountStep, vars, processVars
<1>2. ASSUME NEW r \in Requests, Post(r) PROVE Covered'
  BY <1>2, CoveredStays DEF Post, Change, processVars
<1>3. ASSUME NEW r \in Requests, Answer(r) PROVE Covered'
  <2>1. ~(stop' >= 4 /\ ~raced')
    BY <1>3 DEF Answer, PortOK, processVars
  <2> QED BY <2>1 DEF Covered
<1>4. ASSUME NEW r \in Requests, PostFails(r) \/ AccountFails(r) PROVE Covered'
  <2>1. stop' = stop \/ stop >= 4
    BY <1>4 DEF PostFails, AccountFails, Rejects, ProcessOK
  <2> QED BY <1>4, <2>1, CoveredStays DEF PostFails, AccountFails
<1>5. CASE TakeTurn
  BY <1>5, CoveredStays DEF TakeTurn, vars, processVars
<1>6. CASE Started
  <2>1. ~raced' => ~raced
    BY <1>6 DEF Started, PortOK, ProcessOK
  <2> QED BY <1>6, <2>1, CoveredStays DEF Started, vars
<1>7. CASE Signal \/ Stopped
  <2>1. ~(stop' >= 4)
    BY <1>7 DEF Signal, Stopped, ProcessOK
  <2> QED BY <2>1 DEF Covered
<1>8. CASE HttpClosed
  BY <1>8, CloseCovers DEF HttpClosed, Covered
<1>9. CASE StoresClosed
  <2>1. stop = 4
    BY <1>9 DEF StoresClosed, ProcessOK
  <2> QED BY <1>9, <2>1, CoveredStays DEF StoresClosed, vars
<1>10. CASE Storage
  BY <1>10, StoreStepCovers DEF Storage, processVars
<1>11. CASE Again
  <2>1. ~(stop' >= 4)
    BY <1>11 DEF Again
  <2> QED BY <2>1 DEF Covered
<1>12. CASE UNCHANGED serverVars
  BY <1>12, CoveredStays DEF serverVars, vars, processVars
<1> QED BY <1>1, <1>2, <1>3, <1>4, <1>5, <1>6, <1>7, <1>8, <1>9, <1>10, <1>11, <1>12
        DEF ServerNext, Runs

(***************************************************************************)
(* The accounts: the inductive invariant                                   *)
(***************************************************************************)
Stages == {"none", "hashing", "filing", "spinning", "writing", "made", "refused", "failed"}
Registrations == [name : Names \cup {Free}, pc : Stages, copy : Indexes]
Entered == {"filing", "spinning", "writing", "made"}
Regular(r) == r \notin rivals \cup overtaken

RegTypeOK ==
    /\ reg \in [Requests -> Registrations]
    /\ \A r \in Requests : reg[r].pc # "none" => reg[r].name \in Names
    /\ index \in Indexes /\ indexFile \in Indexes
    /\ files \subseteq Requests
    /\ line \in Seq(Requests)

\* One writes, those in the line spin, each at one place.
Lined ==
    /\ \A p, q \in Requests : reg[p].pc = "writing" /\ reg[q].pc = "writing" => p = q
    /\ \A i \in 1..Len(line) : reg[line[i]].pc = "spinning"
    /\ \A i, j \in 1..Len(line) : line[i] = line[j] => i = j

\* Nobody is about to take the name of an account that is entered.
Alone ==
    \A r, q \in Requests :
        /\ r # q /\ reg[r].name = reg[q].name /\ reg[q].pc = "hashing"
        /\ reg[r].pc \in Entered \cup {"hashing"}
        => ~Regular(r)

\* An account that is entered is in the index, and one whose file was written has it.
Indexed ==
    \A r \in Requests :
        /\ reg[r].pc \in Entered /\ Regular(r) => index[reg[r].name] = r
        /\ reg[r].pc \in {"spinning", "writing", "made"} => r \in files

\* Whoever writes the index after r does not know less than r.
Later(r, p) == reg[p].copy[reg[r].name] = r
InTurn ==
    /\ \A r \in Requests : reg[r].pc \in {"spinning", "writing"} /\ Regular(r) => Later(r, r)
    /\ \A r \in Requests, i \in 1..Len(line) :
          reg[r].pc \in {"writing", "made"} /\ Regular(r) => Later(r, line[i])
    /\ \A r, p \in Requests :
          reg[r].pc = "made" /\ reg[p].pc = "writing" /\ Regular(r) => Later(r, p)
    /\ \A i, j \in 1..Len(line) : i < j /\ Regular(line[i]) => Later(line[i], line[j])

OnDisk ==
    \A r \in Requests : reg[r].pc = "made" /\ Regular(r) => indexFile[reg[r].name] = r

AccountsInv == RegTypeOK /\ Lined /\ Alone /\ Indexed /\ InTurn /\ OnDisk

LEMMA AccountsInitially == AccountsInit => AccountsInv
<1> SUFFICES ASSUME AccountsInit PROVE AccountsInv
  OBVIOUS
<1>1. Empty \in Indexes
  BY DEF Empty, Indexes
<1>2. NoRegistration \in Registrations /\ NoRegistration.pc = "none"
  BY <1>1 DEF NoRegistration, Registrations, Stages
<1>3. \A r \in Requests : reg[r] = NoRegistration
  BY DEF AccountsInit
<1>4. line = <<>> /\ Len(line) = 0
  BY DEF AccountsInit
<1>5. RegTypeOK
  BY <1>1, <1>2, <1>3, <1>4 DEF AccountsInit, RegTypeOK
<1>6. Lined /\ Alone /\ Indexed /\ InTurn /\ OnDisk
  BY <1>2, <1>3, <1>4 DEF Lined, Alone, Indexed, InTurn, OnDisk, Entered
<1> QED BY <1>5, <1>6 DEF AccountsInv

(***************************************************************************)
(* The line                                                                *)
(***************************************************************************)
LEMMA RemoveAtPlaces ==
    ASSUME NEW S, NEW s \in Seq(S), NEW i \in 1..Len(s)
    PROVE  /\ RemoveAt(s, i) \in Seq(S)
           /\ Len(RemoveAt(s, i)) = Len(s) - 1
           /\ \A j \in 1..(Len(s) - 1) :
                 RemoveAt(s, i)[j] = IF j < i THEN s[j] ELSE s[j + 1]
<1> DEFINE a == SubSeq(s, 1, i - 1)
           b == SubSeq(s, i + 1, Len(s))
<1>1. /\ a \in Seq(S) /\ Len(a) = i - 1
      /\ \A j \in 1..(i - 1) : a[j] = s[j]
  BY SubSeqProperties
<1>2. /\ b \in Seq(S) /\ Len(b) = Len(s) - i
      /\ \A j \in 1..(Len(s) - i) : b[j] = s[i + j]
  <2>1. /\ b \in Seq(S)
        /\ Len(b) = IF i + 1 <= Len(s) THEN Len(s) - (i + 1) + 1 ELSE 0
        /\ \A j \in 1..(Len(s) - (i + 1) + 1) : b[j] = s[(i + 1) + j - 1]
    BY SubSeqProperties
  <2>2. Len(s) \in Nat /\ Len(s) - (i + 1) + 1 = Len(s) - i
    OBVIOUS
  <2>3. Len(b) = Len(s) - i
    <3> HIDE DEF b
    <3>1. CASE i + 1 <= Len(s)
      BY <2>1, <2>2, <3>1
    <3>2. CASE i = Len(s)
      <4>1. ~(i + 1 <= Len(s)) /\ Len(s) - i = 0
        BY <3>2, <2>2
      <4> QED BY <2>1, <4>1
    <3>3. \A n \in Nat : i \in 1..n => i + 1 <= n \/ i = n
      OBVIOUS
    <3> QED BY <2>2, <3>1, <3>2, <3>3
  <2>4. ASSUME NEW j \in 1..(Len(s) - i) PROVE b[j] = s[i + j]
    <3>1. (i + 1) + j - 1 = i + j
      BY <2>2
    <3> HIDE DEF b
    <3> QED BY <2>1, <2>2, <3>1
  <2> QED BY <2>1, <2>3, <2>4
<1>3. /\ a \o b \in Seq(S) /\ Len(a \o b) = Len(a) + Len(b)
      /\ \A j \in 1..(Len(a) + Len(b)) : (a \o b)[j] = IF j <= Len(a) THEN a[j] ELSE b[j - Len(a)]
  BY <1>1, <1>2, ConcatProperties
<1>4. RemoveAt(s, i) = a \o b
  BY DEF RemoveAt
<1> HIDE DEF a, b
<1>5. Len(s) \in Nat /\ Len(a) + Len(b) = Len(s) - 1
  BY <1>1, <1>2
<1>6. ASSUME NEW j \in 1..(Len(s) - 1)
      PROVE  (a \o b)[j] = IF j < i THEN s[j] ELSE s[j + 1]
  <2>1. (a \o b)[j] = IF j <= i - 1 THEN a[j] ELSE b[j - (i - 1)]
    BY <1>1, <1>3, <1>5
  <2>2. CASE j < i
    BY <1>1, <2>1, <2>2
  <2>3. CASE ~(j < i)
    <3>1. j - (i - 1) \in 1..(Len(s) - i) /\ i + (j - (i - 1)) = j + 1 /\ ~(j <= i - 1)
      BY <1>5, <2>3
    <3> QED BY <1>2, <2>1, <2>3, <3>1
  <2> QED BY <2>2, <2>3
<1> QED BY <1>3, <1>4, <1>5, <1>6

LEMMA AppendPlaces ==
    ASSUME NEW S, NEW s \in Seq(S), NEW e \in S
    PROVE  /\ Append(s, e) \in Seq(S)
           /\ Len(Append(s, e)) = Len(s) + 1
           /\ \A j \in 1..Len(s) : Append(s, e)[j] = s[j]
           /\ Append(s, e)[Len(s) + 1] = e
OBVIOUS

(***************************************************************************)
(* A registration up to its file                                           *)
(***************************************************************************)
LEMMA RegisterRight ==
    ASSUME AccountsInv, NEW r \in Requests, NEW n \in Names, Register(r, n)
    PROVE  AccountsInv'
<1> USE FreeAssumption DEF AccountsInv
<1>0. /\ reg[r].pc = "none"
      /\ \A q \in Requests \ {r} : reg'[q] = reg[q]
      /\ reg'[r].name = n /\ reg'[r].copy = Empty
      /\ reg'[r].pc = IF usernameTaken(n) THEN "refused" ELSE "hashing"
      /\ reg' \in [Requests -> Registrations]
      /\ UNCHANGED <<index, indexFile, files, line, overtaken>>
      /\ rivals \subseteq rivals'
  <2>1. Empty \in Indexes
    BY DEF Empty, Indexes
  <2> QED BY <2>1 DEF Register, RegTypeOK, Registrations, Stages
<1>1. RegTypeOK'
  BY <1>0 DEF RegTypeOK
<1>2. Lined'
  BY <1>0 DEF Lined, RegTypeOK
<1>3. Alone'
  <2> SUFFICES ASSUME NEW p \in Requests, NEW q \in Requests,
                      p # q, reg'[p].name = reg'[q].name, reg'[q].pc = "hashing",
                      reg'[p].pc \in Entered \cup {"hashing"}, Regular(p)'
               PROVE  FALSE
    BY DEF Alone
  <2>1. Regular(p)
    BY <1>0 DEF Regular
  <2>2. CASE p # r /\ q # r
    BY <1>0, <2>1, <2>2 DEF Alone
  <2>3. CASE q = r
    <3>1. ~usernameTaken(n) /\ index[n] = Free /\ reg[p] = reg'[p] /\ reg[p].name = n
      BY <1>0, <2>3 DEF usernameTaken
    <3>2. CASE reg[p].pc = "hashing"
      BY <1>0, <3>1, <3>2 DEF Register, Namesakes, Regular
    <3>3. CASE reg[p].pc \in Entered
      BY <2>1, <3>1, <3>3 DEF Indexed
    <3> QED BY <2>2, <3>1, <3>2, <3>3
  <2>4. CASE p = r
    <3>1. ~usernameTaken(n) /\ reg[q] = reg'[q] /\ reg[q].name = n /\ reg[q].pc = "hashing"
      BY <1>0, <2>4 DEF usernameTaken, Entered
    <3> QED BY <1>0, <2>4, <3>1 DEF Register, Namesakes, Regular
  <2> QED BY <2>2, <2>3, <2>4
<1>4. reg'[r].pc \notin Entered
  BY <1>0 DEF Entered
<1>5. \A q \in Requests : Regular(q)' => Regular(q)
  BY <1>0 DEF Regular
<1>6. Indexed'
  BY <1>0, <1>4, <1>5 DEF Indexed, Entered
<1>7. InTurn'
  <2>1. \A i \in 1..Len(line) : line[i] \in Requests \ {r}
    BY <1>0 DEF Lined, RegTypeOK
  <2> QED BY <1>0, <1>4, <1>5, <2>1 DEF InTurn, Later, Entered
<1>8. OnDisk'
  BY <1>0, <1>4, <1>5 DEF OnDisk, Entered
<1> QED BY <1>1, <1>2, <1>3, <1>6, <1>7, <1>8

LEMMA CreateRight ==
    ASSUME AccountsInv, NEW r \in Requests, Create(r)
    PROVE  AccountsInv'
<1> USE DEF AccountsInv
<1> DEFINE n == reg[r].name
<1>0. /\ reg[r].pc = "hashing" /\ n \in Names
      /\ \A q \in Requests \ {r} : reg'[q] = reg[q]
      /\ reg'[r].name = n /\ reg'[r].copy = reg[r].copy /\ reg'[r].pc = "filing"
      /\ reg' \in [Requests -> Registrations]
      /\ index' = [index EXCEPT ![n] = r]
      /\ UNCHANGED <<indexFile, files, line, rivals, overtaken>>
  BY DEF Create, RegTypeOK, Registrations, Stages
<1>1. RegTypeOK'
  <2>1. index' \in Indexes
    BY <1>0 DEF RegTypeOK, Indexes
  <2> QED BY <1>0, <2>1 DEF RegTypeOK
<1>2. Lined'
  BY <1>0 DEF Lined, RegTypeOK
<1>3. Alone'
  BY <1>0 DEF Alone, Entered, Regular
<1>4. Indexed'
  <2> SUFFICES ASSUME NEW q \in Requests
               PROVE  /\ reg'[q].pc \in Entered /\ Regular(q)' => index'[reg'[q].name] = q
                      /\ reg'[q].pc \in {"spinning", "writing", "made"} => q \in files'
    BY DEF Indexed
  <2>1. CASE q = r
    BY <1>0, <2>1 DEF RegTypeOK, Indexes
  <2>2. CASE q # r
    <3>1. reg[q].pc \in Entered /\ Regular(q) => reg[q].name # n
      BY <1>0, <2>2 DEF Alone
    <3>2. reg[q].pc \in Entered => reg[q].name \in Names
      BY DEF RegTypeOK, Entered
    <3> QED BY <1>0, <2>2, <3>1, <3>2 DEF Indexed, Regular, RegTypeOK, Indexes
  <2> QED BY <2>1, <2>2
<1>5. InTurn'
  <2>1. \A i \in 1..Len(line) : line[i] \in Requests \ {r}
    BY <1>0 DEF Lined, RegTypeOK
  <2> QED BY <1>0, <2>1 DEF InTurn, Later, Regular
<1>6. OnDisk'
  BY <1>0 DEF OnDisk, Regular
<1> QED BY <1>1, <1>2, <1>3, <1>4, <1>5, <1>6

LEMMA FileWrittenRight ==
    ASSUME AccountsInv, NEW r \in Requests, FileWritten(r)
    PROVE  AccountsInv'
<1> USE DEF AccountsInv
<1>0. /\ reg[r].pc = "filing"
      /\ \A q \in Requests \ {r} : reg'[q] = reg[q]
      /\ reg'[r].name = reg[r].name /\ reg'[r].copy = index
      /\ reg'[r].pc = IF LockHeld THEN "spinning" ELSE "writing"
      /\ reg' \in [Requests -> Registrations]
      /\ files' = files \cup {r}
      /\ line' = IF LockHeld THEN Append(line, r) ELSE line
      /\ UNCHANGED <<index, indexFile, rivals>>
      /\ overtaken \subseteq overtaken'
  BY DEF FileWritten, RegTypeOK, Registrations, Stages
<1>1. \A q \in Requests : Regular(q)' => Regular(q)
  BY <1>0 DEF Regular
<1>2. line \in Seq(Requests) /\ \A i \in 1..Len(line) : line[i] \in Requests \ {r}
  BY <1>0 DEF Lined, RegTypeOK
<1>3. CASE LockHeld
  <2>1. /\ line' \in Seq(Requests) /\ Len(line') = Len(line) + 1
        /\ \A j \in 1..Len(line) : line'[j] = line[j]
        /\ line'[Len(line) + 1] = r
    BY <1>0, <1>2, <1>3, AppendPlaces
  <2>2. reg'[r].pc = "spinning"
    BY <1>0, <1>3
  <2>3. RegTypeOK'
    BY <1>0, <2>1, <2>2 DEF RegTypeOK
  <2>4. Lined'
    <3>1. \A p, q \in Requests : reg'[p].pc = "writing" /\ reg'[q].pc = "writing" => p = q
      BY <1>0, <2>2 DEF Lined
    <3>2. \A i \in 1..Len(line') : reg'[line'[i]].pc = "spinning"
      <4> TAKE i \in 1..Len(line')
      <4>1. i \in 1..Len(line) \/ i = Len(line) + 1
        BY <1>2, <2>1
      <4> QED BY <4>1, <1>0, <1>2, <2>1, <2>2 DEF Lined
    <3>3. \A i, j \in 1..Len(line') : line'[i] = line'[j] => i = j
      <4> TAKE i, j \in 1..Len(line')
      <4>1. i \in 1..Len(line) \/ i = Len(line) + 1
        BY <1>2, <2>1
      <4>2. j \in 1..Len(line) \/ j = Len(line) + 1
        BY <1>2, <2>1
      <4> QED BY <4>1, <4>2, <1>2, <2>1 DEF Lined
    <3> QED BY <3>1, <3>2, <3>3 DEF Lined
  <2>5. Alone'
    BY <1>0, <1>1, <2>2 DEF Alone, Entered
  <2>6. Indexed'
    BY <1>0, <1>1, <2>2 DEF Indexed, Entered
  <2>7. InTurn'
    <3>1. \A q \in Requests : reg[q].pc \in Entered /\ Regular(q)' => index[reg[q].name] = q
      BY <1>1 DEF Indexed
    <3>2. \A q \in Requests : reg'[q].pc \in {"spinning", "writing"} /\ Regular(q)' => Later(q, q)'
      BY <1>0, <1>1, <2>2, <3>1 DEF InTurn, Later, Entered
    <3>3. \A q \in Requests, i \in 1..Len(line') :
             reg'[q].pc \in {"writing", "made"} /\ Regular(q)' => Later(q, line[i])'
      <4> TAKE q \in Requests, i \in 1..Len(line')
      <4> HAVE reg'[q].pc \in {"writing", "made"} /\ Regular(q)'
      <4>1. q # r /\ reg[q].pc \in {"writing", "made"} /\ Regular(q)
        BY <1>0, <1>1, <2>2
      <4>2. CASE i \in 1..Len(line)
        <5>1. Later(q, line[i]) /\ line'[i] = line[i] /\ line[i] # r
          BY <1>2, <2>1, <4>1, <4>2 DEF InTurn
        <5> QED BY <1>0, <1>2, <4>1, <4>2, <5>1 DEF Later
      <4>3. CASE i = Len(line) + 1
        BY <1>0, <2>1, <3>1, <4>1, <4>3 DEF Later, Entered
      <4> QED BY <1>2, <2>1, <4>2, <4>3
    <3>4. \A q, p \in Requests :
             reg'[q].pc = "made" /\ reg'[p].pc = "writing" /\ Regular(q)' => Later(q, p)'
      BY <1>0, <1>1, <2>2 DEF InTurn, Later
    <3>5. \A i, j \in 1..Len(line') : i < j /\ Regular(line[i])' => Later(line[i], line[j])'
      <4> TAKE i, j \in 1..Len(line')
      <4> HAVE i < j /\ Regular(line[i])'
      <4>1. i \in 1..Len(line) /\ line'[i] = line[i] /\ Regular(line[i]) /\ reg'[line[i]] = reg[line[i]]
        BY <1>0, <1>1, <1>2, <2>1 DEF Regular
      <4>2. CASE j \in 1..Len(line)
        <5>1. Later(line[i], line[j]) /\ line'[j] = line[j] /\ line[j] # r
          BY <1>2, <2>1, <4>1, <4>2 DEF InTurn
        <5> QED BY <1>0, <1>2, <4>1, <4>2, <5>1 DEF Later
      <4>3. CASE j = Len(line) + 1
        <5>1. index[reg[line[i]].name] = line[i]
          BY <1>2, <4>1 DEF Indexed, Lined, Entered
        <5> QED BY <1>0, <1>2, <2>1, <4>1, <4>3, <5>1 DEF Later
      <4> QED BY <1>2, <2>1, <4>2, <4>3
    <3> QED BY <3>2, <3>3, <3>4, <3>5 DEF InTurn
  <2>8. OnDisk'
    BY <1>0, <1>1, <2>2 DEF OnDisk
  <2> QED BY <2>3, <2>4, <2>5, <2>6, <2>7, <2>8
<1>4. CASE ~LockHeld
  <2>1. line' = line /\ reg'[r].pc = "writing" /\ \A q \in Requests : reg[q].pc # "writing"
    BY <1>0, <1>4 DEF LockHeld
  <2>2. line # <<>> => ~Regular(r)'
    BY <1>4 DEF FileWritten, Regular
  <2>3. RegTypeOK'
    BY <1>0, <2>1 DEF RegTypeOK
  <2>4. Lined'
    BY <1>0, <1>2, <2>1 DEF Lined
  <2>5. Alone'
    BY <1>0, <1>1, <2>1 DEF Alone, Entered
  <2>6. Indexed'
    BY <1>0, <1>1, <2>1 DEF Indexed, Entered
  <2>7. InTurn'
    <3>1. \A q \in Requests : reg[q].pc \in Entered /\ Regular(q)' => index[reg[q].name] = q
      BY <1>1 DEF Indexed
    <3>2. \A q \in Requests : reg'[q].pc \in {"spinning", "writing"} /\ Regular(q)' => Later(q, q)'
      BY <1>0, <1>1, <2>1, <3>1 DEF InTurn, Later, Entered
    <3>3. \A q \in Requests, i \in 1..Len(line') :
             reg'[q].pc \in {"writing", "made"} /\ Regular(q)' => Later(q, line[i])'
      <4> TAKE q \in Requests, i \in 1..Len(line')
      <4> HAVE reg'[q].pc \in {"writing", "made"} /\ Regular(q)'
      <4>1. i \in 1..Len(line) /\ line # <<>>
        BY <2>1
      <4>2. q # r
        BY <2>2, <4>1
      <4>3. Later(q, line[i])
        BY <1>0, <1>1, <4>1, <4>2 DEF InTurn
      <4> QED BY <1>0, <1>2, <2>1, <4>1, <4>2, <4>3 DEF Later
    <3>4. \A q, p \in Requests :
             reg'[q].pc = "made" /\ reg'[p].pc = "writing" /\ Regular(q)' => Later(q, p)'
      BY <1>0, <2>1, <3>1 DEF Later, Entered
    <3>5. \A i, j \in 1..Len(line') : i < j /\ Regular(line[i])' => Later(line[i], line[j])'
      <4> TAKE i, j \in 1..Len(line')
      <4> HAVE i < j /\ Regular(line[i])'
      <4>1. Later(line[i], line[j])
        BY <1>1, <1>2, <2>1 DEF InTurn, Regular
      <4> QED BY <1>0, <1>2, <2>1, <4>1 DEF Later
    <3> QED BY <3>2, <3>3, <3>4, <3>5 DEF InTurn
  <2>8. OnDisk'
    BY <1>0, <1>1, <2>1 DEF OnDisk
  <2> QED BY <2>3, <2>4, <2>5, <2>6, <2>7, <2>8
<1> QED BY <1>3, <1>4

(***************************************************************************)
(* The index's file                                                        *)
(***************************************************************************)
LEMMA TurnRight ==
    ASSUME AccountsInv, NEW k \in DOMAIN line, Turn(k)
    PROVE  AccountsInv'
<1> USE DEF AccountsInv
<1> DEFINE r == line[k]
<1>0. /\ line \in Seq(Requests) /\ k \in 1..Len(line) /\ Len(line) \in Nat
      /\ r \in Requests /\ reg[r].pc = "spinning"
  BY DEF RegTypeOK, Lined
<1>1. /\ \A q \in Requests \ {r} : reg'[q] = reg[q]
      /\ reg'[r].name = reg[r].name /\ reg'[r].copy = reg[r].copy /\ reg'[r].pc = "writing"
      /\ reg' \in [Requests -> Registrations]
      /\ UNCHANGED <<index, indexFile, files, rivals>>
      /\ \A q \in Requests : reg[q].pc # "writing"
  BY <1>0 DEF Turn, RegTypeOK, Registrations, Stages, LockHeld
<1>12. overtaken \subseteq overtaken' /\ (k # 1 => r \in overtaken')
  BY DEF Turn
<1>2. /\ line' \in Seq(Requests) /\ Len(line') = Len(line) - 1
      /\ \A j \in 1..(Len(line) - 1) : line'[j] = IF j < k THEN line[j] ELSE line[j + 1]
  BY <1>0, RemoveAtPlaces DEF Turn
<1> DEFINE old(j) == IF j < k THEN j ELSE j + 1
<1>3. \A j \in 1..Len(line') :
        /\ old(j) \in 1..Len(line) /\ old(j) # k
        /\ line'[j] = line[old(j)] /\ line'[j] # r /\ line'[j] \in Requests
        /\ reg'[line'[j]] = reg[line'[j]]
  <2> TAKE j \in 1..Len(line')
  <2>1. old(j) \in 1..Len(line) /\ old(j) # k /\ line'[j] = line[old(j)]
    BY <1>0, <1>2
  <2>2. line[old(j)] # r /\ line[old(j)] \in Requests
    BY <1>0, <2>1 DEF Lined
  <2> QED BY <1>1, <2>1, <2>2
<1>4. \A i, j \in 1..Len(line') : (old(i) < old(j) <=> i < j) /\ (old(i) = old(j) => i = j)
  BY <1>0, <1>2
<1> HIDE DEF old
<1>5. \A q \in Requests : Regular(q)' => Regular(q)
  BY <1>1, <1>12 DEF Regular
<1>6. RegTypeOK'
  <2>1. \A q \in Requests : reg'[q].pc # "none" => reg'[q].name \in Names
    BY <1>0, <1>1 DEF RegTypeOK
  <2> QED BY <1>1, <1>2, <2>1 DEF RegTypeOK
<1>7. Lined'
  <2>1. \A p, q \in Requests : reg'[p].pc = "writing" /\ reg'[q].pc = "writing" => p = q
    BY <1>1
  <2>2. \A i \in 1..Len(line') : reg'[line'[i]].pc = "spinning"
    BY <1>3 DEF Lined
  <2>3. \A i, j \in 1..Len(line') : line'[i] = line'[j] => i = j
    BY <1>3, <1>4 DEF Lined
  <2> QED BY <2>1, <2>2, <2>3 DEF Lined
<1>8. Alone'
  BY <1>0, <1>1, <1>5 DEF Alone, Entered
<1>9. Indexed'
  BY <1>0, <1>1, <1>5 DEF Indexed, Entered
<1>10. InTurn'
  <2>1. \A q \in Requests : reg'[q].pc \in {"spinning", "writing"} /\ Regular(q)' => Later(q, q)'
    BY <1>0, <1>1, <1>5 DEF InTurn, Later
  <2>2. \A q \in Requests, j \in 1..Len(line') :
           reg'[q].pc \in {"writing", "made"} /\ Regular(q)' => Later(q, line[j])'
    <3> TAKE q \in Requests, j \in 1..Len(line')
    <3> HAVE reg'[q].pc \in {"writing", "made"} /\ Regular(q)'
    <3>1. CASE q = r
      <4>1. k = 1 /\ k < old(j)
        <5>1. k = 1
          BY <1>12, <3>1 DEF Regular
        <5> QED BY <1>2, <5>1 DEF old
      <4>2. Later(r, line[old(j)])
        BY <1>0, <1>3, <1>5, <3>1, <4>1 DEF InTurn
      <4> QED BY <1>1, <1>3, <3>1, <4>2 DEF Later
    <3>2. CASE q # r
      <4>1. Later(q, line[old(j)])
        BY <1>1, <1>3, <1>5, <3>2 DEF InTurn
      <4> QED BY <1>1, <1>3, <3>2, <4>1 DEF Later
    <3> QED BY <3>1, <3>2
  <2>3. \A q, p \in Requests :
           reg'[q].pc = "made" /\ reg'[p].pc = "writing" /\ Regular(q)' => Later(q, p)'
    <3> TAKE q, p \in Requests
    <3> HAVE reg'[q].pc = "made" /\ reg'[p].pc = "writing" /\ Regular(q)'
    <3>1. p = r /\ q # r /\ reg[q].pc = "made" /\ Regular(q)
      BY <1>1, <1>5
    <3>2. Later(q, line[k])
      BY <1>0, <3>1 DEF InTurn
    <3> QED BY <1>1, <3>1, <3>2 DEF Later
  <2>4. \A i, j \in 1..Len(line') : i < j /\ Regular(line[i])' => Later(line[i], line[j])'
    <3> TAKE i, j \in 1..Len(line')
    <3> HAVE i < j /\ Regular(line[i])'
    <3>1. old(i) < old(j) /\ Regular(line[old(i)])
      BY <1>3, <1>4, <1>5
    <3>2. Later(line[old(i)], line[old(j)])
      BY <1>3, <3>1 DEF InTurn
    <3> QED BY <1>3, <3>2 DEF Later
  <2> QED BY <2>1, <2>2, <2>3, <2>4 DEF InTurn
<1>11. OnDisk'
  BY <1>0, <1>1, <1>5 DEF OnDisk
<1> QED BY <1>6, <1>7, <1>8, <1>9, <1>10, <1>11

LEMMA IndexWrittenRight ==
    ASSUME AccountsInv, NEW r \in Requests, IndexWritten(r)
    PROVE  AccountsInv'
<1> USE DEF AccountsInv
<1>0. /\ reg[r].pc = "writing"
      /\ \A q \in Requests \ {r} : reg'[q] = reg[q]
      /\ reg'[r].name = reg[r].name /\ reg'[r].copy = reg[r].copy /\ reg'[r].pc = "made"
      /\ reg' \in [Requests -> Registrations]
      /\ indexFile' = reg[r].copy /\ reg[r].copy \in Indexes
      /\ UNCHANGED <<index, files, line, rivals, overtaken>>
  BY DEF IndexWritten, RegTypeOK, Registrations, Stages
<1>1. \A i \in 1..Len(line) : line[i] \in Requests \ {r}
  BY <1>0 DEF Lined, RegTypeOK
<1>2. \A q \in Requests \ {r} : reg[q].pc # "writing"
  BY <1>0 DEF Lined
<1>3. RegTypeOK'
  BY <1>0 DEF RegTypeOK
<1>4. Lined'
  BY <1>0, <1>1 DEF Lined
<1>5. Alone' /\ Indexed'
  BY <1>0 DEF Alone, Indexed, Entered, Regular
<1>6. InTurn'
  BY <1>0, <1>1, <1>2 DEF InTurn, Later, Regular
<1>7. OnDisk'
  <2> SUFFICES ASSUME NEW q \in Requests, reg'[q].pc = "made", Regular(q)'
               PROVE  indexFile'[reg'[q].name] = q
    BY DEF OnDisk
  <2>1. Later(q, r)
    BY <1>0 DEF InTurn, Regular
  <2> QED BY <1>0, <2>1 DEF Later
<1> QED BY <1>3, <1>4, <1>5, <1>6, <1>7

LEMMA RegisterFailsRight ==
    ASSUME AccountsInv, NEW r \in Requests, RegisterFails(r)
    PROVE  AccountsInv'
<1> USE DEF AccountsInv
<1>0. /\ reg[r].pc \in {"filing", "writing"}
      /\ \A q \in Requests \ {r} : reg'[q] = reg[q]
      /\ reg'[r].name = reg[r].name /\ reg'[r].copy = reg[r].copy /\ reg'[r].pc = "failed"
      /\ reg' \in [Requests -> Registrations]
      /\ UNCHANGED <<index, indexFile, files, line, rivals, overtaken>>
  BY DEF RegisterFails, RegTypeOK, Registrations, Stages
<1>1. \A i \in 1..Len(line) : line[i] \in Requests \ {r}
  BY <1>0 DEF Lined, RegTypeOK
<1>2. RegTypeOK'
  BY <1>0 DEF RegTypeOK
<1>3. Lined'
  BY <1>0, <1>1 DEF Lined
<1>4. Alone' /\ Indexed' /\ OnDisk'
  BY <1>0 DEF Alone, Indexed, OnDisk, Entered, Regular
<1>5. InTurn'
  BY <1>0, <1>1 DEF InTurn, Later, Regular
<1> QED BY <1>2, <1>3, <1>4, <1>5

\* The next process knows the index as it is on disk.
LEMMA ReloadRight == ASSUME AccountsInv, Reload PROVE AccountsInv'
<1> USE DEF AccountsInv
<1>0. /\ index' = indexFile /\ line' = <<>> /\ Len(line') = 0
      /\ UNCHANGED <<indexFile, files, rivals, overtaken>>
  BY DEF Reload
<1>1. \A r \in Requests :
        /\ reg'[r].name = reg[r].name /\ reg'[r].copy = reg[r].copy
        /\ reg'[r].pc = IF reg[r].pc \in {"hashing", "filing", "spinning", "writing"}
                        THEN "failed" ELSE reg[r].pc
  BY DEF Reload, RegTypeOK, Registrations
<1>2. RegTypeOK'
  <2>1. reg' \in [Requests -> Registrations]
    BY DEF Reload, RegTypeOK, Registrations, Stages
  <2> QED BY <1>0, <1>1, <2>1 DEF RegTypeOK
<1>3. Lined'
  BY <1>0, <1>1 DEF Lined
<1>4. Alone'
  BY <1>1 DEF Alone
<1>5. Indexed' /\ OnDisk'
  BY <1>0, <1>1 DEF Indexed, OnDisk, Entered, Regular
<1>6. InTurn'
  BY <1>0, <1>1 DEF InTurn
<1> QED BY <1>2, <1>3, <1>4, <1>5, <1>6

(***************************************************************************)
(* The server                                                              *)
(***************************************************************************)
\* What a step of the process does to the accounts.
AccountsStep ==
    \/ \E r \in Requests, n \in Names : Register(r, n)
    \/ \E r \in Requests : Create(r) \/ FileWritten(r) \/ IndexWritten(r) \/ RegisterFails(r)
    \/ \E i \in DOMAIN line : Turn(i)
    \/ Reload
    \/ UNCHANGED accountVars

LEMMA ServerStepsAccounts == [ServerNext]_serverVars => AccountsStep
<1> SUFFICES ASSUME [ServerNext]_serverVars PROVE AccountsStep
  OBVIOUS
<1>1. CASE UNCHANGED serverVars
  BY <1>1 DEF serverVars, AccountsStep
<1>2. CASE Again
  BY <1>2 DEF Again, AccountsStep
<1>3. ASSUME NEW r \in Requests, Arrive(r) \/ AccountStep(r) \/ AccountFails(r)
      PROVE  AccountsStep
  BY <1>3 DEF Arrive, AccountStep, AccountFails, AccountsStep
<1>4. ASSUME NEW r \in Requests, Post(r) \/ Written(r) \/ PostFails(r) \/ Answer(r) \/ HangUp(r)
      PROVE  AccountsStep
  BY <1>4 DEF Post, Written, PostFails, Answer, HangUp, AccountsStep
<1>5. CASE TakeTurn
  BY <1>5 DEF TakeTurn, AccountsStep
<1>6. CASE Started \/ Signal \/ Stopped \/ HttpClosed \/ StoresClosed \/ Storage
  BY <1>6 DEF Started, Signal, Stopped, HttpClosed, StoresClosed, Storage, AccountsStep
<1> QED BY <1>1, <1>2, <1>3, <1>4, <1>5, <1>6 DEF ServerNext, Runs


(***************************************************************************)
(* The theorems                                                            *)
(***************************************************************************)
ServerInv ==
    /\ StoreInv
    /\ RequestsOK
    /\ ProcessOK
    /\ PortOK
    /\ Covered

LEMMA ServerInitially == ServerInit => ServerInv
<1> SUFFICES ASSUME ServerInit PROVE ServerInv
  OBVIOUS
<1>1. StoreInv /\ RequestsOK
  BY StoreInitially, RequestsInitially DEF ServerInit
<1>2. start = 1 /\ stop = 1 /\ port = "closed" /\ awaits = {} /\ phase = "running"
  BY DEF ServerInit, Init
<1>3. cut \in BOOLEAN /\ raced \in BOOLEAN /\ ~raced
  BY DEF ServerInit
<1>4. \A r \in Requests : req[r].conn = "none"
  BY DEF ServerInit, NoRequest
<1>5. ProcessOK
  BY <1>2, <1>3 DEF ProcessOK
<1>6. PortOK /\ Covered
  BY <1>2, <1>3, <1>4 DEF PortOK, Covered
<1> QED BY <1>1, <1>5, <1>6 DEF ServerInv

LEMMA ServerStepKeeps == ASSUME ServerInv, [ServerNext]_serverVars PROVE ServerInv'
<1> USE DEF ServerInv
<1>1. StoreInv'
  BY ServerStepsStore, StoreStepKeeps, FaultyKeeps
<1>2. RequestsOK'
  BY <1>1, RequestsRight
<1>3. ProcessOK' /\ PortOK'
  BY ProcessRight, PortRight
<1>4. Covered'
  BY <1>1, <1>3, CoveredRight
<1> QED BY <1>1, <1>2, <1>3, <1>4

\* The inductive invariant of the stores and the process.
THEOREM ServerInvariance == ServerSpec => []ServerInv
<1> QED BY ServerInitially, ServerStepKeeps, PTL DEF ServerSpec

\* Type correctness of the message store in the running server.
THEOREM TypeCorrect == ServerSpec => []TypeOK
<1>1. ServerInv => TypeOK
  BY DEF ServerInv, StoreInv
<1> QED BY <1>1, ServerInvariance, PTL

\* No change to a conversation is forgotten by the flushes (_flushDirty, _write of
\* messageStore.js), whatever requests, stops and restarts meet them: it is in the file,
\* dirty, or in a write under way.
THEOREM NoChangeForgotten == ServerSpec => []NothingForgotten
<1>1. ServerInv => NothingForgotten
  BY DEF ServerInv, StoreInv
<1> QED BY <1>1, ServerInvariance, PTL

\* When the message store's close() is done the files hold every change but those made,
\* or refused by the disk, while it ran.
THEOREM CloseLeavesNothing == ServerSpec => []CloseFlushes
<1>1. ServerInv => CloseFlushes
  BY DEF ServerInv, StoreInv, CloseFlushes, DirtyExcused, NothingForgotten, NoJobs
<1> QED BY <1>1, ServerInvariance, PTL

\* The server's message store implements WriteBehind: append() and update() change
\* memory, the rename of _write moves the file towards it, a restart falls back.
THEOREM Implementation == ServerSpec => IsWriteBehind
<1>1. ServerInit => Log!Init
  BY DEF ServerInit, Init, Log!Init
<1>2. ServerInv /\ [ServerNext]_serverVars => [Log!Next]_<<mem, disk>>
  <2> SUFFICES ASSUME ServerInv, [ServerNext]_serverVars PROVE [Log!Next]_<<mem, disk>>
    OBVIOUS
  <2>1. CASE Faulty
    BY <2>1 DEF Faulty
  <2> QED BY <2>1, ServerStepsStore, StepImplements DEF ServerInv
<1> QED BY <1>1, <1>2, ServerInvariance, PTL DEF ServerSpec, IsWriteBehind, Log!Spec

\* A process that stopped in order (stop of server.js) has saved every message that a
\* sender was answered, but what the disk refused, unless a failing write of an account or
\* of a conversation's document ended the stop early (Promise.all of the stores' close()
\* rejects) or start() opened the port after it had been closed.
THEOREM StopsKeepMessages == ServerSpec => []StopsClean
<1>1. ServerInv => StopsClean
  <2> SUFFICES ASSUME ServerInv, ~Alive, NEW c \in Convs, c \notin refused, ~cut, ~raced
               PROVE  disk[c] >= told[c]
    BY DEF StopsClean
  <2>1. stop = 5 /\ phase = "closed"
    BY StageIs DEF ServerInv, ProcessOK
  <2>2. job = NoJobs
    BY <2>1 DEF ServerInv, StoreInv, DirtyExcused
  <2>3. ~Coming(c)
    BY <2>2 DEF Coming, NoJobs
  <2> QED BY <2>1, <2>3 DEF ServerInv, Covered
<1> QED BY <1>1, ServerInvariance, PTL

\* The accounts' inductive invariant holds whatever the process does.
THEOREM AccountsInvariance == ServerSpec => []AccountsInv
<1>1. ServerInit => AccountsInv
  BY AccountsInitially DEF ServerInit
<1>2. AccountsInv /\ [ServerNext]_serverVars => AccountsInv'
  <2> SUFFICES ASSUME AccountsInv, AccountsStep PROVE AccountsInv'
    BY ServerStepsAccounts
  <2>1. CASE UNCHANGED accountVars
    BY <2>1 DEF accountVars, AccountsInv, RegTypeOK, Lined, Alone, Indexed, InTurn, Later, OnDisk, Regular
  <2> QED BY <2>1, RegisterRight, CreateRight, FileWrittenRight, TurnRight, IndexWrittenRight,
             RegisterFailsRight, ReloadRight DEF AccountsStep
<1> QED BY <1>1, <1>2, PTL DEF ServerSpec

\* Whoever was told of a new account (register of userService.js) can log in, now and after
\* a restart, unless two registrations of the name were allowed at once or the index was
\* written out of turn.
THEOREM LoginsKept == ServerSpec => []AccountsKept
<1>1. AccountsInv => AccountsKept
  <2> SUFFICES ASSUME AccountsInv, NEW r \in Requests, reg[r].pc = "made", Regular(r)
               PROVE  login(index, r) /\ login(indexFile, r)
    BY DEF AccountsKept, Regular
  <2>1. index[reg[r].name] = r /\ indexFile[reg[r].name] = r /\ r \in files
    BY DEF AccountsInv, Indexed, OnDisk, Entered
  <2> QED BY <2>1 DEF login, getByUsername
<1> QED BY <1>1, AccountsInvariance, PTL

(***************************************************************************)
(* What is in a sequence                                                   *)
(***************************************************************************)
LEMMA RangeAppend == ASSUME NEW S, NEW s \in Seq(S), NEW e \in S
                     PROVE  Append(s, e) \in Seq(S) /\ Range(Append(s, e)) = Range(s) \cup {e}
<1>1. /\ Append(s, e) \in Seq(S) /\ Len(Append(s, e)) = Len(s) + 1 /\ Len(s) \in Nat
      /\ DOMAIN s = 1..Len(s) /\ DOMAIN Append(s, e) = 1..(Len(s) + 1)
      /\ \A j \in 1..Len(s) : Append(s, e)[j] = s[j]
      /\ Append(s, e)[Len(s) + 1] = e
  OBVIOUS
<1>2. Range(s) \cup {e} \subseteq Range(Append(s, e))
  BY <1>1 DEF Range
<1>3. ASSUME NEW j \in 1..(Len(s) + 1) PROVE Append(s, e)[j] \in Range(s) \cup {e}
  <2>1. CASE j = Len(s) + 1
    BY <1>1, <2>1
  <2>2. CASE j # Len(s) + 1
    <3>1. j \in 1..Len(s)
      BY <1>1, <2>2
    <3> QED BY <1>1, <3>1 DEF Range
  <2> QED BY <2>1, <2>2
<1> QED BY <1>1, <1>2, <1>3 DEF Range

LEMMA RangeTail == ASSUME NEW S, NEW s \in Seq(S), s # <<>>
                   PROVE  /\ Tail(s) \in Seq(S) /\ Head(s) \in S /\ Head(s) = s[1] /\ 1 \in DOMAIN s
                          /\ Range(s) = Range(Tail(s)) \cup {Head(s)}
                          /\ \A j \in DOMAIN Tail(s) : j + 1 \in DOMAIN s /\ Tail(s)[j] = s[j + 1]
<1>1. /\ Tail(s) \in Seq(S) /\ Len(s) \in Nat \ {0} /\ Len(Tail(s)) = Len(s) - 1 /\ Head(s) = s[1] /\ Head(s) \in S
      /\ DOMAIN s = 1..Len(s) /\ DOMAIN Tail(s) = 1..(Len(s) - 1)
      /\ \A j \in 1..(Len(s) - 1) : Tail(s)[j] = s[j + 1]
  BY HeadTailProperties
<1>2. Range(Tail(s)) \cup {Head(s)} \subseteq Range(s)
  BY <1>1 DEF Range
<1>3. ASSUME NEW j \in 1..Len(s) PROVE s[j] \in Range(Tail(s)) \cup {Head(s)}
  <2>1. CASE j = 1
    BY <1>1, <2>1
  <2>2. CASE j # 1
    <3>1. j - 1 \in 1..(Len(s) - 1) /\ (j - 1) + 1 = j
      BY <1>1, <2>2
    <3>2. Tail(s)[j - 1] = s[j]
      BY <1>1, <3>1
    <3> QED BY <1>1, <3>1, <3>2 DEF Range
  <2> QED BY <2>1, <2>2
<1> QED BY <1>1, <1>2, <1>3 DEF Range

LEMMA RangeRemoveAt == ASSUME NEW S, NEW s \in Seq(S), NEW i \in DOMAIN s
                       PROVE  /\ RemoveAt(s, i) \in Seq(S) /\ s[i] \in S /\ s[i] \in Range(s)
                              /\ Range(RemoveAt(s, i)) \subseteq Range(s)
                              /\ Range(s) \subseteq Range(RemoveAt(s, i)) \cup {s[i]}
<1>1. /\ DOMAIN s = 1..Len(s) /\ Len(s) \in Nat /\ i \in 1..Len(s)
  OBVIOUS
<1>2. /\ RemoveAt(s, i) \in Seq(S) /\ Len(RemoveAt(s, i)) = Len(s) - 1
      /\ \A j \in 1..(Len(s) - 1) : RemoveAt(s, i)[j] = IF j < i THEN s[j] ELSE s[j + 1]
  BY <1>1, RemoveAtPlaces
<1>3. PICK t \in Seq(S) : t = RemoveAt(s, i)
  BY <1>2
<1>4. /\ DOMAIN t = 1..(Len(s) - 1)
      /\ \A j \in 1..(Len(s) - 1) : t[j] = IF j < i THEN s[j] ELSE s[j + 1]
  BY <1>2, <1>3
<1>5. Range(t) \subseteq Range(s)
  <2> SUFFICES ASSUME NEW j \in 1..(Len(s) - 1) PROVE t[j] \in Range(s)
    BY <1>4 DEF Range
  <2>1. j \in 1..Len(s) /\ j + 1 \in 1..Len(s)
    BY <1>1
  <2> QED BY <1>1, <1>4, <2>1 DEF Range
<1>6. ASSUME NEW j \in 1..Len(s) PROVE s[j] \in Range(t) \cup {s[i]}
  <2>1. CASE j = i
    BY <2>1
  <2>2. CASE j < i
    <3>1. j \in 1..(Len(s) - 1) /\ t[j] = s[j]
      BY <1>1, <1>4, <2>2
    <3> QED BY <1>4, <3>1 DEF Range
  <2>3. CASE j > i
    <3>1. j - 1 \in 1..(Len(s) - 1) /\ ~(j - 1 < i) /\ (j - 1) + 1 = j
      BY <1>1, <2>3
    <3>2. t[j - 1] = s[j]
      BY <1>4, <3>1
    <3> QED BY <1>4, <3>1, <3>2 DEF Range
  <2> QED BY <1>1, <2>1, <2>2, <2>3
<1>7. Range(s) \subseteq Range(t) \cup {s[i]} /\ s[i] \in Range(s) /\ s[i] \in S
  BY <1>1, <1>6 DEF Range
<1> QED BY <1>2, <1>3, <1>5, <1>7

LEMMA RangeConcat == ASSUME NEW S, NEW s \in Seq(S), NEW t \in Seq(S)
                     PROVE  s \o t \in Seq(S) /\ Range(s \o t) = Range(s) \cup Range(t)
<1>1. /\ s \o t \in Seq(S) /\ DOMAIN (s \o t) = 1..(Len(s) + Len(t)) /\ DOMAIN s = 1..Len(s) /\ DOMAIN t = 1..Len(t)
      /\ Len(s) \in Nat /\ Len(t) \in Nat
      /\ \A j \in 1..(Len(s) + Len(t)) : (s \o t)[j] = IF j <= Len(s) THEN s[j] ELSE t[j - Len(s)]
  BY ConcatProperties
<1>2. PICK c : c = s \o t
  OBVIOUS
<1>3. ASSUME NEW j \in 1..(Len(s) + Len(t)) PROVE c[j] \in Range(s) \cup Range(t)
  <2>1. CASE j <= Len(s)
    BY <1>1, <1>2, <2>1 DEF Range
  <2>2. CASE ~(j <= Len(s))
    <3>1. j - Len(s) \in 1..Len(t)
      BY <1>1, <2>2
    <3> QED BY <1>1, <1>2, <2>2, <3>1 DEF Range
  <2> QED BY <2>1, <2>2
<1>4. ASSUME NEW j \in 1..Len(s) PROVE s[j] \in Range(c)
  <2>1. j \in 1..(Len(s) + Len(t)) /\ c[j] = s[j]
    BY <1>1, <1>2
  <2> QED BY <1>1, <1>2, <2>1 DEF Range
<1>5. ASSUME NEW j \in 1..Len(t) PROVE t[j] \in Range(c)
  <2>1. j + Len(s) \in 1..(Len(s) + Len(t)) /\ ~(j + Len(s) <= Len(s)) /\ (j + Len(s)) - Len(s) = j
    BY <1>1
  <2>2. c[j + Len(s)] = t[j]
    BY <1>1, <1>2, <2>1
  <2> QED BY <1>1, <1>2, <2>1, <2>2 DEF Range
<1>6. Range(c) \subseteq Range(s) \cup Range(t)
  BY <1>1, <1>2, <1>3 DEF Range
<1>7. Range(s) \cup Range(t) \subseteq Range(c)
  BY <1>1, <1>4, <1>5 DEF Range
<1> QED BY <1>1, <1>2, <1>6, <1>7

(***************************************************************************)
(* Who is online                                                           *)
(***************************************************************************)
NewsType == [type : {"presence"}, who : Others, online : BOOLEAN, at : Nat]
Pushes == NewsType \cup {[type |-> "p2p-incoming"]}
AskType == [answered : BOOLEAN, online : SUBSET Others, at : [Others -> Nat]]
Moved == [Others -> Nat]

PresenceOK ==
    /\ at \in [Users -> BOOLEAN]
    /\ handlers \in Seq(NewsType) /\ queue \in Seq(Pushes) /\ asks \in Seq(AskType)
    /\ shown \in [Others -> {"unknown", "online", "offline"}]
    /\ since \in Moved /\ heard \in Moved /\ lost \in Moved
    /\ belated \in SUBSET Others

\* News says how things were after a move, an answer how they were when it was made.
True(x) == x.at <= since[x.who] /\ (x.at = since[x.who] => (x.online <=> at[x.who]))
TrueNews == \A x \in Range(handlers) \cup Range(queue) : x.type = "presence" => True(x)
TrueAnswers == \A a \in Range(asks) : a.answered => \A u \in Others :
    a.at[u] <= since[u] /\ (a.at[u] = since[u] => (u \in a.online <=> at[u]))

\* What is shown is what was heard last, unless that was older than what was heard before.
ShownTrue == \A u \in Others :
    /\ heard[u] <= since[u] /\ lost[u] <= since[u]
    /\ heard[u] = since[u] /\ u \notin belated => (shown[u] = "online" <=> at[u])

\* The news of the latest move is on its way, or was lost or heard.
NewsTravels == \A u \in Others :
    \/ heard[u] = since[u] \/ lost[u] = since[u]
    \/ \E x \in Range(handlers) \cup Range(queue) : x.type = "presence" /\ x.who = u /\ x.at = since[u]

PresenceInv == PresenceOK /\ TrueNews /\ TrueAnswers /\ ShownTrue /\ NewsTravels

LEMMA RangeIn == ASSUME NEW S, NEW s \in Seq(S) PROVE Range(s) \subseteq S
BY DEF Range

LEMMA NewsIsNews == ASSUME PresenceOK, NEW x \in Range(handlers) \cup Range(queue), x.type = "presence"
                    PROVE  x \in NewsType /\ x.who \in Others /\ x.online \in BOOLEAN /\ x.at \in Nat
<1>1. x \in NewsType \cup Pushes
  BY RangeIn DEF PresenceOK
<1>2. x \in NewsType
  BY <1>1 DEF Pushes
<1> QED BY <1>2 DEF NewsType

LEMMA EmptyRange == Range(<<>>) = {} /\ \A S : <<>> \in Seq(S)
BY DEF Range

LEMMA PresenceInitially ==
    ASSUME InboxInit, handlers = <<>>, queue = <<>>, asks = <<>>, shown = [u \in Others |-> "unknown"],
           since = [u \in Others |-> 0], heard = since, lost = since, belated = {}
    PROVE  PresenceInv
<1>1. at \in [Users -> BOOLEAN] /\ \A u \in Users : at[u] = FALSE
  BY DEF InboxInit
<1>2. PresenceOK
  BY <1>1, EmptyRange DEF PresenceOK, Moved
<1>3. TrueNews /\ TrueAnswers
  BY EmptyRange DEF TrueNews, TrueAnswers
<1>4. ShownTrue /\ NewsTravels
  BY <1>1 DEF ShownTrue, NewsTravels, Others
<1> QED BY <1>2, <1>3, <1>4 DEF PresenceInv

\* What leaves the others where they are, and what was told of them on its way.
LEMMA PresenceKeeps ==
    ASSUME PresenceInv, at' \in [Users -> BOOLEAN], \A u \in Others : at'[u] = at[u],
           UNCHANGED <<handlers, shown, heard, belated, since, lost>>,
           queue' \in Seq(Pushes), asks' \in Seq(AskType),
           \A x \in Range(queue)' : x \in Range(queue) \/ x.type # "presence",
           \A x \in Range(queue) : x \in Range(queue)' \/ x.type # "presence",
           \A a \in Range(asks)' : a \in Range(asks) \/ ~a.answered
                   \/ \A u \in Others : a.at[u] = since[u] /\ (u \in a.online <=> at[u])
    PROVE  PresenceInv'
<1>1. PresenceOK'
  BY DEF PresenceInv, PresenceOK
<1>2. \A x \in Range(handlers) \cup Range(queue) : x.type = "presence" => x.who \in Others
  BY NewsIsNews DEF PresenceInv
<1>3. TrueNews'
  <2> SUFFICES ASSUME NEW x \in (Range(handlers) \cup Range(queue))', x.type = "presence" PROVE True(x)'
    BY DEF TrueNews
  <2>1. x \in Range(handlers) \cup Range(queue)
    BY DEF Range
  <2>2. x.who \in Others /\ True(x)
    BY <1>2, <2>1 DEF PresenceInv, TrueNews
  <2> QED BY <2>2 DEF True
<1>4. TrueAnswers'
  <2> SUFFICES ASSUME NEW a \in Range(asks)', a.answered, NEW u \in Others
               PROVE a.at[u] <= since[u] /\ (a.at[u] = since[u] => (u \in a.online <=> at'[u]))
    BY DEF TrueAnswers
  <2>1. since[u] \in Nat
    BY DEF PresenceInv, PresenceOK, Moved
  <2>2. CASE a \in Range(asks)
    BY <2>2 DEF PresenceInv, TrueAnswers
  <2>3. CASE a \notin Range(asks)
    BY <2>1, <2>3
  <2> QED BY <2>2, <2>3
<1>5. ShownTrue'
  BY DEF PresenceInv, ShownTrue
<1>6. NewsTravels'
  <2> SUFFICES ASSUME NEW u \in Others, heard[u] # since[u], lost[u] # since[u]
               PROVE  \E x \in (Range(handlers) \cup Range(queue))' : x.type = "presence" /\ x.who = u /\ x.at = since[u]
    BY DEF NewsTravels
  <2>1. PICK x \in Range(handlers) \cup Range(queue) : x.type = "presence" /\ x.who = u /\ x.at = since[u]
    BY DEF PresenceInv, NewsTravels
  <2>2. x \in (Range(handlers) \cup Range(queue))'
    BY <2>1 DEF Range
  <2> QED BY <2>1, <2>2
<1> QED BY <1>1, <1>3, <1>4, <1>5, <1>6 DEF PresenceInv

\* What is lost is the latest of the news that is lost.
LEMMA LosesTheLatest ==
    ASSUME PresenceInv, NEW events, events \in Seq(Pushes), Range(events) \subseteq Range(handlers) \cup Range(queue),
           Loses(events)
    PROVE  /\ lost' \in Moved
           /\ \A u \in Others : lost[u] <= lost'[u] /\ lost'[u] <= since[u]
           /\ \A x \in Range(events) : x.type = "presence" => x.at <= lost'[x.who]
<1> DEFINE Of(u) == {j \in DOMAIN events : events[j].type = "presence" /\ events[j].who = u}
           Ats(u) == {lost[u]} \cup {events[j].at : j \in Of(u)}
<1>0. PresenceOK
  BY DEF PresenceInv
<1>1. lost' = [u \in Others |-> Max(Ats(u))]
  BY DEF Loses
<1>2. ASSUME NEW u \in Others
      PROVE  /\ Ats(u) \subseteq Nat /\ Ats(u) # {} /\ since[u] \in Nat
             /\ \A n \in Ats(u) : n <= since[u]
  <2>1. since[u] \in Nat /\ lost[u] \in Nat /\ lost[u] <= since[u]
    BY <1>0 DEF PresenceInv, PresenceOK, Moved, ShownTrue
  <2>2. ASSUME NEW j \in Of(u) PROVE events[j].at \in Nat /\ events[j].at <= since[u]
    <3>1. PICK x : x = events[j]
      OBVIOUS
    <3>2. x \in Range(events) /\ x.type = "presence" /\ x.who = u
      BY <3>1 DEF Range
    <3>3. x.at \in Nat /\ True(x)
      BY <1>0, <3>2, NewsIsNews DEF PresenceInv, TrueNews
    <3> QED BY <3>1, <3>2, <3>3 DEF True
  <2> QED BY <2>1, <2>2
<1>3. ASSUME NEW u \in Others
      PROVE  lost'[u] \in Ats(u) /\ \A n \in Ats(u) : n <= lost'[u]
  <2>1. PICK S : S = Ats(u)
    OBVIOUS
  <2>2. Max(S) \in S /\ \A n \in S : n <= Max(S)
    BY <1>2, <2>1, Greatest
  <2> QED BY <1>1, <2>1, <2>2
<1>4. ASSUME NEW x \in Range(events), x.type = "presence" PROVE x.at <= lost'[x.who]
  <2>1. PICK j \in DOMAIN events : x = events[j]
    BY DEF Range
  <2>2. x.who \in Others /\ x.at \in Ats(x.who)
    BY <1>0, <1>4, <2>1, NewsIsNews
  <2> QED BY <1>3, <2>2
<1>5. \A u \in Others : lost'[u] \in Nat /\ lost[u] <= lost'[u] /\ lost'[u] <= since[u]
  BY <1>2, <1>3
<1>6. lost' \in Moved
  BY <1>1, <1>5 DEF Moved
<1> QED BY <1>4, <1>5, <1>6

\* News that reaches the page, or is lost on the way.
LEMMA NewsGoes ==
    ASSUME PresenceInv, at' \in [Users -> BOOLEAN], \A u \in Others : at'[u] = at[u],
           UNCHANGED <<shown, heard, belated, since>>, NEW gone, gone \in Seq(Pushes),
           handlers' \in Seq(NewsType), queue' \in Seq(Pushes), asks' \in Seq(AskType),
           Range(gone) \subseteq Range(handlers) \cup Range(queue),
           (Range(handlers) \cup Range(queue))' \subseteq Range(handlers) \cup Range(queue),
           \/ Loses(gone) /\ Range(handlers) \cup Range(queue) \subseteq (Range(handlers) \cup Range(queue))' \cup Range(gone)
           \/ UNCHANGED lost /\ Range(handlers) \cup Range(queue) \subseteq (Range(handlers) \cup Range(queue))',
           \A a \in Range(asks)' : a \in Range(asks) \/ ~a.answered
    PROVE  PresenceInv'
<1>1. /\ lost' \in Moved
      /\ \A u \in Others : lost[u] <= lost'[u] /\ lost'[u] <= since[u]
      /\ \A x \in Range(handlers) \cup Range(queue) : x.type = "presence" =>
           x \in (Range(handlers) \cup Range(queue))' \/ x.at <= lost'[x.who]
  <2>1. CASE Loses(gone) /\ Range(handlers) \cup Range(queue) \subseteq (Range(handlers) \cup Range(queue))' \cup Range(gone)
    BY <2>1, LosesTheLatest
  <2>2. CASE UNCHANGED lost /\ Range(handlers) \cup Range(queue) \subseteq (Range(handlers) \cup Range(queue))'
    <3>1. lost \in Moved /\ \A u \in Others : lost[u] \in Nat /\ lost[u] <= since[u]
      BY DEF PresenceInv, PresenceOK, ShownTrue, Moved
    <3> QED BY <2>2, <3>1
  <2> QED BY <2>1, <2>2
<1>2. PresenceOK'
  BY <1>1 DEF PresenceInv, PresenceOK
<1>3. TrueNews'
  <2> SUFFICES ASSUME NEW x \in (Range(handlers) \cup Range(queue))', x.type = "presence" PROVE True(x)'
    BY DEF TrueNews
  <2>1. x \in Range(handlers) \cup Range(queue)
    OBVIOUS
  <2>2. x.who \in Others /\ True(x)
    BY <2>1, NewsIsNews DEF PresenceInv, TrueNews
  <2> QED BY <2>2 DEF True
<1>4. TrueAnswers'
  <2> SUFFICES ASSUME NEW a \in Range(asks)', a.answered, NEW u \in Others
               PROVE a.at[u] <= since[u] /\ (a.at[u] = since[u] => (u \in a.online <=> at'[u]))
    BY DEF TrueAnswers
  <2> QED BY DEF PresenceInv, TrueAnswers
<1>5. ShownTrue'
  BY <1>1 DEF PresenceInv, ShownTrue
<1>6. NewsTravels'
  <2> SUFFICES ASSUME NEW u \in Others, heard[u] # since[u], lost'[u] # since[u]
               PROVE  \E x \in (Range(handlers) \cup Range(queue))' : x.type = "presence" /\ x.who = u /\ x.at = since[u]
    BY DEF NewsTravels
  <2>0. lost[u] \in Nat /\ lost'[u] \in Nat /\ since[u] \in Nat
    BY <1>2 DEF PresenceInv, PresenceOK, Moved
  <2>1. lost[u] # since[u]
    BY <1>1, <2>0
  <2>2. PICK x \in Range(handlers) \cup Range(queue) : x.type = "presence" /\ x.who = u /\ x.at = since[u]
    BY <2>1 DEF PresenceInv, NewsTravels
  <2>3. ~(x.at <= lost'[u])
    BY <1>1, <2>0, <2>2
  <2> QED BY <1>1, <2>2, <2>3
<1> QED BY <1>2, <1>3, <1>4, <1>5, <1>6 DEF PresenceInv

LEMMA NotifyPresence ==
    ASSUME PresenceInv, NEW i \in DOMAIN handlers, Notify(i) PROVE PresenceInv'
<1>0. PresenceOK
  BY DEF PresenceInv
<1>1. /\ handlers \in Seq(NewsType) /\ queue \in Seq(Pushes) /\ asks \in Seq(AskType) /\ NewsType \subseteq Pushes
      /\ at \in [Users -> BOOLEAN]
  BY <1>0 DEF PresenceOK, Pushes
<1>2. PICK x, hs : x = handlers[i] /\ hs = RemoveAt(handlers, i)
  OBVIOUS
<1>3. /\ hs \in Seq(NewsType) /\ x \in NewsType /\ x \in Range(handlers)
      /\ Range(hs) \subseteq Range(handlers) /\ Range(handlers) \subseteq Range(hs) \cup {x}
  BY <1>1, <1>2, RangeRemoveAt
<1>4. handlers' = hs /\ UNCHANGED <<at, asks, shown, heard, belated, since>>
  BY <1>2 DEF Notify, inboxVars, toldVars
<1>5. /\ <<x>> \in Seq(Pushes) /\ Range(<<x>>) = {x}
  BY <1>1, <1>3 DEF Range
<1>6. CASE Reaches
  <2>1. queue' = Append(queue, x) /\ UNCHANGED lost
    BY <1>2, <1>6 DEF Notify
  <2>2. queue' \in Seq(Pushes) /\ Range(queue') = Range(queue) \cup {x}
    BY <1>1, <1>3, <2>1, RangeAppend
  <2>3. Range(handlers') \cup Range(queue') = Range(handlers) \cup Range(queue)
    BY <1>3, <1>4, <2>2
  <2> QED BY <1>1, <1>3, <1>4, <1>5, <2>1, <2>2, <2>3, NewsGoes
<1>7. CASE ~Reaches
  <2>1. Loses(<<x>>) /\ UNCHANGED queue
    BY <1>2, <1>7 DEF Notify
  <2>2. /\ Range(handlers') \cup Range(queue') \subseteq Range(handlers) \cup Range(queue)
        /\ Range(handlers) \cup Range(queue) \subseteq Range(handlers') \cup Range(queue') \cup Range(<<x>>)
        /\ Range(<<x>>) \subseteq Range(handlers) \cup Range(queue)
    BY <1>3, <1>4, <1>5, <2>1
  <2> QED BY <1>1, <1>3, <1>4, <1>5, <2>1, <2>2, NewsGoes
<1> QED BY <1>6, <1>7

LEMMA MovePresence ==
    ASSUME PresenceInv, NEW u \in Others, Move(u) PROVE PresenceInv'
<1>0. PresenceOK
  BY DEF PresenceInv
<1>1. PICK x : x = [type |-> "presence", who |-> u, online |-> ~at[u], at |-> since[u] + 1]
  OBVIOUS
<1>2. since[u] \in Nat /\ u \in Users /\ at \in [Users -> BOOLEAN] /\ since \in Moved
  BY <1>0 DEF PresenceOK, Moved, Others
<1>3. x \in NewsType /\ x.type = "presence" /\ x.who = u /\ x.at = since[u] + 1 /\ (x.online <=> ~at[u])
  <2>1. PICK b, n : b = (~at[u]) /\ n = since[u] + 1
    OBVIOUS
  <2>2. b \in BOOLEAN /\ n \in Nat
    BY <1>2, <2>1
  <2>3. x = [type |-> "presence", who |-> u, online |-> b, at |-> n]
    BY <1>1, <2>1
  <2>4. x \in NewsType /\ x.type = "presence" /\ x.who = u /\ x.at = n /\ x.online = b
    BY <2>2, <2>3 DEF NewsType
  <2> QED BY <2>1, <2>4
<1>4. /\ at' \in [Users -> BOOLEAN] /\ at'[u] = ~at[u] /\ \A v \in Users \ {u} : at'[v] = at[v]
  <2>1. CASE OtherJoins(u)
    BY <1>2, <2>1 DEF OtherJoins, Enters
  <2>2. CASE OtherLeaves(u)
    BY <1>2, <2>2 DEF OtherLeaves, Leaves
  <2> QED BY <2>1, <2>2 DEF Move
<1>5. since' \in Moved /\ since'[u] = since[u] + 1 /\ \A v \in Others \ {u} : since'[v] = since[v]
  BY <1>2 DEF Move, Emits, Moved
<1>6. UNCHANGED <<queue, asks, shown, heard, belated, lost>>
  BY DEF Move, toldVars
<1>7. handlers' \in Seq(NewsType) /\ Range(handlers') = Range(handlers) \cup {x}
  <2>1. PICK t : (t = <<x, x>> \/ t = <<x>>) /\ handlers' = handlers \o t
    BY <1>1 DEF Move, Emits
  <2>2. t \in Seq(NewsType) /\ Range(t) = {x}
    BY <1>3, <2>1 DEF Range
  <2>3. handlers \in Seq(NewsType)
    BY <1>0 DEF PresenceOK
  <2>4. handlers \o t \in Seq(NewsType) /\ Range(handlers \o t) = Range(handlers) \cup Range(t)
    BY <2>2, <2>3, RangeConcat
  <2> QED BY <2>1, <2>2, <2>4
<1>8. PresenceOK'
  BY <1>0, <1>4, <1>5, <1>6, <1>7 DEF PresenceOK
<1>9. \A v \in Others : since[v] \in Nat /\ since[v] <= since'[v] /\ v \in Users
  <2> SUFFICES ASSUME NEW v \in Others PROVE since[v] \in Nat /\ since[v] <= since'[v] /\ v \in Users
    OBVIOUS
  <2>1. since[v] \in Nat /\ v \in Users
    BY <1>2 DEF Moved, Others
  <2>2. CASE v = u
    BY <1>5, <2>1, <2>2
  <2>3. CASE v # u
    BY <1>5, <2>1, <2>3
  <2> QED BY <2>1, <2>2, <2>3
<1>10. TrueNews'
  <2> SUFFICES ASSUME NEW y \in Range(handlers') \cup Range(queue'), y.type = "presence"
               PROVE  y.at <= since'[y.who] /\ (y.at = since'[y.who] => (y.online <=> at'[y.who]))
    BY DEF TrueNews, True
  <2>1. CASE y = x
    BY <1>2, <1>3, <1>4, <1>5, <2>1
  <2>2. CASE y \in Range(handlers) \cup Range(queue)
    <3>1. y.who \in Others /\ y.at \in Nat /\ True(y)
      BY <1>0, <2>2, NewsIsNews DEF PresenceInv, TrueNews
    <3>2. CASE y.who = u
      BY <1>2, <1>5, <3>1, <3>2 DEF True
    <3>3. CASE y.who # u
      BY <1>4, <1>5, <1>9, <3>1, <3>3 DEF True
    <3> QED BY <3>2, <3>3
  <2> QED BY <1>6, <1>7, <2>1, <2>2
<1>11. TrueAnswers'
  <2> SUFFICES ASSUME NEW a \in Range(asks), a.answered, NEW v \in Others
               PROVE  a.at[v] <= since'[v] /\ (a.at[v] = since'[v] => (v \in a.online <=> at'[v]))
    BY <1>6 DEF TrueAnswers
  <2>1. a \in AskType
    BY <1>0, RangeIn DEF PresenceOK
  <2>2. a.at[v] \in Nat /\ a.at[v] <= since[v] /\ (a.at[v] = since[v] => (v \in a.online <=> at[v]))
    BY <2>1 DEF PresenceInv, TrueAnswers, AskType
  <2>3. CASE v = u
    BY <1>2, <1>5, <2>2, <2>3
  <2>4. CASE v # u
    BY <1>4, <1>5, <1>9, <2>2, <2>4
  <2> QED BY <2>3, <2>4
<1>12. ShownTrue'
  <2> SUFFICES ASSUME NEW v \in Others
               PROVE  /\ heard[v] <= since'[v] /\ lost[v] <= since'[v]
                      /\ heard[v] = since'[v] /\ v \notin belated => (shown[v] = "online" <=> at'[v])
    BY <1>6 DEF ShownTrue
  <2>1. /\ heard[v] \in Nat /\ lost[v] \in Nat /\ heard[v] <= since[v] /\ lost[v] <= since[v]
        /\ heard[v] = since[v] /\ v \notin belated => (shown[v] = "online" <=> at[v])
    BY <1>0 DEF PresenceInv, PresenceOK, Moved, ShownTrue
  <2>2. CASE v = u
    BY <1>2, <1>5, <2>1, <2>2
  <2>3. CASE v # u
    BY <1>4, <1>5, <1>9, <2>1, <2>3
  <2> QED BY <2>2, <2>3
<1>13. NewsTravels'
  <2> SUFFICES ASSUME NEW v \in Others, heard[v] # since'[v], lost[v] # since'[v]
               PROVE  \E y \in Range(handlers') \cup Range(queue') : y.type = "presence" /\ y.who = v /\ y.at = since'[v]
    BY <1>6 DEF NewsTravels
  <2>1. CASE v = u
    BY <1>3, <1>5, <1>7, <2>1
  <2>2. CASE v # u
    <3>1. PICK y \in Range(handlers) \cup Range(queue) : y.type = "presence" /\ y.who = v /\ y.at = since[v]
      BY <1>5, <2>2 DEF PresenceInv, NewsTravels
    <3> QED BY <1>5, <1>6, <1>7, <2>2, <3>1
  <2> QED BY <2>1, <2>2
<1> QED BY <1>8, <1>10, <1>11, <1>12, <1>13 DEF PresenceInv

\* Whatever is told last is shown.
LEMMA ReceivesPresence ==
    ASSUME PresenceInv, ReceivePresence PROVE PresenceInv'
<1>0. PresenceOK
  BY DEF PresenceInv
<1>1. PICK x : x = Head(queue)
  OBVIOUS
<1>2. /\ queue' \in Seq(Pushes) /\ x \in Range(queue) /\ Range(queue) = Range(queue') \cup {x}
  BY <1>0, <1>1, RangeTail DEF PresenceOK, ReceivePresence
<1>3. x \in NewsType /\ x.who \in Others /\ x.online \in BOOLEAN /\ x.at \in Nat /\ True(x) /\ x.type = "presence"
  BY <1>0, <1>1, <1>2, NewsIsNews DEF PresenceInv, TrueNews, ReceivePresence
<1>4. /\ UNCHANGED <<at, handlers, asks, since, lost>>
      /\ shown' = [shown EXCEPT ![x.who] = Told(x.online)]
      /\ heard' = [heard EXCEPT ![x.who] = Latest(heard[x.who], x.at)]
      /\ belated' = IF x.at < heard[x.who] THEN belated \cup {x.who} ELSE belated \ {x.who}
  BY <1>1 DEF ReceivePresence, Hear, inboxVars
<1>5. heard[x.who] \in Nat /\ heard \in Moved /\ shown \in [Others -> {"unknown", "online", "offline"}]
  BY <1>0, <1>3 DEF PresenceOK, Moved
<1>6. /\ heard' \in Moved /\ heard'[x.who] = Latest(heard[x.who], x.at)
      /\ \A v \in Others \ {x.who} : heard'[v] = heard[v] /\ shown'[v] = shown[v] /\ (v \in belated' <=> v \in belated)
  BY <1>3, <1>4, <1>5 DEF Moved, Latest
<1>7. shown'[x.who] = Told(x.online) /\ shown' \in [Others -> {"unknown", "online", "offline"}]
  BY <1>3, <1>4, <1>5 DEF Told
<1>8. PresenceOK'
  BY <1>0, <1>2, <1>3, <1>4, <1>6, <1>7 DEF PresenceOK
<1>9. TrueNews'
  <2> SUFFICES ASSUME NEW y \in Range(handlers') \cup Range(queue'), y.type = "presence" PROVE True(y)'
    BY DEF TrueNews
  <2>1. y \in Range(handlers) \cup Range(queue)
    BY <1>2, <1>4
  <2>2. y.who \in Others /\ True(y)
    BY <1>0, <2>1, NewsIsNews DEF PresenceInv, TrueNews
  <2> QED BY <1>4, <2>2 DEF True
<1>10. TrueAnswers'
  <2> SUFFICES ASSUME NEW a \in Range(asks), a.answered, NEW v \in Others
               PROVE  a.at[v] <= since[v] /\ (a.at[v] = since[v] => (v \in a.online <=> at[v]))
    BY <1>4 DEF TrueAnswers
  <2> QED BY DEF PresenceInv, TrueAnswers
<1>11. ASSUME NEW v \in Others
       PROVE  /\ heard'[v] <= since[v] /\ lost[v] <= since[v]
              /\ heard'[v] = since[v] /\ v \notin belated' => (shown'[v] = "online" <=> at[v])
  <2>1. /\ heard[v] \in Nat /\ since[v] \in Nat /\ heard[v] <= since[v] /\ lost[v] <= since[v]
        /\ heard[v] = since[v] /\ v \notin belated => (shown[v] = "online" <=> at[v])
    BY <1>0 DEF PresenceInv, PresenceOK, Moved, ShownTrue
  <2>2. CASE v # x.who
    BY <1>6, <2>1, <2>2
  <2>3. CASE v = x.who
    <3>1. x.at <= since[v] /\ (x.at = since[v] => (x.online <=> at[v])) /\ heard'[v] = Latest(heard[v], x.at)
      BY <1>3, <1>6, <2>3 DEF True
    <3>2. heard'[v] <= since[v]
      BY <1>3, <2>1, <3>1 DEF Latest
    <3>3. ASSUME heard'[v] = since[v], v \notin belated' PROVE shown'[v] = "online" <=> at[v]
      <4>1. ~(x.at < heard[v])
        BY <1>4, <2>3, <3>3
      <4>2. x.at = since[v]
        BY <1>3, <2>1, <3>1, <3>3, <4>1 DEF Latest
      <4> QED BY <1>3, <1>7, <2>3, <3>1, <4>2 DEF Told
    <3> QED BY <2>1, <3>2, <3>3
  <2> QED BY <2>2, <2>3
<1>12. ShownTrue'
  BY <1>4, <1>11 DEF ShownTrue
<1>13. NewsTravels'
  <2> SUFFICES ASSUME NEW v \in Others, heard'[v] # since[v], lost[v] # since[v]
               PROVE  \E y \in Range(handlers') \cup Range(queue') : y.type = "presence" /\ y.who = v /\ y.at = since[v]
    BY <1>4 DEF NewsTravels
  <2>1. /\ heard[v] \in Nat /\ since[v] \in Nat /\ heard[v] <= since[v]
    BY <1>0 DEF PresenceInv, PresenceOK, Moved, ShownTrue
  <2>2. heard[v] # since[v] /\ ~(v = x.who /\ x.at = since[v])
    BY <1>3, <1>6, <2>1 DEF Latest, True
  <2>3. PICK y \in Range(handlers) \cup Range(queue) : y.type = "presence" /\ y.who = v /\ y.at = since[v]
    BY <2>2 DEF PresenceInv, NewsTravels
  <2> QED BY <1>2, <1>4, <2>2, <2>3
<1> QED BY <1>8, <1>9, <1>10, <1>12, <1>13 DEF PresenceInv

\* An answer is shown whole.
LEMMA RefreshedPresence ==
    ASSUME PresenceInv, NEW i \in DOMAIN asks, Refreshed(i) PROVE PresenceInv'
<1>0. PresenceOK
  BY DEF PresenceInv
<1>1. PICK a, as : a = asks[i] /\ as = RemoveAt(asks, i)
  OBVIOUS
<1>2. a \in AskType /\ a \in Range(asks) /\ a.answered /\ as \in Seq(AskType) /\ Range(as) \subseteq Range(asks)
  BY <1>0, <1>1, RangeRemoveAt DEF PresenceOK, Refreshed
<1>3. /\ UNCHANGED <<at, handlers, queue, since, lost>> /\ asks' = as
      /\ shown' = [u \in Others |-> Told(u \in a.online)]
      /\ heard' = [u \in Others |-> Latest(heard[u], a.at[u])]
      /\ belated' = {u \in Others : a.at[u] < heard[u]}
  BY <1>1 DEF Refreshed, inboxVars
<1>4. ASSUME NEW u \in Others
      PROVE  /\ a.at[u] \in Nat /\ heard[u] \in Nat /\ since[u] \in Nat /\ lost[u] <= since[u] /\ heard[u] <= since[u]
             /\ a.at[u] <= since[u] /\ (a.at[u] = since[u] => (u \in a.online <=> at[u]))
             /\ heard'[u] = Latest(heard[u], a.at[u]) /\ shown'[u] = Told(u \in a.online)
  <2>1. a.at[u] \in Nat /\ heard[u] \in Nat /\ since[u] \in Nat
    BY <1>0, <1>2 DEF PresenceOK, Moved, AskType
  <2>2. lost[u] <= since[u] /\ heard[u] <= since[u]
    BY DEF PresenceInv, ShownTrue
  <2>3. a.at[u] <= since[u] /\ (a.at[u] = since[u] => (u \in a.online <=> at[u]))
    BY <1>2 DEF PresenceInv, TrueAnswers
  <2> QED BY <1>3, <2>1, <2>2, <2>3
<1>5. heard' \in Moved
  BY <1>3, <1>4 DEF Moved, Latest
<1>6. PresenceOK'
  BY <1>0, <1>2, <1>3, <1>5 DEF PresenceOK, Told
<1>7. TrueNews'
  <2> SUFFICES ASSUME NEW y \in Range(handlers) \cup Range(queue), y.type = "presence" PROVE True(y)'
    BY <1>3 DEF TrueNews
  <2>1. True(y)
    BY DEF PresenceInv, TrueNews
  <2> QED BY <1>3, <2>1 DEF True
<1>8. TrueAnswers'
  <2> SUFFICES ASSUME NEW b \in Range(as), b.answered, NEW v \in Others
               PROVE  b.at[v] <= since[v] /\ (b.at[v] = since[v] => (v \in b.online <=> at[v]))
    BY <1>3 DEF TrueAnswers
  <2> QED BY <1>2 DEF PresenceInv, TrueAnswers
<1>9. ASSUME NEW u \in Others
      PROVE  /\ heard'[u] <= since[u]
             /\ heard'[u] = since[u] /\ u \notin belated' => (shown'[u] = "online" <=> at[u])
  <2>1. heard'[u] <= since[u]
    BY <1>4 DEF Latest
  <2>2. ASSUME heard'[u] = since[u], u \notin belated' PROVE shown'[u] = "online" <=> at[u]
    <3>1. ~(a.at[u] < heard[u])
      BY <1>3, <2>2
    <3>2. a.at[u] = since[u]
      BY <1>4, <2>2, <3>1 DEF Latest
    <3> QED BY <1>4, <3>2 DEF Told
  <2> QED BY <2>1, <2>2
<1>10. ShownTrue'
  BY <1>3, <1>4, <1>9 DEF ShownTrue
<1>11. NewsTravels'
  <2> SUFFICES ASSUME NEW v \in Others, heard'[v] # since[v], lost[v] # since[v]
               PROVE  \E y \in Range(handlers) \cup Range(queue) : y.type = "presence" /\ y.who = v /\ y.at = since[v]
    BY <1>3 DEF NewsTravels
  <2>1. heard[v] # since[v]
    BY <1>4 DEF Latest
  <2> QED BY <2>1 DEF PresenceInv, NewsTravels
<1> QED BY <1>6, <1>7, <1>8, <1>10, <1>11 DEF PresenceInv

LEMMA NewAskIsOne == NewAsk \in AskType /\ NewAsk.answered = FALSE
BY DEF NewAsk, AskType

\* What refreshPresence leaves in flight.
LEMMA RefreshAsks ==
    ASSUME PresenceOK
    PROVE  /\ refreshPresence \in Seq(AskType)
           /\ \A a \in Range(refreshPresence) : a \in Range(asks) \/ ~a.answered
<1>1. asks \in Seq(AskType)
  BY DEF PresenceOK
<1>2. CASE met
  BY <1>1, <1>2, NewAskIsOne, RangeAppend DEF refreshPresence
<1>3. CASE ~met
  BY <1>1, <1>3 DEF refreshPresence
<1> QED BY <1>2, <1>3

LEMMA OpenPresence == ASSUME PresenceInv, OpenConversation PROVE PresenceInv'
<1>1. PresenceOK /\ at \in [Users -> BOOLEAN] /\ queue \in Seq(Pushes)
  BY DEF PresenceInv, PresenceOK
<1>2. /\ UNCHANGED <<at, handlers, queue, shown, heard, belated, since, lost>>
      /\ asks' = refreshPresence
  BY DEF OpenConversation, inboxVars, toldVars
<1>3. asks' \in Seq(AskType) /\ \A a \in Range(asks') : a \in Range(asks) \/ ~a.answered
  BY <1>1, <1>2, RefreshAsks
<1> QED BY <1>1, <1>2, <1>3, PresenceKeeps

LEMMA AnswerPresenceKeeps ==
    ASSUME PresenceInv, NEW i \in DOMAIN asks, AnswerPresence(i) PROVE PresenceInv'
<1>1. PresenceOK /\ at \in [Users -> BOOLEAN] /\ queue \in Seq(Pushes) /\ asks \in Seq(AskType) /\ since \in Moved
  BY DEF PresenceInv, PresenceOK
<1>2. PICK a : a = [answered |-> TRUE, online |-> {u \in Others : isOnline(u)}, at |-> since]
  OBVIOUS
<1>3. a \in AskType /\ \A u \in Others : a.at[u] = since[u] /\ (u \in a.online <=> at[u])
  BY <1>1, <1>2 DEF AskType, Moved, isOnline
<1>4. /\ UNCHANGED <<at, handlers, queue, shown, heard, belated, since, lost>>
      /\ asks' = [asks EXCEPT ![i] = a]
  BY <1>2 DEF AnswerPresence, inboxVars, toldVars
<1>5. asks' \in Seq(AskType)
  BY <1>1, <1>3, <1>4
<1>6. \A b \in Range(asks') : b \in Range(asks) \/ b = a
  BY <1>1, <1>4 DEF Range
<1> QED BY <1>1, <1>3, <1>4, <1>5, <1>6, PresenceKeeps

LEMMA RefreshFailsPresence ==
    ASSUME PresenceInv, NEW i \in DOMAIN asks, RefreshFails(i) PROVE PresenceInv'
<1>1. PresenceOK /\ at \in [Users -> BOOLEAN] /\ queue \in Seq(Pushes) /\ asks \in Seq(AskType)
  BY DEF PresenceInv, PresenceOK
<1>2. UNCHANGED <<at, handlers, queue, shown, heard, belated, since, lost>>
  BY DEF RefreshFails, toldVars
<1>3. asks' \in Seq(AskType) /\ Range(asks') \subseteq Range(asks)
  BY <1>1, RangeRemoveAt DEF RefreshFails
<1> QED BY <1>1, <1>2, <1>3, PresenceKeeps

\* The page comes and goes, and nobody else does.
LEMMA OnlyMeMoves ==
    ASSUME at \in [Users -> BOOLEAN], PageStep
    PROVE  at' \in [Users -> BOOLEAN] /\ \A u \in Others : at'[u] = at[u]
<1>1. CASE Join
  BY <1>1 DEF Join, Enters, Others
<1>2. CASE Reap
  BY <1>2 DEF Reap, Leaves, Others
<1>3. CASE UNCHANGED at
  BY <1>3
<1> QED BY <1>1, <1>2, <1>3 DEF PageStep, SignIn, JoinFails, StaleJoin, StaleFails, Drop, TokenExpires, SignOut, Refused, RoomCloses

LEMMA ConnectionPresence == ASSUME PresenceInv, Connection PROVE PresenceInv'
<1>1. PresenceOK /\ at \in [Users -> BOOLEAN] /\ queue \in Seq(Pushes) /\ asks \in Seq(AskType)
      /\ handlers \in Seq(NewsType)
  BY DEF PresenceInv, PresenceOK
<1>2. at' \in [Users -> BOOLEAN] /\ \A u \in Others : at'[u] = at[u]
  BY <1>1, OnlyMeMoves DEF Connection
<1>3. UNCHANGED <<handlers, shown, heard, belated, since>>
  BY DEF Connection, toldVars
<1>4. asks' \in Seq(AskType) /\ \A a \in Range(asks') : a \in Range(asks) \/ ~a.answered
  BY <1>1, RefreshAsks DEF Connection, ListLoaded
<1>5. CASE wire'
  <2>1. UNCHANGED <<queue, lost>>
    BY <1>5 DEF Connection
  <2> QED BY <1>1, <1>2, <1>3, <1>4, <2>1, PresenceKeeps
<1>6. CASE ~wire'
  <2>1. queue' = <<>> /\ Loses(queue)
    BY <1>6 DEF Connection
  <2>2. queue' \in Seq(Pushes) /\ Range(queue') = {} /\ handlers' \in Seq(NewsType) /\ Range(handlers') = Range(handlers)
    BY <1>1, <1>3, <2>1, EmptyRange
  <2>3. (Range(handlers) \cup Range(queue))' \subseteq Range(handlers) \cup Range(queue)
    BY <2>2
  <2>4. Range(handlers) \cup Range(queue) \subseteq (Range(handlers) \cup Range(queue))' \cup Range(queue)
    BY <2>2
  <2>5. \A a \in Range(asks)' : a \in Range(asks) \/ ~a.answered
    BY <1>4
  <2> QED BY <1>1, <1>2, <1>3, <1>4, <2>1, <2>2, <2>3, <2>4, <2>5, NewsGoes
<1> QED BY <1>5, <1>6

LEMMA PresenceStays ==
    ASSUME PresenceInv, UNCHANGED <<at, handlers, queue, asks, toldVars, since, lost>> PROVE PresenceInv'
<1>1. at \in [Users -> BOOLEAN] /\ queue \in Seq(Pushes) /\ asks \in Seq(AskType)
  BY DEF PresenceInv, PresenceOK
<1> QED BY <1>1, PresenceKeeps DEF toldVars

\* A ring travels with the news.
LEMMA RingPresence ==
    ASSUME PresenceInv, UNCHANGED <<at, handlers, asks, toldVars, since, lost>>,
           \/ queue' = Append(queue, [type |-> "p2p-incoming"])
           \/ queue # <<>> /\ Head(queue).type = "p2p-incoming" /\ queue' = Tail(queue)
    PROVE  PresenceInv'
<1>1. at \in [Users -> BOOLEAN] /\ queue \in Seq(Pushes) /\ asks \in Seq(AskType)
  BY DEF PresenceInv, PresenceOK
<1>2. PICK ring : ring = [type |-> "p2p-incoming"]
  OBVIOUS
<1>3. ring \in Pushes /\ ring.type = "p2p-incoming"
  BY <1>2 DEF Pushes
<1>4. CASE queue' = Append(queue, [type |-> "p2p-incoming"])
  <2>1. queue' \in Seq(Pushes) /\ Range(queue') = Range(queue) \cup {ring}
    BY <1>1, <1>2, <1>3, <1>4, RangeAppend
  <2> QED BY <1>1, <1>3, <2>1, PresenceKeeps DEF toldVars
<1>5. CASE queue # <<>> /\ Head(queue).type = "p2p-incoming" /\ queue' = Tail(queue)
  <2>1. queue' \in Seq(Pushes) /\ Range(queue) = Range(queue') \cup {Head(queue)} /\ Head(queue).type = "p2p-incoming"
    BY <1>1, <1>5, RangeTail
  <2> QED BY <1>1, <2>1, PresenceKeeps DEF toldVars
<1> QED BY <1>4, <1>5

LEMMA PresenceStep == ASSUME PresenceInv, [TransferNext]_allVars PROVE PresenceInv'
<1>1. CASE UNCHANGED <<inboxVars, presenceVars>>
  BY <1>1, PresenceStays DEF inboxVars, presenceVars
<1>2. CASE (Ring \/ Incoming) /\ UNCHANGED <<inboxVars, handlers, asks, met, toldVars, moves, opens, since, lost>>
  <2>1. CASE UNCHANGED queue
    BY <1>2, <2>1, PresenceStays DEF inboxVars
  <2> QED BY <1>2, <2>1, RingPresence DEF Ring, Incoming, inboxVars
<1>3. CASE Connects
  BY <1>3, ConnectionPresence DEF Connects
<1>4. CASE PresenceChanges
  <2>1. ASSUME NEW u \in Others, Empties(u) PROVE PresenceInv'
    BY <2>1, PresenceStays DEF Empties, RoomCloses, presenceVars
  <2> QED BY <1>4, <2>1, MovePresence, NotifyPresence, ReceivesPresence, OpenPresence, AnswerPresenceKeeps,
             RefreshedPresence, RefreshFailsPresence DEF PresenceChanges
<1> QED BY <1>1, <1>2, <1>3, <1>4 DEF TransferNext, allVars

\* The inductive invariant of presence.
THEOREM PresenceInvariance == TransferSpec => []PresenceInv
<1>1. TransferInit => PresenceInv
  BY PresenceInitially DEF TransferInit
<1>2. PresenceInv /\ [TransferNext]_allVars => PresenceInv'
  BY PresenceStep
<1> QED BY <1>1, <1>2, PTL DEF TransferSpec

\* When no news is on its way, a connected page shows everybody as they are (server.js onPresence,
\* chat-context.tsx), but for news that was lost with nothing asked since, or that came last and was older.
THEOREM EverybodyIsShown == TransferSpec => []PresenceTrue
<1>1. PresenceInv => PresenceTrue
  <2> SUFFICES ASSUME PresenceInv, handlers = <<>>, queue = <<>>, NEW u \in Others, u \notin belated, ~(lost[u] > heard[u])
               PROVE  shown[u] = "online" <=> at[u]
    BY DEF PresenceTrue, isOnline
  <2>1. heard[u] \in Nat /\ lost[u] \in Nat /\ since[u] \in Nat /\ heard[u] <= since[u]
    BY DEF PresenceInv, PresenceOK, Moved, ShownTrue
  <2>2. heard[u] = since[u] \/ lost[u] = since[u]
    BY EmptyRange DEF PresenceInv, NewsTravels
  <2>3. heard[u] = since[u]
    BY <2>1, <2>2
  <2> QED BY <2>3 DEF PresenceInv, ShownTrue
<1> QED BY <1>1, PresenceInvariance, PTL

(***************************************************************************)
(* A file                                                                  *)
(***************************************************************************)
FileOK ==
    /\ queue \in Seq(Pushes) /\ snd \in SenderStates /\ rcv \in ReceiverStates
    /\ message \in {"none", "p2p", "http"}
    /\ sent \in BOOLEAN /\ blob \in BOOLEAN /\ wrong \in BOOLEAN

OneRing == \A i, j \in DOMAIN queue :
    queue[i].type = "p2p-incoming" /\ queue[j].type = "p2p-incoming" => i = j

Before == {"idle", "asking", "granted", "uploading"}
Begun == {"offered", "joining", "waiting", "sending", "complete", "failed"}

\* A transfer that was offered has rung, or is to, and a ring is of a transfer.
Rings ==
    /\ OneRing
    /\ Rung => rcv = "idle"
    /\ snd \in Before => ~Rung /\ rcv = "idle"
    /\ snd \in Before \cup {"offered"} => message = "none"
    /\ ~wrong /\ (snd \in Begun \/ (snd = "over" /\ message = "p2p")) => Rung \/ rcv # "idle"

\* Who comes second meets the first, and the sender does not go before its time.
Meets ==
    /\ snd \in {"sending", "complete", "failed"} => rcv \in {"waiting", "receiving", "complete", "failed", "over"}
    /\ snd = "waiting" => ~InRoom(rcv)
    /\ sent => rcv \in {"receiving", "complete", "failed", "over"}
    /\ snd = "complete" => sent
    /\ snd = "failed" => rcv = "over" \/ wrong
    /\ ~wrong /\ snd = "over" => ~Rung /\ rcv \notin {"joining", "waiting"}

\* How the receiver ended, it has the file or something went wrong.
Ends ==
    /\ ~wrong /\ rcv = "over" => blob
    /\ rcv = "complete" => blob
    /\ rcv = "failed" => wrong

FileInv == FileOK /\ Rings /\ Meets /\ Ends

\* What becomes of a ring when the queue does: news comes and goes past it.
LEMMA NewsPassesRing ==
    ASSUME queue \in Seq(Pushes), OneRing,
           \/ \E x \in NewsType : queue' = Append(queue, x)
           \/ queue # <<>> /\ Head(queue).type = "presence" /\ queue' = Tail(queue)
    PROVE  OneRing' /\ (Rung' <=> Rung) /\ queue' \in Seq(Pushes)
<1>1. ASSUME NEW x \in NewsType, queue' = Append(queue, x)
      PROVE  OneRing' /\ (Rung' <=> Rung) /\ queue' \in Seq(Pushes)
  <2>1. x.type = "presence" /\ x \in Pushes
    BY DEF NewsType, Pushes
  <2>2. PICK q \in Seq(Pushes) : q = Append(queue, x)
    BY <2>1, RangeAppend
  <2>3. /\ Len(queue) \in Nat /\ DOMAIN queue = 1..Len(queue) /\ DOMAIN q = 1..(Len(queue) + 1)
        /\ \A j \in 1..Len(queue) : q[j] = queue[j]
        /\ q[Len(queue) + 1] = x
    BY <2>1, <2>2
  <2>4. ASSUME NEW j \in 1..(Len(queue) + 1), q[j].type = "p2p-incoming" PROVE j \in 1..Len(queue) /\ queue[j].type = "p2p-incoming"
    <3>1. j # Len(queue) + 1
      BY <2>1, <2>3, <2>4
    <3>2. j \in 1..Len(queue)
      BY <2>3, <3>1
    <3> QED BY <2>3, <2>4, <3>2
  <2>5. \A j \in 1..Len(queue) : j \in 1..(Len(queue) + 1)
    BY <2>3
  <2>6. queue' = q
    BY <1>1, <2>2
  <2>7. OneRing'
    BY <2>3, <2>4, <2>6, ZenonT(60) DEF OneRing
  <2>8. Rung' <=> Rung
    BY <2>3, <2>4, <2>5, <2>6 DEF Rung
  <2> QED BY <2>6, <2>7, <2>8
<1>2. CASE queue # <<>> /\ Head(queue).type = "presence" /\ queue' = Tail(queue)
  <2>1. PICK q \in Seq(Pushes) : q = Tail(queue)
    BY <1>2, RangeTail
  <2>2. /\ Len(queue) \in Nat \ {0} /\ DOMAIN queue = 1..Len(queue) /\ DOMAIN q = 1..(Len(queue) - 1)
        /\ \A j \in 1..(Len(queue) - 1) : q[j] = queue[j + 1] /\ j + 1 \in 1..Len(queue)
        /\ queue[1].type = "presence"
    BY <1>2, <2>1, HeadTailProperties
  <2>3. ASSUME NEW j \in 1..Len(queue), queue[j].type = "p2p-incoming" PROVE j - 1 \in 1..(Len(queue) - 1) /\ q[j - 1] = queue[j]
    <3>1. j # 1
      BY <2>2, <2>3
    <3>2. j - 1 \in 1..(Len(queue) - 1) /\ (j - 1) + 1 = j
      BY <2>2, <3>1
    <3> QED BY <2>2, <3>2
  <2>4. queue' = q
    BY <1>2, <2>1
  <2>5. OneRing'
    <3> SUFFICES ASSUME NEW i \in 1..(Len(queue) - 1), NEW j \in 1..(Len(queue) - 1),
                        q[i].type = "p2p-incoming", q[j].type = "p2p-incoming"
                 PROVE  i = j
      BY <2>2, <2>4 DEF OneRing
    <3>1. i + 1 = j + 1
      BY <2>2 DEF OneRing
    <3> QED BY <2>2, <3>1
  <2>6. Rung => Rung'
    BY <2>2, <2>3, <2>4 DEF Rung
  <2>7. Rung' => Rung
    BY <2>2, <2>4 DEF Rung
  <2> QED BY <2>4, <2>5, <2>6, <2>7
<1> QED BY <1>1, <1>2

\* The ring comes last, and is gone when it is heard.
LEMMA RingIsOne ==
    ASSUME queue \in Seq(Pushes), ~Rung, queue' = Append(queue, [type |-> "p2p-incoming"])
    PROVE  OneRing' /\ Rung' /\ queue' \in Seq(Pushes)
<1>1. PICK ring : ring = [type |-> "p2p-incoming"]
  OBVIOUS
<1>2. ring \in Pushes /\ ring.type = "p2p-incoming"
  BY <1>1 DEF Pushes
<1>3. PICK q \in Seq(Pushes) : q = Append(queue, ring)
  BY <1>2, RangeAppend
<1>4. /\ Len(queue) \in Nat /\ DOMAIN queue = 1..Len(queue) /\ DOMAIN q = 1..(Len(queue) + 1)
      /\ \A j \in 1..Len(queue) : q[j] = queue[j]
      /\ q[Len(queue) + 1] = ring
  BY <1>2, <1>3
<1>5. ASSUME NEW j \in 1..(Len(queue) + 1), q[j].type = "p2p-incoming" PROVE j = Len(queue) + 1
  <2>1. ASSUME j \in 1..Len(queue) PROVE FALSE
    BY <1>4, <1>5, <2>1 DEF Rung
  <2> QED BY <1>4, <2>1
<1>6. queue' = q /\ Len(queue) + 1 \in 1..(Len(queue) + 1)
  BY <1>1, <1>3, <1>4
<1>7. OneRing'
  BY <1>4, <1>5, <1>6 DEF OneRing
<1>8. Rung'
  BY <1>2, <1>4, <1>6 DEF Rung
<1> QED BY <1>6, <1>7, <1>8

LEMMA RingIsHeard ==
    ASSUME queue \in Seq(Pushes), OneRing, queue # <<>>, Head(queue).type = "p2p-incoming", queue' = Tail(queue)
    PROVE  OneRing' /\ ~Rung' /\ Rung /\ queue' \in Seq(Pushes)
<1>1. PICK q \in Seq(Pushes) : q = Tail(queue)
  BY RangeTail
<1>2. /\ Len(queue) \in Nat \ {0} /\ DOMAIN queue = 1..Len(queue) /\ DOMAIN q = 1..(Len(queue) - 1)
      /\ \A j \in 1..(Len(queue) - 1) : q[j] = queue[j + 1] /\ j + 1 \in 1..Len(queue) /\ j + 1 # 1
      /\ queue[1].type = "p2p-incoming" /\ 1 \in 1..Len(queue)
  BY <1>1, HeadTailProperties
<1>3. \A j \in 1..(Len(queue) - 1) : q[j].type # "p2p-incoming"
  BY <1>2 DEF OneRing
<1>4. queue' = q
  BY <1>1
<1>5. OneRing' /\ ~Rung'
  BY <1>2, <1>3, <1>4 DEF OneRing, Rung
<1> QED BY <1>2, <1>4, <1>5 DEF Rung

LEMMA EmptyHasNoRing == ASSUME queue' = <<>> PROVE OneRing' /\ ~Rung' /\ queue' \in Seq(Pushes)
BY DEF OneRing, Rung

\* A step of the sender or of the receiver's page, with the ring where it was.
LEMMA StepFile ==
    ASSUME FileInv, Brokers \/ Streams, UNCHANGED queue
    PROVE  FileInv'
<1>1. OneRing' /\ (Rung' <=> Rung) /\ queue' \in Seq(Pushes)
  BY DEF FileInv, FileOK, Rings, OneRing, Rung
<1> USE <1>1 DEF FileInv, FileOK, Rings, Meets, Ends, Before, Begun, InRoom, SenderStates, ReceiverStates
<1>2. CASE Send
  BY <1>2 DEF Send
<1>3. CASE Offer
  BY <1>3 DEF Offer
<1>4. CASE PostMessage
  BY <1>4 DEF PostMessage
<1>5. CASE MessageFails
  BY <1>5 DEF MessageFails
<1>6. CASE SenderJoins
  BY <1>6 DEF SenderJoins
<1>7. CASE NobodyCame
  BY <1>7 DEF NobodyCame
<1>8. CASE AllSent
  BY <1>8 DEF AllSent
<1>9. CASE SendEnds
  BY <1>9 DEF SendEnds
<1>10. CASE SenderLeaves
  BY <1>10 DEF SenderLeaves
<1>11. CASE ReceiverJoins
  BY <1>11 DEF ReceiverJoins
<1>12. CASE JoinRefused
  BY <1>12 DEF JoinRefused
<1>13. CASE Accept
  BY <1>13 DEF Accept
<1>14. CASE ReceiveEnds
  BY <1>14 DEF ReceiveEnds
<1>15. CASE TimesOut
  BY <1>15 DEF TimesOut
<1>16. CASE ReceiverLeaves
  BY <1>16 DEF ReceiverLeaves
<1> QED BY <1>2, <1>3, <1>4, <1>5, <1>6, <1>7, <1>8, <1>9, <1>10, <1>11, <1>12, <1>13, <1>14, <1>15, <1>16 DEF Brokers, Streams

LEMMA RingFile == ASSUME FileInv, Ring PROVE FileInv'
<1>1. queue \in Seq(Pushes) /\ ~Rung /\ OneRing
  BY DEF FileInv, FileOK, Rings, Ring, Before
<1>2. CASE Reaches
  <2>1. OneRing' /\ Rung' /\ queue' \in Seq(Pushes)
    BY <1>1, <1>2, RingIsOne DEF Ring
  <2> QED BY <1>2, <2>1 DEF Ring, FileInv, FileOK, Rings, Meets, Ends, Before, Begun, InRoom, SenderStates, ReceiverStates
<1>3. CASE ~Reaches
  <2>1. OneRing' /\ ~Rung' /\ queue' \in Seq(Pushes)
    BY <1>1, <1>3 DEF Ring, OneRing, Rung
  <2> QED BY <1>3, <2>1 DEF Ring, FileInv, FileOK, Rings, Meets, Ends, Before, Begun, InRoom, SenderStates, ReceiverStates
<1> QED BY <1>2, <1>3

LEMMA IncomingFile == ASSUME FileInv, Incoming PROVE FileInv'
<1>1. OneRing' /\ ~Rung' /\ Rung /\ queue' \in Seq(Pushes)
  BY RingIsHeard DEF FileInv, FileOK, Rings, Incoming
<1> QED BY <1>1 DEF Incoming, FileInv, FileOK, Rings, Meets, Ends, Before, Begun, InRoom, SenderStates, ReceiverStates

LEMMA QueueFile ==
    ASSUME FileInv, UNCHANGED transferVars, OneRing', Rung' <=> Rung, queue' \in Seq(Pushes) PROVE FileInv'
BY DEF transferVars, FileInv, FileOK, Rings, Meets, Ends, InRoom

LEMMA ConnectsFile == ASSUME FileInv, Connects PROVE FileInv'
<1>1. CASE wire'
  <2>1. OneRing' /\ (Rung' <=> Rung) /\ queue' \in Seq(Pushes)
    BY <1>1 DEF Connects, Connection, FileInv, FileOK, Rings, OneRing, Rung
  <2>2. UNCHANGED transferVars
    BY <1>1 DEF Connects, transferVars, FileInv, FileOK
  <2> QED BY <2>1, <2>2, QueueFile
<1>2. CASE ~wire'
  <2>1. OneRing' /\ ~Rung' /\ queue' \in Seq(Pushes)
    BY <1>2, EmptyHasNoRing DEF Connects, Connection
  <2> QED BY <1>2, <2>1 DEF Connects, FileInv, FileOK, Rings, Meets, Ends, Before, Begun, InRoom, SenderStates, ReceiverStates
<1> QED BY <1>1, <1>2

LEMMA NewsFile == ASSUME FileInv, PresenceOK, PresenceChanges, UNCHANGED transferVars PROVE FileInv'
<1>1. queue \in Seq(Pushes) /\ OneRing /\ handlers \in Seq(NewsType)
  BY DEF FileInv, FileOK, Rings, PresenceOK
<1>2. CASE UNCHANGED queue
  <2>1. OneRing' /\ (Rung' <=> Rung) /\ queue' \in Seq(Pushes)
    BY <1>1, <1>2 DEF OneRing, Rung
  <2> QED BY <2>1, QueueFile
<1>3. ASSUME NEW i \in DOMAIN handlers, Notify(i), queue' # queue PROVE FileInv'
  <2>1. handlers[i] \in NewsType
    BY <1>1
  <2>2. queue' = Append(queue, handlers[i])
    BY <1>3 DEF Notify
  <2>3. OneRing' /\ (Rung' <=> Rung) /\ queue' \in Seq(Pushes)
    BY <1>1, <2>1, <2>2, NewsPassesRing
  <2> QED BY <2>3, QueueFile
<1>4. CASE ReceivePresence
  <2>1. OneRing' /\ (Rung' <=> Rung) /\ queue' \in Seq(Pushes)
    BY <1>1, <1>4, NewsPassesRing DEF ReceivePresence
  <2> QED BY <2>1, QueueFile
<1> QED BY <1>2, <1>3, <1>4
    DEF PresenceChanges, Move, Empties, presenceVars, OpenConversation, AnswerPresence, Refreshed, RefreshFails

LEMMA FileStep == ASSUME FileInv, PresenceInv, [TransferNext]_allVars PROVE FileInv'
<1>1. CASE UNCHANGED allVars
  <2>1. OneRing' /\ (Rung' <=> Rung) /\ queue' \in Seq(Pushes)
    BY <1>1 DEF allVars, presenceVars, FileInv, FileOK, Rings, OneRing, Rung
  <2> QED BY <1>1, <2>1, QueueFile DEF allVars
<1>2. CASE (Brokers \/ Streams) /\ UNCHANGED <<inboxVars, presenceVars>>
  BY <1>2, StepFile DEF presenceVars
<1> QED BY <1>1, <1>2, RingFile, IncomingFile, ConnectsFile, NewsFile DEF TransferNext, PresenceInv

\* The inductive invariant of a file that is sent.
THEOREM FileInvariance == TransferSpec => []FileInv
<1>1. TransferInit => FileInv
  <2> SUFFICES ASSUME TransferInit PROVE FileInv
    OBVIOUS
  <2>1. OneRing /\ ~Rung /\ queue \in Seq(Pushes)
    BY DEF TransferInit, OneRing, Rung
  <2> QED BY <2>1 DEF TransferInit, FileInv, FileOK, Rings, Meets, Ends, Before, Begun, InRoom, SenderStates, ReceiverStates
<1>2. FileInv /\ PresenceInv /\ [TransferNext]_allVars => FileInv'
  BY FileStep
<1> QED BY <1>1, <1>2, PresenceInvariance, PTL DEF TransferSpec

\* A file that a message announces arrives, whoever is first in the room (p2p-transfer.ts), unless
\* the ring or a join was lost, an end failed, the file is over the 200 MB a receiver takes, a
\* timer came first, or the sender left too soon.
THEOREM AnnouncedFileArrives == TransferSpec => []FileArrives
<1>1. FileInv => FileArrives
  BY DEF FileInv, FileOK, Rings, Ends, FileArrives, Begun
<1> QED BY <1>1, FileInvariance, PTL
============================================================================

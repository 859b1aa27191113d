-------------------------- MODULE SfuClientProofs --------------------------
(***************************************************************************)
(* The double check of ensureRoom is right for any number of pages that    *)
(* join a room and ask for its handler, and any number of tries: a second  *)
(* router needs a call without the lock.                                   *)
(*                                                                         *)
(* What the pages show is right for any number of peers and producers: no  *)
(* tile outlives its producer once the page has handled the closing, and a *)
(* page that works sees everybody once all is quiet; and nobody waits in   *)
(* vain.                                                                   *)
(***************************************************************************)
EXTENDS SfuClient, Integers, SequenceTheorems, FunctionTheorems, FiniteSetTheorems, TLAPS

Callers == Peers \cup {Room}

(***************************************************************************)
(* The inductive invariant                                                 *)
(***************************************************************************)
\* While nobody went on without the lock, whoever looks for the router or attaches one
\* holds it, and attaches one only where there is none.
Guarded ==
    ~loose =>
        /\ \A c \in Callers : pc[c] \in {"check", "attaching"} => holder = c
        /\ \A c \in Callers : pc[c] = "attaching" => ~router
        /\ ~twice

\* Nobody asks for anything before the first peer has joined, whose attachRoom finds
\* the lock free.
FirstComes ==
    pc[Room] = "start" =>
        /\ ~router /\ holder = NoOne /\ \A c \in Callers : pc[c] = "start"
        /\ requests = {}
        /\ \A p \in Peers : /\ stage[p] = "out" /\ inbox[p] = <<>>
                            /\ \A x \in Producers : consume[p][x] = "no"

RouterInv == Service!TypeOK /\ Guarded /\ FirstComes

LEMMA Initially == Init => RouterInv
<1> SUFFICES ASSUME Init PROVE RouterInv
  OBVIOUS
<1>1. polls \in [Callers -> 0..MaxPolls] /\ faults \in 0..MaxFaults
  BY SignalingAssumption DEF Init, ServerInit, Service!Init, Callers
<1> QED BY <1>1 DEF Init, ServerInit, Service!Init, RouterInv, Service!TypeOK, Service!Labels,
                    Guarded, FirstComes, Callers

(***************************************************************************)
(* ensureRoom                                                              *)
(***************************************************************************)
\* On the way to the lock nobody is let in who does not hold it.
LEMMA WaitingRight ==
    ASSUME Service!TypeOK, Guarded, NEW c \in Callers,
           Service!Enter(c) \/ Service!Acquire(c) \/ Service!Poll(c) \/ Service!GiveUp(c)
    PROVE  Service!TypeOK' /\ Guarded'
<1> USE SignalingAssumption DEF Service!TypeOK, Service!Labels, Service!Goto, Callers
<1>1. CASE Service!Enter(c)
  BY <1>1 DEF Service!Enter, Guarded
<1>2. CASE Service!Acquire(c)
  <2>1. ~loose => \A d \in Callers : pc[d] \notin {"check", "attaching"}
    BY <1>2 DEF Service!Acquire, Guarded
  <2> QED BY <1>2, <2>1 DEF Service!Acquire, Guarded
<1>3. CASE Service!Poll(c)
  BY <1>3 DEF Service!Poll, Guarded
<1>4. CASE Service!GiveUp(c)
  BY <1>4 DEF Service!GiveUp, Guarded
<1> QED BY <1>1, <1>2, <1>3, <1>4

LEMMA CheckRight ==
    ASSUME Service!TypeOK, Guarded, NEW c \in Callers, Service!Check(c)
    PROVE  Service!TypeOK' /\ Guarded'
<1> USE SignalingAssumption DEF Service!TypeOK, Service!Labels, Service!Goto, Callers
<1>1. ~loose => holder = c /\ \A d \in Callers \ {c} : pc[d] \notin {"check", "attaching"}
  BY DEF Service!Check, Guarded
<1>2. CASE router
  BY <1>1, <1>2 DEF Service!Check, Service!Released, Guarded
<1>3. CASE ~router
  BY <1>1, <1>3 DEF Service!Check, Guarded
<1> QED BY <1>2, <1>3

LEMMA AttachRight ==
    ASSUME Service!TypeOK, Guarded, NEW c \in Callers,
           Service!Attached(c) \/ Service!AttachFails(c)
    PROVE  Service!TypeOK' /\ Guarded'
<1> USE SignalingAssumption DEF Service!TypeOK, Service!Labels, Service!Goto, Callers
<1>1. ~loose => /\ holder = c /\ ~router
                /\ \A d \in Callers \ {c} : pc[d] \notin {"check", "attaching"}
  BY DEF Service!Attached, Service!AttachFails, Guarded
<1>2. CASE Service!Attached(c)
  BY <1>1, <1>2 DEF Service!Attached, Service!Released, Guarded
<1>3. CASE Service!AttachFails(c)
  <2>1. Service!TypeOK'
    BY <1>3 DEF Service!AttachFails, Service!Released
  <2>2. Guarded'
    BY <1>1, <1>3 DEF Service!AttachFails, Service!Released, Guarded
  <2> QED BY <2>1, <2>2
<1> QED BY <1>2, <1>3

(***************************************************************************)
(* The steps of the room                                                   *)
(***************************************************************************)
\* The room's own call never starts again.
LEMMA StartedStays ==
    ASSUME Service!TypeOK, pc[Room] # "start",
           UNCHANGED pc \/ \E c \in Callers, label \in Service!Labels \ {"start"} : Service!Goto(c, label)
    PROVE  FirstComes'
BY DEF Service!TypeOK, Service!Goto, FirstComes, Callers

LEMMA ServerRight == ASSUME RouterInv, Server PROVE RouterInv'
<1> USE DEF RouterInv
<1>1. CASE \E p \in Peers : EnsureHandler(p)
  <2> PICK p \in Peers : EnsureHandler(p)
    BY <1>1
  <2>1. Service!Enter(p) /\ requests # {} /\ p \in Callers
    BY DEF EnsureHandler, Callers
  <2>2. pc[Room] # "start"
    BY <2>1 DEF FirstComes
  <2>3. FirstComes'
    BY <2>1, <2>2, StartedStays DEF Service!Enter, Service!Labels
  <2> QED BY <2>1, <2>3, WaitingRight
<1>2. CASE EnsureRoom
  <2>1. CASE Service!LockExpires
    <3>1. Service!TypeOK' /\ Guarded'
      BY <2>1 DEF Service!LockExpires, Service!TypeOK, Guarded, Callers
    <3>2. pc[Room] # "start" /\ UNCHANGED pc
      BY <2>1 DEF Service!LockExpires, FirstComes
    <3> QED BY <3>1, <3>2, StartedStays
  <2>2. ASSUME NEW c \in Callers,
               \/ Service!Acquire(c) \/ Service!Poll(c) \/ Service!GiveUp(c)
               \/ Service!Check(c) \/ Service!Attached(c) \/ Service!AttachFails(c)
        PROVE  RouterInv'
    <3>1. Service!TypeOK' /\ Guarded'
      BY <2>2, WaitingRight, CheckRight, AttachRight
    <3>2. pc[c] # "start"
      BY <2>2 DEF Service!Acquire, Service!Poll, Service!GiveUp, Service!Check, Service!Attached,
                  Service!AttachFails
    <3>3. pc[Room] # "start"
      BY <3>2 DEF FirstComes
    <3>4. UNCHANGED pc \/ \E label \in Service!Labels \ {"start"} : Service!Goto(c, label)
      BY <2>2 DEF Service!Acquire, Service!Poll, Service!GiveUp, Service!Check, Service!Attached,
                  Service!AttachFails, Service!Labels
    <3> QED BY <3>1, <3>3, <3>4, StartedStays
  <2> QED BY <1>2, <2>1, <2>2 DEF EnsureRoom, Callers
<1>3. CASE HandleRpc
  <2>1. requests # {} /\ UNCHANGED serviceVars
    BY <1>3 DEF HandleRpc
  <2>2. pc[Room] # "start"
    BY <2>1 DEF FirstComes
  <2> QED BY <2>1, <2>2, StartedStays DEF serviceVars, Service!TypeOK, Guarded
<1> QED BY <1>1, <1>2, <1>3 DEF Server

\* What leaves the service alone, once it was called.
LEMMA AloneRight ==
    ASSUME RouterInv, UNCHANGED serviceVars, pc[Room] # "start" PROVE RouterInv'
BY StartedStays DEF RouterInv, serviceVars, Service!TypeOK, Guarded

\* The first peer makes the room, and later ones find it.
LEMMA JoinRight == ASSUME RouterInv, NEW p \in Peers, Join(p) PROVE RouterInv'
<1> USE DEF RouterInv
<1>1. CASE pc[Room] # "start"
  BY <1>1, AloneRight DEF Join, PeerJoined
<1>2. CASE pc[Room] = "start"
  <2>1. /\ Service!Goto(Room, "attaching") /\ holder' = Room
        /\ UNCHANGED <<router, polls, loose, twice, faults>>
    BY <1>2 DEF Join, PeerJoined
  <2>2. ~router /\ \A c \in Callers : pc[c] = "start"
    BY <1>2 DEF FirstComes
  <2>3. Service!TypeOK' /\ Guarded' /\ pc'[Room] = "attaching"
    BY <2>1, <2>2 DEF Service!TypeOK, Service!Goto, Service!Labels, Guarded, Callers
  <2> QED BY <2>3 DEF FirstComes
<1> QED BY <1>1, <1>2

\* Before the first peer has joined, no page does anything else.
LEMMA PageRight ==
    ASSUME RouterInv, NEW p \in Peers, Goes(p) \/ Timeout(p) \/ Leave(p) PROVE RouterInv'
<1>1. UNCHANGED serviceVars
  BY DEF Goes, Start, Loaded, Publish, ConsumeNext, Created, Receive, Timeout, Leave, PeerLeft, serverVars
<1>2. pc[Room] # "start"
  <2> SUFFICES ASSUME pc[Room] = "start" PROVE FALSE
    OBVIOUS
  <2>1. /\ requests = {} /\ stage[p] = "out" /\ inbox[p] = <<>>
        /\ \A x \in Producers : consume[p][x] = "no"
    BY DEF RouterInv, FirstComes
  <2>2. CASE Goes(p)
    BY <2>1, <2>2 DEF Goes, Start, Loaded, Publish, ConsumeNext, Created, Receive
  <2>3. CASE Timeout(p)
    BY <2>1, <2>3 DEF Timeout
  <2>4. CASE Leave(p)
    BY <2>1, <2>4 DEF Leave
  <2> QED BY <2>2, <2>3, <2>4
<1> QED BY <1>1, <1>2, AloneRight

\* The inductive invariant holds in every state the room can be in.
THEOREM RouterInvariance == Spec => []RouterInv
<1>1. Init => RouterInv
  BY Initially
<1>2. RouterInv /\ [Next]_vars => RouterInv'
  <2> SUFFICES ASSUME RouterInv, [Next]_vars PROVE RouterInv'
    OBVIOUS
  <2>1. CASE Next
    BY <2>1, ServerRight, JoinRight, PageRight DEF Next, Progress
  <2>2. CASE UNCHANGED vars
    BY <2>2 DEF vars, serverVars, serviceVars, clientVars, RouterInv, Service!TypeOK, Guarded, FirstComes
  <2> QED BY <2>1, <2>2
<1> QED BY <1>1, <1>2, PTL DEF Spec

\* ensureRoom attaches one router to the room, however its calls and their attachments
\* cross, as long as no call gives up on the lock and no lock expires.
THEOREM OneRouterAttached == Spec => []OneRouter
<1>1. RouterInv => OneRouter
  BY DEF RouterInv, Guarded, OneRouter, Service!OneRouter
<1> QED BY <1>1, RouterInvariance, PTL

(***************************************************************************)
(* What the pages see: the inductive invariants                            *)
(***************************************************************************)
TrackKinds == {"transport", "consume", "resume"}
PageKinds == {"caps", "produce", "list"}
Announced(x) == Message("new-producer", {x}, TRUE)
Closing(x) == Message("producer-closed", {x}, TRUE)
ResumeOk(x) == Message("resume", {x}, TRUE)
At(p) == 1..Len(inbox[p])

\* Whoever publishes x has left, and with him x for ever.
Left(x) == stage[Owner[x]] = "left"
Known(x) == x \in live \/ Left(x)
Away(p) == stage[p] \in {"out", "left"}

SfuTypeOK ==
    /\ present \subseteq Peers /\ live \subseteq Producers /\ registry \subseteq Producers
    /\ requests \subseteq Requests /\ inbox \in [Peers -> Seq(Messages)] /\ overtaken \in BOOLEAN
    /\ stage \in [Peers -> Stages] /\ queue \in [Peers -> SUBSET Producers]
    /\ current \in [Peers -> Producers \cup {Nothing}] /\ recv \subseteq Peers
    /\ consume \in [Peers -> [Producers -> Steps]] /\ consumers \in [Peers -> SUBSET Producers]
    /\ timeouts \in 0..MaxTimeouts

\* What requests and messages are about: nobody asks for, or is told of, a producer that
\* never was, and only what has left cannot be consumed.
RequestOK(r) ==
    /\ r.kind \notin {"caps", "list"} => \E x \in Producers : r.of = {x}
    /\ r.kind = "produce" => (\A x \in r.of : Owner[x] = r.who) /\ r.status # "error"
    /\ r.kind \in {"caps", "list", "transport"} => r.status = "sent"
    /\ r.kind \in TrackKinds => \A x \in r.of : Known(x)
    /\ r.status = "error" => \A x \in r.of : Left(x)
MessageOK(p, m) ==
    /\ m.kind \notin {"caps", "list"} => \E x \in Producers : m.of = {x}
    /\ m.kind \notin {"caps", "consume", "resume"} => m.ok
    /\ m.kind \notin {"caps", "produce"} => \A x \in m.of : Known(x)
    /\ m.kind \in {"list", "new-producer"} => \A x \in m.of : Owner[x] # p
    /\ m.kind \in TrackKinds /\ ~m.ok => \A x \in m.of : Left(x)
    /\ m.kind = "producer-closed" => \A x \in m.of : Left(x)
WellFormed ==
    /\ \A r \in requests : RequestOK(r)
    /\ \A p \in Peers : \A i \in At(p) : MessageOK(p, inbox[p][i])
    /\ \A p \in Peers, x \in Producers :
          consume[p][x] # "no" \/ x \in queue[p] => Owner[x] # p /\ Known(x)

\* Who is in the room, and who has a client.
Around ==
    /\ \A p \in Peers : Away(p) => p \notin present /\ inbox[p] = <<>>
    /\ \A p \in Peers : ~Away(p) => p \in present
    /\ \A p \in Peers : stage[p] \in {"out", "joined", "left"} =>
          /\ queue[p] = {} /\ \A x \in Producers : consume[p][x] = "no"
          /\ \A r \in requests : r.who # p
          /\ \A i \in At(p) : inbox[p][i].kind \notin Kinds
    /\ \A x \in live : ~Away(Owner[x])

\* Before attachRoom listens nobody hears of a producer.
Silent ==
    ~Listening =>
        /\ registry = {}
        /\ \A p \in Peers : queue[p] = {} /\ \A x \in Producers : consume[p][x] = "no"
        /\ \A r \in requests : r.kind \notin TrackKinds
        /\ \A p \in Peers : \A i \in At(p) : inbox[p][i].kind \in PageKinds
                                             /\ (inbox[p][i].kind = "list" => inbox[p][i].of = {})

BaseInv == SfuTypeOK /\ WellFormed /\ Around /\ Silent

(***************************************************************************)
(* What a step does to an inbox                                            *)
(***************************************************************************)
\* inbox[q] is as it was, with members of M after it.
Extends(q, M) ==
    /\ Len(inbox[q]) <= Len(inbox'[q])
    /\ \A i \in At(q) : inbox'[q][i] = inbox[q][i]
    /\ \A i \in 1..Len(inbox'[q]) : i \in At(q) \/ inbox'[q][i] \in M

\* inbox[q] has lost what was in place k.
Cuts(q, k) ==
    /\ k \in At(q) /\ Len(inbox'[q]) = Len(inbox[q]) - 1
    /\ \A i \in 1..Len(inbox[q]) - 1 : inbox'[q][i] = inbox[q][IF i < k THEN i ELSE i + 1]

LEMMA InboxFacts ==
    ASSUME SfuTypeOK, NEW q \in Peers
    PROVE  /\ inbox[q] \in Seq(Messages) /\ Len(inbox[q]) \in Nat
           /\ \A i \in At(q) : inbox[q][i] \in Messages
BY DEF SfuTypeOK, At

LEMMA UnchangedInbox ==
    ASSUME SfuTypeOK, NEW q \in Peers, inbox'[q] = inbox[q] PROVE Extends(q, {})
BY InboxFacts DEF Extends, At

LEMMA AppendedInbox ==
    ASSUME SfuTypeOK, NEW p \in Peers, NEW m \in Messages, inbox' = [inbox EXCEPT ![p] = Append(@, m)]
    PROVE  /\ inbox' \in [Peers -> Seq(Messages)]
           /\ \A q \in Peers \ {p} : inbox'[q] = inbox[q]
           /\ Extends(p, {m})
           /\ Len(inbox'[p]) = Len(inbox[p]) + 1 /\ inbox'[p][Len(inbox[p]) + 1] = m
<1>1. inbox[p] \in Seq(Messages) /\ inbox \in [Peers -> Seq(Messages)]
  BY InboxFacts DEF SfuTypeOK
<1>2. inbox'[p] = Append(inbox[p], m) /\ inbox' \in [Peers -> Seq(Messages)]
  BY <1>1
<1> QED BY <1>1, <1>2 DEF Extends, At

LEMMA TailInbox ==
    ASSUME SfuTypeOK, NEW p \in Peers, inbox[p] # <<>>, inbox' = [inbox EXCEPT ![p] = Tail(@)]
    PROVE  /\ inbox' \in [Peers -> Seq(Messages)]
           /\ \A q \in Peers \ {p} : inbox'[q] = inbox[q]
           /\ Cuts(p, 1) /\ Head(inbox[p]) = inbox[p][1]
<1>1. inbox[p] \in Seq(Messages) /\ inbox \in [Peers -> Seq(Messages)]
  BY InboxFacts DEF SfuTypeOK
<1>2. inbox'[p] = Tail(inbox[p]) /\ inbox' \in [Peers -> Seq(Messages)]
  BY <1>1
<1> QED BY <1>1, <1>2 DEF Cuts, At

LEMMA RemovedFrom ==
    ASSUME NEW s \in Seq(Messages), NEW k \in 1..Len(s)
    PROVE  /\ RemoveAt(s, k) \in Seq(Messages) /\ Len(RemoveAt(s, k)) = Len(s) - 1
           /\ \A i \in 1..Len(s) - 1 : RemoveAt(s, k)[i] = s[IF i < k THEN i ELSE i + 1]
<1>0. PICK a : a = SubSeq(s, 1, k - 1)
  OBVIOUS
<1>1. PICK b : b = SubSeq(s, k + 1, Len(s))
  OBVIOUS
<1>2. PICK t : t = RemoveAt(s, k)
  OBVIOUS
<1>3. PICK n \in Nat : n = Len(s)
  BY LenProperties
<1>4. k \in 1..n /\ k \in Nat /\ \A i \in 1..n : s[i] \in Messages
  BY <1>3
<1>5. a \in Seq(Messages) /\ Len(a) = k - 1 /\ \A i \in 1..k - 1 : a[i] = s[i]
  <2>1. \A i \in 1..k - 1 : s[i] \in Messages
    BY <1>4
  <2>2. 1 \in Int /\ k - 1 \in Int
    BY <1>4
  <2>3. /\ a \in Seq(Messages)
        /\ Len(a) = IF 1 <= k - 1 THEN (k - 1) - 1 + 1 ELSE 0
        /\ \A i \in 1..(k - 1) - 1 + 1 : a[i] = s[1 + i - 1]
    BY <1>0, <2>1, <2>2, SubSeqProperties
  <2> QED BY <1>4, <2>3
<1>6. b \in Seq(Messages) /\ Len(b) = n - k /\ \A i \in 1..n - k : b[i] = s[k + i]
  <2>1. \A i \in k + 1..n : s[i] \in Messages
    BY <1>4
  <2>2. k + 1 \in Int /\ n \in Int
    BY <1>4
  <2>3. /\ b \in Seq(Messages)
        /\ Len(b) = IF k + 1 <= n THEN n - (k + 1) + 1 ELSE 0
        /\ \A i \in 1..n - (k + 1) + 1 : b[i] = s[(k + 1) + i - 1]
    BY <1>1, <1>3, <2>1, <2>2, SubSeqProperties
  <2> QED BY <1>4, <2>3
<1>7. /\ t \in Seq(Messages) /\ Len(t) = Len(a) + Len(b)
      /\ \A i \in 1..Len(a) + Len(b) : t[i] = IF i <= Len(a) THEN a[i] ELSE b[i - Len(a)]
  <2>1. t = a \o b
    BY <1>0, <1>1, <1>2 DEF RemoveAt
  <2> QED BY <1>5, <1>6, <2>1, ConcatProperties
<1>8. Len(a) + Len(b) = n - 1
  BY <1>4, <1>5, <1>6
<1>9. ASSUME NEW i \in 1..n - 1 PROVE t[i] = s[IF i < k THEN i ELSE i + 1]
  <2>1. t[i] = IF i <= k - 1 THEN a[i] ELSE b[i - (k - 1)]
    BY <1>5, <1>7, <1>8
  <2>2. CASE i < k
    <3>1. i \in 1..k - 1 /\ i <= k - 1
      BY <1>4, <2>2
    <3> QED BY <1>5, <2>1, <2>2, <3>1
  <2>3. CASE ~(i < k)
    <3>1. i - (k - 1) \in 1..n - k /\ k + (i - (k - 1)) = i + 1 /\ ~(i <= k - 1)
      BY <1>4, <2>3
    <3> QED BY <1>6, <2>1, <2>3, <3>1
  <2> QED BY <2>2, <2>3
<1> QED BY <1>2, <1>3, <1>7, <1>8, <1>9

LEMMA RemovedInbox ==
    ASSUME SfuTypeOK, NEW p \in Peers, NEW k \in At(p), inbox' = [inbox EXCEPT ![p] = RemoveAt(@, k)]
    PROVE  /\ inbox' \in [Peers -> Seq(Messages)]
           /\ \A q \in Peers \ {p} : inbox'[q] = inbox[q]
           /\ Cuts(p, k)
<1>1. inbox[p] \in Seq(Messages) /\ inbox \in [Peers -> Seq(Messages)] /\ k \in 1..Len(inbox[p])
  BY InboxFacts DEF SfuTypeOK, At
<1>2. inbox'[p] = RemoveAt(inbox[p], k) /\ \A q \in Peers \ {p} : inbox'[q] = inbox[q]
  BY <1>1
<1>3. /\ inbox'[p] \in Seq(Messages) /\ Len(inbox'[p]) = Len(inbox[p]) - 1
      /\ \A i \in 1..Len(inbox[p]) - 1 : inbox'[p][i] = inbox[p][IF i < k THEN i ELSE i + 1]
  BY <1>1, <1>2, RemovedFrom
<1>4. inbox' \in [Peers -> Seq(Messages)]
  BY <1>1, <1>2, <1>3
<1> QED BY <1>2, <1>3, <1>4 DEF Cuts

\* SetToSeq lists a finite set.
LEMMA SetToSeqFacts ==
    ASSUME NEW S, IsFiniteSet(S)
    PROVE  /\ SetToSeq(S) \in Seq(S)
           /\ \A y \in S : \E i \in 1..Len(SetToSeq(S)) : SetToSeq(S)[i] = y
<1> PICK n \in Nat : n = Cardinality(S)
  BY FS_CardinalityType
<1> PICK f : f = SetToSeq(S)
  OBVIOUS
<1>1. \E g \in [1..n -> S] : IsInjective(g)
  <2>1. PICK g \in Bijection(1..n, S) : TRUE
    BY FS_CardinalityType DEF ExistsBijection
  <2>2. g \in [1..n -> S] /\ \A a, b \in 1..n : g[a] = g[b] => a = b
    BY <2>1, Fun_BijectionProperties
  <2> QED BY <2>2 DEF IsInjective
<1>2. f \in [1..n -> S] /\ IsInjective(f)
  BY <1>1 DEF SetToSeq
<1>3. f \in Injection(1..n, S)
  BY <1>2 DEF Injection
<1>4. IsFiniteSet(1..n) /\ Cardinality(1..n) = n
  BY FS_Interval
<1>5. f \in Surjection(1..n, S)
  BY <1>3, <1>4, FS_Injection
<1>6. \A y \in S : \E i \in 1..n : f[i] = y
  BY <1>5, Fun_SurjectionProperties
<1>7. f \in Seq(S) /\ Len(f) = n
  BY <1>2
<1> QED BY <1>6, <1>7

\* notifyRoomExcept: what the others in the room hear, once somebody listens.
\* u is s, with all of M after it.
After(u, s, M) ==
    /\ u \in Seq(Messages) /\ Len(s) <= Len(u)
    /\ \A i \in 1..Len(s) : u[i] = s[i]
    /\ \A i \in 1..Len(u) : i \in 1..Len(s) \/ u[i] \in M
    /\ \A y \in M : \E i \in 1..Len(u) : u[i] = y

LEMMA ListedAfter ==
    ASSUME NEW s \in Seq(Messages), NEW M \in SUBSET Messages, IsFiniteSet(M)
    PROVE  After(s \o SetToSeq(M), s, M)
<1>0. PICK t : t = SetToSeq(M)
  OBVIOUS
<1>1. PICK u : u = s \o t
  OBVIOUS
<1>2. t \in Seq(M) /\ t \in Seq(Messages) /\ \A y \in M : \E i \in 1..Len(t) : t[i] = y
  BY <1>0, SetToSeqFacts, SeqMonotonic
<1>3. \A i \in 1..Len(t) : t[i] \in M
  BY <1>2, ElementOfSeq
<1>4. PICK n \in Nat : n = Len(s)
  BY LenProperties
<1>5. PICK k \in Nat : k = Len(t)
  BY <1>2, LenProperties
<1>6. /\ u \in Seq(Messages) /\ Len(u) = n + k
      /\ \A i \in 1..n + k : u[i] = IF i <= n THEN s[i] ELSE t[i - n]
  BY <1>0, <1>1, <1>2, <1>4, <1>5, ConcatProperties
<1>7. \A i \in 1..n : u[i] = s[i]
  BY <1>6
<1>8. ASSUME NEW i \in 1..n + k, i \notin 1..n PROVE u[i] \in M
  <2>1. i - n \in 1..k /\ u[i] = t[i - n]
    BY <1>6, <1>8
  <2> QED BY <1>3, <1>5, <2>1
<1>9. ASSUME NEW y \in M PROVE \E i \in 1..n + k : u[i] = y
  <2>1. PICK j \in 1..k : t[j] = y
    BY <1>2, <1>5
  <2>2. n + j \in 1..n + k /\ ~(n + j <= n) /\ (n + j) - n = j
    BY <2>1
  <2> QED BY <1>6, <2>1, <2>2
<1>10. /\ u \in Seq(Messages) /\ Len(s) <= Len(u)
       /\ \A i \in 1..Len(s) : u[i] = s[i]
       /\ \A i \in 1..Len(u) : i \in 1..Len(s) \/ u[i] \in M
       /\ \A y \in M : \E i \in 1..Len(u) : u[i] = y
  BY <1>4, <1>6, <1>7, <1>8, <1>9
<1> QED BY <1>0, <1>1, <1>10 DEF After

\* notifyRoomExcept: what the others in the room hear, once somebody listens.
LEMMA NotifiedFacts ==
    ASSUME SfuTypeOK, NEW p \in Peers, NEW kind \in {"new-producer", "producer-closed"},
           NEW xs \in SUBSET Producers, NEW q \in Peers,
           inbox'[q] = NotifiedExcept(p, kind, xs)[q]
    PROVE  /\ inbox'[q] \in Seq(Messages)
           /\ ~(Listening /\ q \in present \ {p}) => inbox'[q] = inbox[q]
           /\ Extends(q, IF Listening /\ q \in present \ {p} THEN {Message(kind, {x}, TRUE) : x \in xs} ELSE {})
           /\ Listening /\ q \in present \ {p} =>
                \A x \in xs : \E i \in 1..Len(inbox'[q]) : inbox'[q][i] = Message(kind, {x}, TRUE)
<1>0. PICK M : M = {Message(kind, {x}, TRUE) : x \in xs}
  OBVIOUS
<1>1. inbox[q] \in Seq(Messages) /\ Len(inbox[q]) \in Nat
  BY InboxFacts
<1>2. M \subseteq Messages /\ IsFiniteSet(M)
  <2>1. ASSUME NEW x \in xs PROVE Message(kind, {x}, TRUE) \in Messages
    <3>1. {x} \subseteq Producers /\ kind \in Kinds \cup {"new-producer", "producer-closed"}
      OBVIOUS
    <3> QED BY <3>1 DEF Message, Messages
  <2>2. IsFiniteSet(xs)
    BY SignalingAssumption, FS_Subset
  <2>3. [x \in xs |-> Message(kind, {x}, TRUE)] \in Surjection(xs, M)
    BY <1>0, Fun_IsSurj
  <2> QED BY <1>0, <2>1, <2>2, <2>3, FS_Surjection
<1>3. CASE ~(Listening /\ q \in present \ {p})
  <2>1. inbox'[q] = inbox[q]
    BY <1>3 DEF NotifiedExcept
  <2> QED BY <1>1, <1>3, <2>1, UnchangedInbox
<1>4. CASE Listening /\ q \in present \ {p}
  <2>1. inbox'[q] = inbox[q] \o SetToSeq(M)
    BY <1>0, <1>4 DEF NotifiedExcept
  <2>2. After(inbox'[q], inbox[q], M)
    BY <1>1, <1>2, <2>1, ListedAfter
  <2> QED BY <1>0, <1>4, <2>2 DEF Extends, At, After
<1> QED BY <1>3, <1>4

(***************************************************************************)
(* What the helpers do                                                     *)
(***************************************************************************)
LEMMA GoFacts ==
    ASSUME SfuTypeOK, NEW p \in Peers, NEW label \in Stages, GoTo(p, label)
    PROVE  stage' \in [Peers -> Stages] /\ \A q \in Peers : stage'[q] = IF q = p THEN label ELSE stage[q]
BY DEF SfuTypeOK, GoTo

LEMMA SetFacts ==
    ASSUME SfuTypeOK, NEW p \in Peers, NEW x \in Producers, NEW step \in Steps, Set(p, x, step)
    PROVE  /\ consume' \in [Peers -> [Producers -> Steps]]
           /\ \A q \in Peers, y \in Producers :
                 consume'[q][y] = IF q = p /\ y = x THEN step ELSE consume[q][y]
<1>0. PICK f : f = consume[p]
  OBVIOUS
<1>1. consume \in [Peers -> [Producers -> Steps]] /\ f \in [Producers -> Steps]
  BY <1>0 DEF SfuTypeOK
<1>2. PICK g : g = [f EXCEPT ![x] = step]
  OBVIOUS
<1>3. g \in [Producers -> Steps] /\ \A y \in Producers : g[y] = IF y = x THEN step ELSE f[y]
  BY <1>1, <1>2
<1>4. consume' = [consume EXCEPT ![p] = g]
  BY <1>0, <1>2 DEF Set
<1> QED BY <1>0, <1>1, <1>3, <1>4

LEMMA RequestFacts ==
    ASSUME SfuTypeOK, NEW p \in Peers, NEW kind \in Kinds, NEW xs \in SUBSET Producers, Ask(p, kind, xs)
    PROVE  /\ requests' = requests \cup {Request(p, kind, xs)}
           /\ Request(p, kind, xs) \in Requests /\ requests' \subseteq Requests
           /\ Request(p, kind, xs).who = p /\ Request(p, kind, xs).kind = kind
           /\ Request(p, kind, xs).of = xs /\ Request(p, kind, xs).awaited
           /\ Request(p, kind, xs).status = "sent"
<1>1. Request(p, kind, xs) = [who |-> p, kind |-> kind, of |-> xs, status |-> "sent", awaited |-> TRUE]
  BY DEF Request
<1>2. TRUE \in BOOLEAN /\ "sent" \in {"sent", "ok", "error"}
  OBVIOUS
<1>3. Request(p, kind, xs) \in Requests
  BY <1>1, <1>2 DEF Requests
<1>4. requests' \subseteq Requests
  BY <1>3 DEF SfuTypeOK, Ask
<1> QED BY <1>1, <1>3, <1>4 DEF Ask

\* consume(): the client asks, unless it has asked before.
Consumes(p, x, v) ==
    /\ consume[p][x] = "no" /\ v \in {"transport", "consume"}
    /\ Set(p, x, v) /\ Ask(p, v, {x})
LEMMA ConsumeFacts ==
    ASSUME NEW p, NEW x, Consume(p, x)
    PROVE  \/ consume[p][x] # "no" /\ UNCHANGED <<consume, requests>>
           \/ \E v \in {"transport", "consume"} : Consumes(p, x, v)
BY DEF Consume, Consumes

\* What p's page does when a request of the kind is rejected.
LEMMA RejectedFacts ==
    ASSUME SfuTypeOK, NEW p \in Peers, NEW kind \in Kinds, NEW xs, Rejected(p, kind, xs)
    PROVE  /\ stage' \in [Peers -> Stages] /\ consume' \in [Peers -> [Producers -> Steps]]
           /\ kind \in TrackKinds => /\ UNCHANGED stage
                                     /\ \A x \in Producers : consume'[p][x] = IF x \in xs THEN "no" ELSE consume[p][x]
           /\ kind \in PageKinds => UNCHANGED consume /\ stage'[p] \in {"broken", "failed"}
           /\ \A q \in Peers \ {p} : stage'[q] = stage[q] /\ consume'[q] = consume[q]
           /\ TrackKinds \cap PageKinds = {} /\ Kinds = TrackKinds \cup PageKinds
<1>1. CASE kind \in TrackKinds
  <2>0. PICK g : g = [x \in Producers |-> IF x \in xs THEN "no" ELSE consume[p][x]]
    OBVIOUS
  <2>1. g \in [Producers -> Steps] /\ \A x \in Producers : g[x] = IF x \in xs THEN "no" ELSE consume[p][x]
    BY <2>0 DEF SfuTypeOK, Steps
  <2>2. consume' = [consume EXCEPT ![p] = g] /\ UNCHANGED stage
    BY <1>1, <2>0 DEF Rejected, TrackKinds
  <2> QED BY <1>1, <2>1, <2>2 DEF SfuTypeOK, Kinds, TrackKinds, PageKinds
<1>2. CASE kind \notin TrackKinds
  <2>1. UNCHANGED consume /\ stage' = [stage EXCEPT ![p] = IF kind = "caps" THEN "broken" ELSE "failed"]
    BY <1>2 DEF Rejected, GoTo, TrackKinds
  <2> QED BY <1>2, <2>1 DEF SfuTypeOK, Kinds, TrackKinds, PageKinds, Stages
<1> QED BY <1>1, <1>2

(***************************************************************************)
(* BaseInv: the steps of a page                                            *)
(***************************************************************************)
\* A message that is still there was there.
LEMMA StillThere ==
    ASSUME SfuTypeOK, NEW q \in Peers,
           inbox'[q] = inbox[q] \/ \E k \in At(q) : Cuts(q, k)
    PROVE  \A i \in 1..Len(inbox'[q]) : \E j \in At(q) : inbox'[q][i] = inbox[q][j]
<1>1. CASE inbox'[q] = inbox[q]
  BY <1>1 DEF At
<1>2. ASSUME NEW k \in At(q), Cuts(q, k), NEW i \in 1..Len(inbox'[q])
      PROVE  \E j \in At(q) : inbox'[q][i] = inbox[q][j]
  <2>1. Len(inbox[q]) \in Nat /\ i \in 1..Len(inbox[q]) - 1
    BY <1>2, InboxFacts DEF Cuts
  <2>2. (IF i < k THEN i ELSE i + 1) \in At(q)
    BY <2>1 DEF At
  <2> QED BY <1>2, <2>1, <2>2 DEF Cuts
<1> QED BY <1>1, <1>2

LEMMA PageStep ==
    ASSUME BaseInv, NEW p \in Peers, UNCHANGED <<serviceVars, roomVars>>, SfuTypeOK', ~Away(p),
           stage'[p] \notin {"out", "left"},
           stage'[p] = "joined" => stage[p] = "joined" /\ UNCHANGED <<requests, consume, queue>>,
           \A q \in Peers \ {p} : /\ stage'[q] = stage[q] /\ consume'[q] = consume[q]
                                  /\ queue'[q] = queue[q] /\ inbox'[q] = inbox[q],
           inbox'[p] = inbox[p] \/ \E k \in At(p) : Cuts(p, k),
           \A r \in requests' \ requests : r.who = p /\ RequestOK(r) /\ (Listening \/ r.kind \notin TrackKinds),
           \A x \in Producers : consume'[p][x] # "no" \/ x \in queue'[p] =>
                                  Owner[x] # p /\ Known(x) /\ Listening
    PROVE  BaseInv'
<1> USE DEF BaseInv
<1>1. UNCHANGED <<present, live, registry, pc>> /\ (Listening' <=> Listening)
  BY DEF serviceVars, roomVars, Listening
<1>2. \A x \in Producers : Owner[x] \in Peers /\ (Left(x)' <=> Left(x)) /\ (Known(x)' <=> Known(x))
  BY <1>1, SignalingAssumption DEF Left, Known, Away
<1>3. \A r \in Requests : RequestOK(r) => RequestOK(r)'
  BY <1>2 DEF RequestOK, Requests
<1>4. \A q \in Peers : \A m \in Messages : MessageOK(q, m) => MessageOK(q, m)'
  BY <1>2 DEF MessageOK, Messages
<1>5. \A q \in Peers : \A i \in 1..Len(inbox'[q]) : \E j \in At(q) : inbox'[q][i] = inbox[q][j]
  BY StillThere
<1>6. WellFormed'
  <2>1. \A r \in requests' : RequestOK(r)'
    BY <1>3 DEF WellFormed, SfuTypeOK
  <2>2. ASSUME NEW q \in Peers, NEW i \in 1..Len(inbox'[q]) PROVE \E m \in Messages : m = inbox'[q][i] /\ MessageOK(q, m)'
    <3>1. PICK j \in At(q) : inbox'[q][i] = inbox[q][j]
      BY <1>5
    <3>2. inbox[q][j] \in Messages /\ MessageOK(q, inbox[q][j])
      BY InboxFacts DEF WellFormed
    <3>3. PICK m \in Messages : m = inbox[q][j]
      BY <3>2
    <3>4. MessageOK(q, m)'
      BY <1>4, <3>2, <3>3
    <3> QED BY <3>1, <3>3, <3>4
  <2>3. \A q \in Peers, x \in Producers :
           consume'[q][x] # "no" \/ x \in queue'[q] => Owner[x] # q /\ Known(x)'
    BY <1>2 DEF WellFormed
  <2> QED BY <2>1, <2>2, <2>3 DEF WellFormed, At
<1>7. Around'
  <2>1. \A q \in Peers : (Away(q)' <=> Away(q)) /\ (Away(q) => q # p)
    BY DEF Away
  <2>2. \A q \in Peers : Away(q)' => q \notin present' /\ inbox'[q] = <<>>
    BY <1>1, <2>1 DEF Around
  <2>3. \A q \in Peers : ~Away(q)' => q \in present'
    BY <1>1, <2>1 DEF Around
  <2>4. ASSUME NEW q \in Peers, stage'[q] \in {"out", "joined", "left"}
        PROVE  /\ queue'[q] = {} /\ \A x \in Producers : consume'[q][x] = "no"
               /\ \A r \in requests' : r.who # q
               /\ \A i \in 1..Len(inbox'[q]) : inbox'[q][i].kind \notin Kinds
    <3>1. stage[q] = stage'[q] /\ queue'[q] = queue[q] /\ consume'[q] = consume[q]
          /\ \A r \in requests' : r.who = q => r \in requests
      BY <2>4
    <3> QED BY <1>5, <2>4, <3>1 DEF Around
  <2>5. \A x \in live' : ~Away(Owner[x])'
    BY <1>1, <1>2, <2>1 DEF Around, SfuTypeOK
  <2> QED BY <2>2, <2>3, <2>4, <2>5 DEF Around, At
<1>8. Silent'
  <2> SUFFICES ASSUME ~Listening
               PROVE  /\ registry' = {}
                      /\ \A q \in Peers : queue'[q] = {} /\ \A x \in Producers : consume'[q][x] = "no"
                      /\ \A r \in requests' : r.kind \notin TrackKinds
                      /\ \A q \in Peers : \A i \in 1..Len(inbox'[q]) :
                            inbox'[q][i].kind \in PageKinds /\ (inbox'[q][i].kind = "list" => inbox'[q][i].of = {})
    BY <1>1 DEF Silent, At
  <2>1. ASSUME NEW q \in Peers PROVE queue'[q] = {} /\ \A x \in Producers : consume'[q][x] = "no"
    <3>1. CASE q = p
      <4>1. queue'[p] \in SUBSET Producers
        BY DEF SfuTypeOK
      <4> QED BY <3>1, <4>1
    <3>2. CASE q # p
      BY <3>2 DEF Silent
    <3> QED BY <3>1, <3>2
  <2> QED BY <1>1, <1>5, <2>1 DEF Silent
<1> QED BY <1>6, <1>7, <1>8


(***************************************************************************)
(* An answer is awaited once                                               *)
(***************************************************************************)
\* A token is a request somebody waits for, or the answer to it on its way: of the page's own
\* requests there is one at most, and of consume()'s requests about a producer.  T tells
\* which tokens are meant, now the kind of the step that waits.
Token(T, m) == <<m.kind, m.of>> \in T
TrackTokens(x) == TrackKinds \X {{x}}
PageTokens == PageKinds \X SUBSET Producers
Asks(p, T, r) == r.who = p /\ r.awaited /\ Token(T, r)
Once(p, T, now) ==
    /\ \A r \in requests : Asks(p, T, r) =>
          /\ r.kind = now
          /\ \A s \in requests : Asks(p, T, s) => s = r
          /\ \A i \in At(p) : ~Token(T, inbox[p][i])
    /\ \A i \in At(p) : Token(T, inbox[p][i]) =>
          /\ inbox[p][i].kind = now
          /\ \A j \in At(p) : Token(T, inbox[p][j]) => j = i
WaitsFor(s) ==
    CASE s = "init" -> "caps" [] s = "publishing" -> "produce" [] s = "listing" -> "list" [] OTHER -> "none"
TracksOnce == \A p \in Peers, x \in Producers : Once(p, TrackTokens(x), consume[p][x])
PagesOnce == \A p \in Peers : Once(p, PageTokens, WaitsFor(stage[p]))

LEMMA TokenIs ==
    /\ \A x, m : Token(TrackTokens(x), m) <=> m.kind \in TrackKinds /\ m.of = {x}
    /\ \A m \in Requests \cup Messages : Token(PageTokens, m) <=> m.kind \in PageKinds
    /\ TrackKinds \cap PageKinds = {} /\ Kinds = TrackKinds \cup PageKinds
BY DEF Token, TrackTokens, PageTokens, Requests, Messages, TrackKinds, PageKinds, Kinds

\* Nobody waits, and nothing is on its way.
Idle(p, T) ==
    /\ \A r \in requests : ~Asks(p, T, r)
    /\ \A i \in At(p) : ~Token(T, inbox[p][i])

LEMMA TrackIdle ==
    ASSUME TracksOnce, NEW p \in Peers, NEW x \in Producers, consume[p][x] \notin TrackKinds
    PROVE  Idle(p, TrackTokens(x))
<1>1. Once(p, TrackTokens(x), consume[p][x])
  BY DEF TracksOnce
<1> QED BY <1>1, TokenIs DEF Once, Idle, Asks

LEMMA PageIdle ==
    ASSUME SfuTypeOK, PagesOnce, NEW p \in Peers, stage[p] \notin {"init", "publishing", "listing"}
    PROVE  Idle(p, PageTokens)
<1>1. Once(p, PageTokens, "none") /\ "none" \notin PageKinds
  BY DEF PagesOnce, WaitsFor, PageKinds
<1>2. \A r \in requests : Token(PageTokens, r) => r.kind \in PageKinds
  BY TokenIs DEF SfuTypeOK
<1>3. \A i \in At(p) : Token(PageTokens, inbox[p][i]) => inbox[p][i].kind \in PageKinds
  BY TokenIs, InboxFacts
<1> QED BY <1>1, <1>2, <1>3 DEF Once, Idle, Asks

\* Steps that are not about the tokens.
LEMMA OnceKept ==
    ASSUME SfuTypeOK, NEW p \in Peers, NEW T, NEW now, Once(p, T, now),
           \A r \in requests' : Asks(p, T, r) => r \in requests,
           inbox'[p] = inbox[p] \/ \E k \in At(p) : Cuts(p, k)
    PROVE  Once(p, T, now)'
<1> PICK n \in Nat : n = Len(inbox[p])
  BY InboxFacts
<1>1. CASE inbox'[p] = inbox[p]
  BY <1>1 DEF Once, At
<1>2. ASSUME NEW k \in At(p), Cuts(p, k) PROVE Once(p, T, now)'
  <2>1. /\ n \in Nat /\ k \in 1..n /\ Len(inbox'[p]) = n - 1
        /\ \A i \in 1..n - 1 : inbox'[p][i] = inbox[p][IF i < k THEN i ELSE i + 1]
    BY <1>2 DEF Cuts, At
  <2>2. \A i \in 1..n - 1 : (IF i < k THEN i ELSE i + 1) \in 1..n
    BY <2>1
  <2>3. \A i, j \in 1..n - 1 : (IF i < k THEN i ELSE i + 1) = (IF j < k THEN j ELSE j + 1) => i = j
    BY <2>1
  <2>4. \A i \in 1..n - 1 : \E j \in 1..n : inbox'[p][i] = inbox[p][j]
    BY <2>1, <2>2
  <2>5. ASSUME NEW i \in 1..n - 1, NEW j \in 1..n - 1, Token(T, inbox'[p][i]), Token(T, inbox'[p][j])
        PROVE  i = j
    <3>1. (IF i < k THEN i ELSE i + 1) \in At(p) /\ (IF j < k THEN j ELSE j + 1) \in At(p)
      BY <2>2 DEF At
    <3>2. Token(T, inbox[p][IF i < k THEN i ELSE i + 1]) /\ Token(T, inbox[p][IF j < k THEN j ELSE j + 1])
      BY <2>1, <2>5
    <3>3. (IF i < k THEN i ELSE i + 1) = (IF j < k THEN j ELSE j + 1)
      BY <3>1, <3>2 DEF Once
    <3> QED BY <2>3, <3>3
  <2>6. \A r \in requests' : Asks(p, T, r) => r.kind = now /\ (\A s \in requests' : Asks(p, T, s) => s = r)
                                              /\ \A j \in 1..n : ~Token(T, inbox[p][j])
    BY DEF Once, At
  <2>7. \A j \in 1..n : Token(T, inbox[p][j]) => inbox[p][j].kind = now
    BY DEF Once, At
  <2> QED BY <2>1, <2>4, <2>5, <2>6, <2>7 DEF Once, At
<1> QED BY <1>1, <1>2

LEMMA OnceExtended ==
    ASSUME SfuTypeOK, NEW p \in Peers, NEW T, NEW now, Once(p, T, now),
           \A r \in requests' : Asks(p, T, r) => r \in requests,
           NEW M, Extends(p, M), \A m \in M : ~Token(T, m)
    PROVE  Once(p, T, now)'
<1>1. \A i \in 1..Len(inbox'[p]) : Token(T, inbox'[p][i]) => i \in At(p) /\ inbox'[p][i] = inbox[p][i]
  BY DEF Extends
<1>2. \A r \in requests' : Asks(p, T, r) => \A i \in At(p) : ~Token(T, inbox[p][i])
  BY DEF Once
<1> QED BY <1>1, <1>2 DEF Once, At

\* The answer is handled, or given up.
LEMMA OnceTaken ==
    ASSUME SfuTypeOK, NEW p \in Peers, NEW T, NEW now, Once(p, T, now),
           NEW k \in At(p), Cuts(p, k), Token(T, inbox[p][k])
    PROVE  /\ \A r \in requests : ~Asks(p, T, r)
           /\ \A i \in 1..Len(inbox'[p]) : ~Token(T, inbox'[p][i])
<1>1. \A r \in requests : ~Asks(p, T, r)
  BY DEF Once
<1>2. \A j \in At(p) : Token(T, inbox[p][j]) => j = k
  BY DEF Once
<1>3. ASSUME NEW i \in 1..Len(inbox'[p]) PROVE ~Token(T, inbox'[p][i])
  <2>1. Len(inbox[p]) \in Nat /\ k \in 1..Len(inbox[p]) /\ i \in 1..Len(inbox[p]) - 1
    BY InboxFacts DEF Cuts, At
  <2>2. (IF i < k THEN i ELSE i + 1) \in At(p) \ {k}
    BY <2>1 DEF At
  <2> QED BY <1>2, <2>1, <2>2 DEF Cuts
<1> QED BY <1>1, <1>3

LEMMA OnceGivenUp ==
    ASSUME NEW p \in Peers, NEW T, NEW now, Once(p, T, now), UNCHANGED inbox,
           NEW r \in requests, Asks(p, T, r),
           \A s \in requests' : Asks(p, T, s) => s \in requests \ {r}
    PROVE  Idle(p, T)'
BY DEF Once, Idle, At

\* Something new is asked for.
LEMMA OnceNew ==
    ASSUME NEW p \in Peers, NEW T, NEW now,
           \A r \in requests' : Asks(p, T, r) => r.kind = now /\ \A s \in requests' : Asks(p, T, s) => s = r,
           \A i \in 1..Len(inbox'[p]) : ~Token(T, inbox'[p][i])
    PROVE  Once(p, T, now)'
BY DEF Once, At

\* A request is answered.
LEMMA OnceAnswered ==
    ASSUME SfuTypeOK, NEW p \in Peers, NEW T, NEW now, Once(p, T, now),
           NEW r \in requests, Asks(p, T, r), requests' = requests \ {r},
           NEW m \in Messages, m.kind = r.kind, Token(T, m),
           inbox' = [inbox EXCEPT ![p] = Append(@, m)]
    PROVE  Once(p, T, now)'
<1>1. \A s \in requests' : ~Asks(p, T, s)
  BY DEF Once
<1>2. \A i \in At(p) : ~Token(T, inbox[p][i])
  BY DEF Once
<1>3. Extends(p, {m})
  BY AppendedInbox
<1>4. Len(inbox'[p]) = Len(inbox[p]) + 1 /\ Len(inbox[p]) \in Nat
  BY AppendedInbox, InboxFacts
<1>5. \A i \in 1..Len(inbox'[p]) : Token(T, inbox'[p][i]) => i = Len(inbox[p]) + 1 /\ inbox'[p][i] = m
  BY <1>2, <1>3, <1>4 DEF Extends, At
<1>6. m.kind = now
  BY DEF Once
<1> QED BY <1>1, <1>5, <1>6 DEF Once, At

\* It is decided what its answer will be.
LEMMA OnceDecided ==
    ASSUME NEW p \in Peers, NEW T, NEW now, Once(p, T, now),
           NEW r \in requests, NEW d, d.who = r.who, d.awaited = r.awaited, d.kind = r.kind, d.of = r.of,
           requests' = (requests \ {r}) \cup {d},
           NEW M, Extends(p, M), \A m \in M : ~Token(T, m)
    PROVE  Once(p, T, now)'
<1>1. \A i \in 1..Len(inbox'[p]) : Token(T, inbox'[p][i]) => i \in At(p) /\ inbox'[p][i] = inbox[p][i]
  BY DEF Extends
<1>2. Asks(p, T, d) <=> Asks(p, T, r)
  BY DEF Asks, Token
<1>3. ASSUME NEW s \in requests', Asks(p, T, s)
      PROVE  s.kind = now /\ (\A i \in At(p) : ~Token(T, inbox[p][i])) /\ \A t \in requests' : Asks(p, T, t) => t = s
  <2>1. CASE Asks(p, T, r)
    <3>1. \A t \in requests : Asks(p, T, t) => t = r
      BY <2>1 DEF Once
    <3>2. r.kind = now /\ \A i \in At(p) : ~Token(T, inbox[p][i])
      BY <2>1 DEF Once
    <3>3. \A t \in requests' : Asks(p, T, t) => t = d
      BY <3>1
    <3> QED BY <1>3, <3>2, <3>3
  <2>2. CASE ~Asks(p, T, r)
    <3>1. \A t \in requests' : Asks(p, T, t) => t \in requests
      BY <1>2, <2>2
    <3> QED BY <1>3, <3>1 DEF Once
  <2> QED BY <2>1, <2>2
<1> QED BY <1>1, <1>3 DEF Once, At

(***************************************************************************)
(* Tiles, and what covers a producer                                       *)
(***************************************************************************)
\* x lives, or p will hear of its end.
Due(p, x) == x \in live \/ \E j \in At(p) : inbox[p][j] = Closing(x)

\* What is said to be consumed without a consumer has ended.
Consumers ==
    \A p \in Peers, x \in Producers :
        /\ consume[p][x] = "closed" => Left(x)
        /\ consume[p][x] = "resume" /\ x \notin consumers[p] => Left(x)

\* The closing of what p shows, or is about to show, is still to come.
TileOK(p, x) ==
    /\ consume[p][x] = "shown" => x \in consumers[p] /\ Due(p, x)
    /\ \A i \in At(p) : inbox[p][i] = ResumeOk(x) =>
          /\ x \in consumers[p] /\ Due(p, x)
          /\ \A j \in At(p) : inbox[p][j] = Closing(x) => j > i
Tiles ==
    ~overtaken =>
        /\ \A r \in requests : r.kind = "resume" /\ r.status = "ok" => r.of \subseteq live
        /\ \A p \in Peers, x \in Producers : TileOK(p, x)

\* p is consuming x, or will hear of it; else it is in the list that p is told, or works on.
Coming(p, x) ==
    consume[p][x] \in Pending \cup {"shown"} \/ \E j \in At(p) : inbox[p][j] = Announced(x)
CoverOK(p, x) ==
    /\ \A i \in At(p) : inbox[p][i].kind = "list" => x \in inbox[p][i].of \/ Coming(p, x)
    /\ stage[p] \in {"consuming", "ready"} => x \in queue[p] \/ Coming(p, x)
Covered ==
    Listening /\ ~twice =>
        /\ live \subseteq registry
        /\ timeouts = 0 => \A p \in Peers, x \in live : Owner[x] # p => CoverOK(p, x)

\* Nothing was published, and no page got further, without the router.
Working == {"loading", "publish", "publishing", "listing", "consuming", "ready"}
Routed ==
    /\ pc[Room] \in {"start", "attaching", "done", "failed"}
    /\ \A c \in Callers : pc[c] = "done" => router
    /\ \A p \in Peers : stage[p] \in Working => router
    /\ \A p \in Peers : \A i \in At(p) : inbox[p][i].kind = "caps" /\ inbox[p][i].ok => router
    /\ \A r \in requests : r.kind = "produce" => router
    /\ live # {} => router
Finished == \A p \in Peers : stage[p] = "ready" => queue[p] = {}

\* Lists are of what lives.
Registered == registry \subseteq live

SeenInv ==
    /\ BaseInv /\ TracksOnce /\ PagesOnce /\ Consumers /\ Tiles /\ Routed /\ Covered /\ Finished /\ Registered

LEMMA MessageIs ==
    ASSUME NEW x
    PROVE  /\ Closing(x).kind = "producer-closed" /\ Closing(x).of = {x} /\ Closing(x).ok
           /\ Announced(x).kind = "new-producer" /\ Announced(x).of = {x} /\ Announced(x).ok
           /\ ResumeOk(x).kind = "resume" /\ ResumeOk(x).of = {x} /\ ResumeOk(x).ok
BY DEF Message, Closing, Announced, ResumeOk

\* Cutting something else than the closing leaves it to come.
LEMMA TileCut ==
    ASSUME SfuTypeOK, NEW p \in Peers, NEW x \in Producers, TileOK(p, x), UNCHANGED live,
           NEW k \in At(p), Cuts(p, k), inbox[p][k] # Closing(x),
           consume'[p][x] = "shown" => consume[p][x] = "shown" \/ inbox[p][k] = ResumeOk(x),
           x \in consumers[p] => x \in consumers'[p]
    PROVE  TileOK(p, x)'
<1>1. PICK n \in Nat : n = Len(inbox[p])
  BY InboxFacts
<1>2. /\ k \in 1..n /\ Len(inbox'[p]) = n - 1
      /\ \A i \in 1..n - 1 : inbox'[p][i] = inbox[p][IF i < k THEN i ELSE i + 1]
  BY <1>1 DEF Cuts, At
<1>3. \A i \in 1..n - 1 : (IF i < k THEN i ELSE i + 1) \in 1..n
  BY <1>2
<1>4. Due(p, x) => Due(p, x)'
  <2> SUFFICES ASSUME NEW j \in 1..n, inbox[p][j] = Closing(x) PROVE \E i \in 1..n - 1 : inbox'[p][i] = Closing(x)
    BY <1>1, <1>2 DEF Due, At, Closing, Message
  <2>1. CASE j < k
    <3>1. j \in 1..n - 1
      BY <1>2, <2>1
    <3> QED BY <1>2, <2>1, <3>1
  <2>2. CASE ~(j < k)
    <3>1. j # k
      OBVIOUS
    <3>2. j - 1 \in 1..n - 1 /\ ~(j - 1 < k) /\ (j - 1) + 1 = j
      BY <1>2, <2>2, <3>1
    <3> QED BY <1>2, <3>2
  <2> QED BY <2>1, <2>2
<1>5. ASSUME NEW i \in 1..n - 1, inbox'[p][i] = ResumeOk(x)
      PROVE  /\ x \in consumers[p] /\ Due(p, x)
             /\ \A j \in 1..n - 1 : inbox'[p][j] = Closing(x) => j > i
  <2>0. PICK a : a = IF i < k THEN i ELSE i + 1
    OBVIOUS
  <2>1. a \in 1..n /\ inbox[p][a] = ResumeOk(x)
    BY <1>2, <1>3, <1>5, <2>0
  <2>2. x \in consumers[p] /\ Due(p, x) /\ \A j \in 1..n : inbox[p][j] = Closing(x) => j > a
    BY <1>1, <2>1 DEF TileOK, At
  <2>3. ASSUME NEW j \in 1..n - 1, inbox'[p][j] = Closing(x) PROVE j > i
    <3>0. PICK b : b = IF j < k THEN j ELSE j + 1
      OBVIOUS
    <3>1. b \in 1..n /\ inbox[p][b] = Closing(x)
      BY <1>2, <1>3, <2>3, <3>0
    <3>2. b > a
      BY <2>2, <3>1
    <3> QED BY <1>2, <2>0, <3>0, <3>2
  <2> QED BY <2>2, <2>3
<1>6. At(p)' = 1..n - 1
  BY <1>2 DEF At
<1> QED BY <1>1, <1>2, <1>4, <1>5, <1>6 DEF TileOK

\* The closing arrives.
LEMMA TileEnds ==
    ASSUME SfuTypeOK, NEW p \in Peers, NEW x \in Producers, TileOK(p, x),
           consume'[p][x] # "shown", 1 \in At(p), Cuts(p, 1), inbox[p][1] = Closing(x)
    PROVE  TileOK(p, x)'
<1>1. PICK n \in Nat : n = Len(inbox[p])
  BY InboxFacts
<1>2. \A i \in 1..n : inbox[p][i] # ResumeOk(x)
  BY <1>1 DEF TileOK, At
<1>3. \A i \in 1..Len(inbox'[p]) : \E j \in 1..n : inbox'[p][i] = inbox[p][j]
  BY <1>1, StillThere DEF At
<1>4. \A i \in 1..Len(inbox'[p]) : inbox'[p][i] # ResumeOk(x)
  BY <1>2, <1>3
<1>5. At(p)' = 1..Len(inbox'[p]) /\ ResumeOk(x)' = ResumeOk(x)
  BY DEF At, ResumeOk, Message
<1> QED BY <1>4, <1>5 DEF TileOK

\* Nothing arrives.
LEMMA TileKept ==
    ASSUME NEW p \in Peers, NEW x \in Producers, TileOK(p, x), UNCHANGED live, inbox'[p] = inbox[p],
           consume'[p][x] = "shown" => consume[p][x] = "shown",
           x \in consumers[p] => x \in consumers'[p]
    PROVE  TileOK(p, x)'
BY DEF TileOK, Due, At, ResumeOk, Closing, Message

LEMMA CoverKept ==
    ASSUME SfuTypeOK, NEW p \in Peers, NEW x \in Producers, CoverOK(p, x),
           Coming(p, x) => Coming(p, x)', inbox'[p] = inbox[p] \/ \E k \in At(p) : Cuts(p, k),
           stage'[p] \in {"consuming", "ready"} /\ stage[p] \in {"consuming", "ready"} /\ x \in queue[p] =>
              x \in queue'[p] \/ Coming(p, x)',
           stage'[p] \in {"consuming", "ready"} /\ stage[p] \notin {"consuming", "ready"} =>
              x \in queue'[p] \/ Coming(p, x)'
    PROVE  CoverOK(p, x)'
<1>1. \A i \in 1..Len(inbox'[p]) : \E j \in At(p) : inbox'[p][i] = inbox[p][j]
  BY StillThere
<1>2. \A i \in 1..Len(inbox'[p]) : inbox'[p][i].kind = "list" => x \in inbox'[p][i].of \/ Coming(p, x)'
  BY <1>1 DEF CoverOK
<1>3. stage'[p] \in {"consuming", "ready"} => x \in queue'[p] \/ Coming(p, x)'
  BY DEF CoverOK
<1> QED BY <1>2, <1>3 DEF CoverOK, At

\* What is coming still is, unless it is what p hears of.
LEMMA ComingKept ==
    ASSUME SfuTypeOK, NEW p \in Peers, NEW x \in Producers, Coming(p, x),
           consume[p][x] \in Pending \cup {"shown"} => consume'[p][x] \in Pending \cup {"shown"},
           inbox'[p] = inbox[p] \/ \E k \in At(p) : Cuts(p, k) /\
                (inbox[p][k] = Announced(x) => consume'[p][x] \in Pending \cup {"shown"})
    PROVE  Coming(p, x)'
<1>1. CASE consume'[p][x] \in Pending \cup {"shown"}
  BY <1>1 DEF Coming
<1>2. CASE consume'[p][x] \notin Pending \cup {"shown"}
  <2>1. PICK j \in At(p) : inbox[p][j] = Announced(x)
    BY <1>2 DEF Coming
  <2>2. CASE inbox'[p] = inbox[p]
    BY <2>1, <2>2 DEF Coming, At, Announced, Message
  <2>3. ASSUME NEW k \in At(p), Cuts(p, k), inbox[p][k] # Announced(x) PROVE Coming(p, x)'
    <3>1. PICK n \in Nat : n = Len(inbox[p])
      BY InboxFacts
    <3>2. /\ k \in 1..n /\ j \in 1..n /\ j # k /\ Len(inbox'[p]) = n - 1
          /\ \A i \in 1..n - 1 : inbox'[p][i] = inbox[p][IF i < k THEN i ELSE i + 1]
      BY <2>1, <2>3, <3>1 DEF Cuts, At
    <3>3. PICK i : i = IF j < k THEN j ELSE j - 1
      OBVIOUS
    <3>4. i \in 1..n - 1 /\ (IF i < k THEN i ELSE i + 1) = j
      BY <3>2, <3>3
    <3>5. inbox'[p][i] = Announced(x) /\ i \in 1..Len(inbox'[p])
      BY <2>1, <3>2, <3>4
    <3> QED BY <3>5 DEF Coming, At, Announced, Message
  <2> QED BY <1>2, <2>2, <2>3
<1> QED BY <1>1, <1>2

(***************************************************************************)
(* SeenInv: the steps of a page                                            *)
(***************************************************************************)
\* What p's page does leaves the room and the other pages alone, and asks for what it may.
PageMoves(p) ==
    /\ UNCHANGED <<serviceVars, roomVars>> /\ SfuTypeOK'
    /\ timeouts' # 0 \/ timeouts = 0
    /\ ~Away(p) /\ stage'[p] \notin {"out", "left"}
    /\ stage'[p] = "joined" => stage[p] = "joined" /\ UNCHANGED <<requests, consume, queue>>
    /\ \A q \in Peers \ {p} : /\ stage'[q] = stage[q] /\ consume'[q] = consume[q]
                              /\ queue'[q] = queue[q] /\ inbox'[q] = inbox[q]
                              /\ consumers'[q] = consumers[q]
    /\ inbox'[p] = inbox[p] \/ \E k \in At(p) : Cuts(p, k)
    /\ \A r \in requests' \ requests :
          /\ r.who = p /\ RequestOK(r) /\ (Listening \/ r.kind \notin TrackKinds)
          /\ r.kind = "produce" => router
          /\ r.kind = "resume" /\ r.status = "ok" /\ ~overtaken => r.of \subseteq live

\* What it makes of its requests and of x.
PageKeeps(p) ==
    /\ stage'[p] \in Working => router
    /\ stage'[p] = "ready" => queue'[p] = {}
    /\ Once(p, PageTokens, WaitsFor(stage[p]))'
TrackKeeps(p, x) ==
    /\ consume'[p][x] # "no" \/ x \in queue'[p] => Owner[x] # p /\ Known(x) /\ Listening
    /\ consume'[p][x] = "closed" => Left(x)
    /\ consume'[p][x] = "resume" /\ x \notin consumers'[p] => Left(x)
    /\ ~overtaken => TileOK(p, x)'
    /\ Listening /\ ~twice /\ timeouts' = 0 /\ x \in live /\ Owner[x] # p => CoverOK(p, x)'
    /\ Once(p, TrackTokens(x), consume[p][x])'

LEMMA PageMove ==
    ASSUME SeenInv, NEW p \in Peers, PageMoves(p), PageKeeps(p), \A x \in Producers : TrackKeeps(p, x)
    PROVE  SeenInv'
<1> USE DEF SeenInv
<1>1. UNCHANGED <<router, pc, twice, present, live, registry, overtaken>> /\ (Listening' <=> Listening)
  BY DEF PageMoves, serviceVars, roomVars, Listening
<1>2. \A x \in Producers : Owner[x] \in Peers /\ (Left(x)' <=> Left(x))
  BY <1>1, SignalingAssumption DEF PageMoves, Left, Away
<1>3. SfuTypeOK /\ \A r \in requests' : r \in requests \/ r.who = p
  BY DEF PageMoves, BaseInv
<1>4. BaseInv'
  <2>1. \A x \in Producers : consume'[p][x] # "no" \/ x \in queue'[p] => Owner[x] # p /\ Known(x) /\ Listening
    BY DEF TrackKeeps
  <2> QED BY <2>1, PageStep DEF PageMoves
<1>5. ASSUME NEW q \in Peers \ {p} PROVE /\ Once(q, PageTokens, WaitsFor(stage[q]))'
                                         /\ \A x \in Producers : Once(q, TrackTokens(x), consume[q][x])'
  <2>1. stage'[q] = stage[q] /\ consume'[q] = consume[q] /\ inbox'[q] = inbox[q]
    BY DEF PageMoves
  <2>2. \A T : \A r \in requests' : Asks(q, T, r) => r \in requests
    BY <1>3 DEF Asks
  <2>3. PICK a : a = WaitsFor(stage[q])
    OBVIOUS
  <2>4. Once(q, PageTokens, a)
    BY <2>3 DEF PagesOnce
  <2>5. Once(q, PageTokens, a)'
    BY <1>3, <2>1, <2>2, <2>4, OnceKept
  <2>6. Once(q, PageTokens, WaitsFor(stage[q]))'
    BY <2>1, <2>3, <2>5 DEF Once, WaitsFor
  <2>7. ASSUME NEW x \in Producers PROVE Once(q, TrackTokens(x), consume[q][x])'
    <3>1. PICK b : b = consume[q][x]
      OBVIOUS
    <3>2. Once(q, TrackTokens(x), b)
      BY <3>1 DEF TracksOnce
    <3>3. Once(q, TrackTokens(x), b)'
      BY <1>3, <2>1, <2>2, <3>2, OnceKept
    <3> QED BY <2>1, <3>1, <3>3 DEF Once
  <2> QED BY <2>6, <2>7
<1>6. PagesOnce' /\ TracksOnce'
  BY <1>5 DEF PagesOnce, TracksOnce, PageKeeps, TrackKeeps
<1>7. Consumers'
  BY <1>2 DEF Consumers, PageMoves, TrackKeeps
<1>8. Tiles'
  <2> SUFFICES ASSUME ~overtaken PROVE /\ \A r \in requests' : r.kind = "resume" /\ r.status = "ok" => r.of \subseteq live
                                       /\ \A q \in Peers, x \in Producers : TileOK(q, x)'
    BY <1>1 DEF Tiles
  <2>1. \A q \in Peers \ {p}, x \in Producers : TileOK(q, x)'
    BY <1>1, TileKept DEF Tiles, PageMoves
  <2>2. \A x \in Producers : TileOK(p, x)'
    BY DEF TrackKeeps
  <2>3. \A r \in requests' : r.kind = "resume" /\ r.status = "ok" => r.of \subseteq live
    BY DEF Tiles, PageMoves
  <2> QED BY <2>1, <2>2, <2>3
<1>9. Routed'
  <2>1. \A q \in Peers : \A i \in 1..Len(inbox'[q]) : inbox'[q][i].kind = "caps" /\ inbox'[q][i].ok => router
    <3>1. \A q \in Peers : \A i \in 1..Len(inbox'[q]) : \E j \in At(q) : inbox'[q][i] = inbox[q][j]
      BY <1>3, StillThere DEF PageMoves
    <3> QED BY <3>1 DEF Routed
  <2>2. \A q \in Peers : stage'[q] \in Working => router
    BY DEF Routed, PageMoves, PageKeeps
  <2>3. \A r \in requests' : r.kind = "produce" => router
    BY DEF Routed, PageMoves
  <2> QED BY <1>1, <2>1, <2>2, <2>3 DEF Routed, At
<1>10. Covered'
  <2> SUFFICES ASSUME Listening, ~twice, timeouts' = 0, NEW q \in Peers, NEW x \in live, Owner[x] # q
               PROVE  CoverOK(q, x)'
    BY <1>1 DEF Covered
  <2>1. CASE q = p
    BY <1>3, <2>1 DEF TrackKeeps, SfuTypeOK
  <2>2. CASE q # p
    <3>1. CoverOK(q, x)
      BY DEF Covered, PageMoves
    <3>2. stage'[q] = stage[q] /\ consume'[q] = consume[q] /\ queue'[q] = queue[q] /\ inbox'[q] = inbox[q]
      BY <2>2 DEF PageMoves
    <3> QED BY <3>1, <3>2 DEF CoverOK, Coming, At, Announced, Message
  <2> QED BY <2>1, <2>2
<1>11. Finished'
  BY DEF Finished, PageMoves, PageKeeps
<1>12. Registered'
  BY <1>1 DEF Registered
<1> QED BY <1>4, <1>6, <1>7, <1>8, <1>9, <1>10, <1>11, <1>12

\* A step that does not touch x.
LEMMA TrackUntouched ==
    ASSUME SeenInv, NEW p \in Peers, PageMoves(p), NEW x \in Producers,
           consume'[p][x] = consume[p][x],
           x \in consumers'[p] <=> x \in consumers[p],
           x \in queue'[p] => x \in queue[p],
           Listening /\ ~twice /\ timeouts' = 0 /\ x \in live /\ Owner[x] # p => CoverOK(p, x)',
           \A r \in requests' : Asks(p, TrackTokens(x), r) => r \in requests,
           \/ inbox'[p] = inbox[p]
           \/ \E k \in At(p) : Cuts(p, k) /\ inbox[p][k] # Closing(x)
    PROVE  TrackKeeps(p, x)
<1> USE DEF SeenInv, BaseInv
<1>1. consume'[p][x] # "no" \/ x \in queue'[p] => Owner[x] # p /\ Known(x) /\ Listening
  BY DEF WellFormed, Silent
<1>2. /\ consume'[p][x] = "closed" => Left(x)
      /\ consume'[p][x] = "resume" /\ x \notin consumers'[p] => Left(x)
  BY DEF Consumers
<1>3. ~overtaken => TileOK(p, x)'
  <2> SUFFICES ASSUME ~overtaken PROVE TileOK(p, x)'
    OBVIOUS
  <2>1. TileOK(p, x) /\ UNCHANGED live
    BY DEF Tiles, PageMoves, roomVars
  <2>2. CASE inbox'[p] = inbox[p]
    BY <2>1, <2>2, TileKept
  <2>3. ASSUME NEW k \in At(p), Cuts(p, k), inbox[p][k] # Closing(x) PROVE TileOK(p, x)'
    BY <2>1, <2>3, TileCut
  <2> QED BY <2>2, <2>3
<1>4. PICK b : b = consume[p][x]
  OBVIOUS
<1>5. Once(p, TrackTokens(x), b)
  BY <1>4 DEF TracksOnce
<1>6. Once(p, TrackTokens(x), b)'
  BY <1>5, OnceKept
<1>7. Once(p, TrackTokens(x), consume[p][x])'
  BY <1>4, <1>6 DEF Once
<1> QED BY <1>1, <1>2, <1>3, <1>7 DEF TrackKeeps

\* Where nothing is done with the list, what covers x still does.
LEMMA CoverStays ==
    ASSUME SeenInv, NEW p \in Peers, PageMoves(p), NEW x \in live, Owner[x] # p,
           Listening, ~twice, timeouts' = 0,
           consume[p][x] \in Pending \cup {"shown"} => consume'[p][x] \in Pending \cup {"shown"},
           inbox'[p] = inbox[p] \/ \E k \in At(p) : Cuts(p, k) /\
                (inbox[p][k] = Announced(x) => consume'[p][x] \in Pending \cup {"shown"}),
           stage'[p] \in {"consuming", "ready"} => stage[p] \in {"consuming", "ready"},
           x \in queue[p] => x \in queue'[p] \/ consume'[p][x] \in Pending \cup {"shown"}
    PROVE  CoverOK(p, x)'
<1>1. SfuTypeOK /\ x \in Producers
  BY DEF SeenInv, BaseInv, SfuTypeOK
<1>2. CoverOK(p, x)
  BY DEF SeenInv, Covered, PageMoves
<1>3. Coming(p, x) => Coming(p, x)'
  BY <1>1, ComingKept
<1>4. x \in queue[p] => x \in queue'[p] \/ Coming(p, x)'
  BY DEF Coming
<1>5. inbox'[p] = inbox[p] \/ \E k \in At(p) : Cuts(p, k)
  OBVIOUS
<1> QED BY <1>1, <1>2, <1>3, <1>4, <1>5, CoverKept

\* A step that leaves the page's requests alone.
LEMMA PageUntouched ==
    ASSUME SeenInv, NEW p \in Peers, PageMoves(p), stage'[p] = stage[p], UNCHANGED queue,
           \A r \in requests' : Asks(p, PageTokens, r) => r \in requests
    PROVE  PageKeeps(p)
<1> USE DEF SeenInv, BaseInv
<1>1. PICK a : a = WaitsFor(stage[p])
  OBVIOUS
<1>2. Once(p, PageTokens, a) /\ (inbox'[p] = inbox[p] \/ \E k \in At(p) : Cuts(p, k))
  BY <1>1 DEF PagesOnce, PageMoves
<1>3. Once(p, PageTokens, a)'
  BY <1>2, OnceKept
<1>4. Once(p, PageTokens, WaitsFor(stage[p]))'
  BY <1>1, <1>3 DEF Once, WaitsFor
<1> QED BY <1>4 DEF PageKeeps, Routed, Finished

(***************************************************************************)
(* SeenInv: what a page does by itself                                     *)
(***************************************************************************)
\* The page asks for something of its own.
LEMMA PageAsks ==
    ASSUME SeenInv, NEW p \in Peers, NEW kind \in PageKinds, NEW xs \in SUBSET Producers,
           Ask(p, kind, xs), stage[p] \notin {"init", "publishing", "listing"},
           inbox'[p] = inbox[p], WaitsFor(stage'[p]) = kind
    PROVE  /\ Once(p, PageTokens, WaitsFor(stage[p]))'
           /\ \A x \in Producers : \A r \in requests' : Asks(p, TrackTokens(x), r) => r \in requests
<1> USE DEF SeenInv, BaseInv
<1>1. PICK r \in Requests : /\ requests' = requests \cup {r} /\ requests' \subseteq Requests
                            /\ r.who = p /\ r.kind = kind /\ r.of = xs /\ r.awaited /\ r.status = "sent"
  BY RequestFacts, TokenIs
<1>2. Idle(p, PageTokens)
  BY PageIdle
<1>3. \A s \in requests' : Asks(p, PageTokens, s) => s = r
  BY <1>1, <1>2 DEF Idle
<1>4. \A i \in 1..Len(inbox'[p]) : ~Token(PageTokens, inbox'[p][i])
  BY <1>2 DEF Idle, At
<1>5. Once(p, PageTokens, kind)'
  BY <1>1, <1>3, <1>4, OnceNew
<1>6. Once(p, PageTokens, WaitsFor(stage[p]))'
  BY <1>5 DEF Once, WaitsFor
<1>7. \A x \in Producers : ~Asks(p, TrackTokens(x), r)
  BY <1>1, TokenIs DEF Asks
<1> QED BY <1>1, <1>6, <1>7

LEMMA StartSeen == ASSUME SeenInv, NEW p \in Peers, Start(p) PROVE SeenInv'
<1> USE DEF BaseInv
<1>0. SfuTypeOK /\ BaseInv
  BY DEF SeenInv
<1>1. /\ stage[p] = "joined" /\ GoTo(p, "init") /\ Ask(p, "caps", {})
      /\ UNCHANGED <<serviceVars, roomVars, inbox, queue, current, recv, consume, consumers, timeouts>>
  BY DEF Start, clientVars
<1>2. PICK r \in Requests : /\ requests' = requests \cup {r} /\ requests' \subseteq Requests
                            /\ r.who = p /\ r.kind = "caps" /\ r.status = "sent"
  BY <1>0, <1>1, RequestFacts DEF Kinds
<1>3. stage' \in [Peers -> Stages] /\ stage'[p] = "init" /\ \A q \in Peers \ {p} : stage'[q] = stage[q]
  BY <1>0, <1>1, GoFacts DEF Stages
<1>4. SfuTypeOK'
  BY <1>0, <1>1, <1>2, <1>3 DEF SfuTypeOK, roomVars
<1>5. PageMoves(p)
  <2>1. RequestOK(r) /\ r.kind \notin TrackKinds /\ r.kind # "produce" /\ r.kind # "resume"
    BY <1>2 DEF RequestOK, TrackKinds
  <2> QED BY <1>1, <1>2, <1>3, <1>4, <2>1 DEF PageMoves, Away
<1>6. WaitsFor(stage'[p]) = "caps" /\ "caps" \in PageKinds
  BY <1>3 DEF WaitsFor, PageKinds
<1>7. PageKeeps(p) /\ \A x \in Producers : \A s \in requests' : Asks(p, TrackTokens(x), s) => s \in requests
  BY <1>1, <1>3, <1>6, PageAsks DEF PageKeeps, Working
<1>8. \A x \in Producers : TrackKeeps(p, x)
  BY <1>1, <1>3, <1>5, <1>7, TrackUntouched, CoverStays
<1> QED BY <1>5, <1>7, <1>8, PageMove

LEMMA LoadedSeen == ASSUME SeenInv, NEW p \in Peers, Loaded(p) PROVE SeenInv'
<1> USE DEF BaseInv
<1>0. SfuTypeOK /\ BaseInv /\ Routed /\ PagesOnce
  BY DEF SeenInv
<1>1. /\ stage[p] = "loading" /\ GoTo(p, "publish")
      /\ UNCHANGED <<serviceVars, roomVars, requests, inbox, queue, current, recv, consume, consumers, timeouts>>
  BY DEF Loaded, clientVars, serverVars
<1>3. stage' \in [Peers -> Stages] /\ stage'[p] = "publish" /\ \A q \in Peers \ {p} : stage'[q] = stage[q]
  BY <1>0, <1>1, GoFacts DEF Stages
<1>4. SfuTypeOK'
  BY <1>0, <1>1, <1>3 DEF SfuTypeOK, roomVars
<1>5. PageMoves(p)
  BY <1>1, <1>3, <1>4 DEF PageMoves, Away
<1>6. WaitsFor(stage'[p]) = "none" /\ WaitsFor(stage[p]) = "none"
  BY <1>1, <1>3 DEF WaitsFor
<1>7. PageKeeps(p)
  <2>1. Once(p, PageTokens, WaitsFor(stage[p]))'
    BY <1>0, <1>1, <1>6 DEF PagesOnce, Once, Asks, At, WaitsFor
  <2> QED BY <1>0, <1>1, <1>3, <2>1 DEF PageKeeps, Routed, Working
<1>8. \A x \in Producers : TrackKeeps(p, x)
  BY <1>1, <1>3, <1>5, TrackUntouched, CoverStays
<1> QED BY <1>5, <1>7, <1>8, PageMove

LEMMA PublishSeen == ASSUME SeenInv, NEW p \in Peers, Publish(p) PROVE SeenInv'
<1> USE DEF BaseInv
<1>0. SfuTypeOK /\ BaseInv /\ Routed
  BY DEF SeenInv
<1>1. /\ stage[p] = "publish" /\ router
      /\ UNCHANGED <<serviceVars, roomVars, inbox, queue, current, recv, consume, consumers, timeouts>>
  BY <1>0 DEF Publish, clientVars, Routed, Working
<1>2. PICK kind \in {"list", "produce"}, xs \in SUBSET Producers, label \in {"listing", "publishing"} :
         /\ Ask(p, kind, xs) /\ GoTo(p, label) /\ (kind = "list" <=> label = "listing")
         /\ kind = "produce" => \E x \in Producers : xs = {x} /\ Owner[x] = p
  <2>1. PICK tracks : tracks = {x \in Producers : Owner[x] = p} \ live
    OBVIOUS
  <2>2. CASE tracks = {}
    BY <2>1, <2>2 DEF Publish
  <2>3. CASE tracks # {}
    <3>1. PICK x \in tracks : Ask(p, "produce", {x}) /\ GoTo(p, "publishing")
      BY <2>1, <2>3 DEF Publish
    <3>2. x \in Producers /\ Owner[x] = p
      BY <2>1
    <3> QED BY <3>1, <3>2
  <2> QED BY <2>2, <2>3
<1>3. PICK r \in Requests : /\ requests' = requests \cup {r} /\ requests' \subseteq Requests
                            /\ r.who = p /\ r.kind = kind /\ r.of = xs /\ r.status = "sent"
  BY <1>0, <1>2, RequestFacts DEF Kinds
<1>4. stage' \in [Peers -> Stages] /\ stage'[p] = label /\ \A q \in Peers \ {p} : stage'[q] = stage[q]
  BY <1>0, <1>2, GoFacts DEF Stages
<1>5. SfuTypeOK'
  BY <1>0, <1>1, <1>3, <1>4 DEF SfuTypeOK, roomVars
<1>6. PageMoves(p)
  <2>1. RequestOK(r) /\ r.kind \notin TrackKinds /\ r.kind # "resume"
    BY <1>2, <1>3 DEF RequestOK, TrackKinds
  <2> QED BY <1>1, <1>3, <1>4, <1>5, <2>1 DEF PageMoves, Away
<1>7. WaitsFor(stage'[p]) = kind /\ kind \in PageKinds
  BY <1>2, <1>4 DEF WaitsFor, PageKinds
<1>8. PageKeeps(p) /\ \A x \in Producers : \A s \in requests' : Asks(p, TrackTokens(x), s) => s \in requests
  BY <1>1, <1>2, <1>4, <1>7, PageAsks DEF PageKeeps
<1>9. \A x \in Producers : TrackKeeps(p, x)
  BY <1>1, <1>4, <1>6, <1>8, TrackUntouched, CoverStays
<1> QED BY <1>6, <1>8, <1>9, PageMove

\* p asks about x, where nothing is on its way.
LEMMA TrackAsks ==
    ASSUME SeenInv, NEW p \in Peers, NEW x \in Producers, NEW v \in TrackKinds,
           Ask(p, v, {x}), Set(p, x, v),
           \A r \in requests : ~Asks(p, TrackTokens(x), r),
           \A i \in 1..Len(inbox'[p]) : ~Token(TrackTokens(x), inbox'[p][i])
    PROVE  /\ Once(p, TrackTokens(x), consume[p][x])'
           /\ \A y \in Producers \ {x} : \A r \in requests' : Asks(p, TrackTokens(y), r) => r \in requests
           /\ \A r \in requests' : Asks(p, PageTokens, r) => r \in requests
<1> USE DEF SeenInv, BaseInv
<1>1. PICK r \in Requests : /\ requests' = requests \cup {r} /\ requests' \subseteq Requests
                            /\ r.who = p /\ r.kind = v /\ r.of = {x} /\ r.awaited /\ r.status = "sent"
  BY RequestFacts, TokenIs
<1>2. \A s \in requests' : Asks(p, TrackTokens(x), s) => s = r
  BY <1>1
<1>3. Once(p, TrackTokens(x), v)'
  BY <1>1, <1>2, OnceNew
<1>4. consume'[p][x] = v
  BY SetFacts DEF TrackKinds, Steps
<1>5. Once(p, TrackTokens(x), consume[p][x])'
  BY <1>3, <1>4 DEF Once
<1>6. \A y \in Producers \ {x} : ~Asks(p, TrackTokens(y), r)
  BY <1>1, TokenIs DEF Asks
<1>7. ~Asks(p, PageTokens, r)
  BY <1>1, TokenIs DEF Asks
<1> QED BY <1>1, <1>5, <1>6, <1>7

\* Nobody has closed what lives.
LEMMA LiveOpen ==
    ASSUME SeenInv, NEW x \in live
    PROVE  x \in Producers /\ ~Left(x) /\ \A p \in Peers : consume[p][x] \in {"no", "shown"} \cup Pending
<1>1. x \in Producers /\ ~Left(x)
  BY DEF SeenInv, BaseInv, SfuTypeOK, Around, Left, Away
<1>2. \A p \in Peers : consume[p][x] \in Steps /\ consume[p][x] # "closed"
  BY <1>1 DEF SeenInv, BaseInv, SfuTypeOK, Consumers
<1> QED BY <1>1, <1>2 DEF Steps, Pending

LEMMA TrackAsked ==
    ASSUME SeenInv, NEW p \in Peers, PageMoves(p), NEW x \in Producers, NEW v \in TrackKinds,
           Ask(p, v, {x}), Set(p, x, v),
           \A r \in requests : ~Asks(p, TrackTokens(x), r),
           \A i \in 1..Len(inbox'[p]) : ~Token(TrackTokens(x), inbox'[p][i]),
           Owner[x] # p, Known(x), Listening,
           x \in consumers[p] => x \in consumers'[p], v = "resume" => x \in consumers'[p],
           \/ inbox'[p] = inbox[p]
           \/ \E k \in At(p) : Cuts(p, k) /\ inbox[p][k] # Closing(x),
           stage'[p] \in {"consuming", "ready"} => stage[p] \in {"consuming", "ready"}
    PROVE  TrackKeeps(p, x)
<1> USE DEF SeenInv, BaseInv
<1>1. consume'[p][x] = v /\ v \in Pending /\ v \notin {"no", "shown", "closed"}
  BY SetFacts DEF TrackKinds, Steps, Pending
<1>2. ~overtaken => TileOK(p, x)'
  <2> SUFFICES ASSUME ~overtaken PROVE TileOK(p, x)'
    OBVIOUS
  <2>1. TileOK(p, x) /\ UNCHANGED live
    BY DEF Tiles, PageMoves, roomVars
  <2>2. CASE inbox'[p] = inbox[p]
    BY <1>1, <2>1, <2>2, TileKept
  <2>3. ASSUME NEW k \in At(p), Cuts(p, k), inbox[p][k] # Closing(x) PROVE TileOK(p, x)'
    BY <1>1, <2>1, <2>3, TileCut
  <2> QED BY <2>2, <2>3
<1>3. Listening /\ ~twice /\ timeouts' = 0 /\ x \in live /\ Owner[x] # p => CoverOK(p, x)'
  BY <1>1, CoverStays
<1>4. Once(p, TrackTokens(x), consume[p][x])'
  BY TrackAsks
<1> QED BY <1>1, <1>2, <1>3, <1>4 DEF TrackKeeps

LEMMA ConsumeNextSeen == ASSUME SeenInv, NEW p \in Peers, ConsumeNext(p) PROVE SeenInv'
<1> USE DEF BaseInv
<1>0. SfuTypeOK /\ BaseInv /\ Routed /\ TracksOnce /\ PagesOnce /\ WellFormed /\ Silent
  BY DEF SeenInv
<1>1. /\ stage[p] = "consuming" /\ router
      /\ UNCHANGED <<serviceVars, roomVars, inbox, recv, consumers, timeouts>>
  BY <1>0 DEF ConsumeNext, Routed, Working
<1>2. CASE queue[p] = {}
  <2>1. /\ GoTo(p, "ready") /\ current' = [current EXCEPT ![p] = Nothing]
        /\ UNCHANGED <<queue, consume, requests>>
    BY <1>2 DEF ConsumeNext
  <2>2. stage' \in [Peers -> Stages] /\ stage'[p] = "ready" /\ \A q \in Peers \ {p} : stage'[q] = stage[q]
    BY <1>0, <2>1, GoFacts DEF Stages
  <2>3. SfuTypeOK'
    BY <1>0, <1>1, <2>1, <2>2 DEF SfuTypeOK, roomVars
  <2>4. PageMoves(p)
    BY <1>1, <2>1, <2>2, <2>3 DEF PageMoves, Away
  <2>5. PageKeeps(p)
    <3>1. WaitsFor(stage'[p]) = "none" /\ WaitsFor(stage[p]) = "none"
      BY <1>1, <2>2 DEF WaitsFor
    <3>2. Once(p, PageTokens, WaitsFor(stage[p]))'
      BY <1>0, <1>1, <2>1, <3>1 DEF PagesOnce, Once, Asks, At, WaitsFor
    <3> QED BY <1>1, <1>2, <2>1, <2>2, <3>2 DEF PageKeeps
  <2>6. \A x \in Producers : TrackKeeps(p, x)
    BY <1>1, <2>1, <2>2, <2>4, TrackUntouched, CoverStays
  <2> QED BY <2>4, <2>5, <2>6, PageMove
<1>3. CASE queue[p] # {}
  <2>1. PICK x \in queue[p] :
           /\ queue' = [queue EXCEPT ![p] = @ \ {x}]
           /\ current' = [current EXCEPT ![p] = IF consume[p][x] = "no" THEN x ELSE Nothing]
           /\ Consume(p, x)
           /\ UNCHANGED stage
    BY <1>3 DEF ConsumeNext
  <2>2. x \in Producers /\ Owner[x] # p /\ Known(x) /\ Listening
    BY <1>0, <1>3 DEF WellFormed, Silent, SfuTypeOK
  <2>3. /\ queue' \in [Peers -> SUBSET Producers] /\ queue'[p] = queue[p] \ {x}
        /\ \A q \in Peers \ {p} : queue'[q] = queue[q]
    BY <1>0, <2>1 DEF SfuTypeOK
  <2>4. current' \in [Peers -> Producers \cup {Nothing}]
    BY <1>0, <2>1, <2>2 DEF SfuTypeOK
  <2>5. Once(p, PageTokens, WaitsFor(stage[p]))' => PageKeeps(p)
    BY <1>1, <2>1 DEF PageKeeps
  <2>6. CASE consume[p][x] # "no" /\ UNCHANGED <<consume, requests>>
    <3>1. SfuTypeOK'
      BY <1>0, <1>1, <2>1, <2>3, <2>4, <2>6 DEF SfuTypeOK, roomVars
    <3>2. PageMoves(p)
      BY <1>1, <2>1, <2>3, <2>6, <3>1 DEF PageMoves, Away
    <3>3. PageKeeps(p)
      <4>1. Once(p, PageTokens, WaitsFor(stage[p]))'
        BY <1>0, <1>1, <2>1, <2>6 DEF PagesOnce, Once, Asks, At, WaitsFor
      <4> QED BY <2>5, <4>1
    <3>4. ASSUME NEW y \in Producers PROVE TrackKeeps(p, y)
      <4>1. y \in live /\ y \in queue[p] => y \in queue'[p] \/ consume'[p][y] \in Pending \cup {"shown"}
        BY <2>3, <2>6, LiveOpen
      <4>2. Listening /\ ~twice /\ timeouts' = 0 /\ y \in live /\ Owner[y] # p => CoverOK(p, y)'
        BY <1>1, <2>1, <2>6, <3>2, <4>1, CoverStays
      <4> QED BY <1>1, <2>1, <2>3, <2>6, <3>2, <4>2, TrackUntouched
    <3> QED BY <3>2, <3>3, <3>4, PageMove
  <2>7. ASSUME NEW v \in {"transport", "consume"}, Consumes(p, x, v) PROVE SeenInv'
    <3>1. /\ consume[p][x] = "no" /\ Set(p, x, v) /\ Ask(p, v, {x})
          /\ v \in TrackKinds /\ v \in Kinds /\ v \in Steps /\ v # "resume" /\ v # "produce"
      BY <2>7 DEF Consumes, TrackKinds, Kinds, Steps
    <3>2. /\ consume' \in [Peers -> [Producers -> Steps]]
          /\ \A q \in Peers, y \in Producers :
                consume'[q][y] = IF q = p /\ y = x THEN v ELSE consume[q][y]
      BY <1>0, <2>2, <3>1, SetFacts
    <3>3. PICK r \in Requests : /\ requests' = requests \cup {r} /\ requests' \subseteq Requests
                                /\ r.who = p /\ r.kind = v /\ r.of = {x} /\ r.status = "sent"
      BY <1>0, <2>2, <3>1, RequestFacts
    <3>4. SfuTypeOK'
      BY <1>0, <1>1, <2>1, <2>3, <2>4, <3>2, <3>3 DEF SfuTypeOK, roomVars
    <3>5. PageMoves(p)
      <4>1. RequestOK(r)
        BY <2>2, <3>1, <3>3 DEF RequestOK
      <4>2. \A q \in Peers \ {p} : consume'[q] = consume[q]
        BY <3>1 DEF Set
      <4> QED BY <1>1, <2>1, <2>2, <2>3, <3>1, <3>3, <3>4, <4>1, <4>2 DEF PageMoves, Away
    <3>6. Idle(p, TrackTokens(x))
      BY <1>0, <2>2, <3>1, TrackIdle DEF TrackKinds
    <3>7. /\ \A y \in Producers \ {x} : \A s \in requests' : Asks(p, TrackTokens(y), s) => s \in requests
          /\ \A s \in requests' : Asks(p, PageTokens, s) => s \in requests
      BY <1>1, <2>2, <3>1, <3>6, TrackAsks DEF Idle, At
    <3>8. TrackKeeps(p, x)
      BY <1>1, <2>1, <2>2, <3>1, <3>5, <3>6, TrackAsked DEF Idle, At
    <3>9. ASSUME NEW y \in Producers \ {x} PROVE TrackKeeps(p, y)
      <4>1. Listening /\ ~twice /\ timeouts' = 0 /\ y \in live /\ Owner[y] # p => CoverOK(p, y)'
        BY <1>1, <2>1, <2>3, <3>2, <3>5, CoverStays
      <4> QED BY <1>1, <2>1, <2>3, <3>2, <3>5, <3>7, <4>1, TrackUntouched
    <3>10. PageKeeps(p)
      <4>1. PICK a : a = WaitsFor(stage[p])
        OBVIOUS
      <4>2. Once(p, PageTokens, a)'
        BY <1>0, <1>1, <3>7, <4>1, OnceKept DEF PagesOnce
      <4>3. Once(p, PageTokens, WaitsFor(stage[p]))'
        BY <2>1, <4>1, <4>2 DEF Once, WaitsFor
      <4> QED BY <2>5, <4>3
    <3> QED BY <3>5, <3>8, <3>9, <3>10, PageMove
  <2> QED BY <2>1, <2>6, <2>7, ConsumeFacts
<1> QED BY <1>2, <1>3

LEMMA CreatedSeen == ASSUME SeenInv, NEW p \in Peers, NEW x \in Producers, Created(p, x) PROVE SeenInv'
<1> USE DEF BaseInv
<1>0. SfuTypeOK /\ BaseInv /\ Routed /\ TracksOnce /\ PagesOnce /\ WellFormed /\ Silent /\ Around
  BY DEF SeenInv
<1>1. /\ consume[p][x] = "creating" /\ Set(p, x, "resume") /\ Ask(p, "resume", {x})
      /\ consumers' = [consumers EXCEPT ![p] = @ \cup {x}]
      /\ UNCHANGED <<serviceVars, roomVars, inbox, stage, queue, current, recv, timeouts>>
  BY DEF Created
<1>2. Owner[x] # p /\ Known(x) /\ Listening
  BY <1>0, <1>1 DEF WellFormed, Silent
<1>3. stage[p] \notin {"out", "joined", "left"}
  BY <1>0, <1>1 DEF Around
<1>4. /\ consume' \in [Peers -> [Producers -> Steps]]
      /\ \A q \in Peers, y \in Producers :
            consume'[q][y] = IF q = p /\ y = x THEN "resume" ELSE consume[q][y]
  BY <1>0, <1>1, SetFacts DEF Steps
<1>5. PICK r \in Requests : /\ requests' = requests \cup {r} /\ requests' \subseteq Requests
                            /\ r.who = p /\ r.kind = "resume" /\ r.of = {x} /\ r.status = "sent"
  BY <1>0, <1>1, RequestFacts DEF Kinds
<1>6. /\ consumers' \in [Peers -> SUBSET Producers] /\ consumers'[p] = consumers[p] \cup {x}
      /\ \A q \in Peers \ {p} : consumers'[q] = consumers[q]
  BY <1>0, <1>1 DEF SfuTypeOK
<1>7. SfuTypeOK'
  BY <1>0, <1>1, <1>4, <1>5, <1>6 DEF SfuTypeOK, roomVars
<1>8. PageMoves(p)
  <2>1. RequestOK(r)
    BY <1>2, <1>5 DEF RequestOK, TrackKinds
  <2>2. \A q \in Peers \ {p} : consume'[q] = consume[q]
    BY <1>1 DEF Set
  <2> QED BY <1>1, <1>2, <1>3, <1>5, <1>6, <1>7, <2>1, <2>2 DEF PageMoves, Away
<1>9. Idle(p, TrackTokens(x)) /\ "resume" \in TrackKinds
  BY <1>0, <1>1, TrackIdle DEF TrackKinds
<1>10. /\ \A y \in Producers \ {x} : \A s \in requests' : Asks(p, TrackTokens(y), s) => s \in requests
       /\ \A s \in requests' : Asks(p, PageTokens, s) => s \in requests
  BY <1>1, <1>9, TrackAsks DEF Idle, At
<1>11. TrackKeeps(p, x)
  BY <1>1, <1>2, <1>6, <1>8, <1>9, TrackAsked DEF Idle, At
<1>12. ASSUME NEW y \in Producers \ {x} PROVE TrackKeeps(p, y)
  <2>1. Listening /\ ~twice /\ timeouts' = 0 /\ y \in live /\ Owner[y] # p => CoverOK(p, y)'
    BY <1>1, <1>4, <1>8, CoverStays
  <2> QED BY <1>1, <1>4, <1>6, <1>8, <1>10, <2>1, TrackUntouched
<1>13. PageKeeps(p)
  BY <1>1, <1>8, <1>10, PageUntouched
<1> QED BY <1>8, <1>11, <1>12, <1>13, PageMove

(***************************************************************************)
(* SeenInv: what a page receives, and what it gives up                     *)
(***************************************************************************)
\* A page that is told of something it asked for is at work.
LEMMA AtWork ==
    ASSUME SeenInv, NEW p \in Peers, NEW k \in At(p), inbox[p][k].kind \in Kinds
    PROVE  stage[p] \notin {"out", "joined", "left"}
BY DEF SeenInv, BaseInv, Around

\* A message of one kind goes, and p's page does nothing about the other kind.
LEMMA GoneToken ==
    ASSUME SfuTypeOK, NEW p \in Peers, NEW T, NEW now, NEW w, Once(p, T, now), NEW k \in At(p), Cuts(p, k),
           Token(T, inbox[p][k]), \A r \in requests' : Asks(p, T, r) => r \in requests
    PROVE  Once(p, T, w)'
<1>1. /\ \A r \in requests : ~Asks(p, T, r)
      /\ \A i \in 1..Len(inbox'[p]) : ~Token(T, inbox'[p][i])
  BY OnceTaken
<1>2. \A r \in requests' : ~Asks(p, T, r)
  BY <1>1
<1> QED BY <1>1, <1>2, OnceNew

\* The answer to p's own request is handled: the page goes on, or ends.
LEMMA PageAnswered ==
    ASSUME SeenInv, NEW p \in Peers, PageMoves(p), NEW k \in At(p), Cuts(p, k), inbox[p][k].kind \in PageKinds,
           UNCHANGED <<requests, consume, consumers>>,
           stage'[p] \in {"loading", "publish", "consuming", "broken", "failed"},
           stage'[p] \in Working => router,
           stage'[p] = "consuming" => inbox[p][k].kind = "list" /\ queue'[p] = inbox[p][k].of,
           stage'[p] # "consuming" => UNCHANGED queue
    PROVE  SeenInv'
<1> USE DEF BaseInv
<1>0. SfuTypeOK /\ BaseInv /\ PagesOnce /\ WellFormed /\ Silent /\ Covered
  BY DEF SeenInv
<1>1. /\ inbox[p][k] \in Messages /\ MessageOK(p, inbox[p][k])
      /\ \A x \in Producers : inbox[p][k] # Closing(x) /\ inbox[p][k] # Announced(x)
  <2>1. inbox[p][k] \in Messages /\ MessageOK(p, inbox[p][k])
    BY <1>0, InboxFacts DEF WellFormed
  <2> QED BY <2>1, MessageIs DEF PageKinds
<1>2. Token(PageTokens, inbox[p][k])
  BY <1>1, TokenIs
<1>3. PICK a : a = WaitsFor(stage[p])
  OBVIOUS
<1>4. PageKeeps(p)
  <2>1. Once(p, PageTokens, a)
    BY <1>0, <1>3 DEF PagesOnce
  <2>2. PICK w : w = WaitsFor(stage'[p])
    OBVIOUS
  <2>3. Once(p, PageTokens, w)'
    BY <1>0, <1>2, <2>1, GoneToken
  <2>4. Once(p, PageTokens, WaitsFor(stage[p]))'
    BY <2>2, <2>3 DEF Once, WaitsFor
  <2> QED BY <2>4 DEF PageKeeps
<1>5. stage[p] \notin {"consuming", "ready"}
  <2>1. inbox[p][k].kind = a
    BY <1>0, <1>2, <1>3 DEF PagesOnce, Once
  <2>2. \A s \in {"consuming", "ready"} : WaitsFor(s) = "none"
    BY DEF WaitsFor
  <2> QED BY <1>3, <2>1, <2>2 DEF PageKinds
<1>6. ASSUME NEW x \in Producers PROVE TrackKeeps(p, x)
  <2>1. x \in queue'[p] /\ stage'[p] = "consuming" => Owner[x] # p /\ Known(x) /\ Listening
    BY <1>0, <1>1 DEF MessageOK, Silent
  <2>2. consume'[p][x] # "no" \/ x \in queue'[p] => Owner[x] # p /\ Known(x) /\ Listening
    BY <1>0, <2>1 DEF WellFormed, Silent
  <2>3. /\ consume'[p][x] = "closed" => Left(x)
        /\ consume'[p][x] = "resume" /\ x \notin consumers'[p] => Left(x)
    BY DEF SeenInv, Consumers
  <2>4. ~overtaken => TileOK(p, x)'
    <3>1. ~overtaken => TileOK(p, x) /\ UNCHANGED live
      BY DEF SeenInv, Tiles, PageMoves, roomVars
    <3> QED BY <1>0, <1>1, <3>1, TileCut
  <2>5. Listening /\ ~twice /\ timeouts' = 0 /\ x \in live /\ Owner[x] # p => CoverOK(p, x)'
    <3> SUFFICES ASSUME Listening, ~twice, timeouts' = 0, x \in live, Owner[x] # p PROVE CoverOK(p, x)'
      OBVIOUS
    <3>1. CoverOK(p, x)
      BY <1>0 DEF Covered, PageMoves
    <3>2. Coming(p, x) => Coming(p, x)'
      BY <1>0, <1>1, ComingKept
    <3>3. stage'[p] \in {"consuming", "ready"} => x \in queue'[p] \/ Coming(p, x)'
      BY <3>1, <3>2 DEF CoverOK
    <3> QED BY <1>0, <1>5, <3>1, <3>2, <3>3, CoverKept
  <2>6. Once(p, TrackTokens(x), consume[p][x])'
    <3>1. PICK b : b = consume[p][x]
      OBVIOUS
    <3>2. Once(p, TrackTokens(x), b)
      BY <3>1 DEF SeenInv, TracksOnce
    <3>3. Once(p, TrackTokens(x), b)'
      BY <1>0, <3>2, OnceKept
    <3> QED BY <3>1, <3>3 DEF Once
  <2> QED BY <2>2, <2>3, <2>4, <2>5, <2>6 DEF TrackKeeps
<1> QED BY <1>4, <1>6, PageMove

\* A message about x goes.  The page and the other producers do not notice.
LEMMA TrackAnswered ==
    ASSUME SeenInv, NEW p \in Peers, PageMoves(p), NEW k \in At(p), Cuts(p, k), NEW x \in Producers,
           inbox[p][k].of = {x}, UNCHANGED <<stage, queue>>, inbox[p][k].kind \notin PageKinds,
           \A y \in Producers \ {x} : consume'[p][y] = consume[p][y] /\ (y \in consumers'[p] <=> y \in consumers[p]),
           \A r \in requests' : r \in requests \/ (r.kind \in TrackKinds /\ r.of = {x}),
           TrackKeeps(p, x)
    PROVE  SeenInv'
<1> USE DEF BaseInv
<1>0. SfuTypeOK /\ BaseInv /\ requests' \subseteq Requests
  BY DEF SeenInv, PageMoves, SfuTypeOK
<1>1. /\ \A y \in Producers \ {x} : \A r \in requests' : Asks(p, TrackTokens(y), r) => r \in requests
      /\ \A r \in requests' : Asks(p, PageTokens, r) => r \in requests
  BY <1>0, TokenIs DEF Asks
<1>2. PageKeeps(p)
  BY <1>1, PageUntouched
<1>3. \A y \in Producers \ {x} : inbox[p][k] # Closing(y) /\ inbox[p][k] # Announced(y)
  BY MessageIs
<1>4. ASSUME NEW y \in Producers \ {x} PROVE TrackKeeps(p, y)
  <2>1. Listening /\ ~twice /\ timeouts' = 0 /\ y \in live /\ Owner[y] # p => CoverOK(p, y)'
    BY <1>3, CoverStays
  <2> QED BY <1>1, <1>3, <2>1, TrackUntouched
<1> QED BY <1>2, <1>4, PageMove

\* An answer says no, or is not waited for any longer.
LEMMA RejectedMessage ==
    ASSUME SeenInv, NEW p \in Peers, NEW k \in At(p), Cuts(p, k), inbox' \in [Peers -> Seq(Messages)],
           \A q \in Peers \ {p} : inbox'[q] = inbox[q], inbox[p][k].kind \in Kinds,
           Rejected(p, inbox[p][k].kind, inbox[p][k].of),
           UNCHANGED <<serviceVars, roomVars, requests, queue, current, recv, consumers>>,
           timeouts' \in 0..MaxTimeouts, timeouts' # 0 \/ (timeouts = 0 /\ ~inbox[p][k].ok)
    PROVE  SeenInv'
<1> USE DEF BaseInv
<1>0. SfuTypeOK /\ BaseInv /\ TracksOnce /\ WellFormed /\ Routed /\ Silent
  BY DEF SeenInv
<1>1. PICK kind, xs : kind = inbox[p][k].kind /\ xs = inbox[p][k].of
  OBVIOUS
<1>2. inbox[p][k] \in Messages /\ MessageOK(p, inbox[p][k]) /\ kind \in Kinds /\ Rejected(p, kind, xs)
  BY <1>0, <1>1, InboxFacts DEF WellFormed
<1>3. /\ stage' \in [Peers -> Stages] /\ consume' \in [Peers -> [Producers -> Steps]]
      /\ kind \in TrackKinds => /\ UNCHANGED stage
                                /\ \A x \in Producers : consume'[p][x] = IF x \in xs THEN "no" ELSE consume[p][x]
      /\ kind \in PageKinds => UNCHANGED consume /\ stage'[p] \in {"broken", "failed"}
      /\ \A q \in Peers \ {p} : stage'[q] = stage[q] /\ consume'[q] = consume[q]
      /\ TrackKinds \cap PageKinds = {} /\ Kinds = TrackKinds \cup PageKinds
  BY <1>0, <1>2, RejectedFacts
<1>4. SfuTypeOK'
  BY <1>0, <1>3 DEF SfuTypeOK, roomVars
<1>5. stage[p] \notin {"out", "joined", "left"}
  BY AtWork
<1>6. PageMoves(p)
  <2>1. stage'[p] \notin {"out", "joined", "left"}
    BY <1>2, <1>3, <1>5
  <2> QED BY <1>3, <1>4, <1>5, <2>1 DEF PageMoves, Away
<1>7. CASE kind \in PageKinds
  BY <1>1, <1>3, <1>6, <1>7, PageAnswered DEF Working
<1>8. CASE kind \in TrackKinds
  <2>1. PICK x \in Producers : xs = {x}
    BY <1>1, <1>2, <1>8 DEF MessageOK, TrackKinds
  <2>2. UNCHANGED stage /\ \A y \in Producers : consume'[p][y] = IF y = x THEN "no" ELSE consume[p][y]
    BY <1>3, <1>8, <2>1
  <2>3. inbox[p][k] # Closing(x) /\ inbox[p][k] # Announced(x) /\ Token(TrackTokens(x), inbox[p][k])
    BY <1>1, <1>8, <2>1, TokenIs, MessageIs DEF TrackKinds
  <2>4. TrackKeeps(p, x)
    <3>1. x \in queue'[p] => Owner[x] # p /\ Known(x) /\ Listening
      BY <1>0 DEF WellFormed, Silent
    <3>2. ~overtaken => TileOK(p, x)'
      <4>1. ~overtaken => TileOK(p, x) /\ UNCHANGED live
        BY DEF SeenInv, Tiles, roomVars
      <4> QED BY <1>0, <2>2, <2>3, <4>1, TileCut
    <3>3. timeouts' = 0 => x \notin live
      <4>1. timeouts' = 0 => Left(x)
        BY <1>1, <1>2, <1>8, <2>1 DEF MessageOK
      <4> QED BY <4>1, LiveOpen
    <3>4. Once(p, TrackTokens(x), consume[p][x])'
      <4>1. PICK b : b = consume[p][x]
        OBVIOUS
      <4>2. Once(p, TrackTokens(x), b)
        BY <1>0, <4>1 DEF TracksOnce
      <4>3. Once(p, TrackTokens(x), "no")'
        BY <1>0, <2>3, <4>2, GoneToken
      <4> QED BY <2>2, <4>3 DEF Once
    <3> QED BY <2>2, <3>1, <3>2, <3>3, <3>4 DEF TrackKeeps
  <2>5. inbox[p][k].of = {x} /\ inbox[p][k].kind \notin PageKinds
    BY <1>1, <1>3, <1>8, <2>1
  <2> QED BY <1>6, <2>2, <2>4, <2>5, TrackAnswered
<1> QED BY <1>2, <1>3, <1>7, <1>8

\* A request is given up, which the server may still serve.
LEMMA GivenUpRequest ==
    ASSUME SeenInv, NEW p \in Peers, NEW r \in requests, r.who = p, r.awaited,
           requests' = (requests \ {r}) \cup {[r EXCEPT !.awaited = FALSE]},
           Rejected(p, r.kind, r.of),
           UNCHANGED <<serviceVars, roomVars, inbox, queue, current, recv, consumers>>,
           timeouts' \in 1..MaxTimeouts
    PROVE  SeenInv'
<1> USE DEF BaseInv
<1>0. SfuTypeOK /\ BaseInv /\ TracksOnce /\ PagesOnce /\ WellFormed /\ Around /\ Routed /\ Silent /\ Finished
  BY DEF SeenInv
<1>1. r \in Requests /\ RequestOK(r) /\ r.kind \in Kinds
  BY <1>0 DEF SfuTypeOK, WellFormed, Requests
<1>2. PICK d \in Requests : /\ requests' = (requests \ {r}) \cup {d} /\ ~d.awaited
                            /\ d.who = r.who /\ d.kind = r.kind /\ d.of = r.of /\ d.status = r.status
  <2>0. PICK d : d = [r EXCEPT !.awaited = FALSE]
    OBVIOUS
  <2>1. FALSE \in BOOLEAN
    OBVIOUS
  <2>2. d \in Requests /\ d.who = r.who /\ d.kind = r.kind /\ d.of = r.of /\ d.status = r.status /\ d.awaited = FALSE
    BY <1>1, <2>0, <2>1 DEF Requests
  <2> QED BY <2>0, <2>2
<1>3. /\ stage' \in [Peers -> Stages] /\ consume' \in [Peers -> [Producers -> Steps]]
      /\ r.kind \in TrackKinds => /\ UNCHANGED stage
                                  /\ \A x \in Producers : consume'[p][x] = IF x \in r.of THEN "no" ELSE consume[p][x]
      /\ r.kind \in PageKinds => UNCHANGED consume /\ stage'[p] \in {"broken", "failed"}
      /\ \A q \in Peers \ {p} : stage'[q] = stage[q] /\ consume'[q] = consume[q]
      /\ TrackKinds \cap PageKinds = {} /\ Kinds = TrackKinds \cup PageKinds
  BY <1>0, <1>1, RejectedFacts
<1>4. SfuTypeOK'
  <2>1. requests' \subseteq Requests
    BY <1>0, <1>2 DEF SfuTypeOK
  <2>2. timeouts' \in 0..MaxTimeouts
    BY ClientAssumption
  <2> QED BY <1>0, <1>3, <2>1, <2>2 DEF SfuTypeOK, roomVars
<1>5. stage[p] \notin {"out", "joined", "left"}
  BY <1>0 DEF Around
<1>6. PageMoves(p)
  <2>1. RequestOK(d) /\ (Listening \/ d.kind \notin TrackKinds)
    BY <1>0, <1>1, <1>2 DEF RequestOK, Silent
  <2>2. d.kind = "produce" => router
    BY <1>0, <1>2 DEF Routed
  <2>3. d.kind = "resume" /\ d.status = "ok" /\ ~overtaken => d.of \subseteq live
    BY <1>2 DEF SeenInv, Tiles
  <2>4. stage'[p] \notin {"out", "joined", "left"}
    BY <1>1, <1>3, <1>5
  <2>5. timeouts' # 0
    BY ClientAssumption
  <2>6. \A s \in requests' \ requests : s = d
    BY <1>2
  <2> QED BY <1>2, <1>3, <1>4, <1>5, <2>1, <2>2, <2>3, <2>4, <2>5, <2>6 DEF PageMoves, Away
<1>7. \A T : \A s \in requests' : Asks(p, T, s) => s \in requests \ {r}
  BY <1>2 DEF Asks
<1>8. CASE r.kind \in PageKinds
  <2>1. Once(p, PageTokens, WaitsFor(stage[p]))'
    <3>1. PICK a : a = WaitsFor(stage[p])
      OBVIOUS
    <3>2. Once(p, PageTokens, a) /\ Asks(p, PageTokens, r)
      BY <1>0, <1>1, <1>8, <3>1, TokenIs DEF PagesOnce, Asks
    <3>3. Idle(p, PageTokens)'
      BY <1>7, <3>2, OnceGivenUp
    <3> QED BY <3>3 DEF Idle, Once
  <2>2. PageKeeps(p)
    BY <1>3, <1>8, <2>1 DEF PageKeeps, Working
  <2>3. \A x \in Producers : TrackKeeps(p, x)
    BY <1>3, <1>6, <1>7, <1>8, TrackUntouched
  <2> QED BY <1>6, <2>2, <2>3, PageMove
<1>9. CASE r.kind \in TrackKinds
  <2>1. PICK x \in Producers : r.of = {x}
    BY <1>1, <1>9 DEF RequestOK, TrackKinds
  <2>2. UNCHANGED stage /\ \A y \in Producers : consume'[p][y] = IF y = x THEN "no" ELSE consume[p][y]
    BY <1>3, <1>9, <2>1
  <2>3. PageKeeps(p)
    BY <1>6, <1>7, <2>2, PageUntouched
  <2>4. TrackKeeps(p, x)
    <3>1. x \in queue'[p] => Owner[x] # p /\ Known(x) /\ Listening
      BY <1>0 DEF WellFormed, Silent
    <3>2. ~overtaken => TileOK(p, x)'
      <4>1. ~overtaken => TileOK(p, x) /\ UNCHANGED live
        BY DEF SeenInv, Tiles, roomVars
      <4> QED BY <1>0, <2>2, <4>1, TileKept
    <3>3. Once(p, TrackTokens(x), consume[p][x])'
      <4>1. PICK b : b = consume[p][x]
        OBVIOUS
      <4>2. Once(p, TrackTokens(x), b) /\ Asks(p, TrackTokens(x), r)
        BY <1>0, <1>9, <2>1, <4>1, TokenIs DEF TracksOnce, Asks
      <4>3. Idle(p, TrackTokens(x))'
        BY <1>7, <4>2, OnceGivenUp
      <4> QED BY <4>3 DEF Idle, Once
    <3> QED BY <2>2, <3>1, <3>2, <3>3 DEF TrackKeeps
  <2>5. \A y \in Producers \ {x} : TrackKeeps(p, y)
    BY <1>6, <1>7, <2>2, TrackUntouched
  <2> QED BY <1>6, <2>3, <2>4, <2>5, PageMove
<1> QED BY <1>1, <1>3, <1>8, <1>9

LEMMA TimeoutSeen == ASSUME SeenInv, NEW p \in Peers, Timeout(p) PROVE SeenInv'
<1>1. /\ timeouts' \in 1..MaxTimeouts
      /\ UNCHANGED <<serviceVars, roomVars, queue, current, recv, consumers>>
  BY ClientAssumption DEF Timeout, SeenInv, BaseInv, SfuTypeOK
<1>2. CASE \E r \in requests : /\ r.who = p /\ r.awaited
                               /\ requests' = (requests \ {r}) \cup {[r EXCEPT !.awaited = FALSE]}
                               /\ Rejected(p, r.kind, r.of) /\ UNCHANGED inbox
  BY <1>1, <1>2, GivenUpRequest
<1>3. CASE \E i \in DOMAIN inbox[p] : /\ inbox[p][i].kind \in Kinds
                                      /\ inbox' = [inbox EXCEPT ![p] = RemoveAt(@, i)]
                                      /\ Rejected(p, inbox[p][i].kind, inbox[p][i].of) /\ UNCHANGED requests
  <2>1. DOMAIN inbox[p] = At(p)
    BY InboxFacts DEF SeenInv, BaseInv, At
  <2>2. PICK i \in At(p) : /\ inbox[p][i].kind \in Kinds
                           /\ inbox' = [inbox EXCEPT ![p] = RemoveAt(@, i)]
                           /\ Rejected(p, inbox[p][i].kind, inbox[p][i].of) /\ UNCHANGED requests
    BY <1>3, <2>1
  <2>3. /\ inbox' \in [Peers -> Seq(Messages)] /\ Cuts(p, i)
        /\ \A q \in Peers \ {p} : inbox'[q] = inbox[q]
    BY <2>2, RemovedInbox DEF SeenInv, BaseInv
  <2>4. timeouts' \in 0..MaxTimeouts /\ timeouts' # 0
    BY <1>1, ClientAssumption
  <2> QED BY <1>1, <2>2, <2>3, <2>4, RejectedMessage
<1> QED BY <1>2, <1>3 DEF Timeout

\* Before there is a client nobody listens.
LEMMA ReceiveJoined ==
    ASSUME SeenInv, NEW p \in Peers, stage[p] = "joined", 1 \in At(p), Cuts(p, 1), inbox' \in [Peers -> Seq(Messages)],
           \A q \in Peers \ {p} : inbox'[q] = inbox[q],
           UNCHANGED <<serviceVars, roomVars, current, timeouts, requests, stage, queue, recv, consume, consumers>>
    PROVE  SeenInv'
<1> USE DEF BaseInv
<1>0. SfuTypeOK /\ BaseInv /\ Around
  BY DEF SeenInv
<1>1. SfuTypeOK'
  BY <1>0 DEF SfuTypeOK, roomVars
<1>2. PageMoves(p)
  BY <1>1 DEF PageMoves, Away
<1>3. PageKeeps(p)
  BY <1>2, PageUntouched
<1>4. ASSUME NEW x \in Producers PROVE TrackKeeps(p, x)
  <2>1. queue'[p] = {} /\ consume'[p][x] = "no" /\ \A i \in At(p) : inbox[p][i].kind \notin Kinds
    BY <1>0 DEF Around
  <2>2. \A i \in 1..Len(inbox'[p]) : inbox'[p][i].kind \notin Kinds
    <3>1. \A i \in 1..Len(inbox'[p]) : \E j \in At(p) : inbox'[p][i] = inbox[p][j]
      BY <1>0, StillThere
    <3> QED BY <2>1, <3>1
  <2>3. TileOK(p, x)' /\ CoverOK(p, x)'
    <3>1. \A i \in 1..Len(inbox'[p]) : inbox'[p][i] # ResumeOk(x) /\ inbox'[p][i].kind # "list"
      BY <2>2, MessageIs DEF Kinds
    <3> QED BY <2>1, <3>1 DEF TileOK, CoverOK, At, ResumeOk, Message
  <2>4. Once(p, TrackTokens(x), consume[p][x])'
    <3>1. PICK b : b = consume[p][x]
      OBVIOUS
    <3>2. Once(p, TrackTokens(x), b)
      BY <3>1 DEF SeenInv, TracksOnce
    <3>3. Once(p, TrackTokens(x), b)'
      BY <1>0, <3>2, OnceKept
    <3> QED BY <3>1, <3>3 DEF Once
  <2> QED BY <2>1, <2>3, <2>4 DEF TrackKeeps
<1> QED BY <1>2, <1>3, <1>4, PageMove

\* The page's own requests are granted.
LEMMA GrantedSeen ==
    ASSUME SeenInv, NEW p \in Peers, 1 \in At(p), Cuts(p, 1), inbox' \in [Peers -> Seq(Messages)],
           \A q \in Peers \ {p} : inbox'[q] = inbox[q],
           UNCHANGED <<serviceVars, roomVars, current, timeouts>>,
           NEW m, m = inbox[p][1], m.ok,
           \/ m.kind = "caps" /\ GotCaps(p)
           \/ m.kind = "produce" /\ Produced(p)
           \/ m.kind = "list" /\ Listed(p, m.of)
    PROVE  SeenInv'
<1> USE DEF BaseInv
<1>0. SfuTypeOK /\ BaseInv /\ PagesOnce /\ Routed
  BY DEF SeenInv
<1>1. m \in Messages /\ m.kind \in PageKinds /\ m.kind \in Kinds /\ m.of \subseteq Producers
  BY <1>0, InboxFacts DEF PageKinds, Kinds, Messages
<1>2. stage[p] \notin {"out", "joined", "left"}
  BY <1>1, AtWork
<1>3. WaitsFor(stage[p]) = m.kind
  BY <1>0, <1>1, TokenIs DEF PagesOnce, Once
<1>4. router
  <2>1. CASE m.kind = "caps"
    BY <1>0, <2>1 DEF Routed
  <2>2. CASE m.kind # "caps"
    <3>1. stage[p] \in Working
      BY <1>1, <1>3, <2>2 DEF WaitsFor, Working, PageKinds
    <3> QED BY <1>0, <3>1 DEF Routed
  <2> QED BY <2>1, <2>2
<1>5. PICK label \in {"loading", "publish", "consuming"} :
         /\ GoTo(p, label) /\ UNCHANGED <<requests, recv, consume, consumers>>
         /\ label = "consuming" => m.kind = "list" /\ queue' = [queue EXCEPT ![p] = m.of]
         /\ label # "consuming" => UNCHANGED queue
  BY DEF GotCaps, Produced, Listed
<1>6. stage' \in [Peers -> Stages] /\ stage'[p] = label /\ \A q \in Peers \ {p} : stage'[q] = stage[q]
  BY <1>0, <1>5, GoFacts DEF Stages
<1>7. /\ queue' \in [Peers -> SUBSET Producers] /\ \A q \in Peers \ {p} : queue'[q] = queue[q]
      /\ label = "consuming" => queue'[p] = m.of
  BY <1>0, <1>1, <1>5 DEF SfuTypeOK
<1>8. SfuTypeOK'
  BY <1>0, <1>5, <1>6, <1>7 DEF SfuTypeOK, roomVars
<1>9. PageMoves(p)
  BY <1>2, <1>5, <1>6, <1>7, <1>8 DEF PageMoves, Away
<1> QED BY <1>1, <1>4, <1>5, <1>6, <1>7, <1>9, PageAnswered

\* A step of consume() is granted, or throws because the device is not loaded.
LEMMA StepSeen ==
    ASSUME SeenInv, NEW p \in Peers, 1 \in At(p), Cuts(p, 1), inbox' \in [Peers -> Seq(Messages)],
           \A q \in Peers \ {p} : inbox'[q] = inbox[q],
           UNCHANGED <<serviceVars, roomVars, current, timeouts>>,
           NEW m, m = inbox[p][1], m.ok, NEW x \in Producers, m.of = {x}, m.kind \in TrackKinds,
           UNCHANGED <<requests, stage, queue, consumers>>, recv' \subseteq Peers,
           NEW step \in {"no", "creating", "shown"}, Set(p, x, step),
           step = "no" => stage[p] \in {"init", "loading", "broken"},
           step = "shown" => m.kind = "resume"
    PROVE  SeenInv'
<1> USE DEF BaseInv
<1>0. SfuTypeOK /\ BaseInv /\ TracksOnce /\ PagesOnce /\ WellFormed /\ Silent
  BY DEF SeenInv
<1>1. m \in Messages /\ MessageOK(p, m) /\ m.kind \in Kinds /\ m.kind \notin PageKinds
  BY <1>0, InboxFacts, TokenIs DEF WellFormed
<1>2. stage[p] \notin {"out", "joined", "left"}
  BY <1>1, AtWork
<1>3. /\ consume' \in [Peers -> [Producers -> Steps]]
      /\ \A q \in Peers, y \in Producers : consume'[q][y] = IF q = p /\ y = x THEN step ELSE consume[q][y]
      /\ \A q \in Peers \ {p} : consume'[q] = consume[q]
  <2>1. step \in Steps
    BY DEF Steps
  <2>2. \A q \in Peers \ {p} : consume'[q] = consume[q]
    BY DEF Set
  <2> QED BY <1>0, <2>1, <2>2, SetFacts
<1>4. SfuTypeOK'
  BY <1>0, <1>3 DEF SfuTypeOK, roomVars
<1>5. PageMoves(p)
  BY <1>2, <1>3, <1>4 DEF PageMoves, Away
<1>6. consume[p][x] = m.kind /\ Token(TrackTokens(x), m)
  BY <1>0, <1>1, TokenIs DEF TracksOnce, Once
<1>7. Owner[x] # p /\ Known(x) /\ Listening
  <2>1. consume[p][x] # "no"
    BY <1>6 DEF TrackKinds
  <2> QED BY <1>0, <2>1 DEF WellFormed, Silent
<1>8. m # Closing(x) /\ m # Announced(x)
  BY <1>1, MessageIs DEF TrackKinds
<1>9. TrackKeeps(p, x)
  <2>1. consume'[p][x] = step /\ step \notin {"closed", "resume"}
    BY <1>3
  <2>2. ~overtaken => TileOK(p, x)'
    <3>1. step = "shown" => m = ResumeOk(x)
      BY <1>1, <1>6 DEF ResumeOk, Message, Messages
    <3>2. ~overtaken => TileOK(p, x) /\ UNCHANGED live
      BY DEF SeenInv, Tiles, roomVars
    <3> QED BY <1>0, <1>8, <2>1, <3>1, <3>2, TileCut
  <2>3. Listening /\ ~twice /\ timeouts' = 0 /\ x \in live /\ Owner[x] # p => CoverOK(p, x)'
    <3>1. CASE step = "no"
      <4>1. \A i \in At(p) : inbox[p][i].kind # "list"
        <5> SUFFICES ASSUME NEW i \in At(p), inbox[p][i].kind = "list" PROVE FALSE
          OBVIOUS
        <5>1. Token(PageTokens, inbox[p][i])
          BY <1>0, InboxFacts, TokenIs DEF PageKinds
        <5>2. WaitsFor(stage[p]) = "list"
          BY <1>0, <5>1 DEF PagesOnce, Once
        <5> QED BY <3>1, <5>2 DEF WaitsFor
      <4>2. \A i \in 1..Len(inbox'[p]) : \E j \in At(p) : inbox'[p][i] = inbox[p][j]
        BY <1>0, StillThere
      <4>3. \A i \in 1..Len(inbox'[p]) : inbox'[p][i].kind # "list"
        BY <4>1, <4>2
      <4> QED BY <3>1, <4>3 DEF CoverOK, At
    <3>2. CASE step # "no"
      <4>1. consume'[p][x] \in Pending \cup {"shown"}
        BY <2>1, <3>2 DEF Pending, Steps
      <4> QED BY <1>5, <1>8, <4>1, CoverStays
    <3> QED BY <3>1, <3>2
  <2>4. Once(p, TrackTokens(x), consume[p][x])'
    <3>1. PICK b : b = consume[p][x]
      OBVIOUS
    <3>2. Once(p, TrackTokens(x), b)
      BY <1>0, <3>1 DEF TracksOnce
    <3>3. Once(p, TrackTokens(x), step)'
      BY <1>0, <1>6, <3>2, GoneToken
    <3> QED BY <2>1, <3>3 DEF Once
  <2> QED BY <1>7, <2>1, <2>2, <2>3, <2>4 DEF TrackKeeps
<1> QED BY <1>1, <1>3, <1>5, <1>9, TrackAnswered

\* consume() asks for the consumer: it has the transport now, or it begins.
LEMMA AsksSeen ==
    ASSUME SeenInv, NEW p \in Peers, 1 \in At(p), Cuts(p, 1), inbox' \in [Peers -> Seq(Messages)],
           \A q \in Peers \ {p} : inbox'[q] = inbox[q],
           UNCHANGED <<serviceVars, roomVars, current, timeouts, stage, queue, consumers>>, recv' \subseteq Peers,
           NEW m, m = inbox[p][1], m.ok, NEW x \in Producers, m.of = {x},
           NEW v \in {"transport", "consume"}, Set(p, x, v), Ask(p, v, {x}),
           stage[p] \notin {"out", "joined", "left"},
           m.kind = "transport" \/ (m.kind = "new-producer" /\ consume[p][x] = "no")
    PROVE  SeenInv'
<1> USE DEF BaseInv
<1>0. SfuTypeOK /\ BaseInv /\ TracksOnce /\ WellFormed /\ Silent
  BY DEF SeenInv
<1>1. m \in Messages /\ MessageOK(p, m) /\ m.kind \notin PageKinds
  BY <1>0, InboxFacts DEF WellFormed, PageKinds
<1>2. v \in TrackKinds /\ v \in Kinds /\ v \in Steps /\ v # "resume" /\ v # "produce"
  BY DEF TrackKinds, Kinds, Steps
<1>3. /\ consume' \in [Peers -> [Producers -> Steps]]
      /\ \A q \in Peers, y \in Producers : consume'[q][y] = IF q = p /\ y = x THEN v ELSE consume[q][y]
  BY <1>0, <1>2, SetFacts
<1>4. PICK r \in Requests : /\ requests' = requests \cup {r} /\ requests' \subseteq Requests
                            /\ r.who = p /\ r.kind = v /\ r.of = {x} /\ r.status = "sent"
  BY <1>0, <1>2, RequestFacts
<1>5. SfuTypeOK'
  BY <1>0, <1>3, <1>4 DEF SfuTypeOK, roomVars
<1>6. Owner[x] # p /\ Known(x) /\ Listening
  <2>1. CASE m.kind = "transport"
    <3>1. consume[p][x] = "transport"
      BY <1>0, <2>1, TokenIs DEF TracksOnce, Once, TrackKinds
    <3> QED BY <1>0, <3>1 DEF WellFormed, Silent
  <2>2. CASE m.kind = "new-producer"
    BY <1>0, <1>1, <2>2 DEF MessageOK, Silent, PageKinds
  <2> QED BY <2>1, <2>2
<1>7. PageMoves(p)
  <2>1. RequestOK(r)
    BY <1>2, <1>4, <1>6 DEF RequestOK
  <2>2. \A q \in Peers \ {p} : consume'[q] = consume[q]
    BY DEF Set
  <2>3. \A s \in requests' \ requests : s = r
    BY <1>4
  <2> QED BY <1>2, <1>4, <1>5, <1>6, <2>1, <2>2, <2>3 DEF PageMoves, Away
<1>8. /\ \A s \in requests : ~Asks(p, TrackTokens(x), s)
      /\ \A i \in 1..Len(inbox'[p]) : ~Token(TrackTokens(x), inbox'[p][i])
  <2>1. CASE m.kind = "transport"
    <3>1. Token(TrackTokens(x), m)
      BY <2>1, TokenIs DEF TrackKinds
    <3>2. PICK b : b = consume[p][x]
      OBVIOUS
    <3>3. Once(p, TrackTokens(x), b)
      BY <1>0, <3>2 DEF TracksOnce
    <3> QED BY <1>0, <3>1, <3>3, OnceTaken
  <2>2. CASE consume[p][x] = "no"
    <3>1. Idle(p, TrackTokens(x))
      BY <1>0, <2>2, TrackIdle DEF TrackKinds
    <3>2. \A i \in 1..Len(inbox'[p]) : \E j \in At(p) : inbox'[p][i] = inbox[p][j]
      BY <1>0, StillThere
    <3> QED BY <3>1, <3>2 DEF Idle
  <2> QED BY <2>1, <2>2
<1>9. m # Closing(x)
  BY MessageIs
<1>10. TrackKeeps(p, x)
  BY <1>2, <1>6, <1>7, <1>8, <1>9, TrackAsked
<1> QED BY <1>1, <1>2, <1>3, <1>4, <1>7, <1>10, TrackAnswered

\* A producer is announced that was there before.
LEMMA HeardSeen ==
    ASSUME SeenInv, NEW p \in Peers, 1 \in At(p), Cuts(p, 1), inbox' \in [Peers -> Seq(Messages)],
           \A q \in Peers \ {p} : inbox'[q] = inbox[q],
           UNCHANGED <<serviceVars, roomVars, current, timeouts, stage, queue, consumers, recv, requests, consume>>,
           NEW m, m = inbox[p][1], NEW x \in Producers, m.of = {x}, consume[p][x] # "no", m.kind = "new-producer"
    PROVE  SeenInv'
<1> USE DEF BaseInv
<1>0. SfuTypeOK /\ BaseInv /\ Around
  BY DEF SeenInv
<1>1. SfuTypeOK'
  BY <1>0 DEF SfuTypeOK, roomVars
<1>2. stage[p] \notin {"out", "joined", "left"}
  BY <1>0 DEF Around
<1>3. PageMoves(p)
  BY <1>1, <1>2 DEF PageMoves, Away
<1>4. Listening /\ ~twice /\ timeouts' = 0 /\ x \in live /\ Owner[x] # p => CoverOK(p, x)'
  <2>1. x \in live => consume'[p][x] \in Pending \cup {"shown"}
    BY LiveOpen
  <2> QED BY <1>3, <2>1, CoverStays
<1>5. m # Closing(x) /\ m.kind \notin PageKinds
  BY MessageIs DEF PageKinds
<1>6. TrackKeeps(p, x)
  BY <1>3, <1>4, <1>5, TrackUntouched
<1> QED BY <1>3, <1>5, <1>6, TrackAnswered

LEMMA ClosedSeen ==
    ASSUME SeenInv, NEW p \in Peers, 1 \in At(p), Cuts(p, 1), inbox' \in [Peers -> Seq(Messages)],
           \A q \in Peers \ {p} : inbox'[q] = inbox[q],
           UNCHANGED <<serviceVars, roomVars, current, timeouts>>, stage[p] # "joined",
           NEW m, m = inbox[p][1], NEW x \in Producers, m.of = {x}, m.kind = "producer-closed", ProducerClosed(p, x)
    PROVE  SeenInv'
<1> USE DEF BaseInv
<1>0. SfuTypeOK /\ BaseInv /\ Around /\ WellFormed /\ Silent /\ TracksOnce
  BY DEF SeenInv
<1>1. m \in Messages /\ MessageOK(p, m) /\ m.kind \notin PageKinds /\ m.kind \notin TrackKinds
  BY <1>0, InboxFacts DEF WellFormed, PageKinds, TrackKinds
<1>2. Left(x) /\ x \notin live
  <2>1. Left(x)
    BY <1>1 DEF MessageOK
  <2> QED BY <2>1, LiveOpen
<1>3. stage[p] \notin {"out", "joined", "left"}
  BY <1>0, InboxFacts DEF Around, At, Away
<1>4. /\ UNCHANGED <<requests, stage, queue, recv>>
      /\ consumers' \in [Peers -> SUBSET Producers] /\ consumers'[p] = consumers[p] \ {x}
      /\ \A q \in Peers \ {p} : consumers'[q] = consumers[q]
  BY <1>0 DEF ProducerClosed, SfuTypeOK
<1>5. /\ consume' \in [Peers -> [Producers -> Steps]]
      /\ \A q \in Peers \ {p} : consume'[q] = consume[q]
      /\ \A y \in Producers \ {x} : consume'[p][y] = consume[p][y]
      /\ x \in consumers[p] /\ consume[p][x] = "shown" => consume'[p][x] = "closed"
      /\ ~(x \in consumers[p] /\ consume[p][x] = "shown") => consume'[p][x] = consume[p][x]
  <2>1. CASE x \in consumers[p] /\ consume[p][x] = "shown"
    <3>1. Set(p, x, "closed")
      BY <2>1 DEF ProducerClosed, Set
    <3>2. \A q \in Peers \ {p} : consume'[q] = consume[q]
      BY <3>1 DEF Set
    <3> QED BY <1>0, <2>1, <3>1, <3>2, SetFacts DEF Steps
  <2>2. CASE ~(x \in consumers[p] /\ consume[p][x] = "shown")
    BY <1>0, <2>2 DEF ProducerClosed, SfuTypeOK
  <2> QED BY <2>1, <2>2
<1>6. SfuTypeOK'
  BY <1>0, <1>4, <1>5 DEF SfuTypeOK, roomVars
<1>7. PageMoves(p)
  BY <1>3, <1>4, <1>5, <1>6 DEF PageMoves, Away
<1>8. TrackKeeps(p, x)
  <2>1. m = Closing(x)
    BY <1>1 DEF MessageOK, Closing, Message, Messages
  <2>2. consume'[p][x] # "no" \/ x \in queue'[p] => Owner[x] # p /\ Known(x) /\ Listening
    BY <1>0, <1>4, <1>5 DEF WellFormed, Silent
  <2>3. ~overtaken => TileOK(p, x)'
    <3>1. ~overtaken => TileOK(p, x)
      BY DEF SeenInv, Tiles
    <3>2. ~overtaken => consume'[p][x] # "shown"
      BY <1>5, <3>1 DEF TileOK
    <3> QED BY <1>0, <2>1, <3>1, <3>2, TileEnds
  <2>4. Once(p, TrackTokens(x), consume[p][x])'
    <3>1. PICK b : b = consume[p][x]
      OBVIOUS
    <3>2. Once(p, TrackTokens(x), b)
      BY <1>0, <3>1 DEF TracksOnce
    <3>3. Once(p, TrackTokens(x), b)'
      BY <1>0, <1>4, <3>2, OnceKept
    <3>4. CASE consume'[p][x] = b
      BY <3>3, <3>4 DEF Once
    <3>5. CASE consume'[p][x] # b
      <4>1. Idle(p, TrackTokens(x))
        BY <1>0, <1>5, <3>1, <3>5, TrackIdle DEF TrackKinds
      <4>2. \A i \in 1..Len(inbox'[p]) : \E j \in At(p) : inbox'[p][i] = inbox[p][j]
        BY <1>0, StillThere
      <4> QED BY <1>4, <4>1, <4>2 DEF Idle, Once, At
    <3> QED BY <3>4, <3>5
  <2> QED BY <1>2, <2>2, <2>3, <2>4 DEF TrackKeeps
<1> QED BY <1>1, <1>4, <1>5, <1>7, <1>8, TrackAnswered

LEMMA ReceiveSeen == ASSUME SeenInv, NEW p \in Peers, Receive(p) PROVE SeenInv'
<1> USE DEF BaseInv
<1>0. SfuTypeOK /\ BaseInv /\ Around /\ WellFormed
  BY DEF SeenInv
<1>1. /\ inbox[p] # <<>> /\ inbox' = [inbox EXCEPT ![p] = Tail(@)]
      /\ UNCHANGED <<serviceVars, roomVars, current, timeouts>>
  BY DEF Receive
<1>2. /\ inbox' \in [Peers -> Seq(Messages)] /\ Cuts(p, 1) /\ 1 \in At(p)
      /\ \A q \in Peers \ {p} : inbox'[q] = inbox[q]
      /\ Head(inbox[p]) = inbox[p][1]
  BY <1>0, <1>1, TailInbox DEF Cuts
<1>3. CASE stage[p] = "joined"
  BY <1>1, <1>2, <1>3, ReceiveJoined DEF Receive
<1>4. CASE stage[p] # "joined"
  <2>1. PICK m : m = inbox[p][1]
    OBVIOUS
  <2>2. Handle(p, m)
    BY <1>2, <1>4, <2>1 DEF Receive
  <2>3. m \in Messages /\ MessageOK(p, m)
    BY <1>0, <1>2, <2>1, InboxFacts DEF WellFormed
  <2>4. stage[p] \notin {"out", "joined", "left"}
    BY <1>0, <1>1, <1>4 DEF Around, Away
  <2>5. CASE ~m.ok /\ Rejected(p, m.kind, m.of) /\ UNCHANGED <<requests, queue, recv, consumers>>
    <3>1. m.kind \in Kinds
      BY <2>3, <2>5 DEF MessageOK, Kinds
    <3>2. timeouts' \in 0..MaxTimeouts /\ (timeouts' # 0 \/ (timeouts = 0 /\ ~m.ok))
      BY <1>0, <1>1, <2>5 DEF SfuTypeOK
    <3> QED BY <1>1, <1>2, <2>1, <2>5, <3>1, <3>2, RejectedMessage
  <2>6. CASE \/ m.ok /\ m.kind = "caps" /\ GotCaps(p)
             \/ m.ok /\ m.kind = "produce" /\ Produced(p)
             \/ m.kind = "list" /\ Listed(p, m.of)
    <3>1. m.ok
      BY <2>3, <2>6 DEF MessageOK
    <3> QED BY <1>1, <1>2, <2>1, <2>6, <3>1, GrantedSeen
  <2>7. ASSUME NEW x \in m.of,
               \/ m.ok /\ m.kind = "transport" /\ Transport(p, x)
               \/ m.ok /\ m.kind = "consume" /\ Consumed(p, x)
               \/ m.ok /\ m.kind = "resume" /\ Resumed(p, x)
               \/ m.kind = "producer-closed" /\ ProducerClosed(p, x)
               \/ m.kind = "new-producer" /\ Consume(p, x) /\ UNCHANGED <<stage, queue, recv, consumers>>
        PROVE  SeenInv'
    <3>1. m.of = {x} /\ x \in Producers
      <4>1. m.kind \notin {"caps", "list"}
        BY <2>7
      <4>2. PICK y \in Producers : m.of = {y}
        BY <2>3, <4>1 DEF MessageOK
      <4> QED BY <2>7, <4>2
    <3>2. CASE m.ok /\ m.kind = "transport" /\ Transport(p, x)
      <4>1. CASE stage[p] \in {"init", "loading", "broken"}
        <5>1. Set(p, x, "no") /\ UNCHANGED <<recv, requests, stage, queue, consumers>> /\ recv' \subseteq Peers
          BY <1>0, <3>2, <4>1 DEF Transport, SfuTypeOK
        <5> QED BY <1>1, <1>2, <2>1, <3>1, <3>2, <4>1, <5>1, StepSeen DEF TrackKinds
      <4>2. CASE stage[p] \notin {"init", "loading", "broken"}
        <5>1. /\ Set(p, x, "consume") /\ Ask(p, "consume", {x}) /\ recv' \subseteq Peers
              /\ UNCHANGED <<stage, queue, consumers>>
          BY <1>0, <3>2, <4>2 DEF Transport, SfuTypeOK
        <5> QED BY <1>1, <1>2, <2>1, <2>4, <3>1, <3>2, <5>1, AsksSeen
      <4> QED BY <4>1, <4>2
    <3>3. CASE \/ m.ok /\ m.kind = "consume" /\ Consumed(p, x)
               \/ m.ok /\ m.kind = "resume" /\ Resumed(p, x)
      <4>1. PICK step \in {"creating", "shown"} :
               /\ Set(p, x, step) /\ UNCHANGED <<requests, stage, queue, recv, consumers>>
               /\ step = "shown" => m.kind = "resume"
        BY <3>3 DEF Consumed, Resumed
      <4>2. m.ok /\ m.kind \in TrackKinds /\ recv' \subseteq Peers
        BY <1>0, <3>3, <4>1 DEF TrackKinds, SfuTypeOK
      <4> QED BY <1>1, <1>2, <2>1, <3>1, <4>1, <4>2, StepSeen
    <3>4. CASE m.kind = "producer-closed" /\ ProducerClosed(p, x)
      BY <1>1, <1>2, <1>4, <2>1, <3>1, <3>4, ClosedSeen
    <3>5. CASE m.kind = "new-producer" /\ Consume(p, x) /\ UNCHANGED <<stage, queue, recv, consumers>>
      <4>1. m.ok /\ recv' \subseteq Peers
        BY <1>0, <2>3, <3>5 DEF MessageOK, SfuTypeOK
      <4>2. CASE consume[p][x] # "no" /\ UNCHANGED <<consume, requests>>
        BY <1>1, <1>2, <2>1, <3>1, <3>5, <4>2, HeardSeen
      <4>3. CASE Consumes(p, x, "transport")
        <5>1. consume[p][x] = "no" /\ Set(p, x, "transport") /\ Ask(p, "transport", {x})
          BY <4>3 DEF Consumes
        <5>2. UNCHANGED <<serviceVars, roomVars, current, timeouts, stage, queue, consumers>> /\ m.kind = "new-producer"
          BY <1>1, <3>5
        <5> QED BY <1>2, <2>1, <2>4, <3>1, <4>1, <5>1, <5>2, AsksSeen
      <4>4. CASE Consumes(p, x, "consume")
        <5>1. consume[p][x] = "no" /\ Set(p, x, "consume") /\ Ask(p, "consume", {x})
          BY <4>4 DEF Consumes
        <5>2. UNCHANGED <<serviceVars, roomVars, current, timeouts, stage, queue, consumers>> /\ m.kind = "new-producer"
          BY <1>1, <3>5
        <5> QED BY <1>2, <2>1, <2>4, <3>1, <4>1, <5>1, <5>2, AsksSeen
      <4> QED BY <3>5, <4>2, <4>3, <4>4, ConsumeFacts
    <3> QED BY <2>7, <3>2, <3>3, <3>4, <3>5
  <2> QED BY <2>2, <2>5, <2>6, <2>7 DEF Handle
<1> QED BY <1>3, <1>4

LEMMA PagesSeen ==
    ASSUME SeenInv, NEW p \in Peers, Goes(p) \/ Timeout(p) PROVE SeenInv'
BY StartSeen, LoadedSeen, PublishSeen, ConsumeNextSeen, CreatedSeen, ReceiveSeen, TimeoutSeen DEF Goes

(***************************************************************************)
(* SeenInv: what the server does                                           *)
(***************************************************************************)
\* More is on its way to p.
LEMMA TileExtended ==
    ASSUME SfuTypeOK, NEW p \in Peers, NEW x \in Producers, TileOK(p, x), inbox'[p] \in Seq(Messages),
           NEW M, Extends(p, M), ResumeOk(x) \notin M,
           consume'[p][x] = consume[p][x], consumers'[p] = consumers[p],
           x \in live => x \in live' \/ \E i \in 1..Len(inbox'[p]) : inbox'[p][i] = Closing(x)
    PROVE  TileOK(p, x)'
<1>1. PICK n \in Nat, k \in Nat : n = Len(inbox[p]) /\ k = Len(inbox'[p])
  BY InboxFacts, LenProperties
<1>2. /\ n <= k /\ \A i \in 1..n : inbox'[p][i] = inbox[p][i]
      /\ \A i \in 1..k : i \in 1..n \/ inbox'[p][i] \in M
  BY <1>1 DEF Extends, At
<1>3. Due(p, x) => x \in live' \/ \E j \in 1..k : inbox'[p][j] = Closing(x)
  <2>1. ASSUME NEW j \in 1..n, inbox[p][j] = Closing(x) PROVE \E i \in 1..k : inbox'[p][i] = Closing(x)
    BY <1>2, <2>1
  <2> QED BY <1>1, <2>1 DEF Due, At
<1>4. ASSUME NEW i \in 1..k, inbox'[p][i] = ResumeOk(x)
      PROVE  /\ x \in consumers[p] /\ Due(p, x)
             /\ \A j \in 1..k : inbox'[p][j] = Closing(x) => j > i
  <2>1. i \in 1..n /\ inbox[p][i] = ResumeOk(x)
    BY <1>2, <1>4
  <2>2. x \in consumers[p] /\ Due(p, x) /\ \A j \in 1..n : inbox[p][j] = Closing(x) => j > i
    BY <1>1, <2>1 DEF TileOK, At
  <2>3. ASSUME NEW j \in 1..k, inbox'[p][j] = Closing(x) PROVE j > i
    <3>1. CASE j \in 1..n
      BY <1>2, <2>2, <2>3, <3>1
    <3>2. CASE j \notin 1..n
      BY <2>1, <3>2
    <3> QED BY <3>1, <3>2
  <2> QED BY <2>2, <2>3
<1>5. /\ At(p)' = 1..k /\ ResumeOk(x)' = ResumeOk(x) /\ Closing(x)' = Closing(x)
      /\ Due(p, x)' <=> (x \in live' \/ \E j \in 1..k : inbox'[p][j] = Closing(x))
  BY <1>1 DEF At, ResumeOk, Closing, Message, Due
<1>6. consume[p][x] = "shown" => x \in consumers[p] /\ Due(p, x)
  BY DEF TileOK
<1> QED BY <1>3, <1>4, <1>5, <1>6 DEF TileOK

\* The answer to a resume, where no closing is on its way.
LEMMA TileGranted ==
    ASSUME SfuTypeOK, NEW p \in Peers, NEW x \in Producers, TileOK(p, x), inbox'[p] \in Seq(Messages),
           NEW M, Extends(p, M), Closing(x) \notin M, \A j \in At(p) : inbox[p][j] # Closing(x),
           consume'[p][x] = consume[p][x], consumers'[p] = consumers[p], x \in live', x \in consumers[p]
    PROVE  TileOK(p, x)'
<1>1. \A j \in 1..Len(inbox'[p]) : inbox'[p][j] # Closing(x)
  BY DEF Extends
<1>2. At(p)' = 1..Len(inbox'[p]) /\ Closing(x)' = Closing(x) /\ Due(p, x)'
  BY DEF At, Closing, Message, Due
<1> QED BY <1>1, <1>2 DEF TileOK

LEMMA CoverExtended ==
    ASSUME SfuTypeOK, NEW p \in Peers, NEW x \in Producers, CoverOK(p, x), inbox'[p] \in Seq(Messages),
           NEW M, Extends(p, M), \A m \in M : m.kind = "list" => x \in m.of,
           stage'[p] = stage[p], consume'[p] = consume[p], queue'[p] = queue[p]
    PROVE  CoverOK(p, x)'
<1>1. PICK n \in Nat, k \in Nat : n = Len(inbox[p]) /\ k = Len(inbox'[p])
  BY InboxFacts, LenProperties
<1>2. /\ n <= k /\ \A i \in 1..n : inbox'[p][i] = inbox[p][i]
      /\ \A i \in 1..k : i \in 1..n \/ inbox'[p][i] \in M
  BY <1>1 DEF Extends, At
<1>3. Coming(p, x) => Coming(p, x)'
  <2>1. ASSUME NEW j \in 1..n, inbox[p][j] = Announced(x) PROVE j \in 1..k /\ inbox'[p][j] = Announced(x)
    BY <1>2, <2>1
  <2> QED BY <1>1, <2>1 DEF Coming, At, Announced, Message
<1>4. \A i \in 1..k : inbox'[p][i].kind = "list" => x \in inbox'[p][i].of \/ Coming(p, x)'
  <2> TAKE i \in 1..k
  <2>1. CASE i \in 1..n
    BY <1>1, <1>2, <1>3, <2>1 DEF CoverOK, At
  <2>2. CASE i \notin 1..n
    BY <1>2, <2>2
  <2> QED BY <2>1, <2>2
<1> QED BY <1>1, <1>3, <1>4 DEF CoverOK, At

\* What a message said stays true while producers come and their owners leave.
LEMMA StaysOK ==
    ASSUME SfuTypeOK, SfuTypeOK', \A x \in Producers : (Left(x) => Left(x)') /\ (Known(x) => Known(x)')
    PROVE  /\ \A r \in Requests : RequestOK(r) => RequestOK(r)'
           /\ \A q \in Peers : \A m \in Messages : MessageOK(q, m) => MessageOK(q, m)'
<1>1. \A r \in Requests : RequestOK(r) => RequestOK(r)'
  BY DEF RequestOK, Requests
<1>2. \A q \in Peers : \A m \in Messages : MessageOK(q, m) => MessageOK(q, m)'
  BY DEF MessageOK, Messages
<1> QED BY <1>1, <1>2

\* What is well-formed stays so, if what is new is.
LEMMA WellFormedStays ==
    ASSUME SfuTypeOK, SfuTypeOK', WellFormed, \A x \in Producers : (Left(x) => Left(x)') /\ (Known(x) => Known(x)'),
           \A r \in requests' : r \in requests \/ RequestOK(r)',
           \A q \in Peers : \A i \in 1..Len(inbox'[q]) :
              \/ \E j \in At(q) : inbox'[q][i] = inbox[q][j]
              \/ \E m \in Messages : inbox'[q][i] = m /\ MessageOK(q, m)',
           \A q \in Peers, x \in Producers :
              consume'[q][x] # "no" \/ x \in queue'[q] => consume[q][x] # "no" \/ x \in queue[q]
    PROVE  WellFormed'
<1>1. /\ \A r \in Requests : RequestOK(r) => RequestOK(r)'
      /\ \A q \in Peers : \A m \in Messages : MessageOK(q, m) => MessageOK(q, m)'
  BY StaysOK
<1>2. \A r \in requests' : RequestOK(r)'
  BY <1>1 DEF WellFormed, SfuTypeOK
<1>3. ASSUME NEW q \in Peers, NEW i \in 1..Len(inbox'[q])
      PROVE  \E m \in Messages : inbox'[q][i] = m /\ MessageOK(q, m)'
  <2>1. CASE \E j \in At(q) : inbox'[q][i] = inbox[q][j]
    <3>1. PICK j \in At(q) : inbox'[q][i] = inbox[q][j]
      BY <2>1
    <3>2. inbox[q][j] \in Messages /\ MessageOK(q, inbox[q][j])
      BY InboxFacts DEF WellFormed
    <3>3. PICK m \in Messages : m = inbox[q][j]
      BY <3>2
    <3>4. MessageOK(q, m)'
      BY <1>1, <3>2, <3>3
    <3> QED BY <3>1, <3>3, <3>4
  <2> QED BY <1>3, <2>1
<1>4. \A q \in Peers, x \in Producers :
         consume'[q][x] # "no" \/ x \in queue'[q] => Owner[x] # q /\ Known(x)'
  BY DEF WellFormed
<1> QED BY <1>2, <1>3, <1>4 DEF WellFormed, At

\* The server answers: the client hears of it if it still waits.
LEMMA AnsweredSeen ==
    ASSUME SeenInv, NEW r \in requests, NEW xs \in SUBSET Producers, NEW ok \in BOOLEAN, Answer(r, xs, ok),
           UNCHANGED <<serviceVars, roomVars, stage, clientVars>>,
           NEW m, m = Message(r.kind, xs, ok), MessageOK(r.who, m),
           r.kind \in TrackKinds => xs = r.of,
           r.kind = "list" => xs \subseteq registry /\ \A x \in live : Owner[x] # r.who /\ live \subseteq registry => x \in xs,
           r.kind = "caps" /\ ok => router,
           r.kind = "resume" /\ ok => r.status = "ok"
    PROVE  SeenInv'
<1> USE DEF BaseInv
<1>0. SfuTypeOK /\ BaseInv /\ TracksOnce /\ PagesOnce /\ WellFormed /\ Around /\ Silent /\ Routed
  BY DEF SeenInv
<1>1. PICK p \in Peers : p = r.who
  BY <1>0 DEF SfuTypeOK, Requests
<1>2. r \in Requests /\ RequestOK(r) /\ r.kind \in Kinds
  BY <1>0 DEF SfuTypeOK, WellFormed, Requests
<1>3. m \in Messages /\ m.kind = r.kind /\ m.of = xs /\ m.ok = ok
  BY <1>2 DEF Message, Messages
<1>4. /\ requests' = requests \ {r}
      /\ r.awaited => inbox' = [inbox EXCEPT ![p] = Append(@, m)]
      /\ ~r.awaited => UNCHANGED inbox
  BY <1>1 DEF Answer
<1>5. /\ UNCHANGED <<router, pc, twice, present, live, registry, overtaken, timeouts>>
      /\ UNCHANGED <<stage, queue, consume, consumers, current, recv>> /\ (Listening' <=> Listening)
  BY DEF serviceVars, roomVars, clientVars, Listening
<1>6. /\ inbox' \in [Peers -> Seq(Messages)] /\ \A q \in Peers \ {p} : inbox'[q] = inbox[q]
      /\ r.awaited => Extends(p, {m})
      /\ ~r.awaited => inbox'[p] = inbox[p]
  BY <1>0, <1>3, <1>4, AppendedInbox DEF SfuTypeOK
<1>7. SfuTypeOK'
  BY <1>0, <1>4, <1>5, <1>6 DEF SfuTypeOK
<1>8. \A q \in Peers : Extends(q, IF q = p /\ r.awaited THEN {m} ELSE {})
  BY <1>0, <1>6, UnchangedInbox
<1>9. \A q \in Peers : \A i \in 1..Len(inbox'[q]) :
         (\E j \in At(q) : inbox'[q][i] = inbox[q][j]) \/ (q = p /\ inbox'[q][i] = m)
  BY <1>8 DEF Extends
<1>10. WellFormed'
  <2>1. \A x \in Producers : (Left(x) => Left(x)') /\ (Known(x) => Known(x)')
    BY <1>5 DEF Left, Known
  <2>2. MessageOK(p, m)'
    BY <1>0, <1>1, <1>3, <1>7, <2>1, StaysOK
  <2>3. \A r1 \in requests' : r1 \in requests
    BY <1>4
  <2> QED BY <1>0, <1>3, <1>5, <1>7, <1>9, <2>1, <2>2, <2>3, WellFormedStays
<1>11. Around'
  <2>1. stage[p] \notin {"out", "joined", "left"}
    BY <1>0, <1>1 DEF Around
  <2>2. \A q \in Peers : q = p \/ (inbox'[q] = inbox[q] /\ \A i \in At(q) : inbox'[q][i] = inbox[q][i])
    BY <1>6
  <2>3. \A s \in requests' : s \in requests
    BY <1>4
  <2> QED BY <1>0, <1>5, <2>1, <2>2, <2>3 DEF Around, Away, At
<1>12. Silent'
  <2> SUFFICES ASSUME ~Listening
               PROVE  /\ registry' = {}
                      /\ \A q \in Peers : queue'[q] = {} /\ \A x \in Producers : consume'[q][x] = "no"
                      /\ \A s \in requests' : s.kind \notin TrackKinds
                      /\ \A q \in Peers : \A i \in 1..Len(inbox'[q]) :
                            inbox'[q][i].kind \in PageKinds /\ (inbox'[q][i].kind = "list" => inbox'[q][i].of = {})
    BY <1>5 DEF Silent, At
  <2>1. m.kind \in PageKinds /\ (m.kind = "list" => m.of = {})
    BY <1>0, <1>2, <1>3, TokenIs DEF Silent
  <2>2. \A s \in requests' : s.kind \notin TrackKinds
    BY <1>0, <1>4 DEF Silent
  <2>3. \A q \in Peers : \A i \in 1..Len(inbox'[q]) :
           inbox'[q][i].kind \in PageKinds /\ (inbox'[q][i].kind = "list" => inbox'[q][i].of = {})
    BY <1>0, <1>9, <2>1 DEF Silent
  <2> QED BY <1>0, <1>5, <2>2, <2>3 DEF Silent
<1>13. ASSUME NEW q \in Peers, NEW T, NEW now, Once(q, T, now), Token(T, m) <=> Token(T, r)
       PROVE  Once(q, T, now)'
  <2>1. CASE q = p /\ r.awaited /\ Token(T, r)
    <3>1. Asks(p, T, r)
      BY <1>1, <2>1 DEF Asks
    <3> QED BY <1>0, <1>3, <1>4, <1>13, <2>1, <3>1, OnceAnswered
  <2>2. CASE q = p /\ r.awaited /\ ~Token(T, r)
    BY <1>0, <1>4, <1>6, <1>13, <2>2, OnceExtended
  <2>3. CASE ~(q = p /\ r.awaited)
    BY <1>0, <1>4, <1>6, <1>13, <2>3, OnceKept
  <2> QED BY <2>1, <2>2, <2>3
<1>14. TracksOnce'
  <2> SUFFICES ASSUME NEW q \in Peers, NEW x \in Producers PROVE Once(q, TrackTokens(x), consume[q][x])'
    BY DEF TracksOnce
  <2>1. PICK b : b = consume[q][x]
    OBVIOUS
  <2>2. Once(q, TrackTokens(x), b)
    BY <1>0, <2>1 DEF TracksOnce
  <2>3. Token(TrackTokens(x), m) <=> Token(TrackTokens(x), r)
    BY <1>3, TokenIs DEF TrackKinds
  <2>4. Once(q, TrackTokens(x), b)'
    BY <1>13, <2>2, <2>3
  <2> QED BY <1>5, <2>1, <2>4 DEF Once
<1>15. PagesOnce'
  <2> SUFFICES ASSUME NEW q \in Peers PROVE Once(q, PageTokens, WaitsFor(stage[q]))'
    BY DEF PagesOnce
  <2>1. PICK b : b = WaitsFor(stage[q])
    OBVIOUS
  <2>2. Once(q, PageTokens, b)
    BY <1>0, <2>1 DEF PagesOnce
  <2>3. Token(PageTokens, m) <=> Token(PageTokens, r)
    BY <1>2, <1>3, TokenIs
  <2>4. Once(q, PageTokens, b)'
    BY <1>13, <2>2, <2>3
  <2> QED BY <1>5, <2>1, <2>4 DEF Once, WaitsFor
<1>16. Consumers'
  BY <1>5 DEF SeenInv, Consumers, Left
<1>17. Tiles'
  <2> SUFFICES ASSUME ~overtaken PROVE /\ \A s \in requests' : s.kind = "resume" /\ s.status = "ok" => s.of \subseteq live
                                       /\ \A q \in Peers, x \in Producers : TileOK(q, x)'
    BY <1>5 DEF Tiles
  <2>1. \A s \in requests : s.kind = "resume" /\ s.status = "ok" => s.of \subseteq live
    BY DEF SeenInv, Tiles
  <2>2. ASSUME NEW q \in Peers, NEW x \in Producers PROVE TileOK(q, x)'
    <3>1. TileOK(q, x)
      BY DEF SeenInv, Tiles
    <3>2. PICK M : M = IF q = p /\ r.awaited THEN {m} ELSE {}
      OBVIOUS
    <3>3. Extends(q, M) /\ inbox'[q] \in Seq(Messages)
      BY <1>6, <1>8, <3>2
    <3>4. CASE ResumeOk(x) \notin M
      BY <1>0, <1>5, <3>1, <3>3, <3>4, TileExtended
    <3>5. CASE ResumeOk(x) \in M
      <4>1. q = p /\ r.awaited /\ M = {m} /\ m = ResumeOk(x)
        BY <3>2, <3>5
      <4>2. r.kind = "resume" /\ r.of = {x} /\ r.status = "ok"
        BY <1>3, <4>1, MessageIs DEF TrackKinds
      <4>3. x \in live
        BY <2>1, <4>2
      <4>4. consume[p][x] = "resume"
        <5>1. Asks(p, TrackTokens(x), r)
          BY <1>1, <4>1, <4>2, TokenIs DEF Asks, TrackKinds
        <5> QED BY <1>0, <4>2, <5>1 DEF TracksOnce, Once
      <4>5. ~Left(x)
        BY <4>3, LiveOpen
      <4>6. x \in consumers[p]
        BY <4>4, <4>5 DEF SeenInv, Consumers
      <4>7. \A j \in At(p) : inbox[p][j] # Closing(x)
        BY <1>0, <4>5, MessageIs DEF WellFormed, MessageOK
      <4>8. Closing(x) \notin M
        BY <4>1, MessageIs
      <4> QED BY <1>0, <1>5, <3>1, <3>3, <4>1, <4>3, <4>6, <4>7, <4>8, TileGranted
    <3> QED BY <3>4, <3>5
  <2> QED BY <1>4, <2>1, <2>2
<1>18. Routed'
  <2>1. m.kind = "caps" /\ m.ok => router
    BY <1>3
  <2>2. \A q \in Peers : \A i \in 1..Len(inbox'[q]) : inbox'[q][i].kind = "caps" /\ inbox'[q][i].ok => router
    BY <1>0, <1>9, <2>1 DEF Routed
  <2> QED BY <1>0, <1>4, <1>5, <2>2 DEF Routed, At
<1>19. Covered'
  <2> SUFFICES ASSUME Listening, ~twice
               PROVE  /\ live \subseteq registry
                      /\ timeouts = 0 => \A q \in Peers, x \in live : Owner[x] # q => CoverOK(q, x)'
    BY <1>5 DEF Covered
  <2>1. live \subseteq registry
    BY DEF SeenInv, Covered
  <2>2. ASSUME timeouts = 0, NEW q \in Peers, NEW x \in live, Owner[x] # q PROVE CoverOK(q, x)'
    <3>1. CoverOK(q, x) /\ x \in Producers
      BY <1>0, <2>2 DEF SeenInv, Covered, SfuTypeOK
    <3>2. PICK M : M = IF q = p /\ r.awaited THEN {m} ELSE {}
      OBVIOUS
    <3>3. Extends(q, M) /\ inbox'[q] \in Seq(Messages)
      BY <1>6, <1>8, <3>2
    <3>4. \A m1 \in M : m1.kind = "list" => x \in m1.of
      BY <1>1, <1>3, <2>1, <2>2, <3>2
    <3> QED BY <1>0, <1>5, <3>1, <3>3, <3>4, CoverExtended
  <2> QED BY <2>1, <2>2
<1>20. Finished'
  BY <1>5 DEF SeenInv, Finished
<1>21. Registered'
  BY <1>5 DEF SeenInv, Registered
<1> QED BY <1>21, <1>7, <1>10, <1>11, <1>12, <1>14, <1>15, <1>16, <1>17, <1>18, <1>19, <1>20 DEF SeenInv

LEMMA AnswersSeen ==
    ASSUME SeenInv, RouterInv, NEW r \in requests, Caps(r) \/ ListProducers(r) \/ CreateTransport(r) \/ Reply(r),
           UNCHANGED <<serviceVars, stage, clientVars>>
    PROVE  SeenInv'
<1> USE DEF BaseInv
<1>0. SfuTypeOK /\ WellFormed /\ Around /\ Routed
  BY DEF SeenInv
<1>1. r \in Requests /\ RequestOK(r) /\ r.kind \in Kinds /\ r.who \in Peers /\ r.of \in SUBSET Producers
  BY <1>0 DEF SfuTypeOK, WellFormed, Requests
<1>2. CASE Caps(r)
  <2>1. PICK ok \in BOOLEAN : ok = (pc[r.who] = "done")
    OBVIOUS
  <2>2. r.kind = "caps" /\ Answer(r, {}, ok) /\ UNCHANGED roomVars
    BY <1>2, <2>1 DEF Caps
  <2>3. ok => router
    BY <1>0, <1>1, <2>1 DEF Routed, Callers
  <2>4. PICK m : m = Message(r.kind, {}, ok)
    OBVIOUS
  <2>5. MessageOK(r.who, m)
    BY <2>2, <2>4 DEF MessageOK, Message, TrackKinds
  <2>6. r.kind \notin TrackKinds /\ r.kind \notin {"list", "resume"} /\ {} \in SUBSET Producers
    BY <2>2 DEF TrackKinds
  <2> QED BY <2>2, <2>3, <2>4, <2>5, <2>6, AnsweredSeen
<1>3. CASE ListProducers(r)
  <2>1. PICK xs \in SUBSET Producers : xs = {x \in registry : Owner[x] # r.who}
    BY <1>0 DEF SfuTypeOK
  <2>2. r.kind = "list" /\ Answer(r, xs, TRUE) /\ UNCHANGED roomVars
    BY <1>3, <2>1 DEF ListProducers
  <2>3. PICK m : m = Message(r.kind, xs, TRUE)
    OBVIOUS
  <2>4. \A x \in registry : Known(x)
    BY DEF SeenInv, Registered, Known
  <2>5. MessageOK(r.who, m)
    BY <2>1, <2>2, <2>3, <2>4 DEF MessageOK, Message, TrackKinds
  <2>6. r.kind \notin TrackKinds /\ r.kind \notin {"caps", "resume"} /\ TRUE \in BOOLEAN
    BY <2>2 DEF TrackKinds
  <2> QED BY <2>1, <2>2, <2>3, <2>5, <2>6, AnsweredSeen
<1>4. CASE CreateTransport(r)
  <2>1. r.kind = "transport" /\ Answer(r, r.of, TRUE) /\ UNCHANGED roomVars
    BY <1>4 DEF CreateTransport
  <2>2. PICK m : m = Message(r.kind, r.of, TRUE)
    OBVIOUS
  <2>3. MessageOK(r.who, m)
    BY <1>1, <2>1, <2>2 DEF RequestOK, MessageOK, Message, TrackKinds
  <2>4. r.kind \notin {"caps", "list", "resume"} /\ TRUE \in BOOLEAN
    BY <2>1
  <2> QED BY <1>1, <2>1, <2>2, <2>3, <2>4, AnsweredSeen
<1>5. CASE Reply(r)
  <2>1. PICK ok \in BOOLEAN : ok = (r.status = "ok")
    OBVIOUS
  <2>2. r.status # "sent" /\ Answer(r, r.of, ok) /\ UNCHANGED roomVars
    BY <1>5, <2>1 DEF Reply
  <2>3. PICK m : m = Message(r.kind, r.of, ok)
    OBVIOUS
  <2>4. r.kind \notin {"caps", "list", "transport"} /\ (~ok => r.status = "error" /\ r.kind # "produce")
    BY <1>1, <2>1, <2>2 DEF RequestOK, Requests
  <2>5. MessageOK(r.who, m)
    <3>1. m.kind = r.kind /\ m.of = r.of /\ m.ok = ok
      BY <2>3 DEF Message
    <3> QED BY <1>1, <2>4, <3>1 DEF RequestOK, MessageOK, TrackKinds, Kinds
  <2> QED BY <1>1, <2>1, <2>2, <2>3, <2>4, <2>5, AnsweredSeen
<1> QED BY <1>2, <1>3, <1>4, <1>5

\* What a request will be answered is decided.
LEMMA DecidedFacts ==
    ASSUME SfuTypeOK, NEW r \in requests, NEW ok \in BOOLEAN, Decided(r, ok)
    PROVE  \E d \in Requests : /\ requests' = (requests \ {r}) \cup {d}
                               /\ d.who = r.who /\ d.awaited = r.awaited /\ d.kind = r.kind /\ d.of = r.of
                               /\ d.status = IF ok THEN "ok" ELSE "error"
<1>1. r \in Requests
  BY DEF SfuTypeOK
<1>2. PICK status \in {"sent", "ok", "error"} : status = IF ok THEN "ok" ELSE "error"
  OBVIOUS
<1>3. PICK d : d = [r EXCEPT !.status = status]
  OBVIOUS
<1>4. d \in Requests /\ d.who = r.who /\ d.awaited = r.awaited /\ d.kind = r.kind /\ d.of = r.of /\ d.status = status
  BY <1>1, <1>3 DEF Requests
<1>5. requests' = (requests \ {r}) \cup {d}
  BY <1>2, <1>3 DEF Decided
<1> QED BY <1>2, <1>4, <1>5

\* The server does what a request asks for: its answer is decided, the others may hear of it,
\* and nothing closes.
LEMMA ServedSeen ==
    ASSUME SeenInv, SfuTypeOK', NEW r \in requests, NEW d \in Requests,
           requests' = (requests \ {r}) \cup {d},
           d.who = r.who, d.awaited = r.awaited, d.kind = r.kind, d.of = r.of,
           RequestOK(d)', d.kind = "resume" /\ d.status = "ok" => d.of \subseteq live,
           UNCHANGED <<serviceVars, present, overtaken, stage, clientVars>>,
           live \subseteq live', \A x \in live' : x \in live \/ (Owner[x] = r.who /\ r.kind = "produce"),
           registry' \subseteq live', ~Listening => registry' = registry,
           live \subseteq registry /\ Listening => live' \subseteq registry',
           NEW M, \A m \in M : m \in Messages /\ m.kind = "new-producer" /\ \A q \in Peers \ {r.who} : MessageOK(q, m)',
           \A q \in Peers : IF Listening /\ q \in present \ {r.who} THEN Extends(q, M) ELSE inbox'[q] = inbox[q],
           \A x \in live' \ live : \A q \in Peers : Listening /\ q \in present \ {r.who} =>
              \E i \in 1..Len(inbox'[q]) : inbox'[q][i] = Announced(x)
    PROVE  SeenInv'
<1> USE DEF BaseInv
<1>0. SfuTypeOK /\ BaseInv /\ TracksOnce /\ PagesOnce /\ WellFormed /\ Around /\ Silent /\ Routed
  BY DEF SeenInv
<1>1. PICK p \in Peers : p = r.who
  BY <1>0 DEF SfuTypeOK, Requests
<1>2. /\ UNCHANGED <<router, pc, twice, present, overtaken, timeouts>>
      /\ UNCHANGED <<stage, queue, consume, consumers, current, recv>> /\ (Listening' <=> Listening)
  BY DEF serviceVars, clientVars, Listening
<1>3. stage[p] \notin {"out", "joined", "left"}
  BY <1>0, <1>1 DEF Around
<1>4. \A x \in Producers : (Left(x) <=> Left(x)') /\ (Known(x) => Known(x)')
  BY <1>2 DEF Left, Known
<1>5. \A q \in Peers : Extends(q, IF Listening /\ q \in present \ {p} THEN M ELSE {}) /\ inbox'[q] \in Seq(Messages)
  <2> TAKE q \in Peers
  <2>1. inbox'[q] \in Seq(Messages)
    BY DEF SfuTypeOK
  <2> QED BY <1>0, <1>1, <2>1, UnchangedInbox
<1>6. \A q \in Peers : \A i \in 1..Len(inbox'[q]) :
         (\E j \in At(q) : inbox'[q][i] = inbox[q][j]) \/ (Listening /\ q \in present \ {p} /\ inbox'[q][i] \in M)
  BY <1>5 DEF Extends
<1>7. WellFormed'
  <2>1. \A r1 \in requests' : r1 \in requests \/ RequestOK(r1)'
    <3>1. \A r1 \in requests' : r1 \in requests \/ r1 = d
      OBVIOUS
    <3> QED BY <3>1
  <2>2. \A q \in Peers : \A i \in 1..Len(inbox'[q]) :
              \/ \E j \in At(q) : inbox'[q][i] = inbox[q][j]
              \/ \E m \in Messages : inbox'[q][i] = m /\ MessageOK(q, m)'
    BY <1>1, <1>6
  <2> QED BY <1>0, <1>2, <1>4, <2>1, <2>2, WellFormedStays
<1>8. Around'
  <2>1. \A q \in Peers : Away(q) => inbox'[q] = <<>>
    BY <1>0, <1>1 DEF Around
  <2>2. \A q \in Peers : \A i \in 1..Len(inbox'[q]) :
           (\E j \in At(q) : inbox'[q][i] = inbox[q][j]) \/ inbox'[q][i].kind \notin Kinds
    BY <1>6 DEF Kinds
  <2>3. \A s \in requests' : s \in requests \/ s.who = p
    BY <1>1
  <2>4. \A x \in live' : ~Away(Owner[x])
    BY <1>0, <1>1, <1>3 DEF Around, Away
  <2> QED BY <1>0, <1>2, <1>3, <2>1, <2>2, <2>3, <2>4 DEF Around, Away, At
<1>9. Silent'
  <2> SUFFICES ASSUME ~Listening
               PROVE  /\ registry' = {}
                      /\ \A q \in Peers : queue'[q] = {} /\ \A x \in Producers : consume'[q][x] = "no"
                      /\ \A s \in requests' : s.kind \notin TrackKinds
                      /\ \A q \in Peers : \A i \in 1..Len(inbox'[q]) :
                            inbox'[q][i].kind \in PageKinds /\ (inbox'[q][i].kind = "list" => inbox'[q][i].of = {})
    BY <1>2 DEF Silent, At
  <2>1. \A s \in requests' : s.kind \notin TrackKinds
    BY <1>0 DEF Silent
  <2>2. \A q \in Peers : \A i \in 1..Len(inbox'[q]) :
           inbox'[q][i].kind \in PageKinds /\ (inbox'[q][i].kind = "list" => inbox'[q][i].of = {})
    BY <1>0, <1>6 DEF Silent
  <2> QED BY <1>0, <1>2, <2>1, <2>2 DEF Silent
<1>10. \A m \in M : ~Token(PageTokens, m) /\ \A x \in Producers : ~Token(TrackTokens(x), m)
  BY TokenIs DEF PageKinds, TrackKinds
<1>11. ASSUME NEW q \in Peers, NEW T, NEW now, Once(q, T, now), \A m \in M : ~Token(T, m) PROVE Once(q, T, now)'
  <2>1. PICK N : N = IF Listening /\ q \in present \ {p} THEN M ELSE {}
    OBVIOUS
  <2>2. Extends(q, N) /\ \A m \in N : ~Token(T, m)
    BY <1>5, <1>11, <2>1
  <2> QED BY <1>11, <2>2, OnceDecided
<1>12. TracksOnce'
  <2> SUFFICES ASSUME NEW q \in Peers, NEW x \in Producers PROVE Once(q, TrackTokens(x), consume[q][x])'
    BY DEF TracksOnce
  <2>1. PICK b : b = consume[q][x]
    OBVIOUS
  <2>2. Once(q, TrackTokens(x), b)
    BY <1>0, <2>1 DEF TracksOnce
  <2>3. Once(q, TrackTokens(x), b)'
    BY <1>10, <1>11, <2>2
  <2> QED BY <1>2, <2>1, <2>3 DEF Once
<1>13. PagesOnce'
  <2> SUFFICES ASSUME NEW q \in Peers PROVE Once(q, PageTokens, WaitsFor(stage[q]))'
    BY DEF PagesOnce
  <2>1. PICK b : b = WaitsFor(stage[q])
    OBVIOUS
  <2>2. Once(q, PageTokens, b)
    BY <1>0, <2>1 DEF PagesOnce
  <2>3. Once(q, PageTokens, b)'
    BY <1>10, <1>11, <2>2
  <2> QED BY <1>2, <2>1, <2>3 DEF Once, WaitsFor
<1>14. Consumers'
  BY <1>2 DEF SeenInv, Consumers, Left
<1>15. Tiles'
  <2> SUFFICES ASSUME ~overtaken PROVE /\ \A s \in requests' : s.kind = "resume" /\ s.status = "ok" => s.of \subseteq live'
                                       /\ \A q \in Peers, x \in Producers : TileOK(q, x)'
    BY <1>2 DEF Tiles
  <2>1. \A s \in requests : s.kind = "resume" /\ s.status = "ok" => s.of \subseteq live
    BY DEF SeenInv, Tiles
  <2>2. \A s \in requests' : s \in requests \/ s = d
    OBVIOUS
  <2>3. ASSUME NEW q \in Peers, NEW x \in Producers PROVE TileOK(q, x)'
    <3>1. PICK N : N = IF Listening /\ q \in present \ {p} THEN M ELSE {}
      OBVIOUS
    <3>2. Extends(q, N) /\ ResumeOk(x) \notin N
      BY <1>5, <3>1, MessageIs
    <3>3. TileOK(q, x)
      BY DEF SeenInv, Tiles
    <3> QED BY <1>0, <1>2, <1>5, <3>2, <3>3, TileExtended
  <2> QED BY <2>1, <2>2, <2>3
<1>16. Routed'
  <2>1. \A q \in Peers : \A i \in 1..Len(inbox'[q]) : inbox'[q][i].kind = "caps" /\ inbox'[q][i].ok => router
    BY <1>0, <1>6 DEF Routed
  <2>2. \A s \in requests' : s.kind = "produce" => router
    BY <1>0 DEF Routed
  <2>3. live' # {} => router
    BY <1>0 DEF Routed
  <2> QED BY <1>0, <1>2, <2>1, <2>2, <2>3 DEF Routed, At
<1>17. Covered'
  <2> SUFFICES ASSUME Listening, ~twice
               PROVE  /\ live' \subseteq registry'
                      /\ timeouts = 0 => \A q \in Peers, x \in live' : Owner[x] # q => CoverOK(q, x)'
    BY <1>2 DEF Covered
  <2>1. live \subseteq registry
    BY DEF SeenInv, Covered
  <2>2. ASSUME timeouts = 0, NEW q \in Peers, NEW x \in live', Owner[x] # q PROVE CoverOK(q, x)'
    <3>0. x \in Producers
      BY DEF SfuTypeOK
    <3>1. CASE x \in live
      <4>1. CoverOK(q, x)
        BY <2>2, <3>1 DEF SeenInv, Covered
      <4>2. PICK N : N = IF Listening /\ q \in present \ {p} THEN M ELSE {}
        OBVIOUS
      <4>3. Extends(q, N) /\ \A m \in N : m.kind = "list" => x \in m.of
        BY <1>5, <4>2
      <4> QED BY <1>0, <1>2, <1>5, <3>0, <4>1, <4>3, CoverExtended
    <3>2. CASE x \notin live
      <4>1. q # p
        BY <1>1, <2>2, <3>2
      <4>2. CASE Away(q)
        <5>1. inbox'[q] = <<>> /\ stage'[q] \notin {"consuming", "ready"}
          BY <1>0, <1>1, <1>2, <4>2 DEF Around, Away
        <5> QED BY <5>1 DEF CoverOK, At
      <4>3. CASE ~Away(q)
        <5>1. q \in present \ {r.who}
          BY <1>0, <1>1, <4>1, <4>3 DEF Around
        <5>2. \E i \in 1..Len(inbox'[q]) : inbox'[q][i] = Announced(x)
          BY <2>2, <3>2, <5>1
        <5>3. Coming(q, x)'
          BY <5>2 DEF Coming, At, Announced, Message
        <5> QED BY <5>3 DEF CoverOK
      <4> QED BY <4>2, <4>3
    <3> QED BY <3>1, <3>2
  <2> QED BY <2>1, <2>2
<1>18. Finished' /\ Registered'
  BY <1>2 DEF SeenInv, Finished, Registered
<1> QED BY <1>7, <1>8, <1>9, <1>12, <1>13, <1>14, <1>15, <1>16, <1>17, <1>18 DEF SeenInv

LEMMA ServeSeen ==
    ASSUME SeenInv, NEW r \in requests, Serve(r), UNCHANGED <<serviceVars, stage, clientVars>>
    PROVE  SeenInv'
<1> USE DEF BaseInv
<1>0. SfuTypeOK /\ WellFormed /\ Registered
  BY DEF SeenInv
<1>1. PICK ok \in BOOLEAN : ok = (r.of \subseteq live)
  OBVIOUS
<1>2. /\ r.kind \in {"consume", "resume"} /\ Decided(r, ok)
      /\ UNCHANGED <<inbox, present, live, registry, overtaken, stage, queue, current, recv, consume, consumers, timeouts>>
  BY <1>1 DEF Serve, roomVars, clientVars
<1>3. PICK d \in Requests : /\ requests' = (requests \ {r}) \cup {d}
                            /\ d.who = r.who /\ d.awaited = r.awaited /\ d.kind = r.kind /\ d.of = r.of
                            /\ d.status = IF ok THEN "ok" ELSE "error"
  BY <1>0, <1>2, DecidedFacts
<1>4. SfuTypeOK'
  <2>1. requests' \subseteq Requests
    BY <1>0, <1>3 DEF SfuTypeOK
  <2> QED BY <1>0, <1>2, <2>1 DEF SfuTypeOK
<1>5. RequestOK(d)'
  <2>1. RequestOK(r)
    BY <1>0 DEF WellFormed
  <2>2. PICK x \in Producers : r.of = {x} /\ Known(x)
    BY <1>2, <2>1 DEF RequestOK, TrackKinds
  <2>3. ~ok => Left(x)
    BY <1>1, <2>2 DEF Known
  <2>4. Known(x)' /\ (~ok => Left(x)')
    BY <1>2, <2>2, <2>3 DEF Known, Left
  <2>5. d.kind \notin {"caps", "list", "transport", "produce"} /\ d.of = {x} /\ (d.status = "error" => ~ok)
    BY <1>2, <1>3, <2>2
  <2> QED BY <2>4, <2>5 DEF RequestOK
<1>6. d.kind = "resume" /\ d.status = "ok" => d.of \subseteq live
  BY <1>1, <1>3
<1>7. PICK M : M = {}
  OBVIOUS
<1>8. \A q \in Peers : IF Listening /\ q \in present \ {r.who} THEN Extends(q, M) ELSE inbox'[q] = inbox[q]
  BY <1>0, <1>2, <1>7, UnchangedInbox
<1>9. registry' \subseteq live' /\ live' = live /\ registry' = registry /\ UNCHANGED <<present, overtaken>>
  BY <1>0, <1>2 DEF Registered
<1> QED BY <1>3, <1>4, <1>5, <1>6, <1>7, <1>8, <1>9, ServedSeen

LEMMA ProduceSeen ==
    ASSUME SeenInv, NEW r \in requests, Produce(r), UNCHANGED <<serviceVars, stage, clientVars>>
    PROVE  SeenInv'
<1> USE DEF BaseInv
<1>0. SfuTypeOK /\ WellFormed /\ Registered /\ Silent
  BY DEF SeenInv
<1>1. /\ r.kind = "produce" /\ live' = live \cup r.of /\ Decided(r, TRUE) /\ TRUE \in BOOLEAN
      /\ registry' = IF Listening THEN registry \cup r.of ELSE registry
      /\ inbox' = NotifiedExcept(r.who, "new-producer", r.of)
      /\ UNCHANGED <<present, overtaken, stage, queue, current, recv, consume, consumers, timeouts>>
  BY DEF Produce, clientVars
<1>2. r \in Requests /\ RequestOK(r) /\ r.who \in Peers /\ r.of \in SUBSET Producers
  BY <1>0 DEF SfuTypeOK, WellFormed, Requests
<1>3. PICK x \in Producers : r.of = {x} /\ Owner[x] = r.who
  BY <1>1, <1>2 DEF RequestOK
<1>4. PICK d \in Requests : /\ requests' = (requests \ {r}) \cup {d}
                            /\ d.who = r.who /\ d.awaited = r.awaited /\ d.kind = r.kind /\ d.of = r.of
                            /\ d.status = "ok"
  BY <1>0, <1>1, DecidedFacts
<1>5. PICK M : M = {Message("new-producer", {y}, TRUE) : y \in r.of}
  OBVIOUS
<1>6. M = {Announced(x)}
  BY <1>3, <1>5 DEF Announced
<1>7. ASSUME NEW q \in Peers
      PROVE  /\ inbox'[q] \in Seq(Messages)
             /\ IF Listening /\ q \in present \ {r.who} THEN Extends(q, M) ELSE inbox'[q] = inbox[q]
             /\ Listening /\ q \in present \ {r.who} => \E i \in 1..Len(inbox'[q]) : inbox'[q][i] = Announced(x)
  <2>1. inbox'[q] = NotifiedExcept(r.who, "new-producer", r.of)[q]
    BY <1>1
  <2>2. PICK xs \in SUBSET Producers, u \in Peers : xs = r.of /\ u = r.who
    BY <1>2
  <2>3. inbox'[q] = NotifiedExcept(u, "new-producer", xs)[q] /\ M = {Message("new-producer", {y}, TRUE) : y \in xs}
    BY <1>5, <2>1, <2>2
  <2>4. /\ inbox'[q] \in Seq(Messages)
        /\ ~(Listening /\ q \in present \ {u}) => inbox'[q] = inbox[q]
        /\ Extends(q, IF Listening /\ q \in present \ {u} THEN {Message("new-producer", {y}, TRUE) : y \in xs} ELSE {})
        /\ Listening /\ q \in present \ {u} =>
             \A y \in xs : \E i \in 1..Len(inbox'[q]) : inbox'[q][i] = Message("new-producer", {y}, TRUE)
    BY <1>0, <2>3, NotifiedFacts
  <2>5. Extends(q, IF Listening /\ q \in present \ {u} THEN M ELSE {})
    BY <2>3, <2>4
  <2> QED BY <1>3, <2>2, <2>4, <2>5 DEF Announced
<1>8. SfuTypeOK'
  <2>1. requests' \subseteq Requests
    BY <1>0, <1>4 DEF SfuTypeOK
  <2>2. inbox' \in [Peers -> Seq(Messages)]
    <3>1. inbox' = [q \in Peers |-> inbox'[q]]
      BY <1>1 DEF NotifiedExcept
    <3> QED BY <1>7, <3>1
  <2> QED BY <1>0, <1>1, <1>2, <2>1, <2>2 DEF SfuTypeOK
<1>9. x \in live' /\ Known(x)'
  BY <1>1, <1>3 DEF Known
<1>10. RequestOK(d)'
  BY <1>1, <1>3, <1>4 DEF RequestOK, TrackKinds
<1>11. \A m \in M : m \in Messages /\ m.kind = "new-producer" /\ \A q \in Peers \ {r.who} : MessageOK(q, m)'
  <2>1. PICK m : m = Announced(x)
    OBVIOUS
  <2>2. m.kind = "new-producer" /\ m.of = {x} /\ m.ok = TRUE /\ m \in Messages
    BY <2>1 DEF Announced, Message, Messages
  <2>3. \A q \in Peers \ {r.who} : MessageOK(q, m)'
    BY <1>3, <1>9, <2>2 DEF MessageOK, TrackKinds
  <2> QED BY <1>6, <2>1, <2>2, <2>3
<1>12. /\ live \subseteq live' /\ \A y \in live' : y \in live \/ (Owner[y] = r.who /\ r.kind = "produce")
       /\ registry' \subseteq live' /\ (~Listening => registry' = registry)
       /\ live \subseteq registry /\ Listening => live' \subseteq registry'
       /\ \A y \in live' \ live : y = x
  BY <1>0, <1>1, <1>3 DEF Registered
<1>13. /\ d.kind = "resume" /\ d.status = "ok" => d.of \subseteq live
       /\ \A q \in Peers : IF Listening /\ q \in present \ {r.who} THEN Extends(q, M) ELSE inbox'[q] = inbox[q]
       /\ \A y \in live' \ live : \A q \in Peers : Listening /\ q \in present \ {r.who} =>
             \E i \in 1..Len(inbox'[q]) : inbox'[q][i] = Announced(y)
  BY <1>1, <1>4, <1>7, <1>12
<1> QED BY <1>1, <1>4, <1>8, <1>10, <1>11, <1>12, <1>13, ServedSeen

\* What a step of ensureRoom does to the room's own call and to the router.
LEMMA ServiceStep ==
    ASSUME Service!TypeOK, pc[Room] \in {"start", "attaching", "done", "failed"},
           \A c \in Callers : pc[c] = "done" => router,
           (\E p \in Peers : EnsureHandler(p)) \/ EnsureRoom
    PROVE  /\ router => router'
           /\ twice => twice'
           /\ pc'[Room] \in {"start", "attaching", "done", "failed"}
           /\ \A c \in Callers : pc'[c] = "done" => router'
           /\ pc[Room] = "done" => pc'[Room] = "done"
           /\ pc'[Room] = "done" /\ pc[Room] # "done" /\ router => twice'
<1> USE DEF Callers, Service!Goto
<1>0. pc \in [Callers -> Service!Labels] /\ Room \notin Peers /\ router \in BOOLEAN /\ twice \in BOOLEAN
  BY SignalingAssumption DEF Service!TypeOK
<1>1. CASE \E p \in Peers : EnsureHandler(p)
  <2> PICK p \in Peers : Service!Enter(p)
    BY <1>1 DEF EnsureHandler
  <2> QED BY <1>0 DEF Service!Enter
<1>2. CASE Service!LockExpires
  BY <1>2 DEF Service!LockExpires
<1>3. ASSUME NEW c \in Callers, Service!Acquire(c) \/ Service!Poll(c) \/ Service!GiveUp(c) \/ Service!AttachFails(c)
      PROVE  /\ UNCHANGED <<router, twice>>
             /\ pc'[Room] = pc[Room] \/ pc'[Room] = "failed"
             /\ pc[Room] = "done" => pc'[Room] = "done"
             /\ \A d \in Callers : pc'[d] = "done" => pc[d] = "done"
  <2>1. CASE Service!AttachFails(c)
    BY <1>0, <2>1 DEF Service!AttachFails
  <2>2. CASE Service!Acquire(c) \/ Service!Poll(c) \/ Service!GiveUp(c)
    BY <1>0, <2>2 DEF Service!Acquire, Service!Poll, Service!GiveUp
  <2> QED BY <1>3, <2>1, <2>2
<1>4. ASSUME NEW c \in Callers, Service!Check(c)
      PROVE  /\ UNCHANGED <<router, twice>>
             /\ pc'[Room] = pc[Room]
             /\ \A d \in Callers : pc'[d] = "done" => pc[d] = "done" \/ router
  BY <1>0, <1>4 DEF Service!Check
<1>5. ASSUME NEW c \in Callers, Service!Attached(c)
      PROVE  /\ router' /\ (twice \/ router => twice')
             /\ pc'[Room] = pc[Room] \/ pc'[Room] = "done"
  BY <1>0, <1>5 DEF Service!Attached
<1> QED BY <1>1, <1>2, <1>3, <1>4, <1>5 DEF EnsureRoom

\* ensureRoom: when the room begins to listen nothing was produced, unless the router is
\* attached twice.
LEMMA EnsureSeen ==
    ASSUME SeenInv, RouterInv,
           (\E p \in Peers : EnsureHandler(p)) \/ EnsureRoom, UNCHANGED <<stage, clientVars>>
    PROVE  SeenInv'
<1> USE DEF BaseInv
<1>0. SfuTypeOK /\ BaseInv /\ Routed
  BY DEF SeenInv
<1>1. UNCHANGED <<present, live, registry, overtaken, requests, inbox, stage, queue, current, recv, consume, consumers, timeouts>>
  BY DEF EnsureHandler, EnsureRoom, roomVars, clientVars
<1>2. /\ router => router'
      /\ twice => twice'
      /\ pc'[Room] \in {"start", "attaching", "done", "failed"}
      /\ \A c \in Callers : pc'[c] = "done" => router'
      /\ Listening => Listening'
      /\ Listening' /\ ~Listening /\ router => twice'
  BY <1>0, ServiceStep DEF Routed, RouterInv, Listening
<1>3. SfuTypeOK'
  BY <1>0, <1>1 DEF SfuTypeOK
<1>4. WellFormed'
  <2>1. \A x \in Producers : (Left(x) => Left(x)') /\ (Known(x) => Known(x)')
    BY <1>1 DEF Left, Known
  <2> QED BY <1>0, <1>1, <1>3, <2>1, WellFormedStays DEF At
<1>5. Around'
  BY <1>0, <1>1 DEF Around, Away, At
<1>6. Silent'
  BY <1>0, <1>1, <1>2 DEF Silent, At
<1>7. TracksOnce' /\ PagesOnce'
  BY <1>1 DEF SeenInv, TracksOnce, PagesOnce, Once, Asks, At, WaitsFor
<1>8. Consumers' /\ Finished' /\ Registered'
  BY <1>1 DEF SeenInv, Consumers, Left, Finished, Registered
<1>9. Tiles'
  BY <1>1 DEF SeenInv, Tiles, TileOK, Due, At, Closing, ResumeOk, Message
<1>10. Routed'
  BY <1>0, <1>1, <1>2 DEF Routed, At
<1>11. Covered'
  <2> SUFFICES ASSUME Listening', ~twice'
               PROVE  /\ live \subseteq registry
                      /\ timeouts = 0 => \A q \in Peers, x \in live : Owner[x] # q => CoverOK(q, x)'
    BY <1>1 DEF Covered
  <2>1. CASE Listening
    <3>1. /\ live \subseteq registry
          /\ timeouts = 0 => \A q \in Peers, x \in live : Owner[x] # q => CoverOK(q, x)
      BY <1>2, <2>1 DEF SeenInv, Covered
    <3>2. \A q, x : CoverOK(q, x) => CoverOK(q, x)'
      BY <1>1 DEF CoverOK, Coming, At, Announced, Message
    <3> QED BY <3>1, <3>2
  <2>2. CASE ~Listening
    <3>1. live = {}
      BY <1>0, <1>2, <2>2 DEF Routed
    <3> QED BY <3>1
  <2> QED BY <2>1, <2>2
<1> QED BY <1>3, <1>4, <1>5, <1>6, <1>7, <1>8, <1>9, <1>10, <1>11 DEF SeenInv

LEMMA ServerSeen == ASSUME SeenInv, RouterInv, Server PROVE SeenInv'
<1>1. CASE HandleRpc
  <2>1. UNCHANGED <<serviceVars, stage, clientVars>>
    BY <1>1 DEF Server, HandleRpc
  <2>2. PICK r \in requests : \/ Caps(r) \/ ListProducers(r) \/ Produce(r) \/ CreateTransport(r)
                             \/ Serve(r) \/ Reply(r)
    BY <1>1 DEF HandleRpc
  <2> QED BY <2>1, <2>2, AnswersSeen, ServeSeen, ProduceSeen
<1>2. CASE (\E p \in Peers : EnsureHandler(p)) \/ EnsureRoom
  BY <1>2, EnsureSeen DEF Server
<1> QED BY <1>1, <1>2 DEF Server

(***************************************************************************)
(* SeenInv: who joins and leaves                                           *)
(***************************************************************************)
LEMMA JoinSeen == ASSUME SeenInv, RouterInv, NEW p \in Peers, Join(p) PROVE SeenInv'
<1> USE DEF BaseInv
<1>0. SfuTypeOK /\ BaseInv /\ Routed /\ Around
  BY DEF SeenInv
<1>1. /\ stage[p] = "out" /\ GoTo(p, "joined") /\ present' = present \cup {p}
      /\ UNCHANGED <<live, registry, overtaken, requests, inbox, queue, current, recv, consume, consumers, timeouts>>
  BY DEF Join, PeerJoined, clientVars
<1>2. stage' \in [Peers -> Stages] /\ \A q \in Peers : stage'[q] = IF q = p THEN "joined" ELSE stage[q]
  BY <1>0, <1>1, GoFacts DEF Stages
<1>3. /\ UNCHANGED <<router, twice>> /\ (Listening' <=> Listening)
      /\ pc'[Room] \in {"start", "attaching", "done", "failed"}
      /\ \A c \in Callers : pc'[c] = "done" => router
  <2>1. pc \in [Callers -> Service!Labels] /\ Room \in Callers
    BY DEF RouterInv, Service!TypeOK, Callers
  <2>2. CASE pc[Room] = "start"
    <3>1. Service!Goto(Room, "attaching") /\ UNCHANGED <<router, twice>>
      BY <2>2 DEF Join, PeerJoined
    <3>2. pc'[Room] = "attaching" /\ \A c \in Callers \ {Room} : pc'[c] = pc[c]
      BY <2>1, <3>1 DEF Service!Goto
    <3> QED BY <1>0, <2>2, <3>1, <3>2 DEF Listening, Routed
  <2>3. CASE pc[Room] # "start"
    BY <1>0, <2>3 DEF Join, PeerJoined, serviceVars, Listening, Routed
  <2> QED BY <2>2, <2>3
<1>4. SfuTypeOK'
  BY <1>0, <1>1, <1>2 DEF SfuTypeOK
<1>5. \A x \in Producers : Owner[x] \in Peers /\ (Left(x)' <=> Left(x))
  BY <1>1, <1>2, SignalingAssumption DEF Left
<1>6. WellFormed'
  <2>1. \A x \in Producers : (Left(x) => Left(x)') /\ (Known(x) => Known(x)')
    BY <1>1, <1>5 DEF Known
  <2> QED BY <1>0, <1>1, <1>4, <2>1, WellFormedStays DEF At
<1>7. Around'
  <2>1. \A q \in Peers : (Away(q)' => Away(q)) /\ (~Away(q)' => ~Away(q) \/ q = p)
    BY <1>1, <1>2 DEF Away
  <2>2. \A q \in Peers : stage'[q] \in {"out", "joined", "left"} => stage[q] \in {"out", "joined", "left"}
    BY <1>1, <1>2
  <2>3. \A q \in Peers : Away(q)' => q \notin present'
    BY <1>0, <1>1, <1>2, <2>1 DEF Around, Away
  <2>4. \A x \in live : ~Away(Owner[x])'
    BY <1>0, <1>5, <2>1 DEF Around, SfuTypeOK
  <2> QED BY <1>0, <1>1, <2>1, <2>2, <2>3, <2>4 DEF Around, At
<1>8. Silent'
  BY <1>0, <1>1, <1>3 DEF Silent, At
<1>9. TracksOnce' /\ PagesOnce'
  <2>1. \A q \in Peers : WaitsFor(stage'[q]) = WaitsFor(stage[q])
    BY <1>1, <1>2 DEF WaitsFor
  <2>2. TracksOnce'
    BY <1>1 DEF SeenInv, TracksOnce, Once, Asks, At
  <2>3. PagesOnce'
    <3> SUFFICES ASSUME NEW q \in Peers PROVE Once(q, PageTokens, WaitsFor(stage[q]))'
      BY DEF PagesOnce
    <3>1. PICK a : a = WaitsFor(stage[q])
      OBVIOUS
    <3>2. Once(q, PageTokens, a)
      BY <3>1 DEF SeenInv, PagesOnce
    <3>3. Once(q, PageTokens, a)'
      BY <1>1, <3>2 DEF Once, Asks, At
    <3> QED BY <2>1, <3>1, <3>3 DEF Once, WaitsFor
  <2> QED BY <2>2, <2>3
<1>10. Consumers' /\ Finished' /\ Registered'
  BY <1>1, <1>2, <1>5 DEF SeenInv, Consumers, Finished, Registered
<1>11. Tiles'
  BY <1>1 DEF SeenInv, Tiles, TileOK, Due, At, Closing, ResumeOk, Message
<1>12. Routed'
  BY <1>0, <1>1, <1>2, <1>3 DEF Routed, At, Working
<1>13. Covered'
  <2>1. \A q \in Peers, x \in Producers : CoverOK(q, x) => CoverOK(q, x)'
    BY <1>1, <1>2 DEF CoverOK, Coming, At, Announced, Message
  <2> QED BY <1>0, <1>1, <1>3, <2>1 DEF SeenInv, Covered, SfuTypeOK
<1> QED BY <1>4, <1>6, <1>7, <1>8, <1>9, <1>10, <1>11, <1>12, <1>13 DEF SeenInv

\* What the departure of p, which closes the producers `closing`, does to the pages.
Farewell(p, closing) ==
    /\ stage' \in [Peers -> Stages] /\ \A q \in Peers : stage'[q] = IF q = p THEN "left" ELSE stage[q]
    /\ queue' \in [Peers -> SUBSET Producers] /\ \A q \in Peers : queue'[q] = IF q = p THEN {} ELSE queue[q]
    /\ consume' \in [Peers -> [Producers -> Steps]] /\ \A x \in Producers : consume'[p][x] = "no"
    /\ \A q \in Peers \ {p} : consume'[q] = consume[q]
    /\ consumers' \in [Peers -> SUBSET Producers] /\ \A q \in Peers \ {p} : consumers'[q] = consumers[q]
    /\ current' \in [Peers -> Producers \cup {Nothing}] /\ recv' \subseteq Peers
    /\ inbox' \in [Peers -> Seq(Messages)] /\ inbox'[p] = <<>>
    /\ \A q \in Peers \ {p} :
          /\ \E N : /\ Extends(q, N)
                    /\ \A m \in N : Listening /\ q \in present /\ \E x \in closing : m = Closing(x)
          /\ Listening /\ q \in present =>
               \A x \in closing : \E i \in 1..Len(inbox'[q]) : inbox'[q][i] = Closing(x)

LEMMA LeaveFacts ==
    ASSUME SfuTypeOK, NEW p \in Peers, Leave(p), NEW closing, closing = {x \in live : Owner[x] = p}
    PROVE  Farewell(p, closing)
<1>1. PICK f : f = [x \in Producers |-> "no"]
  OBVIOUS
<1>2. f \in [Producers -> Steps] /\ \A x \in Producers : f[x] = "no"
  BY <1>1 DEF Steps
<1>3. consume' = [consume EXCEPT ![p] = f]
  BY <1>1 DEF Leave
<1>4. /\ consume' \in [Peers -> [Producers -> Steps]] /\ consume'[p] = f
      /\ \A q \in Peers \ {p} : consume'[q] = consume[q]
  BY <1>2, <1>3 DEF SfuTypeOK
<1>5. /\ stage' = [stage EXCEPT ![p] = "left"] /\ queue' = [queue EXCEPT ![p] = {}]
      /\ consumers' = [consumers EXCEPT ![p] = {}] /\ current' = [current EXCEPT ![p] = Nothing]
      /\ recv' = recv \ {p}
  BY DEF Leave, GoTo
<1>6. /\ stage' \in [Peers -> Stages] /\ \A q \in Peers : stage'[q] = IF q = p THEN "left" ELSE stage[q]
      /\ queue' \in [Peers -> SUBSET Producers] /\ \A q \in Peers : queue'[q] = IF q = p THEN {} ELSE queue[q]
      /\ consumers' \in [Peers -> SUBSET Producers] /\ \A q \in Peers \ {p} : consumers'[q] = consumers[q]
      /\ current' \in [Peers -> Producers \cup {Nothing}] /\ recv' \subseteq Peers
  BY <1>5 DEF SfuTypeOK, Stages
<1>7. PICK xs \in SUBSET Producers : xs = closing
  BY DEF SfuTypeOK
<1>8. inbox' = [NotifiedExcept(p, "producer-closed", xs) EXCEPT ![p] = <<>>]
  BY <1>7 DEF Leave, PeerLeft
<1>9. NotifiedExcept(p, "producer-closed", xs) = [q \in Peers |-> NotifiedExcept(p, "producer-closed", xs)[q]]
  BY DEF NotifiedExcept
<1>10. inbox'[p] = <<>> /\ \A q \in Peers \ {p} : inbox'[q] = NotifiedExcept(p, "producer-closed", xs)[q]
  BY <1>8, <1>9
<1>11. PICK M : M = {Closing(x) : x \in closing}
  OBVIOUS
<1>12. ASSUME NEW q \in Peers \ {p}
       PROVE  /\ inbox'[q] \in Seq(Messages)
              /\ \E N : /\ Extends(q, N)
                        /\ \A m \in N : Listening /\ q \in present /\ \E x \in closing : m = Closing(x)
              /\ Listening /\ q \in present =>
                   \A x \in closing : \E i \in 1..Len(inbox'[q]) : inbox'[q][i] = Closing(x)
  <2>1. inbox'[q] = NotifiedExcept(p, "producer-closed", xs)[q]
    BY <1>10
  <2>2. /\ inbox'[q] \in Seq(Messages)
        /\ ~(Listening /\ q \in present \ {p}) => inbox'[q] = inbox[q]
        /\ Extends(q, IF Listening /\ q \in present \ {p} THEN {Message("producer-closed", {x}, TRUE) : x \in xs} ELSE {})
        /\ Listening /\ q \in present \ {p} =>
             \A x \in xs : \E i \in 1..Len(inbox'[q]) : inbox'[q][i] = Message("producer-closed", {x}, TRUE)
    <3>1. /\ q \in Peers /\ "producer-closed" \in {"new-producer", "producer-closed"}
      OBVIOUS
    <3> QED BY <2>1, <3>1, NotifiedFacts
  <2>3. M = {Message("producer-closed", {x}, TRUE) : x \in xs} /\ (q \in present \ {p} <=> q \in present)
    BY <1>7, <1>11 DEF Closing
  <2>4. Extends(q, IF Listening /\ q \in present THEN M ELSE {})
    BY <2>2, <2>3
  <2>5. PICK N : N = IF Listening /\ q \in present THEN M ELSE {}
    OBVIOUS
  <2>6. Extends(q, N) /\ \A m \in N : Listening /\ q \in present /\ \E x \in closing : m = Closing(x)
    BY <1>11, <2>4, <2>5
  <2> QED BY <1>7, <2>2, <2>6 DEF Closing
<1>13. inbox' \in [Peers -> Seq(Messages)]
  <2>1. \A q \in Peers : inbox'[q] \in Seq(Messages)
    BY <1>10, <1>12, EmptySeq
  <2>2. inbox' = [q \in Peers |-> inbox'[q]]
    BY <1>8, <1>9
  <2> QED BY <2>1, <2>2
<1> QED BY <1>2, <1>4, <1>6, <1>10, <1>12, <1>13 DEF Farewell

LEMMA LeaveSeen == ASSUME SeenInv, NEW p \in Peers, Leave(p) PROVE SeenInv'
<1> USE DEF BaseInv
<1>0. SfuTypeOK /\ BaseInv /\ Routed /\ Around /\ Silent /\ WellFormed
  BY DEF SeenInv
<1>1. PICK closing : closing = {x \in live : Owner[x] = p}
  OBVIOUS
<1>2. /\ stage' \in [Peers -> Stages] /\ \A q \in Peers : stage'[q] = IF q = p THEN "left" ELSE stage[q]
      /\ queue' \in [Peers -> SUBSET Producers] /\ \A q \in Peers : queue'[q] = IF q = p THEN {} ELSE queue[q]
      /\ consume' \in [Peers -> [Producers -> Steps]] /\ \A x \in Producers : consume'[p][x] = "no"
      /\ \A q \in Peers \ {p} : consume'[q] = consume[q]
      /\ consumers' \in [Peers -> SUBSET Producers] /\ \A q \in Peers \ {p} : consumers'[q] = consumers[q]
      /\ current' \in [Peers -> Producers \cup {Nothing}] /\ recv' \subseteq Peers
      /\ inbox' \in [Peers -> Seq(Messages)] /\ inbox'[p] = <<>>
      /\ \A q \in Peers \ {p} :
            /\ \E N : /\ Extends(q, N)
                      /\ \A m \in N : Listening /\ q \in present /\ \E x \in closing : m = Closing(x)
            /\ Listening /\ q \in present =>
                 \A x \in closing : \E i \in 1..Len(inbox'[q]) : inbox'[q][i] = Closing(x)
  <2>1. Farewell(p, closing)
    BY <1>0, <1>1, LeaveFacts
  <2> QED BY <2>1 DEF Farewell
<1>21. \A q \in Peers \ {p} : \E N : Extends(q, N) /\ \A m \in N : \E x \in closing : m = Closing(x)
  <2> TAKE q \in Peers \ {p}
  <2>1. PICK N : /\ Extends(q, N)
                 /\ \A m \in N : Listening /\ q \in present /\ \E x \in closing : m = Closing(x)
    BY <1>2
  <2>2. Extends(q, N) /\ \A m \in N : \E x \in closing : m = Closing(x)
    BY <2>1
  <2> QED BY <2>2
<1>3. /\ UNCHANGED <<router, pc, twice, timeouts>> /\ (Listening' <=> Listening)
      /\ stage[p] \notin {"out", "left"} /\ present' = present \ {p} /\ live' = live \ closing
      /\ registry' = IF Listening THEN registry \ closing ELSE registry
      /\ requests' = {r \in requests : r.who # p}
      /\ overtaken' = (overtaken \/ \E r \in requests :
               r.kind = "resume" /\ r.status = "ok" /\ r.of \subseteq closing)
  BY <1>1 DEF Leave, PeerLeft, serviceVars, Listening
<1>4. SfuTypeOK'
  BY <1>0, <1>2, <1>3 DEF SfuTypeOK
<1>5. ASSUME NEW q \in Peers \ {p}, NEW i \in 1..Len(inbox'[q])
      PROVE  \/ \E j \in At(q) : inbox'[q][i] = inbox[q][j]
             \/ \E x \in closing : Listening /\ q \in present /\ inbox'[q][i] = Closing(x)
  <2>1. PICK N : Extends(q, N) /\ \A m \in N : Listening /\ q \in present /\ \E x \in closing : m = Closing(x)
    BY <1>2
  <2>2. (\E j \in At(q) : inbox'[q][i] = inbox[q][j]) \/ inbox'[q][i] \in N
    BY <1>5, <2>1 DEF Extends
  <2> QED BY <2>1, <2>2
<1>6. \A i : i \notin 1..Len(inbox'[p])
  BY <1>2
<1>7. /\ \A x \in closing : Left(x)' /\ x \in Producers /\ x \in live
      /\ \A x \in Producers : Owner[x] \in Peers /\ (Left(x) => Left(x)') /\ (Known(x) => Known(x)')
  <2>1. \A x \in Producers : Owner[x] \in Peers
    BY SignalingAssumption
  <2>2. closing \subseteq live /\ live \subseteq Producers
    BY <1>0, <1>1 DEF SfuTypeOK
  <2> QED BY <1>1, <1>2, <1>3, <2>1, <2>2 DEF Left, Known
<1>8. WellFormed'
  <2>1. \A x \in closing : \A q \in Peers : \E m \in Messages : m = Closing(x) /\ MessageOK(q, m)'
    <3> TAKE x \in closing
    <3> TAKE q \in Peers
    <3>1. PICK m : m = Closing(x)
      OBVIOUS
    <3>2. m \in Messages /\ m.kind = "producer-closed" /\ m.of = {x} /\ m.ok = TRUE
      BY <1>7, <3>1 DEF Closing, Message, Messages
    <3>3. Left(x)' /\ Known(x)'
      BY <1>7 DEF Known
    <3>4. MessageOK(q, m)'
      BY <1>7, <3>2, <3>3 DEF MessageOK, TrackKinds
    <3> QED BY <3>1, <3>2, <3>4
  <2>2. ASSUME NEW q \in Peers, NEW i \in 1..Len(inbox'[q])
        PROVE  \/ \E j \in At(q) : inbox'[q][i] = inbox[q][j]
               \/ \E m \in Messages : inbox'[q][i] = m /\ MessageOK(q, m)'
    BY <1>5, <1>6, <2>1
  <2>3. \A r \in requests' : r \in requests
    BY <1>3
  <2>4. \A q \in Peers, x \in Producers :
           consume'[q][x] # "no" \/ x \in queue'[q] => consume[q][x] # "no" \/ x \in queue[q]
    BY <1>2
  <2> QED BY <1>0, <1>4, <1>7, <2>2, <2>3, <2>4, WellFormedStays
<1>9. Around'
  <2>1. \A q \in Peers : (Away(q)' <=> Away(q) \/ q = p)
    BY <1>2 DEF Away
  <2>2. \A q \in Peers \ {p} : Away(q) => inbox'[q] = <<>>
    <3> TAKE q \in Peers \ {p}
    <3> HAVE Away(q)
    <3>1. q \notin present /\ inbox[q] = <<>>
      BY <1>0 DEF Around
    <3>2. inbox'[q] \in Seq(Messages) /\ Len(inbox[q]) = 0
      BY <1>2, <3>1, EmptySeq
    <3>3. \A i : i \notin At(q)
      BY <3>2 DEF At
    <3>4. \A i : i \notin 1..Len(inbox'[q])
      BY <1>5, <3>1, <3>3
    <3>5. Len(inbox'[q]) \in Nat
      BY <3>2
    <3>6. Len(inbox'[q]) = 0
      <4>1. Len(inbox'[q]) # 0 => 1 \in 1..Len(inbox'[q])
        BY <3>5
      <4> QED BY <3>4, <4>1
    <3> QED BY <3>2, <3>6, EmptySeq
  <2>3. \A q \in Peers : Away(q)' => q \notin present' /\ inbox'[q] = <<>>
    BY <1>0, <1>2, <1>3, <2>1, <2>2 DEF Around
  <2>4. \A q \in Peers : ~Away(q)' => q \in present'
    BY <1>0, <1>3, <2>1 DEF Around
  <2>5. ASSUME NEW q \in Peers, stage'[q] \in {"out", "joined", "left"}
        PROVE  /\ queue'[q] = {} /\ \A x \in Producers : consume'[q][x] = "no"
               /\ \A r \in requests' : r.who # q
               /\ \A i \in 1..Len(inbox'[q]) : inbox'[q][i].kind \notin Kinds
    <3>1. CASE q = p
      BY <1>2, <1>3, <1>6, <3>1
    <3>2. CASE q # p
      <4>1. stage[q] \in {"out", "joined", "left"}
        BY <1>2, <2>5, <3>2
      <4>2. \A i \in 1..Len(inbox'[q]) : inbox'[q][i].kind \notin Kinds
        <5> TAKE i \in 1..Len(inbox'[q])
        <5>1. CASE \E j \in At(q) : inbox'[q][i] = inbox[q][j]
          BY <1>0, <4>1, <5>1 DEF Around
        <5>2. CASE \E x \in closing : inbox'[q][i] = Closing(x)
          BY <5>2, MessageIs DEF Kinds
        <5>3. q \in Peers \ {p}
          BY <3>2
        <5> QED BY <1>5, <5>1, <5>2, <5>3
      <4>3. queue[q] = {} /\ (\A x \in Producers : consume[q][x] = "no") /\ \A r \in requests : r.who # q
        BY <1>0, <4>1 DEF Around
      <4>4. queue'[q] = queue[q] /\ consume'[q] = consume[q] /\ requests' \subseteq requests
        BY <1>2, <1>3, <3>2
      <4> QED BY <4>2, <4>3, <4>4
    <3> QED BY <3>1, <3>2
  <2>6. \A x \in live' : ~Away(Owner[x])'
    <3> TAKE x \in live'
    <3>1. x \in live /\ Owner[x] \in Peers \ {p}
      BY <1>0, <1>1, <1>3, <1>7 DEF SfuTypeOK
    <3> QED BY <1>0, <2>1, <3>1 DEF Around
  <2> QED BY <2>3, <2>4, <2>5, <2>6 DEF Around, At
<1>10. Silent'
  <2> SUFFICES ASSUME ~Listening
               PROVE  /\ registry' = {}
                      /\ \A q \in Peers : queue'[q] = {} /\ \A x \in Producers : consume'[q][x] = "no"
                      /\ \A s \in requests' : s.kind \notin TrackKinds
                      /\ \A q \in Peers : \A i \in 1..Len(inbox'[q]) :
                            inbox'[q][i].kind \in PageKinds /\ (inbox'[q][i].kind = "list" => inbox'[q][i].of = {})
    BY <1>3 DEF Silent, At
  <2>1. \A q \in Peers : \A i \in 1..Len(inbox'[q]) : q # p /\ \E j \in At(q) : inbox'[q][i] = inbox[q][j]
    BY <1>5, <1>6
  <2>2. \A q \in Peers : \A i \in 1..Len(inbox'[q]) :
           inbox'[q][i].kind \in PageKinds /\ (inbox'[q][i].kind = "list" => inbox'[q][i].of = {})
    BY <1>0, <2>1 DEF Silent
  <2>3. ASSUME NEW q \in Peers PROVE queue'[q] = {} /\ \A x \in Producers : consume'[q][x] = "no"
    <3>1. queue[q] = {} /\ \A x \in Producers : consume[q][x] = "no"
      BY <1>0 DEF Silent
    <3>2. CASE q = p
      BY <1>2, <3>2
    <3>3. CASE q # p
      <4>1. q \in Peers \ {p}
        BY <3>3
      <4> QED BY <1>2, <3>1, <4>1
    <3> QED BY <3>2, <3>3
  <2> QED BY <1>0, <1>3, <2>2, <2>3 DEF Silent
<1>11. \A r \in requests' : r \in requests /\ r.who # p
  BY <1>3
<1>12. ASSUME NEW q \in Peers \ {p}, NEW T, NEW now, Once(q, T, now), \A x \in closing : ~Token(T, Closing(x))
       PROVE  Once(q, T, now)'
  <2>1. PICK M : Extends(q, M) /\ \A m \in M : \E x \in closing : m = Closing(x)
    BY <1>21
  <2>2. Extends(q, M) /\ \A m \in M : ~Token(T, m)
    BY <1>12, <2>1
  <2> QED BY <1>0, <1>11, <1>12, <2>2, OnceExtended
<1>13. TracksOnce'
  <2> SUFFICES ASSUME NEW q \in Peers, NEW x \in Producers PROVE Once(q, TrackTokens(x), consume[q][x])'
    BY DEF TracksOnce
  <2>1. CASE q = p
    BY <1>6, <1>11, <2>1 DEF Once, Asks, At
  <2>2. CASE q # p
    <3>1. PICK b : b = consume[q][x]
      OBVIOUS
    <3>2. Once(q, TrackTokens(x), b)
      BY <3>1 DEF SeenInv, TracksOnce
    <3>3. \A y \in closing : ~Token(TrackTokens(x), Closing(y))
      BY MessageIs, TokenIs DEF TrackKinds
    <3>4. Once(q, TrackTokens(x), b)'
      BY <1>12, <2>2, <3>2, <3>3
    <3> QED BY <1>2, <2>2, <3>1, <3>4 DEF Once
  <2> QED BY <2>1, <2>2
<1>14. PagesOnce'
  <2> SUFFICES ASSUME NEW q \in Peers PROVE Once(q, PageTokens, WaitsFor(stage[q]))'
    BY DEF PagesOnce
  <2>1. CASE q = p
    BY <1>6, <1>11, <2>1 DEF Once, Asks, At
  <2>2. CASE q # p
    <3>1. PICK b : b = WaitsFor(stage[q])
      OBVIOUS
    <3>2. Once(q, PageTokens, b)
      BY <3>1 DEF SeenInv, PagesOnce
    <3>3. \A y \in closing : ~Token(PageTokens, Closing(y))
      BY MessageIs DEF Token, PageTokens, PageKinds
    <3>4. Once(q, PageTokens, b)'
      BY <1>12, <2>2, <3>2, <3>3
    <3>5. b = WaitsFor(stage'[q])
      BY <1>2, <2>2, <3>1
    <3> QED BY <3>4, <3>5 DEF Once, WaitsFor
  <2> QED BY <2>1, <2>2
<1>15. Consumers'
  BY <1>2, <1>7 DEF SeenInv, Consumers
<1>16. Tiles'
  <2> SUFFICES ASSUME ~overtaken'
               PROVE  /\ \A s \in requests' : s.kind = "resume" /\ s.status = "ok" => s.of \subseteq live'
                      /\ \A q \in Peers, x \in Producers : TileOK(q, x)'
    BY DEF Tiles
  <2>1. ~overtaken /\ \A r \in requests : r.kind = "resume" /\ r.status = "ok" => ~(r.of \subseteq closing)
    BY <1>3
  <2>2. ASSUME NEW r \in requests', r.kind = "resume", r.status = "ok" PROVE r.of \subseteq live'
    <3>1. r \in requests /\ RequestOK(r)
      BY <1>0, <1>11 DEF WellFormed
    <3>2. PICK x \in Producers : r.of = {x}
      BY <2>2, <3>1 DEF RequestOK
    <3>3. x \in live
      BY <2>1, <2>2, <3>1, <3>2 DEF SeenInv, Tiles
    <3>4. x \notin closing
      BY <2>1, <2>2, <3>1, <3>2
    <3> QED BY <1>3, <3>2, <3>3, <3>4
  <2>3. ASSUME NEW q \in Peers, NEW x \in Producers PROVE TileOK(q, x)'
    <3>1. CASE q = p
      BY <1>2, <1>6, <3>1 DEF TileOK, At
    <3>2. CASE q # p
      <4>1. TileOK(q, x)
        BY <2>1 DEF SeenInv, Tiles
      <4>7. q \in Peers \ {p}
        BY <3>2
      <4>2. PICK M : Extends(q, M) /\ \A m \in M : \E y \in closing : m = Closing(y)
        BY <1>21, <4>7
      <4>3. Extends(q, M) /\ ResumeOk(x) \notin M /\ inbox'[q] \in Seq(Messages)
        <5>1. ResumeOk(x) \notin M
          BY <4>2, MessageIs
        <5> QED BY <1>2, <4>2, <5>1
      <4>4. CASE x \in closing /\ Listening /\ q \in present
        <5>1. \E i \in 1..Len(inbox'[q]) : inbox'[q][i] = Closing(x)
          BY <1>2, <3>2, <4>4
        <5> QED BY <1>0, <1>2, <3>2, <4>1, <4>3, <5>1, TileExtended
      <4>5. CASE x \notin closing
        <5>1. x \in live => x \in live'
          BY <1>3, <4>5
        <5> QED BY <1>0, <1>2, <3>2, <4>1, <4>3, <5>1, TileExtended
      <4>6. CASE ~(Listening /\ q \in present)
        <5>1. consume'[q][x] = "no" /\ \A i \in At(q) : inbox[q][i] # ResumeOk(x)
          <6>1. CASE ~Listening
            <7>1. consume[q][x] = "no" /\ \A i \in At(q) : inbox[q][i].kind \in PageKinds
              BY <1>0, <6>1 DEF Silent
            <7>2. consume'[q] = consume[q]
              BY <1>2, <4>7
            <7>3. ResumeOk(x).kind \notin PageKinds
              BY MessageIs DEF PageKinds
            <7> QED BY <7>1, <7>2, <7>3
          <6>2. CASE q \notin present
            <7>1. Away(q)
              BY <1>0, <6>2 DEF Around
            <7>2. consume[q][x] = "no" /\ \A i \in At(q) : inbox[q][i].kind \notin Kinds
              BY <1>0, <7>1 DEF Around, Away
            <7>3. consume'[q] = consume[q]
              BY <1>2, <4>7
            <7>4. ResumeOk(x).kind \in Kinds
              BY MessageIs DEF Kinds
            <7> QED BY <7>2, <7>3, <7>4
          <6> QED BY <4>6, <6>1, <6>2
        <5>2. \A i \in 1..Len(inbox'[q]) : inbox'[q][i] # ResumeOk(x)
          BY <1>5, <4>7, <4>6, <5>1
        <5> QED BY <5>1, <5>2 DEF TileOK, At, ResumeOk, Message
      <4> QED BY <4>4, <4>5, <4>6
    <3> QED BY <3>1, <3>2
  <2> QED BY <2>2, <2>3
<1>17. Routed'
  <2>1. \A q \in Peers : \A i \in 1..Len(inbox'[q]) : inbox'[q][i].kind = "caps" /\ inbox'[q][i].ok => router
    <3> TAKE q \in Peers
    <3> TAKE i \in 1..Len(inbox'[q])
    <3>1. CASE \E j \in At(q) : inbox'[q][i] = inbox[q][j]
      BY <1>0, <3>1 DEF Routed
    <3>2. CASE \E x \in closing : inbox'[q][i] = Closing(x)
      BY <3>2, MessageIs
    <3> QED BY <1>5, <1>6, <3>1, <3>2
  <2>2. \A q \in Peers : stage'[q] \in Working => router
    BY <1>0, <1>2 DEF Routed, Working
  <2>3. live' # {} => router
    BY <1>0, <1>3 DEF Routed
  <2>4. \A s \in requests' : s.kind = "produce" => router
    BY <1>0, <1>11 DEF Routed
  <2> QED BY <1>0, <1>3, <2>1, <2>2, <2>3, <2>4 DEF Routed, At
<1>18. Covered'
  <2> SUFFICES ASSUME Listening, ~twice
               PROVE  /\ live' \subseteq registry'
                      /\ timeouts = 0 => \A q \in Peers, x \in live' : Owner[x] # q => CoverOK(q, x)'
    BY <1>3 DEF Covered
  <2>1. live \subseteq registry
    BY DEF SeenInv, Covered
  <2>2. ASSUME timeouts = 0, NEW q \in Peers, NEW x \in live', Owner[x] # q PROVE CoverOK(q, x)'
    <3>1. x \in live /\ x \in Producers
      BY <1>0, <1>3 DEF SfuTypeOK
    <3>2. CASE q = p
      BY <1>2, <1>6, <3>2 DEF CoverOK, At
    <3>3. CASE q # p
      <4>1. CoverOK(q, x)
        BY <2>2, <3>1 DEF SeenInv, Covered
      <4>7. q \in Peers \ {p}
        BY <3>3
      <4>2. PICK M : Extends(q, M) /\ \A m \in M : \E y \in closing : m = Closing(y)
        BY <1>21, <4>7
      <4>3. Extends(q, M) /\ inbox'[q] \in Seq(Messages) /\ \A m \in M : m.kind = "list" => x \in m.of
        <5>1. \A m \in M : m.kind = "list" => x \in m.of
          BY <4>2, MessageIs
        <5> QED BY <1>2, <4>2, <5>1
      <4> QED BY <1>0, <1>2, <3>1, <3>3, <4>1, <4>3, CoverExtended
    <3> QED BY <3>2, <3>3
  <2> QED BY <1>3, <2>1, <2>2
<1>19. Finished'
  BY <1>2 DEF SeenInv, Finished
<1>20. Registered'
  <2>1. CASE Listening
    BY <1>3, <2>1 DEF SeenInv, Registered
  <2>2. CASE ~Listening
    BY <1>0, <1>3, <2>2 DEF Silent, Registered
  <2> QED BY <2>1, <2>2
<1> QED BY <1>4, <1>8, <1>9, <1>10, <1>13, <1>14, <1>15, <1>16, <1>17, <1>18, <1>19, <1>20 DEF SeenInv

(***************************************************************************)
(* What the pages show                                                     *)
(***************************************************************************)
LEMMA SeenInitially == Init => SeenInv
<1> SUFFICES ASSUME Init PROVE SeenInv
  OBVIOUS
<1>1. /\ present = {} /\ live = {} /\ registry = {} /\ requests = {} /\ overtaken = FALSE /\ recv = {} /\ timeouts = 0
      /\ inbox = [p \in Peers |-> <<>>] /\ stage = [p \in Peers |-> "out"] /\ queue = [p \in Peers |-> {}]
      /\ current = [p \in Peers |-> Nothing] /\ consume = [p \in Peers |-> [x \in Producers |-> "no"]]
      /\ consumers = [p \in Peers |-> {}] /\ pc = [c \in Callers |-> "start"]
  BY DEF Init, ServerInit, Service!Init, Callers
<1>2. [x \in Producers |-> "no"] \in [Producers -> Steps]
  BY DEF Steps
<1>3. SfuTypeOK
  <2>1. <<>> \in Seq(Messages)
    BY EmptySeq
  <2>2. timeouts \in 0..MaxTimeouts
    BY <1>1, ClientAssumption
  <2> QED BY <1>1, <1>2, <2>1, <2>2 DEF SfuTypeOK, Stages
<1>4. \A p \in Peers : At(p) = {} /\ inbox[p] = <<>>
  BY <1>1 DEF At
<1>5. BaseInv
  BY <1>1, <1>3, <1>4 DEF BaseInv, WellFormed, Around, Silent, Away
<1>6. TracksOnce /\ PagesOnce
  BY <1>1, <1>4 DEF TracksOnce, PagesOnce, Once
<1>7. Tiles /\ Consumers /\ Finished /\ Registered
  BY <1>1, <1>4 DEF Tiles, TileOK, Consumers, Finished, Registered
<1>8. Covered
  BY <1>1 DEF Covered
<1>9. Routed
  BY <1>1, <1>4 DEF Routed, Working, Callers
<1> QED BY <1>5, <1>6, <1>7, <1>8, <1>9 DEF SeenInv

LEMMA SeenUnchanged == ASSUME SeenInv, UNCHANGED vars PROVE SeenInv'
<1>1. /\ UNCHANGED <<router, pc, twice, present, live, registry, overtaken, requests, inbox>>
      /\ UNCHANGED <<stage, queue, current, recv, consume, consumers, timeouts>>
  BY DEF vars, serverVars, serviceVars, roomVars, clientVars
<1>2. BaseInv'
  BY <1>1 DEF SeenInv, BaseInv, SfuTypeOK, WellFormed, RequestOK, MessageOK, Known, Left, Around, Away, Silent, Listening, At
<1>3. TracksOnce' /\ PagesOnce' /\ Consumers'
  BY <1>1 DEF SeenInv, TracksOnce, PagesOnce, Once, Asks, At, WaitsFor, Consumers, Left
<1>4. Tiles'
  BY <1>1 DEF SeenInv, Tiles, TileOK, Due, At, Closing, ResumeOk, Message
<1>5. Routed' /\ Finished' /\ Registered'
  BY <1>1 DEF SeenInv, Routed, At, Finished, Registered
<1>6. Covered'
  BY <1>1 DEF SeenInv, Covered, CoverOK, Coming, At, Announced, Message, Listening
<1> QED BY <1>2, <1>3, <1>4, <1>5, <1>6 DEF SeenInv

\* The inductive invariant of the pages holds in every state the room can be in.
THEOREM SeenInvariance == Spec => []SeenInv
<1>1. Init => SeenInv
  BY SeenInitially
<1>2. SeenInv /\ RouterInv /\ [Next]_vars => SeenInv'
  <2> SUFFICES ASSUME SeenInv, RouterInv, [Next]_vars PROVE SeenInv'
    OBVIOUS
  <2>1. CASE Next
    BY <2>1, ServerSeen, PagesSeen, JoinSeen, LeaveSeen DEF Next, Progress
  <2>2. CASE UNCHANGED vars
    BY <2>2, SeenUnchanged
  <2> QED BY <2>1, <2>2
<1> QED BY <1>1, <1>2, RouterInvariance, PTL DEF Spec

\* Every variable of the room and of its pages keeps its type.
THEOREM SfuTypeCorrect == Spec => []TypeOK
<1>1. SeenInv /\ RouterInv => TypeOK
  BY DEF SeenInv, BaseInv, SfuTypeOK, RouterInv, TypeOK, ServerTypeOK
<1> QED BY <1>1, SeenInvariance, RouterInvariance, PTL

\* No page shows a tile whose producer has gone and whose closing it has handled, unless a
\* closing overtook the answer to a resume: pages may join, time out and leave at any time.
THEOREM NoTileIsDead == Spec => []NoDeadTile
<1>1. SeenInv => NoDeadTile
  <2> SUFFICES ASSUME SeenInv, ~overtaken, NEW p \in Peers, NEW x \in Shown(p)
               PROVE  x \in live \/ Closing(x) \in ToSet(inbox[p])
    BY DEF NoDeadTile, Closing
  <2>1. x \in Producers /\ consume[p][x] = "shown"
    BY DEF Shown
  <2>2. Due(p, x)
    BY <2>1 DEF SeenInv, Tiles, TileOK
  <2>3. inbox[p] \in Seq(Messages)
    BY InboxFacts DEF SeenInv, BaseInv
  <2>4. ASSUME NEW j \in At(p), inbox[p][j] = Closing(x) PROVE Closing(x) \in ToSet(inbox[p])
    BY <2>3, <2>4 DEF ToSet, At
  <2> QED BY <2>2, <2>4 DEF Due
<1> QED BY <1>1, SeenInvariance, PTL

\* Once all is quiet, whoever has a working page sees every producer of the others and
\* nothing else: what was announced while the page joined, listed and consumed is not lost.
THEOREM AllAreSeen == Spec => []EverybodySeesAll
<1>1. SeenInv => EverybodySeesAll
  <2> SUFFICES ASSUME SeenInv, Quiet, Listening, ~twice, ~overtaken, timeouts = 0,
                      NEW p \in Peers, stage[p] = "ready"
               PROVE  Shown(p) = {x \in live : Owner[x] # p}
    BY DEF EverybodySeesAll
  <2>1. \A i : i \notin At(p)
    BY DEF Quiet, At
  <2>2. ASSUME NEW x \in Shown(p) PROVE x \in live /\ Owner[x] # p
    <3>1. x \in Producers /\ consume[p][x] = "shown"
      BY DEF Shown
    <3>2. Due(p, x)
      BY <3>1 DEF SeenInv, Tiles, TileOK
    <3>3. Owner[x] # p
      BY <3>1 DEF SeenInv, BaseInv, WellFormed
    <3> QED BY <2>1, <3>2, <3>3 DEF Due
  <2>3. ASSUME NEW x \in live, Owner[x] # p PROVE x \in Shown(p)
    <3>1. x \in Producers /\ CoverOK(p, x) /\ queue[p] = {}
      BY <2>3 DEF SeenInv, BaseInv, SfuTypeOK, Covered, Finished
    <3>2. consume[p][x] \notin Pending
      BY <3>1 DEF Quiet
    <3> QED BY <2>1, <3>1, <3>2 DEF CoverOK, Coming, Shown
  <2> QED BY <2>2, <2>3 DEF Shown
<1> QED BY <1>1, SeenInvariance, PTL

(***************************************************************************)
(* What a page shows stays                                                 *)
(***************************************************************************)
Stays == \A q \in Peers : \A y \in Shown(q) : y \in Shown(q)' \/ y \notin live \/ stage'[q] = "left"

LEMMA SetStays ==
    ASSUME SeenInv, NEW p \in Peers, NEW x \in Producers, NEW step \in Steps, Set(p, x, step),
           consume[p][x] # "shown" \/ x \notin live
    PROVE  Stays
BY SetFacts DEF SeenInv, BaseInv, Stays, Shown

LEMMA ConsumeStays ==
    ASSUME SeenInv, NEW p \in Peers, NEW x \in Producers, Consume(p, x) PROVE Stays
<1>1. CASE UNCHANGED consume
  BY <1>1 DEF Stays, Shown
<1>2. ASSUME NEW v \in {"transport", "consume"}, Consumes(p, x, v) PROVE Stays
  BY <1>2, SetStays DEF Consumes, Steps
<1> QED BY <1>1, <1>2, ConsumeFacts

\* Nothing about what is shown is asked, or on its way.
LEMMA NothingAsked ==
    ASSUME SeenInv, NEW p \in Peers, NEW x \in Shown(p) PROVE x \in Producers /\ Idle(p, TrackTokens(x))
BY TrackIdle DEF SeenInv, Shown, TrackKinds

LEMMA RejectedStays ==
    ASSUME SeenInv, NEW p \in Peers, NEW kind \in Kinds, NEW xs, Rejected(p, kind, xs),
           kind \in TrackKinds => xs \cap Shown(p) = {}
    PROVE  Stays
<1>1. SfuTypeOK
  BY DEF SeenInv, BaseInv
<1> QED BY <1>1, RejectedFacts DEF Stays, Shown

LEMMA TimeoutStays == ASSUME SeenInv, NEW p \in Peers, Timeout(p) PROVE Stays
<1>1. ASSUME NEW r \in requests, r.who = p, r.awaited, Rejected(p, r.kind, r.of) PROVE Stays
  <2>1. r \in Requests /\ RequestOK(r) /\ r.kind \in Kinds
    BY DEF SeenInv, BaseInv, SfuTypeOK, WellFormed, Requests
  <2>2. ASSUME r.kind \in TrackKinds, NEW x \in r.of \cap Shown(p) PROVE FALSE
    <3>1. r.of = {x}
      BY <2>1, <2>2 DEF RequestOK, TrackKinds
    <3> QED BY <1>1, <2>2, <3>1, NothingAsked, TokenIs DEF Idle, Asks
  <2> QED BY <1>1, <2>1, <2>2, RejectedStays
<1>2. ASSUME NEW i \in DOMAIN inbox[p], inbox[p][i].kind \in Kinds, Rejected(p, inbox[p][i].kind, inbox[p][i].of)
      PROVE  Stays
  <2>1. i \in At(p) /\ MessageOK(p, inbox[p][i])
    BY InboxFacts DEF SeenInv, BaseInv, WellFormed, At
  <2>2. ASSUME inbox[p][i].kind \in TrackKinds, NEW x \in inbox[p][i].of \cap Shown(p) PROVE FALSE
    <3>1. inbox[p][i].of = {x}
      BY <2>1, <2>2 DEF MessageOK, TrackKinds
    <3> QED BY <2>1, <2>2, <3>1, NothingAsked, TokenIs DEF Idle
  <2> QED BY <1>2, <2>2, RejectedStays
<1> QED BY <1>1, <1>2 DEF Timeout

LEMMA ReceiveStays == ASSUME SeenInv, NEW p \in Peers, Receive(p) PROVE Stays
<1>1. PICK m \in Messages : /\ m = Head(inbox[p]) /\ MessageOK(p, m) /\ 1 \in At(p) /\ m = inbox[p][1]
                            /\ Handle(p, m) \/ UNCHANGED consume
  <2>1. SfuTypeOK /\ inbox[p] # <<>>
    BY DEF SeenInv, BaseInv, Receive
  <2>2. 1 \in At(p) /\ inbox[p][1] \in Messages /\ Head(inbox[p]) = inbox[p][1]
    BY <2>1, InboxFacts DEF At
  <2> QED BY <2>2 DEF SeenInv, BaseInv, WellFormed, Receive
<1>2. ASSUME m.kind \in TrackKinds PROVE m.of \cap Shown(p) = {}
  <2>1. ASSUME NEW x \in m.of \cap Shown(p) PROVE FALSE
    <3>1. m.of = {x}
      BY <1>1, <1>2, <2>1 DEF MessageOK, TrackKinds
    <3> QED BY <1>1, <1>2, <2>1, <3>1, NothingAsked, TokenIs DEF Idle
  <2> QED BY <2>1
<1>3. CASE UNCHANGED consume
  BY <1>3 DEF Stays, Shown
<1>4. CASE ~m.ok /\ Rejected(p, m.kind, m.of)
  <2>1. m.kind \in Kinds
    BY <1>1, <1>4 DEF MessageOK, Kinds
  <2> QED BY <1>2, <1>4, <2>1, RejectedStays
<1>5. ASSUME NEW x \in m.of, m.kind \in TrackKinds, NEW step \in Steps, Set(p, x, step) PROVE Stays
  <2>1. x \in Producers /\ x \notin Shown(p)
    BY <1>2, <1>5 DEF Messages
  <2> QED BY <1>5, <2>1, SetStays DEF Shown
<1>6. ASSUME NEW x \in m.of, m.ok /\ m.kind = "transport" /\ Transport(p, x) PROVE Stays
  BY <1>5, <1>6 DEF Transport, TrackKinds, Steps
<1>7. ASSUME NEW x \in m.of, \/ m.ok /\ m.kind = "consume" /\ Consumed(p, x)
                             \/ m.ok /\ m.kind = "resume" /\ Resumed(p, x) PROVE Stays
  BY <1>5, <1>7 DEF Consumed, Resumed, TrackKinds, Steps
<1>8. ASSUME NEW x \in m.of, m.kind = "producer-closed", ProducerClosed(p, x) PROVE Stays
  <2>1. Left(x) /\ x \in Producers /\ x \notin live
    BY <1>1, <1>8, LiveOpen DEF MessageOK, Messages
  <2>2. UNCHANGED consume \/ Set(p, x, "closed")
    BY <1>8 DEF ProducerClosed, Set
  <2> QED BY <1>3, <2>1, <2>2, SetStays DEF Steps
<1>9. ASSUME NEW x \in m.of, Consume(p, x) PROVE Stays
  BY <1>9, ConsumeStays DEF Messages
<1>10. CASE UNCHANGED consume \/ GotCaps(p) \/ Produced(p) \/ Listed(p, m.of)
  BY <1>3, <1>10 DEF GotCaps, Produced, Listed
<1> QED BY <1>1, <1>3, <1>4, <1>6, <1>7, <1>8, <1>9, <1>10 DEF Handle

\* What a page shows of a living producer it goes on showing, whatever is late, refused,
\* given up or announced: nothing that could undo it is asked or on its way.
THEOREM TilesAreKept == Spec => TilesStay
<1>1. SeenInv /\ [Next]_vars => Stays
  <2> SUFFICES ASSUME SeenInv, [Next]_vars PROVE Stays
    OBVIOUS
  <2>1. CASE UNCHANGED consume
    BY <2>1 DEF Stays, Shown
  <2>2. CASE Server \/ UNCHANGED vars
    BY <2>1, <2>2 DEF Server, vars, clientVars
  <2>3. ASSUME NEW p \in Peers, Join(p) \/ Start(p) \/ Loaded(p) \/ Publish(p) PROVE Stays
    BY <2>1, <2>3 DEF Join, Start, Loaded, Publish, clientVars
  <2>4. ASSUME NEW p \in Peers, ConsumeNext(p) PROVE Stays
    <3>1. queue[p] \subseteq Producers
      BY DEF SeenInv, BaseInv, SfuTypeOK
    <3> QED BY <2>1, <2>4, <3>1, ConsumeStays DEF ConsumeNext
  <2>5. ASSUME NEW p \in Peers, NEW x \in Producers, Created(p, x) PROVE Stays
    BY <2>5, SetStays DEF Created, Steps
  <2>6. ASSUME NEW p \in Peers, Leave(p) PROVE Stays
    <3>1. stage'[p] = "left"
      BY <2>6 DEF Leave, GoTo, SeenInv, BaseInv, SfuTypeOK
    <3>2. \A q \in Peers : q # p => consume'[q] = consume[q]
      BY <2>6 DEF Leave, SeenInv, BaseInv, SfuTypeOK
    <3> QED BY <3>1, <3>2 DEF Stays, Shown
  <2> QED BY <2>2, <2>3, <2>4, <2>5, <2>6, TimeoutStays, ReceiveStays DEF Next, Progress, Goes
<1>2. SeenInv /\ [Next]_vars => [\A p \in Peers : \A x \in Shown(p) :
         x \in Shown(p)' \/ x \notin live \/ stage'[p] = "left"]_vars
  BY <1>1 DEF Stays
<1> QED BY <1>2, SeenInvariance, PTL DEF Spec, TilesStay

(***************************************************************************)
(* Whoever waits is answered, or fails                                     *)
(***************************************************************************)
Waiting == {"init", "publishing", "listing"}

\* p has asked for it and waits, or the answer is on its way.
Awaited(p, T) ==
    \/ \E r \in requests : Asks(p, T, r)
    \/ \E i \in At(p) : Token(T, inbox[p][i])
WaitsInVain(p) ==
    \/ stage[p] \in Waiting /\ ~Awaited(p, PageTokens)
    \/ \E x \in Producers : consume[p][x] \in TrackKinds /\ ~Awaited(p, TrackTokens(x))

\* Nobody waits for an answer that neither the server owes nor the connection carries.
AnswersCome == \A p \in Peers : ~WaitsInVain(p)

\* Nothing is taken out of q's inbox.
Grows(q) == \A i \in At(q) : \E j \in 1..Len(inbox'[q]) : inbox'[q][j] = inbox[q][i]

LEMMA ExtendsGrows == ASSUME SfuTypeOK, NEW q \in Peers, NEW M, Extends(q, M) PROVE Grows(q)
<1>1. Len(inbox[q]) \in Nat /\ Len(inbox[q]) <= Len(inbox'[q]) /\ \A i \in At(q) : inbox'[q][i] = inbox[q][i]
  BY InboxFacts DEF Extends
<1>2. ASSUME NEW i \in At(q), NEW n, n = Len(inbox'[q]), NEW l \in Nat, l = Len(inbox[q]), l <= n
      PROVE i \in 1..n
  BY <1>2 DEF At
<1> QED BY <1>1, <1>2 DEF Grows

LEMMA StillAwaited ==
    ASSUME NEW q, NEW T, Awaited(q, T), Grows(q), \A r \in requests : Asks(q, T, r) => r \in requests'
    PROVE  Awaited(q, T)'
<1>1. ASSUME NEW r \in requests, Asks(q, T, r) PROVE Awaited(q, T)'
  BY <1>1 DEF Awaited, Asks
<1>2. ASSUME NEW i \in At(q), Token(T, inbox[q][i]) PROVE Awaited(q, T)'
  <2>1. PICK j \in 1..Len(inbox'[q]) : inbox'[q][j] = inbox[q][i]
    BY DEF Grows
  <2> QED BY <1>2, <2>1 DEF Awaited, At
<1> QED BY <1>1, <1>2 DEF Awaited

\* What is not about it may be taken.
LEMMA PassedOver ==
    ASSUME SfuTypeOK, NEW p \in Peers, NEW T, Awaited(p, T), NEW k \in At(p), Cuts(p, k),
           ~Token(T, inbox[p][k]), requests \subseteq requests'
    PROVE  Awaited(p, T)'
<1>1. ASSUME NEW r \in requests, Asks(p, T, r) PROVE Awaited(p, T)'
  BY <1>1 DEF Awaited, Asks
<1>2. ASSUME NEW i \in At(p), Token(T, inbox[p][i]) PROVE Awaited(p, T)'
  <2>1. PICK n \in Nat : n = Len(inbox[p])
    BY InboxFacts
  <2>2. i \in 1..n /\ k \in 1..n /\ i # k
    BY <1>2, <2>1 DEF At
  <2>3. PICK j : j = IF i < k THEN i ELSE i - 1
    OBVIOUS
  <2>4. j \in 1..n - 1 /\ (IF j < k THEN j ELSE j + 1) = i
    BY <2>2, <2>3
  <2>5. Len(inbox'[p]) = n - 1 /\ inbox'[p][j] = inbox[p][i]
    BY <2>1, <2>4 DEF Cuts
  <2> QED BY <1>2, <2>4, <2>5 DEF Awaited, At
<1> QED BY <1>1, <1>2 DEF Awaited

LEMMA AskedFor ==
    ASSUME SfuTypeOK, NEW p \in Peers, NEW kind \in Kinds, NEW xs \in SUBSET Producers, Ask(p, kind, xs),
           NEW T, <<kind, xs>> \in T
    PROVE  Awaited(p, T)'
BY RequestFacts DEF Awaited, Asks, Token

LEMMA OthersWait ==
    ASSUME AnswersCome, NEW p \in Peers,
           \A q \in Peers \ {p} : stage'[q] = stage[q] /\ consume'[q] = consume[q] /\ Grows(q),
           \A r \in requests : r.who # p => r \in requests',
           ~WaitsInVain(p)'
    PROVE  AnswersCome'
<1>1. ASSUME NEW q \in Peers, q # p PROVE ~WaitsInVain(q)'
  <2>1. \A T : Awaited(q, T) => Awaited(q, T)'
    <3> TAKE T
    <3> HAVE Awaited(q, T)
    <3>1. Grows(q) /\ \A r \in requests : Asks(q, T, r) => r \in requests'
      BY <1>1 DEF Asks
    <3> QED BY <3>1, StillAwaited
  <2>2. ~WaitsInVain(q) /\ stage'[q] = stage[q] /\ consume'[q] = consume[q]
    BY <1>1 DEF AnswersCome
  <2> QED BY <2>1, <2>2 DEF WaitsInVain
<1> QED BY <1>1 DEF AnswersCome

\* The server owes what is asked, or has answered it.
LEMMA ServerAnswers == ASSUME SeenInv, AnswersCome, Server PROVE AnswersCome'
<1>0. SfuTypeOK /\ WellFormed /\ UNCHANGED <<stage, consume>>
  BY DEF SeenInv, BaseInv, Server, clientVars
<1>1. SUFFICES ASSUME NEW q \in Peers, NEW T, T = PageTokens \/ \E x \in Producers : T = TrackTokens(x), Awaited(q, T)
               PROVE  Awaited(q, T)'
  BY <1>0 DEF AnswersCome, WaitsInVain
<1>2. CASE UNCHANGED <<requests, inbox>>
  BY <1>1, <1>2 DEF Awaited, Asks, At
<1>3. ASSUME NEW r \in requests, NEW xs \in SUBSET Producers, NEW ok \in BOOLEAN, Answer(r, xs, ok),
             r.kind \in TrackKinds => xs = r.of
      PROVE  Awaited(q, T)'
  <2>0. r \in Requests /\ r.who \in Peers /\ r.kind \in Kinds /\ requests' = requests \ {r}
    BY <1>0, <1>3 DEF SfuTypeOK, Requests, Answer
  <2>1. CASE ~Asks(q, T, r) /\ (~r.awaited \/ r.who # q)
    <3>1. inbox'[q] = inbox[q]
      <4>1. CASE ~r.awaited
        BY <1>3, <4>1 DEF Answer
      <4>2. CASE r.awaited
        <5>1. inbox' = [inbox EXCEPT ![r.who] = Append(@, Message(r.kind, xs, ok))] /\ r.who # q
          BY <1>3, <2>1, <4>2 DEF Answer
        <5> QED BY <1>0, <5>1 DEF SfuTypeOK
      <4> QED BY <4>1, <4>2
    <3>2. Grows(q) /\ \A s \in requests : Asks(q, T, s) => s \in requests'
      BY <2>0, <2>1, <3>1 DEF Grows, At
    <3> QED BY <1>1, <3>2, StillAwaited
  <2>2. CASE r.awaited /\ r.who = q
    <3>1. PICK m \in Messages : m = Message(r.kind, xs, ok) /\ m.kind = r.kind /\ m.of = xs
      <4>1. PICK m : m = Message(r.kind, xs, ok)
        OBVIOUS
      <4>2. m = [kind |-> r.kind, of |-> xs, ok |-> ok] /\ r.kind \in Kinds \cup {"new-producer", "producer-closed"}
        BY <2>0, <4>1 DEF Message
      <4>3. m \in Messages
        BY <4>2 DEF Messages
      <4> QED BY <4>1, <4>2, <4>3
    <3>2. inbox' = [inbox EXCEPT ![q] = Append(@, m)]
      BY <1>3, <2>2, <3>1 DEF Answer
    <3>3. Extends(q, {m}) /\ Len(inbox'[q]) = Len(inbox[q]) + 1 /\ inbox'[q][Len(inbox[q]) + 1] = m
      BY <1>0, <3>2, AppendedInbox
    <3>4. CASE Token(T, r)
      <4>1. Token(T, m)
        <5>1. CASE T = PageTokens
          BY <2>0, <3>1, <3>4, <5>1, TokenIs
        <5>2. ASSUME NEW x \in Producers, T = TrackTokens(x) PROVE Token(T, m)
          BY <1>3, <3>1, <3>4, <5>2, TokenIs
        <5> QED BY <1>1, <5>1, <5>2
      <4>2. Len(inbox[q]) + 1 \in 1..Len(inbox'[q])
        BY <1>0, <3>3, InboxFacts
      <4> QED BY <3>3, <4>1, <4>2 DEF Awaited, At
    <3>5. CASE ~Token(T, r)
      <4>1. \A s \in requests : Asks(q, T, s) => s \in requests'
        BY <2>0, <3>5 DEF Asks
      <4> QED BY <1>0, <1>1, <3>3, <4>1, ExtendsGrows, StillAwaited
    <3> QED BY <3>4, <3>5
  <2> QED BY <2>1, <2>2 DEF Asks
<1>4. ASSUME NEW r \in requests, NEW ok \in BOOLEAN, Decided(r, ok), Grows(q) PROVE Awaited(q, T)'
  <2>1. PICK d \in Requests : /\ requests' = (requests \ {r}) \cup {d}
                              /\ d.who = r.who /\ d.awaited = r.awaited /\ d.kind = r.kind /\ d.of = r.of
    BY <1>0, <1>4, DecidedFacts
  <2>2. CASE Asks(q, T, r)
    BY <2>1, <2>2 DEF Awaited, Asks, Token
  <2>3. CASE ~Asks(q, T, r)
    BY <1>1, <1>4, <2>1, <2>3, StillAwaited
  <2> QED BY <2>2, <2>3
<1>5. CASE HandleRpc
  <2>1. PICK r \in requests : \/ Caps(r) \/ ListProducers(r) \/ Produce(r) \/ CreateTransport(r)
                             \/ Serve(r) \/ Reply(r)
    BY <1>5 DEF HandleRpc
  <2>2. r \in Requests /\ r.of \in SUBSET Producers /\ r.who \in Peers
    BY <1>0 DEF SfuTypeOK, Requests
  <2>3. CASE Caps(r)
    <3>1. PICK ok \in BOOLEAN : ok = (pc[r.who] = "done")
      OBVIOUS
    <3>2. r.kind \notin TrackKinds /\ Answer(r, {}, ok) /\ {} \in SUBSET Producers
      BY <2>3, <3>1 DEF Caps, TrackKinds
    <3> QED BY <1>3, <3>2
  <2>4. CASE ListProducers(r)
    <3>1. PICK xs \in SUBSET Producers : xs = {x \in registry : Owner[x] # r.who}
      BY <1>0 DEF SfuTypeOK
    <3>2. r.kind \notin TrackKinds /\ Answer(r, xs, TRUE)
      BY <2>4, <3>1 DEF ListProducers, TrackKinds
    <3> QED BY <1>3, <3>2
  <2>5. CASE CreateTransport(r)
    BY <1>3, <2>2, <2>5 DEF CreateTransport
  <2>6. CASE Reply(r)
    <3>1. PICK ok \in BOOLEAN : ok = (r.status = "ok")
      OBVIOUS
    <3> QED BY <1>3, <2>2, <2>6, <3>1 DEF Reply
  <2>7. CASE Serve(r)
    <3>1. PICK ok \in BOOLEAN : ok = (r.of \subseteq live)
      OBVIOUS
    <3>2. Decided(r, ok) /\ inbox'[q] = inbox[q]
      BY <2>7, <3>1 DEF Serve
    <3> QED BY <1>4, <3>2 DEF Grows, At
  <2>8. CASE Produce(r)
    <3>1. Decided(r, TRUE) /\ inbox'[q] = NotifiedExcept(r.who, "new-producer", r.of)[q]
      BY <2>8 DEF Produce
    <3>2. \E M : Extends(q, M)
      <4>1. PICK who \in Peers, xs \in SUBSET Producers : who = r.who /\ xs = r.of
        BY <2>2
      <4>2. inbox'[q] = NotifiedExcept(who, "new-producer", xs)[q]
        BY <3>1, <4>1
      <4>3. PICK M : M = IF Listening /\ q \in present \ {who} THEN {Message("new-producer", {y}, TRUE) : y \in xs} ELSE {}
        OBVIOUS
      <4>4. /\ inbox'[q] \in Seq(Messages)
            /\ ~(Listening /\ q \in present \ {who}) => inbox'[q] = inbox[q]
            /\ Extends(q, IF Listening /\ q \in present \ {who} THEN {Message("new-producer", {y}, TRUE) : y \in xs} ELSE {})
            /\ Listening /\ q \in present \ {who} =>
                 \A y \in xs : \E i \in 1..Len(inbox'[q]) : inbox'[q][i] = Message("new-producer", {y}, TRUE)
        BY <1>0, <4>2, NotifiedFacts
      <4> QED BY <4>3, <4>4
    <3> QED BY <1>0, <1>4, <3>1, <3>2, ExtendsGrows
  <2> QED BY <2>1, <2>3, <2>4, <2>5, <2>6, <2>7, <2>8
<1> QED BY <1>2, <1>5 DEF Server, EnsureHandler, EnsureRoom

\* What fails is no longer waited for.
LEMMA RejectedEnds ==
    ASSUME SfuTypeOK, AnswersCome, NEW p \in Peers, NEW kind \in Kinds, NEW xs \in SUBSET Producers,
           Rejected(p, kind, xs), kind \in TrackKinds => \E y \in Producers : xs = {y},
           \A T : Awaited(p, T) /\ <<kind, xs>> \notin T => Awaited(p, T)'
    PROVE  ~WaitsInVain(p)'
<1>1. stage'[p] \in Waiting => Awaited(p, PageTokens)'
  <2>1. CASE kind \in PageKinds
    BY <2>1, RejectedFacts DEF Waiting
  <2>2. CASE kind \notin PageKinds
    <3>1. <<kind, xs>> \notin PageTokens /\ stage'[p] = stage[p]
      BY <2>2, RejectedFacts DEF PageTokens
    <3> QED BY <3>1 DEF AnswersCome, WaitsInVain
  <2> QED BY <2>1, <2>2
<1>2. ASSUME NEW x \in Producers, consume'[p][x] \in TrackKinds PROVE Awaited(p, TrackTokens(x))'
  <2>1. <<kind, xs>> \notin TrackTokens(x) /\ consume'[p][x] = consume[p][x]
    <3>1. CASE kind \in PageKinds
      BY <3>1, RejectedFacts DEF TrackTokens
    <3>2. CASE kind \in TrackKinds
      <4>1. consume'[p][x] = consume[p][x] /\ x \notin xs
        BY <1>2, <3>2, RejectedFacts DEF TrackKinds
      <4> QED BY <3>2, <4>1 DEF TrackTokens
    <3> QED BY <3>1, <3>2, RejectedFacts
  <2> QED BY <1>2, <2>1 DEF AnswersCome, WaitsInVain
<1> QED BY <1>1, <1>2 DEF WaitsInVain

\* p's page goes a step, and asks for what it then waits for.
LEMMA PageStepsWait ==
    ASSUME SeenInv, AnswersCome, NEW p \in Peers,
           Join(p) \/ Start(p) \/ Loaded(p) \/ Publish(p) \/ ConsumeNext(p) \/ \E x \in Producers : Created(p, x)
    PROVE  AnswersCome'
<1>0. SfuTypeOK /\ UNCHANGED inbox /\ \A q \in Peers : Grows(q)
  BY DEF SeenInv, BaseInv, Join, PeerJoined, Start, Loaded, Publish, ConsumeNext, Created, serverVars, Grows, At
<1>1. \A T : requests \subseteq requests' /\ Awaited(p, T) => Awaited(p, T)'
  BY <1>0, StillAwaited
<1>2. ASSUME NEW label \in Stages, GoTo(p, label), UNCHANGED consume, requests \subseteq requests',
             label \in Waiting => Awaited(p, PageTokens)'
      PROVE  AnswersCome'
  <2>1. \A q \in Peers : stage'[q] = IF q = p THEN label ELSE stage[q]
    BY <1>0, <1>2, GoFacts
  <2>2. ~WaitsInVain(p)'
    BY <1>1, <1>2, <2>1 DEF AnswersCome, WaitsInVain
  <2> QED BY <1>0, <1>2, <2>1, <2>2, OthersWait
<1>3. ASSUME NEW x \in Producers, NEW v \in TrackKinds, Set(p, x, v), Ask(p, v, {x}), UNCHANGED stage
      PROVE  AnswersCome'
  <2>1. v \in Steps /\ v \in Kinds
    BY DEF Steps, Kinds, TrackKinds
  <2>2. \A q \in Peers, y \in Producers : consume'[q][y] = IF q = p /\ y = x THEN v ELSE consume[q][y]
    BY <1>0, <1>3, <2>1, SetFacts
  <2>3. Awaited(p, TrackTokens(x))' /\ requests \subseteq requests'
    <3>1. PICK xs \in SUBSET Producers : xs = {x}
      OBVIOUS
    <3>2. <<v, xs>> \in TrackTokens(x)
      BY <3>1 DEF TrackTokens
    <3>3. Ask(p, v, xs)
      BY <1>3, <3>1
    <3> QED BY <1>0, <2>1, <3>2, <3>3, AskedFor DEF Ask
  <2>4. ~WaitsInVain(p)'
    BY <1>1, <1>3, <2>2, <2>3 DEF AnswersCome, WaitsInVain
  <2>5. \A q \in Peers \ {p} : consume'[q] = consume[q]
    BY <1>0, <1>3 DEF Set, SfuTypeOK
  <2> QED BY <1>0, <1>3, <2>3, <2>4, <2>5, OthersWait
<1>4. CASE Join(p) \/ Loaded(p)
  <2>1. PICK label \in {"joined", "publish"} : GoTo(p, label)
    BY <1>4 DEF Join, Loaded
  <2>2. UNCHANGED <<consume, requests>> /\ label \in Stages \ Waiting
    BY <1>4 DEF Join, Loaded, PeerJoined, clientVars, serverVars, Stages, Waiting
  <2> QED BY <1>2, <2>1, <2>2
<1>5. ASSUME NEW label \in Stages, NEW kind \in PageKinds, NEW xs \in SUBSET Producers,
             GoTo(p, label), Ask(p, kind, xs), UNCHANGED consume
      PROVE  AnswersCome'
  <2>1. Awaited(p, PageTokens)' /\ requests \subseteq requests'
    <3>1. <<kind, xs>> \in PageTokens /\ kind \in Kinds
      BY DEF PageTokens, PageKinds, Kinds
    <3> QED BY <1>0, <1>5, <3>1, AskedFor DEF Ask
  <2> QED BY <1>2, <1>5, <2>1
<1>6. CASE Start(p)
  BY <1>5, <1>6 DEF Start, clientVars, Stages, PageKinds
<1>7. CASE Publish(p)
  <2>1. PICK tracks : tracks = {x \in Producers : Owner[x] = p} \ live
    OBVIOUS
  <2>2. UNCHANGED consume
    BY <1>7 DEF Publish, clientVars
  <2>3. CASE tracks = {}
    <3>1. Ask(p, "list", {}) /\ GoTo(p, "listing")
      BY <1>7, <2>1, <2>3 DEF Publish
    <3> QED BY <1>5, <2>2, <3>1 DEF Stages, PageKinds
  <2>4. CASE tracks # {}
    <3>1. PICK x \in tracks : Ask(p, "produce", {x}) /\ GoTo(p, "publishing")
      BY <1>7, <2>1, <2>4 DEF Publish
    <3> QED BY <1>5, <2>1, <2>2, <3>1 DEF Stages, PageKinds
  <2> QED BY <2>3, <2>4
<1>8. CASE ConsumeNext(p)
  <2>1. CASE GoTo(p, "ready") /\ UNCHANGED <<consume, requests>>
    BY <1>2, <2>1 DEF Stages, Waiting
  <2>2. ASSUME NEW x \in queue[p], Consume(p, x), UNCHANGED stage PROVE AnswersCome'
    <3>1. x \in Producers
      BY <1>0, <2>2 DEF SfuTypeOK
    <3>2. CASE UNCHANGED <<consume, requests>>
      BY <1>0, <2>2, <3>2 DEF AnswersCome, WaitsInVain, Awaited, Asks, At
    <3> QED BY <1>3, <2>2, <3>1, <3>2, ConsumeFacts DEF Consumes, TrackKinds
  <2> QED BY <1>8, <2>1, <2>2 DEF ConsumeNext
<1>9. ASSUME NEW x \in Producers, Created(p, x) PROVE AnswersCome'
  BY <1>3, <1>9 DEF Created, TrackKinds
<1> QED BY <1>4, <1>6, <1>7, <1>8, <1>9

LEMMA TimeoutWaits == ASSUME SeenInv, AnswersCome, NEW p \in Peers, Timeout(p) PROVE AnswersCome'
<1>0. SfuTypeOK /\ WellFormed
  BY DEF SeenInv, BaseInv
<1>1. ASSUME NEW r \in requests, r.who = p, Rejected(p, r.kind, r.of), UNCHANGED inbox,
             requests' = (requests \ {r}) \cup {[r EXCEPT !.awaited = FALSE]}
      PROVE  AnswersCome'
  <2>1. r.kind \in Kinds /\ r.of \in SUBSET Producers /\ (r.kind \in TrackKinds => \E y \in Producers : r.of = {y})
    BY <1>0 DEF SfuTypeOK, Requests, WellFormed, RequestOK, TrackKinds
  <2>2. \A q : Grows(q)
    BY <1>1 DEF Grows, At
  <2>3. ASSUME NEW T, Awaited(p, T), <<r.kind, r.of>> \notin T PROVE Awaited(p, T)'
    <3>1. \A s \in requests : Asks(p, T, s) => s \in requests'
      BY <1>1, <2>3 DEF Asks, Token
    <3> QED BY <2>2, <2>3, <3>1, StillAwaited
  <2>4. ~WaitsInVain(p)'
    BY <1>0, <1>1, <2>1, <2>3, RejectedEnds
  <2>5. \A q \in Peers \ {p} : stage'[q] = stage[q] /\ consume'[q] = consume[q]
    BY <1>0, <1>1, <2>1, RejectedFacts
  <2> QED BY <1>1, <2>2, <2>4, <2>5, OthersWait
<1>2. ASSUME NEW i \in DOMAIN inbox[p], inbox[p][i].kind \in Kinds, inbox' = [inbox EXCEPT ![p] = RemoveAt(@, i)],
             Rejected(p, inbox[p][i].kind, inbox[p][i].of), UNCHANGED requests
      PROVE  AnswersCome'
  <2>1. i \in At(p)
    BY <1>0, InboxFacts DEF At
  <2>2. PICK m \in Messages : m = inbox[p][i] /\ MessageOK(p, m)
    BY <1>0, <2>1, InboxFacts DEF WellFormed
  <2>3. m.kind \in Kinds /\ m.of \in SUBSET Producers /\ (m.kind \in TrackKinds => \E y \in Producers : m.of = {y})
    BY <1>2, <2>2 DEF Messages, MessageOK, TrackKinds
  <2>4. Cuts(p, i) /\ \A q \in Peers \ {p} : inbox'[q] = inbox[q]
    BY <1>0, <1>2, <2>1, RemovedInbox
  <2>5. ASSUME NEW T, Awaited(p, T), <<m.kind, m.of>> \notin T PROVE Awaited(p, T)'
    BY <1>0, <1>2, <2>1, <2>2, <2>4, <2>5, PassedOver DEF Token
  <2>6. ~WaitsInVain(p)'
    BY <1>0, <1>2, <2>2, <2>3, <2>5, RejectedEnds
  <2>7. \A q \in Peers \ {p} : stage'[q] = stage[q] /\ consume'[q] = consume[q]
    BY <1>0, <1>2, <2>2, <2>3, RejectedFacts
  <2>8. \A q \in Peers \ {p} : Grows(q)
    BY <2>4 DEF Grows, At
  <2> QED BY <1>2, <2>6, <2>7, <2>8, OthersWait
<1> QED BY <1>1, <1>2 DEF Timeout

LEMMA ReceiveWaits == ASSUME SeenInv, AnswersCome, NEW p \in Peers, Receive(p) PROVE AnswersCome'
<1>0. SfuTypeOK /\ WellFormed /\ inbox[p] # <<>> /\ inbox' = [inbox EXCEPT ![p] = Tail(@)]
  BY DEF SeenInv, BaseInv, Receive
<1>1. /\ Cuts(p, 1) /\ 1 \in At(p) /\ Head(inbox[p]) = inbox[p][1]
      /\ \A q \in Peers \ {p} : inbox'[q] = inbox[q] /\ Grows(q)
  BY <1>0, TailInbox DEF Cuts, Grows, At
<1>2. PICK m \in Messages : m = inbox[p][1] /\ MessageOK(p, m)
  BY <1>0, <1>1, InboxFacts DEF WellFormed
<1>3. m.of \in SUBSET Producers /\ (m.kind \in TrackKinds => \E y \in Producers : m.of = {y})
  BY <1>2 DEF Messages, MessageOK, TrackKinds
<1>4. ASSUME NEW T, Awaited(p, T), <<m.kind, m.of>> \notin T, requests \subseteq requests' PROVE Awaited(p, T)'
  BY <1>0, <1>1, <1>2, <1>4, PassedOver DEF Token
<1>5. ASSUME \A q \in Peers \ {p} : stage'[q] = stage[q] /\ consume'[q] = consume[q],
             requests \subseteq requests', ~WaitsInVain(p)'
      PROVE  AnswersCome'
  BY <1>1, <1>5, OthersWait
\* The page goes on, and waits for nothing of its own.
<1>6. ASSUME NEW label \in Stages \ Waiting, GoTo(p, label), m.kind \in PageKinds, UNCHANGED <<requests, consume>>
      PROVE  AnswersCome'
  <2>1. \A q \in Peers : stage'[q] = IF q = p THEN label ELSE stage[q]
    BY <1>0, <1>6, GoFacts
  <2>2. \A x \in Producers : <<m.kind, m.of>> \notin TrackTokens(x)
    BY <1>6, TokenIs DEF TrackTokens
  <2>3. ~WaitsInVain(p)'
    BY <1>4, <1>6, <2>1, <2>2 DEF AnswersCome, WaitsInVain
  <2> QED BY <1>5, <1>6, <2>1, <2>3
\* consume() of x goes on, and asks for what it then waits for.
<1>7. ASSUME NEW x \in Producers, NEW v \in Steps, Set(p, x, v), UNCHANGED stage, requests \subseteq requests',
             m.of = {x}, m.kind \notin PageKinds, v \in TrackKinds => Ask(p, v, {x})
      PROVE  AnswersCome'
  <2>1. \A q \in Peers, y \in Producers : consume'[q][y] = IF q = p /\ y = x THEN v ELSE consume[q][y]
    BY <1>0, <1>7, SetFacts
  <2>2. \A q \in Peers \ {p} : consume'[q] = consume[q]
    BY <1>0, <1>7 DEF Set, SfuTypeOK
  <2>3. v \in TrackKinds => Awaited(p, TrackTokens(x))'
    <3>1. PICK xs \in SUBSET Producers : xs = {x}
      OBVIOUS
    <3>2. ASSUME v \in TrackKinds PROVE <<v, xs>> \in TrackTokens(x) /\ v \in Kinds /\ Ask(p, v, xs)
      BY <1>7, <3>1, <3>2 DEF TrackTokens, TrackKinds, Kinds
    <3> QED BY <1>0, <3>2, AskedFor
  <2>4. /\ <<m.kind, m.of>> \notin PageTokens
        /\ \A y \in Producers : y # x => <<m.kind, m.of>> \notin TrackTokens(y)
    BY <1>7 DEF PageTokens, TrackTokens
  <2>5. ~WaitsInVain(p)'
    BY <1>4, <1>7, <2>1, <2>3, <2>4 DEF AnswersCome, WaitsInVain
  <2> QED BY <1>5, <1>7, <2>2, <2>5
<1>8. ASSUME m.kind \notin Kinds, UNCHANGED <<requests, stage, consume>> PROVE AnswersCome'
  <2>1. <<m.kind, m.of>> \notin PageTokens /\ \A x \in Producers : <<m.kind, m.of>> \notin TrackTokens(x)
    BY <1>8, TokenIs DEF PageTokens, TrackTokens
  <2>2. ~WaitsInVain(p)'
    BY <1>4, <1>8, <2>1 DEF AnswersCome, WaitsInVain
  <2> QED BY <1>5, <1>8, <2>2
<1>9. CASE stage[p] = "joined"
  <2>1. UNCHANGED <<requests, stage, consume>>
    BY <1>9 DEF Receive
  <2>2. m.kind \notin Kinds
    BY <1>1, <1>2, <1>9 DEF SeenInv, BaseInv, Around
  <2> QED BY <1>8, <2>1, <2>2
<1>10. CASE ~m.ok /\ Rejected(p, m.kind, m.of) /\ UNCHANGED requests
  <2>1. m.kind \in Kinds
    BY <1>2, <1>10 DEF MessageOK, Kinds
  <2>2. ~WaitsInVain(p)'
    BY <1>0, <1>3, <1>4, <1>10, <2>1, RejectedEnds
  <2>3. \A q \in Peers \ {p} : stage'[q] = stage[q] /\ consume'[q] = consume[q]
    BY <1>0, <1>10, <2>1, RejectedFacts
  <2> QED BY <1>5, <1>10, <2>2, <2>3
<1>11. CASE \/ m.kind = "caps" /\ GotCaps(p)
            \/ m.kind = "produce" /\ Produced(p)
            \/ m.kind = "list" /\ Listed(p, m.of)
  <2>1. PICK label \in {"loading", "publish", "consuming"} : GoTo(p, label)
    BY <1>11 DEF GotCaps, Produced, Listed
  <2>2. m.kind \in PageKinds /\ UNCHANGED <<requests, consume>> /\ label \in Stages \ Waiting
    BY <1>11 DEF GotCaps, Produced, Listed, PageKinds, Stages, Waiting
  <2> QED BY <1>6, <2>1, <2>2
<1>12. ASSUME NEW x \in m.of,
              \/ m.kind = "transport" /\ Transport(p, x)
              \/ m.kind = "consume" /\ Consumed(p, x)
              \/ m.kind = "resume" /\ Resumed(p, x)
       PROVE  AnswersCome'
  <2>1. m.of = {x} /\ x \in Producers /\ m.kind \notin PageKinds
    BY <1>3, <1>12 DEF TrackKinds, PageKinds
  <2>2. CASE Consumed(p, x) \/ Resumed(p, x)
    <3>1. PICK v \in {"creating", "shown"} : Set(p, x, v)
      BY <2>2 DEF Consumed, Resumed
    <3>2. UNCHANGED <<requests, stage>> /\ v \in Steps /\ v \notin TrackKinds
      BY <2>2 DEF Consumed, Resumed, Steps, TrackKinds
    <3> QED BY <1>7, <2>1, <3>1, <3>2
  <2>3. CASE Transport(p, x)
    <3>1. CASE Set(p, x, "no") /\ UNCHANGED <<requests, stage>>
      BY <1>7, <2>1, <3>1 DEF Steps, TrackKinds
    <3>2. CASE Set(p, x, "consume") /\ Ask(p, "consume", {x}) /\ UNCHANGED stage
      <4>1. requests \subseteq requests'
        BY <3>2 DEF Ask
      <4> QED BY <1>7, <2>1, <3>2, <4>1 DEF Steps
    <3> QED BY <2>3, <3>1, <3>2 DEF Transport
  <2> QED BY <1>12, <2>2, <2>3
<1>13. ASSUME NEW x \in m.of, m.kind = "producer-closed", ProducerClosed(p, x) PROVE AnswersCome'
  <2>1. m.of = {x} /\ x \in Producers /\ m.kind \notin Kinds /\ m.kind \notin PageKinds
    BY <1>2, <1>3, <1>13 DEF MessageOK, Kinds, PageKinds
  <2>2. UNCHANGED <<requests, stage>> /\ (UNCHANGED consume \/ Set(p, x, "closed"))
    BY <1>13 DEF ProducerClosed, Set
  <2> QED BY <1>7, <1>8, <2>1, <2>2 DEF Steps, TrackKinds
<1>14. ASSUME NEW x \in m.of, m.kind = "new-producer", Consume(p, x), UNCHANGED stage PROVE AnswersCome'
  <2>1. m.of = {x} /\ x \in Producers /\ m.kind \notin Kinds /\ m.kind \notin PageKinds
    BY <1>2, <1>3, <1>14 DEF MessageOK, Kinds, PageKinds
  <2>2. CASE UNCHANGED <<consume, requests>>
    BY <1>8, <1>14, <2>1, <2>2
  <2>3. ASSUME NEW v \in {"transport", "consume"}, Consumes(p, x, v) PROVE AnswersCome'
    <3>1. Set(p, x, v) /\ Ask(p, v, {x}) /\ requests \subseteq requests' /\ v \in Steps
      BY <2>3 DEF Consumes, Ask, Steps
    <3> QED BY <1>7, <1>14, <2>1, <3>1
  <2> QED BY <1>14, <2>2, <2>3, ConsumeFacts
<1>15. CASE Handle(p, m)
  BY <1>10, <1>11, <1>12, <1>13, <1>14, <1>15 DEF Handle
<1> QED BY <1>1, <1>2, <1>9, <1>15 DEF Receive

LEMMA LeaveWaits == ASSUME SeenInv, AnswersCome, NEW p \in Peers, Leave(p) PROVE AnswersCome'
<1>0. SfuTypeOK /\ requests' = {r \in requests : r.who # p}
  BY DEF SeenInv, BaseInv, Leave, PeerLeft
<1>1. PICK closing : closing = {x \in live : Owner[x] = p}
  OBVIOUS
<1>2. Farewell(p, closing)
  BY <1>0, <1>1, LeaveFacts
<1>3. \A q \in Peers \ {p} : stage'[q] = stage[q] /\ consume'[q] = consume[q] /\ \E N : Extends(q, N)
  BY <1>2 DEF Farewell
<1>4. stage'[p] = "left" /\ \A x \in Producers : consume'[p][x] = "no"
  BY <1>2 DEF Farewell
<1>5. ~WaitsInVain(p)'
  BY <1>4 DEF WaitsInVain, Waiting, TrackKinds
<1> QED BY <1>0, <1>3, <1>5, ExtendsGrows, OthersWait

\* Nobody waits in vain: whatever is refused, given up, late, or lost with a page that left,
\* init(), publish(), consumeExisting() and consume() have a request the server has still to
\* answer, or the answer is on its way, or they have ended.
THEOREM NobodyWaitsInVain == Spec => []AnswersCome
<1>1. Init => AnswersCome
  BY DEF Init, AnswersCome, WaitsInVain, Waiting, TrackKinds
<1>2. SeenInv /\ AnswersCome /\ [Next]_vars => AnswersCome'
  <2> SUFFICES ASSUME SeenInv, AnswersCome, [Next]_vars PROVE AnswersCome'
    OBVIOUS
  <2>1. CASE Next
    BY <2>1, ServerAnswers, PageStepsWait, TimeoutWaits, ReceiveWaits, LeaveWaits DEF Next, Progress, Goes
  <2>2. CASE UNCHANGED vars
    BY <2>2 DEF vars, serverVars, clientVars, AnswersCome, WaitsInVain, Awaited, Asks, At
  <2> QED BY <2>1, <2>2
<1> QED BY <1>1, <1>2, SeenInvariance, PTL DEF Spec
=============================================================================

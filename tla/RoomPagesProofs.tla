-------------------------- MODULE RoomPagesProofs --------------------------
(***************************************************************************)
(* The directories are true, for any number of peers: the three invariants *)
(* of Directory, proved of its specification, and the step that carries    *)
(* them to the pages, which only ever do what the servers allow.  Then     *)
(* what the pages promise: PagesInv says at every await of go() what a     *)
(* page holds and has yet to ask for, and every step keeps it.             *)
(*                                                                         *)
(* The second half is of the board a page shows (BoardSync): where its     *)
(* messages are, who knows of whom, where each stroke is, who catches up,  *)
(* and what a board will be once what is on its way has been read.         *)
(***************************************************************************)
EXTENDS RoomPages, BoardSync, FiniteSetTheorems, SequenceTheorems, TLAPS

\* A subset of the peers has a size.
LEMMA CountType == ASSUME NEW S, S \subseteq Peers PROVE Cardinality(S) \in Nat
BY PeersAssumption, FS_Subset, FS_CardinalityType

\* Whoever is in the room has a token, of which one at most is a broadcaster's; the room
\* is open then.  Once a token was minted the room has been registered.
Bookkeeping ==
    /\ \A p \in peers : token[p] # "none"
    /\ peers # {} => open
    /\ open => \E p \in Peers : token[p] # "none"
    /\ \A p, q \in Peers : token[p] = "broadcaster" /\ token[q] = "broadcaster" => p = q
    /\ (\E p \in Peers : token[p] # "none") => (rec # NoRecord \/ closed)

IInv == ServerTypeOK /\ Bookkeeping /\ DirectoryTrue /\ OpenIsListed

\* What the servers read in a token is what they wrote there.
LEMMA Roles1 ==
    ASSUME ServerTypeOK, app \in Streams, NEW p \in Peers
    PROVE  RoleOf(p) = "broadcaster" <=> token[p] = "broadcaster"
BY DEF RoleOf, LiveAuth, MassiveAuth, Streams, Meetings, Boards

LEMMA BroadcastersRight ==
    ASSUME ServerTypeOK, app \in Streams, NEW ps, ps \subseteq Peers
    PROVE  /\ Broadcasters(ps) = {p \in ps : token[p] = "broadcaster"}
           /\ ps \ Broadcasters(ps) = {p \in ps : token[p] # "broadcaster"}
BY Roles1 DEF Broadcasters

\* What refresh() records of a room with the members ps.
LEMMA RefreshedRight ==
    ASSUME ServerTypeOK, NEW ps, ps \subseteq Peers
    PROVE  /\ Refreshed(ps) \in Records
           /\ app \in Streams =>
                /\ Refreshed(ps).live <=> \E p \in ps : token[p] = "broadcaster"
                /\ Refreshed(ps).viewers = Cardinality({p \in ps : token[p] # "broadcaster"})
           /\ app \notin Streams => Refreshed(ps).members = Cardinality(ps)
<1>1. CASE app \in Streams
  <2>1. Refreshed(ps) = [live |-> Broadcasters(ps) # {},
                         viewers |-> Cardinality(ps \ Broadcasters(ps))]
    BY <1>1 DEF Refreshed, LiveRefresh, MassiveRefresh, Streams, Meetings, Boards
  <2>2. Cardinality(ps \ Broadcasters(ps)) \in Nat
    BY CountType
  <2>3. (Broadcasters(ps) # {}) = (\E p \in ps : token[p] = "broadcaster")
    BY <1>1, BroadcastersRight
  <2>4. ps \ Broadcasters(ps) = {p \in ps : token[p] # "broadcaster"}
    BY <1>1, BroadcastersRight
  <2>5. Refreshed(ps) \in Records
    BY <1>1, <2>1, <2>2 DEF Records
  <2>6. Refreshed(ps).live <=> \E p \in ps : token[p] = "broadcaster"
    <3>1. Refreshed(ps).live = (Broadcasters(ps) # {})
      BY <2>1
    <3> QED BY <3>1, <2>3
  <2>7. Refreshed(ps).viewers = Cardinality({p \in ps : token[p] # "broadcaster"})
    BY <2>1, <2>4
  <2> QED BY <1>1, <2>5, <2>6, <2>7
<1>2. CASE app \notin Streams
  <2>1. app \in Meetings \cup Boards
    BY <1>2, AppsAssumption DEF ServerTypeOK
  <2>2. Refreshed(ps) = [members |-> Cardinality(ps)]
    BY <2>1, <1>2 DEF Refreshed, MeetingRefresh, BoardRefresh, Meetings, Boards, Streams
  <2> QED BY <1>2, <2>2, CountType DEF Records
<1> QED BY <1>1, <1>2

LEMMA NewRecordRight ==
    ASSUME ServerTypeOK
    PROVE  /\ NewRecord \in Records
           /\ app \in Streams => NewRecord.live = FALSE /\ NewRecord.viewers = 0
           /\ app \notin Streams => NewRecord.members = 0
<1>1. CASE app \in Streams
  BY <1>1 DEF NewRecord, NewLiveStream, NewMassiveStream, Records, Streams, Meetings, Boards
<1>2. CASE app \notin Streams
  <2>1. app \in Meetings \cup Boards
    BY <1>2, AppsAssumption DEF ServerTypeOK
  <2> QED BY <2>1, <1>2 DEF NewRecord, NewMeeting, NewBoard, Records, Meetings, Boards, Streams
<1> QED BY <1>1, <1>2

LEMMA NoRecordIsNone == \A r \in Records : r # NoRecord
BY NoRecordAssumption DEF Records

LEMMA RoleType ==
    ASSUME ServerTypeOK, NEW creator \in BOOLEAN
    PROVE  /\ RoleFor(creator) \in Tokens \ {"none"}
           /\ ~creator => RoleFor(creator) # "broadcaster"
<1>1. app \in Streams \cup Meetings \cup Boards
  BY AppsAssumption DEF ServerTypeOK
<1> QED BY <1>1 DEF RoleFor, LiveRole, MassiveRole, MeetingRole, BoardRole, Tokens, Roles,
                    Streams, Meetings, Boards

(***************************************************************************)
(* A refresh after a join or a leave                                       *)
(***************************************************************************)
\* The directory's entry, of a room with the members ps.
EntryTrue(r, ps) ==
    IF app \in Streams
    THEN /\ r.live <=> \E p \in ps : token[p] = "broadcaster"
         /\ r.viewers = Cardinality({p \in ps : token[p] # "broadcaster"})
    ELSE r.members = Cardinality(ps)

LEMMA RefreshRight ==
    ASSUME ServerTypeOK, NEW ps, ps \subseteq Peers, Refresh(ps)
    PROVE  /\ rec' \in Records \cup {NoRecord}
           /\ rec' = NoRecord <=> rec = NoRecord
           /\ rec' # NoRecord => EntryTrue(rec', ps)
BY RefreshedRight, NoRecordIsNone DEF Refresh, EntryTrue

\* With one broadcaster at most, a stream without the one who leaves is not live.
LEMMA RefreshLeftRight ==
    ASSUME IInv, NEW p \in peers, RefreshLeft(p, peers \ {p})
    PROVE  /\ rec' \in Records \cup {NoRecord}
           /\ rec' = NoRecord <=> rec = NoRecord
           /\ rec' # NoRecord => EntryTrue(rec', peers \ {p})
<1> DEFINE ps == peers \ {p}
<1>0. ServerTypeOK /\ ps \subseteq Peers /\ p \in Peers
  BY DEF IInv, ServerTypeOK
<1>1. CASE app # "live-streaming"
  BY <1>0, <1>1, RefreshRight DEF RefreshLeft
<1>2. CASE app = "live-streaming"
  <2>1. rec' = IF rec = NoRecord THEN NoRecord ELSE LiveLeft(p, ps)
    BY <1>2 DEF RefreshLeft
  <2>2. app \in Streams
    BY <1>2 DEF Streams
  <2>3. LiveRefresh(ps) = Refreshed(ps)
    BY <1>2 DEF Refreshed, Streams, Meetings, Boards
  <2>4. Refreshed(ps).live => token[p] # "broadcaster"
    BY <1>0, <2>2, RefreshedRight DEF IInv, Bookkeeping, ServerTypeOK
  <2>5. RoleOf(p) = "broadcaster" <=> token[p] = "broadcaster"
    BY <1>0, <2>2, Roles1
  <2>6. Refreshed(ps) \in [live : BOOLEAN, viewers : Nat]
    BY <1>0, <2>2, RefreshedRight DEF Records
  <2>7. LiveLeft(p, ps) = Refreshed(ps)
    BY <2>3, <2>4, <2>5, <2>6 DEF LiveLeft
  <2> QED BY <1>0, <2>1, <2>7, RefreshedRight, NoRecordIsNone DEF EntryTrue
<1> QED BY <1>1, <1>2

(***************************************************************************)
(* The invariant                                                           *)
(***************************************************************************)
LEMMA InitIInv == Init => IInv
BY NoRecordIsNone DEF Init, IInv, ServerTypeOK, Bookkeeping, DirectoryTrue, OpenIsListed, Tokens

LEMMA CreateStep == ASSUME IInv, NEW p \in Peers, Create(p) PROVE IInv'
<1>1. peers = {} /\ ~open
  BY DEF Create, IInv, Bookkeeping, ServerTypeOK
<1>2. token' = [token EXCEPT ![p] = RoleFor(TRUE)] /\ RoleFor(TRUE) \in Tokens \ {"none"}
  BY RoleType DEF Create, Mint, IInv
<1>3. rec' \in Records /\ rec' # NoRecord
  BY NewRecordRight, NoRecordIsNone DEF Create, IInv
<1>4. ServerTypeOK'
  BY <1>2, <1>3 DEF Create, IInv, ServerTypeOK, Records
<1>5. Bookkeeping'
  BY <1>1, <1>2, <1>3 DEF Create, IInv, ServerTypeOK, Bookkeeping
<1>6. DirectoryTrue'
  <2>1. peers' = {} /\ app' = app /\ rec' = NewRecord
    BY <1>1 DEF Create
  <2>2. Cardinality({}) = 0 /\ {q \in {} : token'[q] # "broadcaster"} = {}
    BY FS_EmptySet
  <2> QED BY <2>1, <2>2, NewRecordRight DEF DirectoryTrue, IInv
<1>7. OpenIsListed'
  BY <1>1 DEF Create, OpenIsListed
<1> QED BY <1>4, <1>5, <1>6, <1>7 DEF IInv

LEMMA IssueStep == ASSUME IInv, NEW p \in Peers, Issue(p) PROVE IInv'
<1>1. token' = [token EXCEPT ![p] = RoleFor(FALSE)]
      /\ RoleFor(FALSE) \in Tokens \ {"none", "broadcaster"}
  BY RoleType DEF Issue, Mint, IInv
<1>2. p \notin peers /\ rec # NoRecord
  BY DEF Issue, IInv, Bookkeeping
<1>3. ServerTypeOK'
  BY <1>1 DEF Issue, IInv, ServerTypeOK, Records
<1>4. Bookkeeping'
  BY <1>1, <1>2 DEF Issue, IInv, ServerTypeOK, Bookkeeping
<1>5. DirectoryTrue'
  <2>1. peers' = peers /\ rec' = rec /\ app' = app
    BY DEF Issue
  <2>2. \A q \in peers : token'[q] = token[q]
    BY <1>1, <1>2 DEF IInv, ServerTypeOK
  <2>3. {q \in peers : token'[q] # "broadcaster"} = {q \in peers : token[q] # "broadcaster"}
    BY <2>2
  <2> QED BY <2>1, <2>2, <2>3 DEF DirectoryTrue, IInv
<1>6. OpenIsListed'
  BY DEF Issue, IInv, OpenIsListed
<1> QED BY <1>3, <1>4, <1>5, <1>6 DEF IInv

LEMMA EnterStep == ASSUME IInv, NEW p \in Peers, Enter(p) PROVE IInv'
<1>1. /\ rec' \in Records \cup {NoRecord}
      /\ rec' = NoRecord <=> rec = NoRecord
      /\ rec' # NoRecord => EntryTrue(rec', peers \cup {p})
  BY RefreshRight DEF Enter, IInv, ServerTypeOK
<1>2. token[p] # "none" /\ peers' = peers \cup {p} /\ open' = TRUE
  BY DEF Enter, Valid
<1>3. UNCHANGED <<app, token, expired, closed>> /\ ghost' = (ghost \/ (~open /\ closed))
  BY DEF Enter
<1>4. ServerTypeOK'
  BY <1>1, <1>2, <1>3 DEF IInv, ServerTypeOK, Records
<1>5. Bookkeeping'
  BY <1>1, <1>2, <1>3 DEF IInv, ServerTypeOK, Bookkeeping
<1>6. DirectoryTrue'
  BY <1>1, <1>2, <1>3 DEF DirectoryTrue, EntryTrue
<1>7. OpenIsListed'
  BY <1>1, <1>2, <1>3 DEF IInv, OpenIsListed, Bookkeeping, ServerTypeOK
<1> QED BY <1>4, <1>5, <1>6, <1>7 DEF IInv

LEMMA LeaveStep == ASSUME IInv, NEW p \in Peers, Leave(p) PROVE IInv'
<1>1. /\ rec' \in Records \cup {NoRecord}
      /\ rec' = NoRecord <=> rec = NoRecord
      /\ rec' # NoRecord => EntryTrue(rec', peers \ {p})
  BY RefreshLeftRight DEF Leave
<1>2. peers' = peers \ {p} /\ UNCHANGED <<app, token, expired, open, closed, ghost>>
  BY DEF Leave
<1>3. ServerTypeOK'
  BY <1>1, <1>2 DEF IInv, ServerTypeOK, Records
<1>4. Bookkeeping'
  BY <1>1, <1>2 DEF IInv, ServerTypeOK, Bookkeeping
<1>5. DirectoryTrue'
  BY <1>1, <1>2 DEF DirectoryTrue, EntryTrue
<1>6. OpenIsListed'
  BY <1>1, <1>2 DEF IInv, OpenIsListed
<1> QED BY <1>3, <1>4, <1>5, <1>6 DEF IInv

LEMMA CloseStep == ASSUME IInv, Close PROVE IInv'
BY DEF Close, IInv, ServerTypeOK, Bookkeeping, DirectoryTrue, OpenIsListed, Records

LEMMA ExpireStep == ASSUME IInv, NEW p \in Peers, Expire(p) PROVE IInv'
BY DEF Expire, IInv, ServerTypeOK, Bookkeeping, DirectoryTrue, OpenIsListed, Records

LEMMA StutterStep == ASSUME IInv, UNCHANGED serverVars PROVE IInv'
BY DEF serverVars, IInv, ServerTypeOK, Bookkeeping, DirectoryTrue, OpenIsListed, Records

LEMMA NextStep == IInv /\ [Next]_serverVars => IInv'
BY CreateStep, IssueStep, EnterStep, LeaveStep, CloseStep, ExpireStep, StutterStep
   DEF Next, Kick

\* For any number of peers: the invariant that is inductive.
THEOREM Invariance == Spec => []IInv
BY InitIInv, NextStep, PTL DEF Spec

(***************************************************************************)
(* The pages                                                               *)
(***************************************************************************)
\* Whatever the pages do is, for the servers, a request, an event of the room or nothing.
LEMMA PagesStep == [PagesNext]_vars => [Next]_serverVars
<1>1. ASSUME NEW p \in Peers, Step(p) PROVE [Next]_serverVars
  <2>1. ASSUME GoStep(p) PROVE UNCHANGED serverVars
    BY <2>1 DEF GoStep, Joined, Camera, Fails, Answered
  <2>2. ASSUME ScreenStep(p) PROVE UNCHANGED serverVars
    BY <2>2 DEF ScreenStep, StopShare, Share, Picked, NotPicked, Added, NotAdded, Ended
  <2> QED BY <1>1, <2>1, <2>2 DEF Step, PollLobby, StartRoom, EnterRoom, Mounted, JoinsRoom,
                                   Exit, Departs, Terminated, Toggle, TokenExpires, Next
<1>2. ASSUME NEW h \in Peers, NEW p \in Peers, KickPeer(h, p) PROVE [Next]_serverVars
  BY <1>2 DEF KickPeer, Next
<1>3. ASSUME NEW h \in Peers, NEW p \in Peers, MuteRequest(h, p) PROVE [Next]_serverVars
  BY <1>3 DEF MuteRequest
<1>4. RoomCloses => [Next]_serverVars
  BY DEF RoomCloses, Next
<1>5. UNCHANGED vars => [Next]_serverVars
  BY DEF vars
<1> QED BY <1>1, <1>2, <1>3, <1>4, <1>5 DEF PagesNext

\* The pages and the servers together implement the servers' specification.
THEOREM PagesUseTheServers == PagesSpec => Spec
BY PagesStep, PTL DEF PagesSpec, PagesInit, Spec

\* What the directory lists of a room is what is in it.
THEOREM DirectoryCorrect == PagesSpec => []DirectoryTrue
<1>1. IInv => DirectoryTrue
  BY DEF IInv
<1> QED BY <1>1, PagesUseTheServers, Invariance, PTL

\* An open room is listed, unless an old token opened it again.
THEOREM OpenRoomsListed == PagesSpec => []OpenIsListed
<1>1. IInv => OpenIsListed
  BY DEF IInv
<1> QED BY <1>1, PagesUseTheServers, Invariance, PTL

(***************************************************************************)
(* What a page may be in                                                   *)
(***************************************************************************)
Holds(s, x) == \E i \in 1..Len(s) : s[i] = x
Present == {"joined", "up", "leaving"}

PageRecords ==
    [view : {"lobby", "asked", "mounted", "gone"}, seen : BOOLEAN, todo : Seq(Awaits),
     status : {"connecting", "ready", "error"},
     conn : {"none", "joined", "up", "leaving", "kicked", "left"},
     engine : {"none", "open", "closed"}, camera : {"none", "live", "stopped"},
     on : BOOLEAN, enabled : BOOLEAN, sending : {"none", "on", "paused"}, deaf : BOOLEAN,
     picking : BOOLEAN, adding : Nat, captures : Nat, ref : BOOLEAN, screenOn : BOOLEAN,
     slips : SUBSET Slips, shares : Nat]

RolesOf == CASE app \in Streams -> {"broadcaster", "viewer"}
             [] app \in Meetings -> {"host", "participant", "audience"}
             [] app \in Boards -> {"member"}

\* The pages that never ask for a camera.
Watches(p) == app \in Boards \/ (app = "live-streaming" /\ token[p] = "viewer")

\* Before its page is there nobody has done anything.
Fresh(pg) ==
    pg.view \in {"lobby", "asked"} =>
        /\ pg.todo = <<>> /\ pg.conn = "none" /\ pg.engine = "none" /\ pg.camera = "none"
        /\ pg.sending = "none" /\ pg.on
        /\ ~pg.picking /\ pg.adding = 0 /\ pg.captures = 0 /\ ~pg.ref

\* go() awaits nothing twice, and a meeting's camera directly after the join.
Route(p, todo) ==
    /\ \A i, j \in 1..Len(todo) : todo[i] = todo[j] => i = j
    /\ app \in Meetings => \A i \in 1..Len(todo) : todo[i] = "camera" => i <= 2
    /\ app = "call" => \A i \in 1..Len(todo) : todo[i] \in {"join", "camera"}
    /\ Watches(p) => ~Holds(todo, "camera")

\* Nothing is opened before the room is joined.
Joins(pg) ==
    pg.conn \in {"none", "joined"} =>
        pg.engine = "none" /\ (pg.todo # <<>> => Head(pg.todo) = "join")

\* A page that is gone has closed what it had.
Closed(p, pg) ==
    /\ pg.view # "lobby" => token[p] # "none"
    /\ pg.conn = "up" => pg.view = "mounted"
    /\ pg.view = "gone" => pg.engine # "open" /\ pg.camera # "live"
    /\ Watches(p) => pg.camera # "live"

\* Whoever sends is not about to start sending; a switch that was pressed has reached the
\* track, or the producer, and there will be no other one.
WillSend(todo) == Holds(todo, kind) \/ (app = "call" /\ Holds(todo, "camera"))
Switches(pg) ==
    /\ pg.sending # "none" => pg.engine # "none" /\ ~WillSend(pg.todo)
    /\ app = "call" /\ pg.engine # "none" => ~Holds(pg.todo, "camera")
    /\ ~pg.on /\ ~pg.deaf /\ pg.enabled => pg.sending # "on" /\ ~WillSend(pg.todo)

\* One capture runs at most, the one the page holds, unless a second share replaced the
\* first; and the button knows it, or will when it has been added.
Captures(p, pg) ==
    /\ pg.ref => pg.captures > 0
    /\ "replaced" \notin pg.slips => pg.captures = IF pg.ref THEN 1 ELSE 0
    /\ ~HasButtons(token[p]) => ~pg.picking /\ pg.adding = 0 /\ pg.captures = 0
    /\ pg.view = "gone" /\ pg.captures > 0 => pg.slips \cap {"late", "replaced"} # {}
    /\ pg.view # "gone" /\ pg.slips \cap {"failed", "ended"} = {} =>
         /\ pg.screenOn => pg.ref
         /\ pg.ref => pg.screenOn \/ pg.adding > 0

PageInv(p, pg) ==
    /\ Fresh(pg) /\ Route(p, pg.todo) /\ Joins(pg) /\ Closed(p, pg)
    /\ Switches(pg) /\ Captures(p, pg)

PagesInv ==
    /\ app \in Streams \cup Meetings \cup Boards /\ kind \in Kinds
    /\ page \in [Peers -> PageRecords]
    /\ \A p \in Peers : PageInv(p, page[p])
    /\ \A p \in Peers : p \in peers <=> page[p].conn \in Present
    /\ token \in [Peers -> RolesOf \cup {"none"}]

(***************************************************************************)
(* What go() awaits                                                        *)
(***************************************************************************)
LEMMA TailRight ==
    ASSUME NEW p \in Peers, NEW s \in Seq(Awaits), s # <<>>, Route(p, s)
    PROVE  /\ Tail(s) \in Seq(Awaits) /\ Route(p, Tail(s))
           /\ ~Holds(Tail(s), Head(s))
           /\ \A x \in Awaits \cup Kinds : Holds(Tail(s), x) => Holds(s, x)
<1>1. /\ Tail(s) \in Seq(Awaits) /\ Len(Tail(s)) = Len(s) - 1 /\ Len(s) \in Nat \ {0}
      /\ \A i \in 1..Len(Tail(s)) : i + 1 \in 1..Len(s) /\ Tail(s)[i] = s[i + 1]
      /\ Head(s) = s[1] /\ 1 \in 1..Len(s)
  OBVIOUS
<1> DEFINE t == Tail(s)
<1> HIDE DEF t
<1>2. /\ t \in Seq(Awaits) /\ Len(t) \in Nat
      /\ \A i \in 1..Len(t) : i + 1 \in 1..Len(s) /\ t[i] = s[i + 1]
  BY <1>1 DEF t
<1>3. \A x : Holds(t, x) => Holds(s, x)
  BY <1>2 DEF Holds
<1>4. ~Holds(t, s[1])
  <2> SUFFICES ASSUME NEW i \in 1..Len(t), t[i] = s[1] PROVE FALSE
    BY DEF Holds
  <2>1. i + 1 = 1
    BY <1>1, <1>2 DEF Route
  <2> QED BY <2>1
<1>5. \A i, j \in 1..Len(t) : t[i] = t[j] => i = j
  <2> SUFFICES ASSUME NEW i \in 1..Len(t), NEW j \in 1..Len(t), t[i] = t[j] PROVE i = j
    OBVIOUS
  <2>1. i + 1 = j + 1
    BY <1>2 DEF Route
  <2> QED BY <2>1
<1>6. app \in Meetings => \A i \in 1..Len(t) : t[i] = "camera" => i <= 2
  <2> SUFFICES ASSUME app \in Meetings, NEW i \in 1..Len(t), t[i] = "camera" PROVE i <= 2
    OBVIOUS
  <2>1. i + 1 <= 2
    BY <1>2 DEF Route
  <2> QED BY <2>1
<1>7. app = "call" => \A i \in 1..Len(t) : t[i] \in {"join", "camera"}
  BY <1>2 DEF Route
<1>8. Watches(p) => ~Holds(t, "camera")
  BY <1>3 DEF Route
<1>9. Route(p, t)
  BY <1>5, <1>6, <1>7, <1>8 DEF Route
<1> QED BY <1>1, <1>2, <1>3, <1>4, <1>9 DEF t

\* A few sequences, put together.
LEMMA Concat2 ==
  ASSUME NEW S, NEW a \in S, NEW b \in S
  PROVE  <<a>> \o <<b>> = <<a, b>>
<1>1. /\ <<a>> \in Seq(S) /\ <<b>> \in Seq(S) /\ <<a, b>> \in Seq(S)
      /\ Len(<<a>>) = 1 /\ Len(<<b>>) = 1 /\ Len(<<a, b>>) = 2
  OBVIOUS
<1>2. /\ <<a>> \o <<b>> \in Seq(S) /\ Len(<<a>> \o <<b>>) = 2
      /\ \A i \in 1..2 : (<<a>> \o <<b>>)[i] = IF i <= 1 THEN <<a>>[i] ELSE <<b>>[i - 1]
  BY <1>1, ConcatProperties
<1>3. \A i \in 1..2 : (<<a>> \o <<b>>)[i] = <<a, b>>[i]
  BY <1>2
<1> QED BY <1>1, <1>2, <1>3, SeqEqual

LEMMA Concat3 ==
  ASSUME NEW S, NEW a \in S, NEW b \in S, NEW c \in S
  PROVE  <<a, b>> \o <<c>> = <<a, b, c>>
<1>1. /\ <<a, b>> \in Seq(S) /\ <<c>> \in Seq(S) /\ <<a, b, c>> \in Seq(S)
      /\ Len(<<a, b>>) = 2 /\ Len(<<c>>) = 1 /\ Len(<<a, b, c>>) = 3
  OBVIOUS
<1>2. /\ <<a, b>> \o <<c>> \in Seq(S) /\ Len(<<a, b>> \o <<c>>) = 3
      /\ \A i \in 1..3 : (<<a, b>> \o <<c>>)[i] = IF i <= 2 THEN <<a, b>>[i] ELSE <<c>>[i - 2]
  BY <1>1, ConcatProperties
<1>3. \A i \in 1..3 : (<<a, b>> \o <<c>>)[i] = <<a, b, c>>[i]
  BY <1>2
<1> QED BY <1>1, <1>2, <1>3, SeqEqual

LEMMA Concat5 ==
  ASSUME NEW S, NEW a \in S, NEW b \in S, NEW c \in S, NEW d \in S, NEW e \in S
  PROVE  <<a, b, c>> \o <<d, e>> = <<a, b, c, d, e>>
<1>1. /\ <<a, b, c>> \in Seq(S) /\ <<d, e>> \in Seq(S) /\ <<a, b, c, d, e>> \in Seq(S)
      /\ Len(<<a, b, c>>) = 3 /\ Len(<<d, e>>) = 2 /\ Len(<<a, b, c, d, e>>) = 5
  OBVIOUS
<1>2. /\ <<a, b, c>> \o <<d, e>> \in Seq(S) /\ Len(<<a, b, c>> \o <<d, e>>) = 5
      /\ \A i \in 1..5 : (<<a, b, c>> \o <<d, e>>)[i] = IF i <= 3 THEN <<a, b, c>>[i] ELSE <<d, e>>[i - 3]
  BY <1>1, ConcatProperties
<1>3. \A i \in 1..5 : (<<a, b, c>> \o <<d, e>>)[i] = <<a, b, c, d, e>>[i]
  BY <1>2
<1> QED BY <1>1, <1>2, <1>3, SeqEqual

LEMMA Concat6 ==
  ASSUME NEW S, NEW a \in S, NEW b \in S, NEW c \in S, NEW d \in S, NEW e \in S, NEW f \in S
  PROVE  <<a, b, c, d, e>> \o <<f>> = <<a, b, c, d, e, f>>
<1>1. /\ <<a, b, c, d, e>> \in Seq(S) /\ <<f>> \in Seq(S) /\ <<a, b, c, d, e, f>> \in Seq(S)
      /\ Len(<<a, b, c, d, e>>) = 5 /\ Len(<<f>>) = 1 /\ Len(<<a, b, c, d, e, f>>) = 6
  OBVIOUS
<1>2. /\ <<a, b, c, d, e>> \o <<f>> \in Seq(S) /\ Len(<<a, b, c, d, e>> \o <<f>>) = 6
      /\ \A i \in 1..6 : (<<a, b, c, d, e>> \o <<f>>)[i] = IF i <= 5 THEN <<a, b, c, d, e>>[i] ELSE <<f>>[i - 5]
  BY <1>1, ConcatProperties
<1>3. \A i \in 1..6 : (<<a, b, c, d, e>> \o <<f>>)[i] = <<a, b, c, d, e, f>>[i]
  BY <1>2
<1> QED BY <1>1, <1>2, <1>3, SeqEqual

\* The lists of a meeting.
LEMMA MeetingRoutes ==
    ASSUME app \in Meetings, NEW role
    PROVE  MeetingGo(role) = IF app = "call" THEN <<"join", "camera">>
                             ELSE IF CanPublish(role)
                             THEN <<"join", "camera", "init", "audio", "video", "list">>
                             ELSE <<"join", "init", "list">>
<1>1. Awaits = {"join", "init", "camera", "audio", "video", "list"}
  BY DEF Awaits
<1>2. /\ <<"join">> \o <<"camera">> = <<"join", "camera">>
      /\ <<"join">> \o <<"init">> = <<"join", "init">>
      /\ <<"join", "camera">> \o <<"init">> = <<"join", "camera", "init">>
      /\ <<"join", "init">> \o <<"list">> = <<"join", "init", "list">>
      /\ <<"join", "camera", "init">> \o <<"audio", "video">>
            = <<"join", "camera", "init", "audio", "video">>
      /\ <<"join", "camera", "init", "audio", "video">> \o <<"list">>
            = <<"join", "camera", "init", "audio", "video", "list">>
  <2>5. \A x \in {"join", "init", "camera", "audio", "video", "list"} : x \in Awaits
    BY <1>1
  <2>6. <<"join">> \o <<"camera">> = <<"join", "camera">>
    BY <2>5, Concat2
  <2>7. <<"join">> \o <<"init">> = <<"join", "init">>
    BY <2>5, Concat2
  <2>8. <<"join", "camera">> \o <<"init">> = <<"join", "camera", "init">>
    BY <2>5, Concat3
  <2>9. <<"join", "init">> \o <<"list">> = <<"join", "init", "list">>
    BY <2>5, Concat3
  <2>10. <<"join", "camera", "init">> \o <<"audio", "video">>
         = <<"join", "camera", "init", "audio", "video">>
    BY <2>5, Concat5
  <2>11. <<"join", "camera", "init", "audio", "video">> \o <<"list">>
         = <<"join", "camera", "init", "audio", "video", "list">>
    BY <2>5, Concat6
  <2> QED BY <2>6, <2>7, <2>8, <2>9, <2>10, <2>11
<1>3. /\ <<"join">> \in Seq(Awaits) /\ <<"join", "camera">> \in Seq(Awaits)
      /\ <<"join", "init">> \in Seq(Awaits)
  BY <1>1
<1>4. CASE app = "call"
  <2>1. CanPublish(role)
    BY <1>4 DEF CanPublish
  <2>2. MeetingGo(role) = <<"join">> \o <<"camera">> \o <<>> \o <<>> \o <<>>
    BY <1>4, <2>1 DEF MeetingGo
  <2> QED BY <1>2, <1>3, <1>4, <2>2, ConcatEmptySeq
<1>5. CASE app # "call" /\ CanPublish(role)
  <2>1. MeetingGo(role) = <<"join">> \o <<"camera">> \o <<"init">> \o <<"audio", "video">> \o <<"list">>
    BY <1>5 DEF MeetingGo
  <2> QED BY <1>2, <1>5, <2>1
<1>6. CASE app # "call" /\ ~CanPublish(role)
  <2>1. MeetingGo(role) = <<"join">> \o <<>> \o <<"init">> \o <<>> \o <<"list">>
    BY <1>6 DEF MeetingGo
  <2>2. <<"join">> \o <<>> = <<"join">> /\ <<"join", "init">> \o <<>> = <<"join", "init">>
    BY <1>3, ConcatEmptySeq
  <2> QED BY <1>2, <1>6, <2>1, <2>2
<1> QED BY <1>4, <1>5, <1>6

LEMMA GoRight ==
    ASSUME app \in Streams \cup Meetings \cup Boards, NEW p \in Peers, token[p] \in RolesOf
    PROVE  Go(token[p]) \in Seq(Awaits) /\ Route(p, Go(token[p])) /\ Head(Go(token[p])) = "join"
<1> DEFINE g == Go(token[p])
<1>0. Awaits = {"join", "init", "camera", "audio", "video", "list"}
  BY DEF Awaits
<1>1. CASE app \in Streams
  <2>1. token[p] \in {"broadcaster", "viewer"}
    BY <1>1 DEF RolesOf, Streams, Meetings, Boards
  <2>2. CASE token[p] = "broadcaster"
    <3>1. g = <<"join", "init", "camera", "audio", "video">>
      BY <1>1, <2>2 DEF Go, StreamGo, BroadcastGo, Streams, Meetings, Boards
    <3>2. ~Watches(p) /\ app \notin Meetings
      BY <1>1, <2>2 DEF Watches, Streams, Meetings, Boards
    <3>3. g \in Seq(Awaits) /\ Len(g) = 5 /\ Head(g) = "join"
      BY <1>0, <3>1
    <3>4. \A i, j \in 1..5 : g[i] = g[j] => i = j
      BY <3>1
    <3> QED BY <3>2, <3>3, <3>4 DEF Route, Meetings
  <2>3. CASE token[p] = "viewer"
    <3>1. g = <<"join", "init", "list">>
      BY <1>1, <2>3 DEF Go, StreamGo, WatchGo, Streams, Meetings, Boards
    <3>2. g \in Seq(Awaits) /\ Len(g) = 3 /\ Head(g) = "join"
      BY <1>0, <3>1
    <3>3. /\ \A i, j \in 1..3 : g[i] = g[j] => i = j
          /\ \A i \in 1..3 : g[i] # "camera"
      BY <3>1
    <3> QED BY <1>1, <3>2, <3>3 DEF Route, Holds, Streams, Meetings
  <2> QED BY <2>1, <2>2, <2>3
<1>2. CASE app \in Meetings
  <2>1. g = MeetingGo(token[p]) /\ ~Watches(p)
    BY <1>2 DEF Go, Watches, Streams, Meetings, Boards
  <2>2. CASE app = "call"
    <3>1. g = <<"join", "camera">>
      BY <1>2, <2>1, <2>2, MeetingRoutes
    <3>2. g \in Seq(Awaits) /\ Len(g) = 2 /\ Head(g) = "join"
      BY <1>0, <3>1
    <3>3. /\ \A i, j \in 1..2 : g[i] = g[j] => i = j
          /\ \A i \in 1..2 : g[i] \in {"join", "camera"}
      BY <3>1
    <3> QED BY <2>1, <3>2, <3>3 DEF Route
  <2>3. CASE app # "call" /\ CanPublish(token[p])
    <3>1. g = <<"join", "camera", "init", "audio", "video", "list">>
      BY <1>2, <2>1, <2>3, MeetingRoutes
    <3>2. g \in Seq(Awaits) /\ Len(g) = 6 /\ Head(g) = "join"
      BY <1>0, <3>1
    <3>3. /\ \A i, j \in 1..6 : g[i] = g[j] => i = j
          /\ \A i \in 1..6 : g[i] = "camera" => i <= 2
      BY <3>1
    <3> QED BY <2>1, <2>3, <3>2, <3>3 DEF Route
  <2>4. CASE app # "call" /\ ~CanPublish(token[p])
    <3>1. g = <<"join", "init", "list">>
      BY <1>2, <2>1, <2>4, MeetingRoutes
    <3>2. g \in Seq(Awaits) /\ Len(g) = 3 /\ Head(g) = "join"
      BY <1>0, <3>1
    <3>3. /\ \A i, j \in 1..3 : g[i] = g[j] => i = j
          /\ \A i \in 1..3 : g[i] # "camera"
      BY <3>1
    <3> QED BY <2>1, <2>4, <3>2, <3>3 DEF Route
  <2> QED BY <2>2, <2>3, <2>4
<1>3. CASE app \in Boards
  <2>1. g = <<"join">>
    BY <1>3 DEF Go, BoardGo, Streams, Meetings, Boards
  <2>2. g \in Seq(Awaits) /\ Len(g) = 1 /\ g[1] = "join" /\ Head(g) = "join"
    BY <1>0, <2>1
  <2> QED BY <1>3, <2>2 DEF Route, Holds, Boards, Meetings
<1> QED BY <1>1, <1>2, <1>3

(***************************************************************************)
(* A step of one page                                                      *)
(***************************************************************************)
LEMMA PageSet ==
    ASSUME PagesInv, NEW p \in Peers, UNCHANGED <<app, kind, token>>,
           page' = [page EXCEPT ![p] = page'[p]], page'[p] \in PageRecords,
           PageInv(p, page'[p]),
           \A q \in Peers \ {p} : q \in peers' <=> q \in peers,
           p \in peers' <=> page'[p].conn \in Present
    PROVE  PagesInv'
<1>1. page' \in [Peers -> PageRecords] /\ \A q \in Peers \ {p} : page'[q] = page[q]
  BY DEF PagesInv
<1>2. \A q \in Peers : PageInv(q, page'[q])
  BY <1>1 DEF PagesInv
<1>3. \A q \in Peers : q \in peers' <=> page'[q].conn \in Present
  BY <1>1 DEF PagesInv
<1>4. \A q \in Peers : PageInv(q, page[q])'
  BY <1>2 DEF PageInv, Fresh, Route, Joins, Closed, Switches, Captures, Watches, WillSend, HasButtons, CanPublish
<1> QED BY <1>1, <1>3, <1>4 DEF PagesInv, RolesOf

\* One that leaves the servers and who is in the room alone.
LEMMA PageOnly ==
    ASSUME PagesInv, NEW p \in Peers, UNCHANGED <<serverVars, kind>>,
           page' = [page EXCEPT ![p] = page'[p]], page'[p] \in PageRecords,
           PageInv(p, page'[p]), page'[p].conn \in Present <=> page[p].conn \in Present
    PROVE  PagesInv'
<1>1. UNCHANGED <<app, kind, token, peers>>
  BY DEF serverVars
<1>2. p \in peers <=> page[p].conn \in Present
  BY DEF PagesInv
<1> QED BY <1>1, <1>2, PageSet

\* The parts of a page that a step may leave alone.
SameGo(a, b) == a.view = b.view /\ a.todo = b.todo /\ a.conn = b.conn
SameMedia(a, b) ==
    /\ a.engine = b.engine /\ a.camera = b.camera
    /\ a.on = b.on /\ a.enabled = b.enabled /\ a.sending = b.sending /\ a.deaf = b.deaf
SameScreen(a, b) ==
    /\ a.picking = b.picking /\ a.adding = b.adding /\ a.captures = b.captures
    /\ a.ref = b.ref /\ a.screenOn = b.screenOn /\ a.slips = b.slips

LEMMA EmptyRoute == ASSUME NEW p \in Peers
                    PROVE  /\ <<>> \in Seq(Awaits) /\ Route(p, <<>>)
                           /\ ~WillSend(<<>>) /\ ~Holds(<<>>, "camera")
BY DEF Route, Holds, WillSend

\* go() goes on after an await.
LEMMA ContinueRight ==
    ASSUME NEW p \in Peers, NEW pg \in PageRecords, pg.todo # <<>>, Route(p, pg.todo), kind \in Kinds
    PROVE  /\ Continue(pg) \in PageRecords
           /\ Continue(pg).todo = Tail(pg.todo)
           /\ Continue(pg).view = pg.view /\ Continue(pg).conn = pg.conn
           /\ SameMedia(Continue(pg), pg) /\ SameScreen(Continue(pg), pg)
           /\ Tail(pg.todo) \in Seq(Awaits) /\ Route(p, Tail(pg.todo))
           /\ ~Holds(Tail(pg.todo), Head(pg.todo))
           /\ WillSend(Tail(pg.todo)) => WillSend(pg.todo)
           /\ Holds(Tail(pg.todo), "camera") => Holds(pg.todo, "camera")
<1>1. pg.todo \in Seq(Awaits)
  BY DEF PageRecords
<1> DEFINE t == Tail(pg.todo)
           st == IF Len(pg.todo) = 1 THEN "ready" ELSE pg.status
<1>2. /\ t \in Seq(Awaits) /\ Route(p, t) /\ ~Holds(t, Head(pg.todo))
      /\ \A x \in Awaits \cup Kinds : Holds(t, x) => Holds(pg.todo, x)
  BY <1>1, TailRight
<1>3. (WillSend(t) => WillSend(pg.todo)) /\ (Holds(t, "camera") => Holds(pg.todo, "camera"))
  BY <1>2 DEF WillSend, Awaits
<1>4. Continue(pg) = [pg EXCEPT !.todo = t, !.status = st]
  BY DEF Continue, PageRecords
<1>5. st \in {"connecting", "ready", "error"}
  BY DEF PageRecords
<1> HIDE DEF t, st
<1>6. Continue(pg) \in PageRecords
  BY <1>2, <1>4, <1>5 DEF PageRecords
<1>7. /\ Continue(pg).todo = t
      /\ Continue(pg).view = pg.view /\ Continue(pg).conn = pg.conn
      /\ SameMedia(Continue(pg), pg) /\ SameScreen(Continue(pg), pg)
  BY <1>4 DEF PageRecords, SameMedia, SameScreen
<1> QED BY <1>2, <1>3, <1>6, <1>7 DEF t

LEMMA JoinsRoomRight == ASSUME PagesInv, NEW p \in Peers, JoinsRoom(p) PROVE PagesInv'
<1> DEFINE pg == page[p]
           new == [pg EXCEPT !.conn = "joined"]
<1>1. /\ pg \in PageRecords /\ PageInv(p, pg)
      /\ pg.todo # <<>> /\ Head(pg.todo) = "join" /\ pg.conn = "none"
  BY DEF PagesInv, JoinsRoom, Awaiting
<1>2. new \in PageRecords
  BY <1>1 DEF PageRecords
<1>3. PageInv(p, new) /\ new.conn = "joined"
  BY <1>1 DEF PageInv, Fresh, Joins, Closed, Switches, Captures, PageRecords
<1>4. page' = [page EXCEPT ![p] = page'[p]] /\ page'[p] = new
  BY DEF JoinsRoom, Set, PagesInv
<1>5. peers' = peers \cup {p} /\ UNCHANGED <<app, kind, token>>
  BY DEF JoinsRoom, Enter
<1> QED BY <1>2, <1>3, <1>4, <1>5, PageSet DEF Present

LEMMA JoinedRight == ASSUME PagesInv, NEW p \in Peers, Joined(p) PROVE PagesInv'
<1> DEFINE pg == page[p]
<1>1. /\ pg \in PageRecords /\ PageInv(p, pg) /\ kind \in Kinds
      /\ pg.todo # <<>> /\ Head(pg.todo) = "join" /\ pg.conn = "joined"
  BY DEF PagesInv, Joined, Awaiting
<1>2. pg.todo \in Seq(Awaits) /\ pg.view \in {"mounted", "gone"}
  BY <1>1 DEF PageRecords, PageInv, Fresh
<1>3. CASE Cancelled(p)
  <2> DEFINE new == [pg EXCEPT !.todo = <<>>, !.conn = "leaving"]
  <2>1. new \in PageRecords
    BY <1>1, EmptyRoute DEF PageRecords
  <2>2. PageInv(p, new) /\ new.conn = "leaving"
    BY <1>1, <1>2, <1>3, EmptyRoute DEF PageInv, Fresh, Joins, Closed, Switches, Captures, PageRecords, Cancelled
  <2>3. page' = [page EXCEPT ![p] = page'[p]] /\ page'[p] = new
    BY <1>3 DEF Joined, Set, PagesInv
  <2> QED BY <1>1, <2>1, <2>2, <2>3, PageOnly DEF Present, Joined
<1>4. CASE ~Cancelled(p)
  <2> DEFINE t == Tail(pg.todo)
             e == IF OpensEngine(pg) THEN "open" ELSE "none"
             go == Continue(pg)
             new == [go EXCEPT !.conn = "up", !.engine = e]
  <2>1. app = "call" /\ e # "none" => ~Holds(t, "camera")
    <3> SUFFICES ASSUME app = "call", pg.todo[2] # "camera", NEW i \in 1..Len(t), t[i] = "camera" PROVE FALSE
      BY DEF OpensEngine, Holds, Meetings
    <3>1. i + 1 \in 1..Len(pg.todo) /\ pg.todo[i + 1] = "camera" /\ i \in Nat \ {0}
      BY <1>1, <1>2
    <3>2. i + 1 <= 2
      BY <3>1, <1>1 DEF PageInv, Route, Meetings
    <3> QED BY <3>1, <3>2
  <2>2. /\ go \in PageRecords /\ go.todo = t /\ go.view = pg.view
        /\ SameMedia(go, pg) /\ SameScreen(go, pg)
        /\ t \in Seq(Awaits) /\ Route(p, t) /\ (WillSend(t) => WillSend(pg.todo))
    BY <1>1, ContinueRight DEF PageInv
  <2>3. e \in {"open", "none"} /\ pg.view = "mounted"
    BY <1>2, <1>4 DEF Cancelled
  <2>4. page' = [page EXCEPT ![p] = page'[p]] /\ page'[p] = new
    BY <1>4 DEF Joined, Set, PagesInv
  <2> HIDE DEF e, t, go
  <2>5. new \in PageRecords
    BY <2>2, <2>3 DEF PageRecords
  <2>6. /\ new.conn = "up" /\ new.engine = e /\ new.todo = t /\ new.view = pg.view
        /\ new.camera = go.camera /\ new.on = go.on /\ new.enabled = go.enabled
        /\ new.sending = go.sending /\ new.deaf = go.deaf /\ SameScreen(new, go)
    BY <2>2 DEF PageRecords, SameScreen
  <2> HIDE DEF new
  <2>7. Switches(new)
    BY <1>1, <2>1, <2>2, <2>6 DEF PageInv, Joins, Switches, SameMedia
  <2>8. Captures(p, new)
    BY <1>1, <2>2, <2>6 DEF PageInv, Captures, SameScreen
  <2>9. PageInv(p, new)
    BY <1>1, <2>2, <2>3, <2>6, <2>7, <2>8 DEF PageInv, Fresh, Joins, Closed, SameMedia
  <2> QED BY <1>1, <2>4, <2>5, <2>6, <2>9, PageOnly DEF Present, Joined
<1> QED BY <1>3, <1>4

\* go()'s camera, or the end of it in a page that was left.
LEMMA CameraRight == ASSUME PagesInv, NEW p \in Peers, Camera(p) PROVE PagesInv'
<1> DEFINE pg == page[p]
           t == Tail(pg.todo)
<1>1. /\ pg \in PageRecords /\ PageInv(p, pg) /\ kind \in Kinds
      /\ pg.todo # <<>> /\ Head(pg.todo) = "camera"
  BY DEF PagesInv, Camera, Awaiting
<1>2. /\ Holds(pg.todo, "camera") /\ ~Watches(p)
      /\ pg.conn \notin {"none", "joined"} /\ pg.view \in {"mounted", "gone"}
  <2>1. pg.todo \in Seq(Awaits)
    BY <1>1 DEF PageRecords
  <2>2. 1 \in 1..Len(pg.todo) /\ pg.todo[1] = "camera"
    BY <1>1, <2>1
  <2>3. Holds(pg.todo, "camera")
    BY <2>2 DEF Holds
  <2>4. ~Watches(p)
    BY <1>1, <2>3 DEF PageInv, Route
  <2> QED BY <1>1, <2>3, <2>4 DEF PageInv, Joins, Fresh, PageRecords
<1>3. CASE Cancelled(p)
  <2> DEFINE new == [pg EXCEPT !.todo = <<>>, !.camera = "stopped"]
  <2>1. new \in PageRecords
    BY <1>1, EmptyRoute DEF PageRecords
  <2>2. /\ new.todo = <<>> /\ new.camera = "stopped" /\ new.view = pg.view
        /\ new.conn = pg.conn /\ new.engine = pg.engine /\ new.on = pg.on
        /\ new.enabled = pg.enabled /\ new.sending = pg.sending /\ new.deaf = pg.deaf
        /\ SameScreen(new, pg)
    BY <1>1 DEF PageRecords, SameScreen
  <2>3. page' = [page EXCEPT ![p] = page'[p]] /\ page'[p] = new
    BY <1>3 DEF Camera, Set, PagesInv
  <2> HIDE DEF new
  <2>4. Switches(new)
    BY <1>1, <2>2, EmptyRoute DEF PageInv, Switches
  <2>5. Captures(p, new)
    BY <1>1, <2>2 DEF PageInv, Captures, SameScreen
  <2>6. PageInv(p, new)
    BY <1>1, <1>2, <2>2, <2>4, <2>5, EmptyRoute DEF PageInv, Fresh, Joins, Closed
  <2> QED BY <2>1, <2>2, <2>3, <2>6, PageOnly DEF Camera
<1>4. CASE ~Cancelled(p)
  <2> DEFINE go == Continue(pg)
             m == [go EXCEPT !.camera = "live", !.engine = "open"]
             s == IF app = "call" THEN IF m.enabled THEN "on" ELSE "paused" ELSE m.sending
             new == [m EXCEPT !.sending = s]
  <2>1. pg.view = "mounted"
    BY <1>2, <1>4 DEF Cancelled
  <2>2. /\ go \in PageRecords /\ go.todo = t /\ go.view = pg.view /\ go.conn = pg.conn
        /\ SameMedia(go, pg) /\ SameScreen(go, pg) /\ Route(p, t)
        /\ ~Holds(t, "camera") /\ (WillSend(t) => WillSend(pg.todo))
    BY <1>1, ContinueRight DEF PageInv
  <2>3. page' = [page EXCEPT ![p] = page'[p]] /\ page'[p] = MeshStart(m)
    BY <1>4 DEF Camera, Set, PagesInv
  <2> HIDE DEF go, t
  <2>4. /\ m \in PageRecords /\ m.todo = t /\ m.view = pg.view /\ m.conn = pg.conn
        /\ m.engine = "open" /\ m.camera = "live" /\ m.on = pg.on /\ m.enabled = pg.enabled
        /\ m.sending = pg.sending /\ m.deaf = pg.deaf /\ SameScreen(m, pg)
    BY <2>2 DEF PageRecords, SameMedia, SameScreen
  <2> HIDE DEF m
  <2>5. s \in {"none", "on", "paused"}
    BY <2>4 DEF PageRecords
  <2>6. MeshStart(m) = new
    BY <2>4 DEF MeshStart, Produce, PageRecords
  <2>7. new \in PageRecords
    BY <2>4, <2>5 DEF PageRecords
  <2>8. /\ new.todo = t /\ new.view = pg.view /\ new.conn = pg.conn
        /\ new.engine = "open" /\ new.camera = "live" /\ new.on = pg.on /\ new.enabled = pg.enabled
        /\ new.sending = s /\ new.deaf = pg.deaf /\ SameScreen(new, pg)
    BY <2>4 DEF PageRecords, SameScreen
  <2> HIDE DEF new
  <2>9. Switches(new)
    <3>1. CASE app = "call"
      <4>1. ~Holds(t, kind)
        BY <1>1, <2>2, <3>1, KindsAssumption DEF Route, Holds
      <4>2. ~WillSend(t) /\ WillSend(pg.todo)
        BY <1>2, <2>2, <3>1, <4>1 DEF WillSend
      <4> QED BY <1>1, <2>2, <2>8, <4>2 DEF PageInv, Switches
    <3>2. CASE app # "call"
      BY <1>1, <2>2, <2>4, <2>8, <3>2 DEF PageInv, Switches
    <3> QED BY <3>1, <3>2
  <2>10. Captures(p, new)
    BY <1>1, <2>8 DEF PageInv, Captures, SameScreen
  <2>11. PageInv(p, new)
    BY <1>1, <1>2, <2>1, <2>2, <2>8, <2>9, <2>10 DEF PageInv, Fresh, Joins, Closed
  <2> QED BY <2>3, <2>6, <2>7, <2>8, <2>11, PageOnly DEF Camera
<1> QED BY <1>3, <1>4

\* An answer of the SFU.
LEMMA AnsweredRight ==
    ASSUME PagesInv, NEW p \in Peers, NEW what \in {"init", "audio", "video", "list"},
           Answered(p, what)
    PROVE  PagesInv'
<1> DEFINE pg == page[p]
           t == Tail(pg.todo)
           go == Continue(pg)
           s == IF what = kind THEN IF go.enabled THEN "on" ELSE "paused" ELSE go.sending
           new == [go EXCEPT !.sending = s]
<1>1. /\ pg \in PageRecords /\ PageInv(p, pg) /\ kind \in Kinds
      /\ pg.todo # <<>> /\ Head(pg.todo) = what /\ pg.engine = "open"
  BY DEF PagesInv, Answered, Awaiting
<1>2. pg.conn \notin {"none", "joined"} /\ app # "call" /\ Holds(pg.todo, what)
      /\ pg.view \notin {"lobby", "asked"}
  <2>1. pg.todo \in Seq(Awaits)
    BY <1>1 DEF PageRecords
  <2>2. 1 \in 1..Len(pg.todo) /\ pg.todo[1] = what
    BY <1>1, <2>1
  <2>3. Holds(pg.todo, what) /\ app # "call"
    BY <1>1, <2>2 DEF Holds, PageInv, Route
  <2> QED BY <1>1, <2>3 DEF PageInv, Joins, Fresh
<1>3. /\ go \in PageRecords /\ go.todo = t /\ go.view = pg.view /\ go.conn = pg.conn
      /\ SameMedia(go, pg) /\ SameScreen(go, pg) /\ Route(p, t)
      /\ ~Holds(t, what) /\ (WillSend(t) => WillSend(pg.todo))
  BY <1>1, ContinueRight DEF PageInv
<1>4. page' = [page EXCEPT ![p] = page'[p]]
      /\ page'[p] = IF what = kind THEN Produce(go) ELSE go
  BY DEF Answered, Set, PagesInv
<1> HIDE DEF go, t
<1>5. s \in {"none", "on", "paused"}
  BY <1>3 DEF PageRecords
<1>6. page'[p] = new
  BY <1>3, <1>4 DEF Produce, PageRecords
<1>7. new \in PageRecords
  BY <1>3, <1>5 DEF PageRecords
<1>8. /\ new.todo = t /\ new.view = pg.view /\ new.conn = pg.conn
      /\ new.engine = pg.engine /\ new.camera = pg.camera /\ new.on = pg.on
      /\ new.enabled = pg.enabled /\ new.sending = s /\ new.deaf = pg.deaf
      /\ SameScreen(new, pg)
  BY <1>3 DEF PageRecords, SameMedia, SameScreen
<1>9. go.sending = pg.sending
  BY <1>3 DEF SameMedia
<1> HIDE DEF new
<1>10. Switches(new)
  <2>1. CASE what = kind
    <3>1. WillSend(pg.todo) /\ ~WillSend(t)
      BY <1>2, <1>3, <2>1 DEF WillSend
    <3> QED BY <1>1, <1>2, <1>8, <3>1 DEF PageInv, Switches
  <2>2. CASE what # kind
    BY <1>1, <1>2, <1>3, <1>8, <1>9, <2>2 DEF PageInv, Switches
  <2> QED BY <2>1, <2>2
<1>11. Captures(p, new)
  BY <1>1, <1>8 DEF PageInv, Captures, SameScreen
<1>12. PageInv(p, new)
  BY <1>1, <1>2, <1>3, <1>8, <1>10, <1>11 DEF PageInv, Fresh, Joins, Closed
<1> QED BY <1>4, <1>6, <1>7, <1>8, <1>12, PageOnly DEF Answered

LEMMA FailsRight == ASSUME PagesInv, NEW p \in Peers, Fails(p) PROVE PagesInv'
<1> DEFINE pg == page[p]
           st == IF Cancelled(p) THEN pg.status ELSE "error"
           new == [pg EXCEPT !.todo = <<>>, !.status = st]
<1>1. pg \in PageRecords /\ PageInv(p, pg)
  BY DEF PagesInv
<1>2. page' = [page EXCEPT ![p] = page'[p]] /\ page'[p] = new
  BY DEF Fails, Set, PagesInv
<1>3. st \in {"connecting", "ready", "error"}
  BY <1>1 DEF PageRecords
<1> HIDE DEF st
<1>4. new \in PageRecords
  BY <1>1, <1>3, EmptyRoute DEF PageRecords
<1>5. /\ new.todo = <<>> /\ new.view = pg.view /\ new.conn = pg.conn
      /\ SameMedia(new, pg) /\ SameScreen(new, pg)
  BY <1>1 DEF PageRecords, SameMedia, SameScreen
<1> HIDE DEF new
<1>6. Switches(new)
  BY <1>1, <1>5, EmptyRoute DEF PageInv, Switches, SameMedia
<1>7. Captures(p, new)
  BY <1>1, <1>5 DEF PageInv, Captures, SameScreen
<1>8. PageInv(p, new)
  BY <1>1, <1>5, <1>6, <1>7, EmptyRoute
     DEF PageInv, Fresh, Joins, Closed, SameMedia, SameScreen
<1> QED BY <1>2, <1>4, <1>5, <1>8, PageOnly DEF Fails

(***************************************************************************)
(* The lobby                                                               *)
(***************************************************************************)
LEMMA PollRight == ASSUME PagesInv, NEW p \in Peers, PollLobby(p) PROVE PagesInv'
<1> DEFINE pg == page[p]
           new == [pg EXCEPT !.seen = Shown]
<1>1. pg \in PageRecords /\ PageInv(p, pg) /\ Shown \in BOOLEAN
  <2>1. Shown \in BOOLEAN
    BY DEF PagesInv, Shown, LiveShown, MassiveShown, MeetingShown, BoardShown,
           Streams, Meetings, Boards
  <2> QED BY <2>1 DEF PagesInv
<1>2. page' = [page EXCEPT ![p] = page'[p]] /\ page'[p] = new
  BY DEF PollLobby, Set, PagesInv
<1>3. new \in PageRecords
  BY <1>1 DEF PageRecords
<1>4. SameGo(new, pg) /\ SameMedia(new, pg) /\ SameScreen(new, pg)
  BY <1>1 DEF PageRecords, SameGo, SameMedia, SameScreen
<1> HIDE DEF new
<1>5. PageInv(p, new) /\ new.conn = pg.conn
  BY <1>1, <1>4 DEF PageInv, Fresh, Joins, Closed, Switches, Captures,
                    SameGo, SameMedia, SameScreen
<1> QED BY <1>2, <1>3, <1>5, PageOnly DEF PollLobby

LEMMA RoleInApp ==
    ASSUME app \in Streams \cup Meetings \cup Boards, NEW creator \in BOOLEAN
    PROVE  RoleFor(creator) \in RolesOf \ {"none"}
BY DEF RoleFor, RolesOf, LiveRole, MassiveRole, MeetingRole, BoardRole, Streams, Meetings, Boards

\* A token is minted for someone in the lobby.
LEMMA MintRight ==
    ASSUME PagesInv, NEW p \in Peers, NEW creator \in BOOLEAN, page[p].view = "lobby",
           Mint(p, creator), Set(p, [page[p] EXCEPT !.view = "asked"]),
           UNCHANGED <<app, kind, peers>>
    PROVE  PagesInv'
<1> DEFINE pg == page[p]
           new == [pg EXCEPT !.view = "asked"]
<1>1. pg \in PageRecords /\ PageInv(p, pg)
  BY DEF PagesInv
<1>2. page' = [page EXCEPT ![p] = new]
  BY DEF Set
<1>3. /\ token' = [token EXCEPT ![p] = RoleFor(creator)]
      /\ RoleFor(creator) \in RolesOf \ {"none"}
  BY RoleInApp DEF Mint, PagesInv
<1>4. new \in PageRecords
  BY <1>1 DEF PageRecords
<1>5. /\ new.view = "asked" /\ new.conn = pg.conn /\ new.todo = pg.todo
      /\ SameMedia(new, pg) /\ SameScreen(new, pg)
  BY <1>1 DEF PageRecords, SameMedia, SameScreen
<1> HIDE DEF new
<1>6. page' \in [Peers -> PageRecords] /\ page'[p] = new
  BY <1>2, <1>4 DEF PagesInv
<1>7. /\ token' \in [Peers -> RolesOf \cup {"none"}] /\ token'[p] # "none"
      /\ \A q \in Peers \ {p} : token'[q] = token[q] /\ page'[q] = page[q]
  BY <1>2, <1>3 DEF PagesInv
<1>8. PageInv(p, page[p])'
  <2>1. /\ new.todo = <<>> /\ new.conn = "none" /\ new.engine = "none"
        /\ new.camera = "none" /\ new.sending = "none" /\ new.on
        /\ ~new.picking /\ new.adding = 0 /\ new.captures = 0 /\ ~new.ref
    BY <1>1, <1>5 DEF PageInv, Fresh, SameMedia, SameScreen
  <2>2. Route(p, page[p].todo)'
    BY <2>1, <1>6 DEF Route, Holds
  <2>3. Captures(p, page[p])'
    BY <2>1, <1>1, <1>5, <1>6 DEF PageInv, Captures, SameScreen
  <2>4. Switches(page[p])'
    BY <2>1, <1>6 DEF Switches
  <2> QED BY <2>1, <2>2, <2>3, <2>4, <1>5, <1>6, <1>7
          DEF PageInv, Fresh, Joins, Closed
<1>9. \A q \in Peers \ {p} : PageInv(q, page[q])'
  BY <1>7 DEF PagesInv, PageInv, Fresh, Route, Joins, Closed, Switches, Captures, Watches,
              WillSend, HasButtons, CanPublish
<1>10. \A q \in Peers : q \in peers' <=> page'[q].conn \in Present
  BY <1>5, <1>6, <1>7 DEF PagesInv
<1>11. \A q \in Peers : PageInv(q, page[q])'
  BY <1>8, <1>9
<1>12. RolesOf' = RolesOf
  BY DEF RolesOf
<1> QED BY <1>6, <1>7, <1>10, <1>11, <1>12 DEF PagesInv

LEMMA StartRight == ASSUME PagesInv, NEW p \in Peers, StartRoom(p) PROVE PagesInv'
BY MintRight DEF StartRoom, Create

LEMMA EnterRight == ASSUME PagesInv, NEW p \in Peers, EnterRoom(p) PROVE PagesInv'
<1>1. CASE Issue(p) /\ Set(p, [page[p] EXCEPT !.view = "asked"])
  BY <1>1, MintRight DEF EnterRoom, Issue
<1>2. CASE Set(p, [page[p] EXCEPT !.seen = FALSE]) /\ UNCHANGED serverVars
  <2> DEFINE pg == page[p]
             new == [pg EXCEPT !.seen = FALSE]
  <2>1. pg \in PageRecords /\ PageInv(p, pg)
    BY DEF PagesInv
  <2>2. page' = [page EXCEPT ![p] = page'[p]] /\ page'[p] = new
    BY <1>2 DEF Set, PagesInv
  <2>3. new \in PageRecords
    BY <2>1 DEF PageRecords
  <2>4. SameGo(new, pg) /\ SameMedia(new, pg) /\ SameScreen(new, pg)
    BY <2>1 DEF PageRecords, SameGo, SameMedia, SameScreen
  <2> HIDE DEF new
  <2>5. PageInv(p, new) /\ new.conn = pg.conn
    BY <2>1, <2>4 DEF PageInv, Fresh, Joins, Closed, Switches, Captures,
                      SameGo, SameMedia, SameScreen
  <2> QED BY <1>2, <2>2, <2>3, <2>5, PageOnly DEF EnterRoom
<1> QED BY <1>1, <1>2 DEF EnterRoom

LEMMA MountedRight == ASSUME PagesInv, NEW p \in Peers, Mounted(p) PROVE PagesInv'
<1> DEFINE pg == page[p]
           g == Go(token[p])
           new == [pg EXCEPT !.view = "mounted", !.todo = g]
<1>1. pg \in PageRecords /\ PageInv(p, pg) /\ pg.view = "asked"
  BY DEF PagesInv, Mounted
<1>2. page' = [page EXCEPT ![p] = page'[p]] /\ page'[p] = new
  BY DEF Mounted, Set, PagesInv
<1>3. token[p] \in RolesOf /\ token[p] # "none"
  BY <1>1 DEF PageInv, Closed, PagesInv
<1>4. g \in Seq(Awaits) /\ Route(p, g) /\ Head(g) = "join"
  BY <1>3, GoRight DEF PagesInv
<1> HIDE DEF g
<1>5. new \in PageRecords
  BY <1>1, <1>4 DEF PageRecords
<1>6. /\ new.view = "mounted" /\ new.todo = g /\ new.conn = pg.conn
      /\ SameMedia(new, pg) /\ SameScreen(new, pg)
  BY <1>1 DEF PageRecords, SameMedia, SameScreen
<1> HIDE DEF new
<1>7. Switches(new) /\ Captures(p, new)
  BY <1>1, <1>6 DEF PageInv, Fresh, Switches, Captures, SameMedia, SameScreen
<1>8. PageInv(p, new)
  BY <1>1, <1>3, <1>4, <1>6, <1>7 DEF PageInv, Fresh, Joins, Closed, SameMedia
<1> QED BY <1>2, <1>5, <1>6, <1>8, PageOnly DEF Mounted

(***************************************************************************)
(* Leaving                                                                 *)
(***************************************************************************)
\* What a cleanup never touches.
SameRest(a, b) ==
    /\ a.view = b.view /\ a.todo = b.todo /\ a.on = b.on /\ a.enabled = b.enabled
    /\ a.deaf = b.deaf /\ a.picking = b.picking /\ a.adding = b.adding
    /\ a.screenOn = b.screenOn /\ a.slips = b.slips

LEMMA CloseEngineRight ==
    ASSUME NEW pg \in PageRecords
    PROVE  LET new == CloseEngine(pg) IN
           /\ new \in PageRecords /\ SameRest(new, pg)
           /\ new.sending = "none" /\ new.engine # "open"
           /\ pg.engine = "none" => new.engine = "none"
           /\ new.engine # "none" => pg.engine # "none"
           /\ new.conn = pg.conn /\ new.camera = pg.camera
           /\ new.captures = pg.captures /\ new.ref = pg.ref
<1> DEFINE e == IF pg.engine = "open" THEN "closed" ELSE pg.engine
           new == [pg EXCEPT !.engine = e, !.sending = "none"]
<1>1. e \in {"none", "closed"} /\ (pg.engine = "none" <=> e = "none")
  BY DEF PageRecords
<1>2. CloseEngine(pg) = new
  BY DEF CloseEngine, PageRecords
<1> HIDE DEF e
<1>3. new \in PageRecords
  BY <1>1 DEF PageRecords
<1>4. /\ new.engine = e /\ new.sending = "none" /\ SameRest(new, pg)
      /\ new.conn = pg.conn /\ new.camera = pg.camera
      /\ new.captures = pg.captures /\ new.ref = pg.ref
  BY DEF PageRecords, SameRest
<1> QED BY <1>1, <1>2, <1>3, <1>4

LEMMA StopCameraRight ==
    ASSUME NEW pg \in PageRecords
    PROVE  LET new == StopCamera(pg) IN
           /\ new \in PageRecords /\ SameRest(new, pg)
           /\ new.camera # "live"
           /\ new.conn = pg.conn /\ new.sending = pg.sending /\ new.engine = pg.engine
           /\ new.captures = pg.captures /\ new.ref = pg.ref
<1> DEFINE c == IF pg.camera = "live" THEN "stopped" ELSE pg.camera
           new == [pg EXCEPT !.camera = c]
<1>1. c \in {"none", "stopped"}
  BY DEF PageRecords
<1>2. StopCamera(pg) = new
  BY DEF StopCamera, PageRecords
<1> HIDE DEF c
<1>3. new \in PageRecords
  BY <1>1 DEF PageRecords
<1>4. /\ new.camera = c /\ SameRest(new, pg)
      /\ new.conn = pg.conn /\ new.sending = pg.sending /\ new.engine = pg.engine
      /\ new.captures = pg.captures /\ new.ref = pg.ref
  BY DEF PageRecords, SameRest
<1> QED BY <1>1, <1>2, <1>3, <1>4

LEMMA StopScreenRight ==
    ASSUME NEW pg \in PageRecords, pg.ref => pg.captures > 0
    PROVE  LET new == StopScreen(pg) IN
           /\ new \in PageRecords /\ SameRest(new, pg)
           /\ ~new.ref /\ new.captures = IF pg.ref THEN pg.captures - 1 ELSE pg.captures
           /\ new.conn = pg.conn /\ new.sending = pg.sending /\ new.engine = pg.engine
           /\ new.camera = pg.camera
<1> DEFINE k == IF pg.ref THEN pg.captures - 1 ELSE pg.captures
           new == [pg EXCEPT !.captures = k, !.ref = FALSE]
<1>1. k \in Nat
  BY DEF PageRecords
<1>2. StopScreen(pg) = new
  BY DEF StopScreen, PageRecords
<1> HIDE DEF k
<1>3. new \in PageRecords
  BY <1>1 DEF PageRecords
<1>4. /\ new.captures = k /\ new.ref = FALSE /\ SameRest(new, pg)
      /\ new.conn = pg.conn /\ new.sending = pg.sending /\ new.engine = pg.engine
      /\ new.camera = pg.camera
  BY DEF PageRecords, SameRest
<1> QED BY <1>2, <1>3, <1>4 DEF k

LEMMA LeaveRoomRight ==
    ASSUME NEW pg \in PageRecords
    PROVE  LET new == LeaveRoom(pg) IN
           /\ new \in PageRecords /\ SameRest(new, pg)
           /\ new.conn = IF pg.conn = "up" THEN "leaving" ELSE pg.conn
           /\ new.captures = pg.captures /\ new.ref = pg.ref
           /\ new.sending = pg.sending /\ new.engine = pg.engine /\ new.camera = pg.camera
<1> DEFINE c == IF pg.conn = "up" THEN "leaving" ELSE pg.conn
           new == [pg EXCEPT !.conn = c]
<1>1. c \in {"none", "joined", "leaving", "kicked", "left"}
  BY DEF PageRecords
<1>2. LeaveRoom(pg) = new
  BY DEF LeaveRoom, PageRecords
<1> HIDE DEF c
<1>3. new \in PageRecords
  BY <1>1 DEF PageRecords
<1>4. /\ new.conn = c /\ SameRest(new, pg)
      /\ new.captures = pg.captures /\ new.ref = pg.ref
      /\ new.sending = pg.sending /\ new.engine = pg.engine /\ new.camera = pg.camera
  BY DEF PageRecords, SameRest
<1> QED BY <1>2, <1>3, <1>4 DEF c

\* A page that has been mounted and goes: everything it had is closed, whichever it was.
Tidied(p, new, pg) ==
    /\ new \in PageRecords /\ SameRest(new, pg)
    /\ new.sending = "none" /\ new.engine # "open" /\ new.camera # "live"
    /\ new.engine # "none" => pg.engine # "none"
    /\ new.conn = IF pg.conn = "up" THEN "leaving" ELSE pg.conn
    /\ ~new.ref /\ new.captures = IF pg.ref THEN pg.captures - 1 ELSE pg.captures

LEMMA CleanupRight ==
    ASSUME PagesInv, NEW p \in Peers, page[p].view = "mounted"
    PROVE  Tidied(p, Cleanup(p, page[p]), page[p])
<1> DEFINE pg == page[p]
           a == CloseEngine(pg)
<1>1. /\ pg \in PageRecords /\ PageInv(p, pg)
      /\ token[p] \in RolesOf /\ app \in Streams \cup Meetings \cup Boards
  BY DEF PagesInv, PageInv, Closed
<1>2. /\ a \in PageRecords /\ SameRest(a, pg)
      /\ a.sending = "none" /\ a.engine # "open"
      /\ a.engine # "none" => pg.engine # "none"
      /\ a.conn = pg.conn /\ a.camera = pg.camera
      /\ a.captures = pg.captures /\ a.ref = pg.ref
  BY <1>1, CloseEngineRight
<1>3. /\ pg.ref => pg.captures > 0
      /\ ~HasButtons(token[p]) => ~pg.ref
      /\ Watches(p) => pg.camera # "live"
      /\ pg.captures \in Nat /\ pg.ref \in BOOLEAN
  BY <1>1 DEF PageInv, Captures, Closed, PageRecords
<1> HIDE DEF a, pg
<1>4. CASE HasButtons(token[p]) \/ app \in Meetings
  <2> DEFINE b == StopCamera(a)
             c == StopScreen(b)
             d == LeaveRoom(c)
  <2>1. Cleanup(p, pg) = d
    BY <1>4, <1>1 DEF a, Cleanup, BroadcastCleanup, MeetingCleanup, HasButtons, Streams, Meetings, Boards
  <2>2. /\ b \in PageRecords /\ SameRest(b, a) /\ b.camera # "live"
        /\ b.conn = a.conn /\ b.sending = a.sending /\ b.engine = a.engine
        /\ b.captures = a.captures /\ b.ref = a.ref
    BY <1>2, StopCameraRight
  <2> HIDE DEF b
  <2>3. /\ c \in PageRecords /\ SameRest(c, b)
        /\ ~c.ref /\ c.captures = IF b.ref THEN b.captures - 1 ELSE b.captures
        /\ c.conn = b.conn /\ c.sending = b.sending /\ c.engine = b.engine
        /\ c.camera = b.camera
    <3>1. b.ref => b.captures > 0
      BY <1>2, <1>3, <2>2
    <3> QED BY <2>2, <3>1, StopScreenRight
  <2> HIDE DEF c
  <2>4. /\ d \in PageRecords /\ SameRest(d, c)
        /\ d.conn = IF c.conn = "up" THEN "leaving" ELSE c.conn
        /\ d.captures = c.captures /\ d.ref = c.ref
        /\ d.sending = c.sending /\ d.engine = c.engine /\ d.camera = c.camera
    BY <2>3, LeaveRoomRight
  <2> HIDE DEF d
  <2>5. SameRest(d, pg)
    BY <1>2, <2>2, <2>3, <2>4 DEF SameRest
  <2>6. Tidied(p, d, pg)
    BY <1>2, <2>2, <2>3, <2>4, <2>5 DEF Tidied
  <2> QED BY <2>1, <2>6 DEF pg
<1>5. CASE ~HasButtons(token[p]) /\ app = "massive"
  <2> DEFINE b == StopCamera(a)
             d == LeaveRoom(b)
  <2>1. Cleanup(p, pg) = d
    BY <1>5, <1>1 DEF a, Cleanup, StreamCleanup, Streams, Meetings, Boards
  <2>2. /\ b \in PageRecords /\ SameRest(b, a) /\ b.camera # "live"
        /\ b.conn = a.conn /\ b.sending = a.sending /\ b.engine = a.engine
        /\ b.captures = a.captures /\ b.ref = a.ref
    BY <1>2, StopCameraRight
  <2> HIDE DEF b
  <2>4. /\ d \in PageRecords /\ SameRest(d, b)
        /\ d.conn = IF b.conn = "up" THEN "leaving" ELSE b.conn
        /\ d.captures = b.captures /\ d.ref = b.ref
        /\ d.sending = b.sending /\ d.engine = b.engine /\ d.camera = b.camera
    BY <2>2, LeaveRoomRight
  <2> HIDE DEF d
  <2>5. SameRest(d, pg)
    BY <1>2, <2>2, <2>4 DEF SameRest
  <2>6. Tidied(p, d, pg)
    BY <1>2, <1>3, <1>5, <2>2, <2>4, <2>5 DEF Tidied
  <2> QED BY <2>1, <2>6 DEF pg
<1>6. CASE ~HasButtons(token[p]) /\ app \notin Meetings /\ app # "massive"
  <2> DEFINE d == LeaveRoom(a)
  <2>1. Watches(p)
    BY <1>1, <1>6 DEF Watches, HasButtons, RolesOf, Streams, Meetings, Boards
  <2>2. Cleanup(p, pg) = d
    BY <1>1, <1>6, <2>1 DEF a, Cleanup, Watches, WatchCleanup, BoardCleanup,
                            Streams, Meetings, Boards
  <2>4. /\ d \in PageRecords /\ SameRest(d, a)
        /\ d.conn = IF a.conn = "up" THEN "leaving" ELSE a.conn
        /\ d.captures = a.captures /\ d.ref = a.ref
        /\ d.sending = a.sending /\ d.engine = a.engine /\ d.camera = a.camera
    BY <1>2, LeaveRoomRight
  <2> HIDE DEF d
  <2>5. SameRest(d, pg)
    BY <1>2, <2>4 DEF SameRest
  <2>6. Tidied(p, d, pg)
    BY <1>2, <1>3, <1>6, <2>1, <2>4, <2>5 DEF Tidied
  <2> QED BY <2>2, <2>6 DEF pg
<1> QED BY <1>4, <1>5, <1>6

\* conn is what becomes of the membership: thrown out, nothing is left to leave.
LEMMA UnmountRight ==
    ASSUME PagesInv, NEW p \in Peers, page[p].view = "mounted", NEW new \in PageRecords,
           NEW last,
           last = [Cleanup(p, page[p]) EXCEPT !.view = "gone"],
           new = last \/ (new = [last EXCEPT !.conn = "left"] /\ page[p].conn = "kicked")
    PROVE  PageInv(p, new) /\ (new.conn \in Present <=> page[p].conn \in Present)
<1> DEFINE pg == page[p]
           c == Cleanup(p, pg)
<1>1. pg \in PageRecords /\ PageInv(p, pg) /\ Tidied(p, c, pg) /\ token[p] # "none"
  BY CleanupRight DEF PagesInv, PageInv, Closed
<1> HIDE DEF c
<1>2. c \in PageRecords /\ last = [c EXCEPT !.view = "gone"]
  BY <1>1 DEF c, Tidied
<1>3. /\ last \in PageRecords /\ last.view = "gone" /\ last.conn = c.conn
      /\ last.todo = c.todo /\ last.on = c.on /\ last.enabled = c.enabled
      /\ last.deaf = c.deaf /\ last.sending = c.sending /\ last.engine = c.engine
      /\ last.camera = c.camera /\ SameScreen(last, c)
  BY <1>2 DEF PageRecords, SameScreen
<1>4. /\ new.view = "gone" /\ new.todo = c.todo /\ new.on = c.on /\ new.enabled = c.enabled
      /\ new.deaf = c.deaf /\ new.sending = c.sending /\ new.engine = c.engine
      /\ new.camera = c.camera /\ SameScreen(new, c)
      /\ new.conn = c.conn \/ (new.conn = "left" /\ pg.conn = "kicked")
  <2>2. CASE new = last
    BY <1>3, <2>2
  <2>3. CASE new = [last EXCEPT !.conn = "left"] /\ page[p].conn = "kicked"
    <3>1. /\ new.view = last.view /\ new.conn = "left"
          /\ new.todo = last.todo /\ new.on = last.on /\ new.enabled = last.enabled
          /\ new.deaf = last.deaf /\ new.sending = last.sending /\ new.engine = last.engine
          /\ new.camera = last.camera /\ SameScreen(new, last)
      BY <1>3, <2>3 DEF PageRecords, SameScreen
    <3> QED BY <1>3, <2>3, <3>1 DEF SameScreen
  <2> QED BY <2>2, <2>3
<1>5. /\ new.todo = pg.todo /\ new.on = pg.on /\ new.enabled = pg.enabled /\ new.deaf = pg.deaf
      /\ new.sending = "none" /\ new.engine # "open" /\ new.camera # "live"
      /\ new.engine # "none" => pg.engine # "none"
      /\ ~new.ref /\ new.captures = IF pg.ref THEN pg.captures - 1 ELSE pg.captures
      /\ new.picking = pg.picking /\ new.adding = pg.adding /\ new.slips = pg.slips
  BY <1>1, <1>4 DEF Tidied, SameRest, SameScreen
<1>6. /\ new.conn \in Present <=> pg.conn \in Present
      /\ new.conn # "up"
      /\ new.conn \in {"none", "joined"} => pg.conn \in {"none", "joined"}
  BY <1>1, <1>4 DEF Tidied, Present, PageRecords
<1>7. Switches(new)
  BY <1>1, <1>5 DEF PageInv, Switches
<1>8. Captures(p, new)
  <2>1. "replaced" \notin new.slips => new.captures = 0
    BY <1>1, <1>5 DEF PageInv, Captures
  <2>2. ~HasButtons(token[p]) => ~new.picking /\ new.adding = 0 /\ new.captures = 0
    BY <1>1, <1>5 DEF PageInv, Captures
  <2> QED BY <1>4, <1>5, <2>1, <2>2 DEF Captures
<1>9. Joins(new)
  BY <1>1, <1>5, <1>6 DEF PageInv, Joins
<1>10. Fresh(new) /\ Route(p, new.todo) /\ Closed(p, new)
  BY <1>1, <1>4, <1>5, <1>6 DEF PageInv, Fresh, Closed
<1> QED BY <1>6, <1>7, <1>8, <1>9, <1>10 DEF PageInv

LEMMA ExitRight == ASSUME PagesInv, NEW p \in Peers, Exit(p) PROVE PagesInv'
<1> DEFINE new == [Cleanup(p, page[p]) EXCEPT !.view = "gone"]
<1>1. page' = [page EXCEPT ![p] = page'[p]] /\ page'[p] = new
  BY DEF Exit, Set, Unmount, PagesInv
<1>2. new \in PageRecords
  BY CleanupRight DEF Exit, Tidied, PageRecords
<1>3. PageInv(p, new) /\ (new.conn \in Present <=> page[p].conn \in Present)
  BY <1>2, UnmountRight DEF Exit
<1> QED BY <1>1, <1>2, <1>3, PageOnly DEF Exit

LEMMA TerminatedRight == ASSUME PagesInv, NEW p \in Peers, Terminated(p) PROVE PagesInv'
<1> DEFINE last == [Cleanup(p, page[p]) EXCEPT !.view = "gone"]
           new == [last EXCEPT !.conn = "left"]
<1>1. page[p].view = "mounted" /\ page[p].conn = "kicked"
  BY DEF Terminated, Cancelled, PagesInv, PageRecords, PageInv, Fresh
<1>2. page' = [page EXCEPT ![p] = page'[p]] /\ page'[p] = new
  BY DEF Terminated, Set, Unmount, PagesInv
<1>3. last \in PageRecords
  BY <1>1, CleanupRight DEF Tidied, PageRecords
<1>4. new \in PageRecords
  BY <1>3 DEF PageRecords
<1>5. PageInv(p, new) /\ (new.conn \in Present <=> page[p].conn \in Present)
  BY <1>1, <1>4, UnmountRight
<1> QED BY <1>2, <1>4, <1>5, PageOnly DEF Terminated

\* The server removes p from the room, whoever asked for it.
LEMMA RemovedRight ==
    ASSUME PagesInv, NEW p \in Peers, NEW c \in {"left", "kicked"},
           page[p].conn \in {"leaving", "up"},
           Leave(p), Set(p, [page[p] EXCEPT !.conn = c]), UNCHANGED kind
    PROVE  PagesInv'
<1> DEFINE pg == page[p]
           new == [pg EXCEPT !.conn = c]
<1>1. pg \in PageRecords /\ PageInv(p, pg)
  BY DEF PagesInv
<1>2. page' = [page EXCEPT ![p] = page'[p]] /\ page'[p] = new
  BY DEF Set, PagesInv
<1>3. new \in PageRecords
  BY <1>1 DEF PageRecords
<1>4. /\ new.conn = c /\ new.view = pg.view /\ new.todo = pg.todo
      /\ SameMedia(new, pg) /\ SameScreen(new, pg)
  BY <1>1 DEF PageRecords, SameMedia, SameScreen
<1> HIDE DEF new
<1>5. PageInv(p, new)
  BY <1>1, <1>4 DEF PageInv, Fresh, Joins, Closed, Switches, Captures, SameMedia, SameScreen
<1>6. peers' = peers \ {p} /\ UNCHANGED <<app, token>>
  BY DEF Leave
<1> QED BY <1>2, <1>3, <1>4, <1>5, <1>6, PageSet DEF Present

LEMMA DepartsRight == ASSUME PagesInv, NEW p \in Peers, Departs(p) PROVE PagesInv'
BY RemovedRight DEF Departs

LEMMA KickedRight == ASSUME PagesInv, NEW h \in Peers, NEW p \in Peers, KickPeer(h, p) PROVE PagesInv'
BY RemovedRight DEF KickPeer, Kick, HasTile

(***************************************************************************)
(* The switches                                                            *)
(***************************************************************************)
\* SwitchTrack and the engine, whichever button it is: s is what becomes of the producer
\* and e of the track.
LEMMA SwitchedRight ==
    ASSUME PagesInv, NEW p \in Peers, NEW next \in BOOLEAN, page[p].view = "mounted",
           kind \in {"audio", "video"}, UNCHANGED <<serverVars, kind>>,
           Set(p, Switched(page[p], next))
    PROVE  PagesInv'
<1> DEFINE pg == page[p]
           works == app = "call" \/ pg.sending # "none"
           s == IF pg.engine # "none" /\ works THEN IF next THEN "on" ELSE "paused" ELSE pg.sending
           track == app \in Meetings \/ kind = "video"
           e == IF track /\ pg.camera = "live" THEN next ELSE pg.enabled
           d == ~next /\ NothingToSwitch(pg)
           m == [pg EXCEPT !.sending = s]
           n == [m EXCEPT !.enabled = e]
           new == [n EXCEPT !.on = next, !.deaf = d]
<1>1. pg \in PageRecords /\ PageInv(p, pg)
  BY DEF PagesInv
<1>2. s \in {"none", "on", "paused"} /\ e \in BOOLEAN /\ d \in BOOLEAN
  BY <1>1 DEF PageRecords, NothingToSwitch
<1>3. SetEngine(pg, next) = m
  BY <1>1 DEF SetEngine, SetMesh, SetProducer, PageRecords
<1>4. m \in PageRecords /\ m.camera = pg.camera /\ m.enabled = pg.enabled
  BY <1>1, <1>2 DEF PageRecords
<1> HIDE DEF s
<1>5. track => SwitchTrack(m, next) = n
  BY <1>4 DEF SwitchTrack, PageRecords
<1>6. ~track => m = n
  BY <1>4 DEF PageRecords
<1> HIDE DEF m
<1>7. Switched(pg, next) = [n EXCEPT !.on = next, !.deaf = d]
  <2>1. CASE app \in Meetings
    BY <1>3, <1>5, <2>1 DEF Switched, MeetingSwitch
  <2>2. CASE app \notin Meetings /\ kind = "audio"
    BY <1>3, <1>6, <2>2 DEF Switched, BroadcastMic
  <2>3. CASE app \notin Meetings /\ kind = "video"
    BY <1>3, <1>5, <2>3 DEF Switched, BroadcastCam
  <2> QED BY <2>1, <2>2, <2>3
<1>8. page' = [page EXCEPT ![p] = page'[p]] /\ page'[p] = new
  BY <1>7 DEF Set, PagesInv
<1> HIDE DEF e, d
<1>9. n \in PageRecords /\ new \in PageRecords
  BY <1>2, <1>4 DEF PageRecords
<1>10. /\ SameGo(new, pg) /\ SameScreen(new, pg) /\ new.engine = pg.engine
       /\ new.camera = pg.camera /\ new.sending = s
  BY <1>1, <1>2, <1>4 DEF m, PageRecords, SameGo, SameScreen
<1>11. new.enabled = e /\ new.on = next /\ new.deaf = d
  BY <1>4, <1>9 DEF PageRecords
<1> HIDE DEF new, n
<1>12. Switches(new)
  <2>1. s # "none" => pg.engine # "none" /\ ~WillSend(pg.todo)
    <3>1. CASE pg.sending # "none"
      BY <1>1, <3>1 DEF PageInv, Switches
    <3>2. CASE pg.sending = "none" /\ app = "call" /\ pg.engine # "none"
      <4>1. ~Holds(pg.todo, "camera") /\ ~Holds(pg.todo, kind)
        BY <1>1, <3>2 DEF PageInv, Switches, Route, Holds
      <4> QED BY <3>2, <4>1 DEF WillSend
    <3> QED BY <3>1, <3>2 DEF s
  <2>2. ~next /\ ~d /\ e => s # "on" /\ ~WillSend(pg.todo)
    <3> SUFFICES ASSUME ~next, ~d, e PROVE s # "on" /\ ~WillSend(pg.todo)
      OBVIOUS
    <3>1. pg.sending # "none"
      BY DEF d, e, NothingToSwitch
    <3>2. pg.engine # "none" /\ ~WillSend(pg.todo)
      BY <1>1, <3>1 DEF PageInv, Switches
    <3> QED BY <3>1, <3>2 DEF s
  <2>3. app = "call" /\ pg.engine # "none" => ~Holds(pg.todo, "camera")
    BY <1>1 DEF PageInv, Switches
  <2>4. ~new.on /\ ~new.deaf /\ new.enabled => new.sending # "on" /\ ~WillSend(new.todo)
    BY <1>10, <1>11, <2>2 DEF SameGo
  <2> QED BY <1>10, <2>1, <2>3, <2>4 DEF Switches, SameGo
<1>13. Captures(p, new)
  BY <1>1, <1>10 DEF PageInv, Captures, SameScreen, SameGo
<1>14. PageInv(p, new)
  BY <1>1, <1>10, <1>12, <1>13 DEF PageInv, Fresh, Joins, Closed, SameGo
<1> QED BY <1>8, <1>9, <1>10, <1>14, PageOnly DEF SameGo

LEMMA ToggleRight == ASSUME PagesInv, NEW p \in Peers, Toggle(p) PROVE PagesInv'
<1>1. page[p].on \in BOOLEAN
  BY DEF PagesInv, PageRecords
<1> QED BY <1>1, SwitchedRight DEF Toggle, Presses

LEMMA MuteRight == ASSUME PagesInv, NEW h \in Peers, NEW p \in Peers, MuteRequest(h, p) PROVE PagesInv'
<1>1. page[p].view = "mounted"
  BY DEF MuteRequest, HasTile, PagesInv, PageInv, Closed
<1> QED BY <1>1, SwitchedRight DEF MuteRequest

(***************************************************************************)
(* The button for the screen                                               *)
(***************************************************************************)
LEMMA ScreenRight ==
    ASSUME PagesInv, NEW p \in Peers, UNCHANGED <<serverVars, kind>>,
           NEW new \in PageRecords, Set(p, new),
           SameGo(new, page[p]), SameMedia(new, page[p]), Captures(p, new),
           page[p].view \in {"mounted", "gone"}
    PROVE  PagesInv'
<1> DEFINE pg == page[p]
<1>1. pg \in PageRecords /\ PageInv(p, pg)
  BY DEF PagesInv
<1>2. page' = [page EXCEPT ![p] = page'[p]] /\ page'[p] = new
  BY DEF Set, PagesInv
<1>3. PageInv(p, new)
  BY <1>1 DEF PageInv, Fresh, Joins, Closed, Switches, SameGo, SameMedia
<1> QED BY <1>2, <1>3, PageOnly DEF SameGo

\* The page is there, or was: a picker or a capture is nowhere else.
LEMMA ScreenStepsRight == ASSUME PagesInv, NEW p \in Peers, ScreenStep(p) PROVE PagesInv'
<1> DEFINE pg == page[p]
<1>1. /\ pg \in PageRecords /\ PageInv(p, pg) /\ Captures(p, pg)
      /\ pg.captures \in Nat /\ pg.adding \in Nat /\ pg.shares \in Nat
      /\ pg.slips \in SUBSET Slips /\ pg.ref \in BOOLEAN
  BY DEF PagesInv, PageInv, PageRecords
<1>2. pg.picking \/ pg.captures > 0 \/ pg.adding > 0 \/ pg.view = "mounted"
        => pg.view \in {"mounted", "gone"}
  BY <1>1 DEF PageInv, Fresh, PageRecords
<1>3. CASE StopShare(p)
  <2> DEFINE k == IF pg.ref THEN pg.captures - 1 ELSE pg.captures
             new == [pg EXCEPT !.captures = k, !.ref = FALSE, !.screenOn = FALSE]
  <2>1. k \in Nat
    BY <1>1 DEF Captures
  <2>2. Set(p, new)
    BY <1>1, <1>3 DEF StopShare, StopScreen, PageRecords
  <2> HIDE DEF k
  <2>3. new \in PageRecords
    BY <1>1, <2>1 DEF PageRecords
  <2>4. /\ SameGo(new, pg) /\ SameMedia(new, pg)
        /\ new.picking = pg.picking /\ new.adding = pg.adding /\ new.slips = pg.slips
        /\ new.captures = k /\ new.ref = FALSE /\ new.screenOn = FALSE
    BY <1>1 DEF PageRecords, SameGo, SameMedia
  <2> HIDE DEF new
  <2>5. Captures(p, new)
    BY <1>1, <1>3, <2>4 DEF k, Captures, StopShare, Presses, SameGo
  <2> QED BY <1>2, <1>3, <2>2, <2>3, <2>4, <2>5, ScreenRight DEF StopShare, Presses
<1>4. CASE Share(p)
  <2> DEFINE n == pg.shares + 1
             new == [pg EXCEPT !.picking = TRUE, !.shares = n]
  <2>1. n \in Nat
    BY <1>1
  <2>2. Set(p, new)
    BY <1>1, <1>4 DEF Share, PageRecords
  <2> HIDE DEF n
  <2>3. new \in PageRecords
    BY <1>1, <2>1 DEF PageRecords
  <2>4. /\ SameGo(new, pg) /\ SameMedia(new, pg)
        /\ new.adding = pg.adding /\ new.slips = pg.slips
        /\ new.captures = pg.captures /\ new.ref = pg.ref /\ new.screenOn = pg.screenOn
    BY <1>1 DEF PageRecords, SameGo, SameMedia
  <2> HIDE DEF new
  <2>5. Captures(p, new)
    BY <1>1, <1>4, <2>4 DEF Captures, Share, Presses, SameGo
  <2> QED BY <1>2, <1>4, <2>2, <2>3, <2>4, <2>5, ScreenRight DEF Share, Presses
<1>5. CASE Picked(p)
  <2> DEFINE k == pg.captures + 1
             a == pg.adding + 1
             z == pg.slips \cup (IF Cancelled(p) THEN {"late"} ELSE {})
                           \cup (IF pg.ref THEN {"replaced"} ELSE {})
             new == [pg EXCEPT !.picking = FALSE, !.captures = k, !.ref = TRUE, !.adding = a,
                               !.slips = z]
  <2>1. k \in Nat /\ a \in Nat /\ z \in SUBSET Slips /\ k > 0 /\ a > 0
    BY <1>1 DEF Slips
  <2>2. Set(p, new)
    BY <1>1, <1>5 DEF Picked, PageRecords
  <2>3. /\ "replaced" \notin z => k = 1
        /\ pg.view = "gone" => z \cap {"late", "replaced"} # {}
    BY <1>1 DEF Captures, Cancelled
  <2> HIDE DEF k, a, z
  <2>4. new \in PageRecords
    BY <1>1, <2>1 DEF PageRecords
  <2>5. /\ SameGo(new, pg) /\ SameMedia(new, pg)
        /\ new.captures = k /\ new.ref = TRUE /\ new.adding = a /\ new.slips = z
    BY <1>1 DEF PageRecords, SameGo, SameMedia
  <2> HIDE DEF new
  <2>6. Captures(p, new)
    <3>1. HasButtons(token[p])
      BY <1>1, <1>5 DEF Captures, Picked
    <3> QED BY <3>1, <2>1, <2>3, <2>5 DEF Captures, SameGo
  <2> QED BY <1>2, <1>5, <2>2, <2>4, <2>5, <2>6, ScreenRight DEF Picked
<1>6. CASE NotPicked(p)
  <2> DEFINE new == [pg EXCEPT !.picking = FALSE]
  <2>1. Set(p, new) /\ new \in PageRecords
    BY <1>1, <1>6 DEF NotPicked, PageRecords
  <2>2. /\ SameGo(new, pg) /\ SameMedia(new, pg) /\ new.picking = FALSE
        /\ new.adding = pg.adding /\ new.slips = pg.slips
        /\ new.captures = pg.captures /\ new.ref = pg.ref /\ new.screenOn = pg.screenOn
    BY <1>1 DEF PageRecords, SameGo, SameMedia
  <2> HIDE DEF new
  <2>3. Captures(p, new)
    BY <1>1, <2>2 DEF Captures, SameGo
  <2> QED BY <1>2, <1>6, <2>1, <2>2, <2>3, ScreenRight DEF NotPicked
<1>7. CASE Added(p)
  <2> DEFINE a == pg.adding - 1
             z == IF pg.ref THEN pg.slips ELSE pg.slips \cup {"ended"}
             new == [pg EXCEPT !.adding = a, !.screenOn = TRUE, !.slips = z]
  <2>1. a \in Nat /\ z \in SUBSET Slips
    BY <1>1, <1>7 DEF Slips, Added
  <2>2. Set(p, new)
    BY <1>1, <1>7 DEF Added, PageRecords
  <2>3. /\ pg.slips \subseteq z /\ ("replaced" \in z <=> "replaced" \in pg.slips)
        /\ z \cap {"ended"} = {} => pg.ref
    BY <1>1
  <2> HIDE DEF a, z
  <2>4. new \in PageRecords
    BY <1>1, <2>1 DEF PageRecords
  <2>5. /\ SameGo(new, pg) /\ SameMedia(new, pg) /\ new.picking = pg.picking
        /\ new.captures = pg.captures /\ new.ref = pg.ref /\ new.screenOn = TRUE
        /\ new.adding = a /\ new.slips = z
    BY <1>1 DEF PageRecords, SameGo, SameMedia
  <2> HIDE DEF new
  <2>6. Captures(p, new)
    <3>1. HasButtons(token[p])
      BY <1>1, <1>7 DEF Captures, Added
    <3> QED BY <1>1, <3>1, <2>3, <2>5 DEF Captures, SameGo
  <2> QED BY <1>2, <1>7, <2>2, <2>4, <2>5, <2>6, ScreenRight DEF Added
<1>8. CASE NotAdded(p)
  <2> DEFINE a == pg.adding - 1
             z == IF pg.ref THEN pg.slips \cup {"failed"} ELSE pg.slips
             new == [pg EXCEPT !.adding = a, !.slips = z]
  <2>1. a \in Nat /\ z \in SUBSET Slips
    BY <1>1, <1>8 DEF Slips, NotAdded
  <2>2. Set(p, new)
    BY <1>1, <1>8 DEF NotAdded, PageRecords
  <2>3. /\ pg.slips \subseteq z /\ ("replaced" \in z <=> "replaced" \in pg.slips)
        /\ pg.ref => "failed" \in z
    BY <1>1
  <2> HIDE DEF a, z
  <2>4. new \in PageRecords
    BY <1>1, <2>1 DEF PageRecords
  <2>5. /\ SameGo(new, pg) /\ SameMedia(new, pg) /\ new.picking = pg.picking
        /\ new.captures = pg.captures /\ new.ref = pg.ref /\ new.screenOn = pg.screenOn
        /\ new.adding = a /\ new.slips = z
    BY <1>1 DEF PageRecords, SameGo, SameMedia
  <2> HIDE DEF new
  <2>6. Captures(p, new)
    <3>1. HasButtons(token[p])
      BY <1>1, <1>8 DEF Captures, NotAdded
    <3> QED BY <1>1, <3>1, <2>3, <2>5 DEF Captures, SameGo
  <2> QED BY <1>2, <1>8, <2>2, <2>4, <2>5, <2>6, ScreenRight DEF NotAdded
<1>9. CASE Ended(p)
  <2> DEFINE k == pg.captures - 1
             new == [pg EXCEPT !.captures = k, !.ref = FALSE, !.screenOn = FALSE]
  <2>1. k \in Nat
    BY <1>1, <1>9 DEF Ended
  <2>2. Set(p, new)
    BY <1>1, <1>9 DEF Ended, PageRecords
  <2>3. "replaced" \notin pg.slips => k = 0
    BY <1>1, <1>9 DEF Captures, Ended
  <2>4. HasButtons(token[p]) /\ (k > 0 => pg.captures > 0)
    BY <1>1, <1>9 DEF Captures, Ended
  <2> HIDE DEF k
  <2>5. new \in PageRecords
    BY <1>1, <2>1 DEF PageRecords
  <2>6. /\ SameGo(new, pg) /\ SameMedia(new, pg) /\ new.picking = pg.picking
        /\ new.adding = pg.adding /\ new.slips = pg.slips
        /\ new.captures = k /\ new.ref = FALSE /\ new.screenOn = FALSE
    BY <1>1 DEF PageRecords, SameGo, SameMedia
  <2> HIDE DEF new
  <2>7. Captures(p, new)
    BY <1>1, <2>3, <2>4, <2>6 DEF Captures, SameGo
  <2> QED BY <1>2, <1>9, <2>2, <2>5, <2>6, <2>7, ScreenRight DEF Ended
<1> QED BY <1>3, <1>4, <1>5, <1>6, <1>7, <1>8, <1>9 DEF ScreenStep

(***************************************************************************)
(* The invariant of the pages                                              *)
(***************************************************************************)
LEMMA PagesInitRight == PagesInit => PagesInv
<1> SUFFICES ASSUME PagesInit PROVE PagesInv
  OBVIOUS
<1>1. Lobby \in PageRecords
  <2>1. <<>> \in Seq(Awaits) /\ {} \in SUBSET Slips
    OBVIOUS
  <2> QED BY <2>1 DEF Lobby, PageRecords
<1>2. \A p \in Peers : page[p] = Lobby /\ token[p] = "none"
  BY DEF PagesInit, Init
<1>3. \A p \in Peers : PageInv(p, Lobby)
  <2> TAKE p \in Peers
  <2>1. Route(p, Lobby.todo)
    BY EmptyRoute DEF Lobby
  <2>2. Switches(Lobby)
    BY DEF Lobby, Switches
  <2> QED BY <2>1, <2>2 DEF Lobby, PageInv, Fresh, Joins, Closed, Captures
<1>4. page \in [Peers -> PageRecords] /\ app \in Streams \cup Meetings \cup Boards /\ kind \in Kinds
  BY <1>1, AppsAssumption DEF PagesInit, Init
<1>5. \A p \in Peers : p \in peers <=> page[p].conn \in Present
  BY <1>2 DEF PagesInit, Init, Lobby, Present
<1>6. token \in [Peers -> RolesOf \cup {"none"}]
  BY DEF PagesInit, Init
<1> QED BY <1>2, <1>3, <1>4, <1>5, <1>6 DEF PagesInv

\* Nothing of a page depends on when a token expires or a room closes.
LEMMA AsideRight ==
    ASSUME PagesInv, UNCHANGED <<app, token, peers, page, kind>> PROVE PagesInv'
BY DEF PagesInv, PageInv, Fresh, Route, Joins, Closed, Switches, Captures, Watches,
       WillSend, HasButtons, CanPublish, RolesOf

LEMMA PagesNextRight == PagesInv /\ [PagesNext]_vars => PagesInv'
<1> SUFFICES ASSUME PagesInv, [PagesNext]_vars PROVE PagesInv'
  OBVIOUS
<1>1. ASSUME NEW p \in Peers, Step(p) PROVE PagesInv'
  <2>1. CASE TokenExpires(p)
    BY <2>1, AsideRight DEF TokenExpires, Expire
  <2>2. CASE GoStep(p)
    BY <2>2, JoinedRight, CameraRight, FailsRight, AnsweredRight DEF GoStep
  <2> QED BY <1>1, <2>1, <2>2, PollRight, StartRight, EnterRight, MountedRight, JoinsRoomRight,
             ExitRight, DepartsRight, TerminatedRight, ToggleRight, ScreenStepsRight DEF Step
<1>2. ASSUME NEW h \in Peers, NEW p \in Peers, KickPeer(h, p) \/ MuteRequest(h, p) PROVE PagesInv'
  BY <1>2, KickedRight, MuteRight
<1>3. CASE RoomCloses
  BY <1>3, AsideRight DEF RoomCloses, Close
<1>4. CASE UNCHANGED vars
  BY <1>4, AsideRight DEF vars, serverVars
<1> QED BY <1>1, <1>2, <1>3, <1>4 DEF PagesNext

\* For any number of peers: who is in the room and what its pages hold, at every await.
THEOREM PagesInvariance == PagesSpec => []PagesInv
BY PagesInitRight, PagesNextRight, PTL DEF PagesSpec

\* Every variable of the servers and of the pages keeps its type.
THEOREM PagesTypeCorrect == PagesSpec => []TypeOK
<1>1. IInv /\ PagesInv => TypeOK
  BY DEF IInv, PagesInv, PageRecords, TypeOK
<1> QED BY <1>1, PagesInvariance, PagesUseTheServers, Invariance, PTL

\* Whenever a page is left, thrown out or fails, no camera, engine or membership stays and
\* no capture of the screen but the two kinds the property names.
THEOREM NothingLeft == PagesSpec => []NothingLeftRunning
<1>1. PagesInv => NothingLeftRunning
  <2> SUFFICES ASSUME PagesInv, NEW p \in Peers, page[p].view = "gone"
               PROVE  /\ page[p].camera # "live" /\ page[p].engine # "open"
                      /\ page[p].captures > 0 => page[p].slips \cap {"late", "replaced"} # {}
                      /\ p \in peers => page[p].conn \in {"joined", "leaving"}
    BY DEF NothingLeftRunning
  <2>1. PageInv(p, page[p]) /\ (p \in peers => page[p].conn \in Present)
    BY DEF PagesInv
  <2> QED BY <2>1 DEF PageInv, Closed, Captures, Present
<1> QED BY <1>1, PagesInvariance, PTL

\* What a switch shows as off is not sent, whatever go() awaits when it is pressed.
THEOREM SwitchesHonoured == PagesSpec => []SwitchHonoured
<1>1. PagesInv => SwitchHonoured
  BY DEF PagesInv, PageInv, Switches, SwitchHonoured
<1> QED BY <1>1, PagesInvariance, PTL

\* The button for the screen tells the truth, but for the three slips.
THEOREM ScreenTold == PagesSpec => []ScreenShown
<1>1. PagesInv => ScreenShown
  <2> SUFFICES ASSUME PagesInv, NEW p \in Peers, page[p].view = "mounted", page[p].adding = 0,
                      page[p].slips \cap {"failed", "ended", "replaced"} = {}
               PROVE  page[p].screenOn <=> page[p].captures > 0
    BY DEF ScreenShown
  <2>1. Captures(p, page[p]) /\ page[p] \in PageRecords
    BY DEF PagesInv, PageInv
  <2>2. "replaced" \notin page[p].slips /\ page[p].slips \cap {"failed", "ended"} = {}
    OBVIOUS
  <2>3. page[p].captures = IF page[p].ref THEN 1 ELSE 0
    BY <2>1, <2>2 DEF Captures
  <2>4. (page[p].screenOn => page[p].ref) /\ (page[p].ref => page[p].screenOn)
    BY <2>1, <2>2 DEF Captures, PageRecords
  <2> QED BY <2>3, <2>4
<1> QED BY <1>1, PagesInvariance, PTL

\* What the buttons of a page show is so.
THEOREM ButtonsAreTrue == PagesSpec => []ButtonsTrue
BY SwitchesHonoured, ScreenTold, PTL DEF ButtonsTrue

(***************************************************************************)
(* A board's messages                                                      *)
(***************************************************************************)
Texts == [version : Nat, author : Members \cup {0}]
Answers == [strokes : Seq(Strokes), doc : Texts, synced : BOOLEAN]
Payloads == Strokes \cup Texts \cup Answers \cup SUBSET Members
Addresses == Members \cup {0} \cup {Min(s) : s \in SUBSET Members}

\* What a message carries is as its kind says.
Sound(m) ==
    /\ m.kind # "welcome" => m.from \in Members
    /\ m.kind = "welcome" => m.data \in SUBSET Members
    /\ m.kind = "stroke" => m.data \in Strokes
    /\ m.kind = "doc" => m.data \in Texts
    /\ m.kind = "sync-state" => m.data \in Answers

Messages == {m \in [kind : MessageKinds, from : Members \cup {0}, to : Addresses, data : Payloads] : Sound(m)}

\* m is before n in the socket s.
Before(s, m, n) == \E i, j \in DOMAIN s : i < j /\ s[i] = m /\ s[j] = n

\* A socket that held s holds t: what went out was its first, what came in is last.
Goes(s, t, out, in) ==
    /\ t \in Seq(Messages)
    /\ out \subseteq Range(s) /\ in \subseteq Range(t)
    /\ \A x \in Range(t) : x \in Range(s) \/ x \in in
    /\ \A x \in Range(s) : x \in Range(t) \/ x \in out
    /\ \A x, y \in Messages : Before(t, x, y) => Before(s, x, y) \/ (x \in Range(t) /\ y \in in /\ (x \in Range(s) \/ x # y))
    /\ \A x \in out, y \in Range(t) : Before(s, x, y) \/ y \in in

LEMMA GoesNot == ASSUME NEW s \in Seq(Messages) PROVE Goes(s, s, {}, {})
BY DEF Goes

LEMMA GoesTail == ASSUME NEW s \in Seq(Messages), s # <<>>
                  PROVE  Goes(s, Tail(s), {Head(s)}, {}) /\ Head(s) \in Messages /\ Head(s) \in Range(s)
<1>1. PICK t \in Seq(Messages) : t = Tail(s)
  BY HeadTailProperties
<1>2. /\ Len(s) \in Nat \ {0} /\ DOMAIN s = 1..Len(s) /\ DOMAIN t = 1..(Len(s) - 1)
      /\ Head(s) = s[1] /\ Head(s) \in Messages
      /\ \A j \in 1..(Len(s) - 1) : t[j] = s[j + 1] /\ j + 1 \in 1..Len(s)
  BY <1>1, HeadTailProperties
<1>3. ASSUME NEW j \in 1..Len(s) PROVE s[j] \in Range(t) \/ s[j] = Head(s)
  <2>1. CASE j = 1
    BY <1>2, <2>1
  <2>2. CASE j # 1
    <3>1. j - 1 \in 1..(Len(s) - 1) /\ (j - 1) + 1 = j
      BY <1>2, <2>2
    <3>2. t[j - 1] = s[j]
      BY <1>2, <3>1
    <3> QED BY <1>2, <3>1, <3>2 DEF Range
  <2> QED BY <2>1, <2>2
<1>4. \A x \in Range(t) : x \in Range(s)
  BY <1>2 DEF Range
<1>5. Head(s) \in Range(s)
  BY <1>2 DEF Range
<1>6. ASSUME NEW x \in Messages, NEW y \in Messages, Before(t, x, y) PROVE Before(s, x, y)
  <2>1. PICK i \in 1..(Len(s) - 1), j \in 1..(Len(s) - 1) : i < j /\ t[i] = x /\ t[j] = y
    BY <1>2, <1>6 DEF Before
  <2>2. i + 1 \in 1..Len(s) /\ j + 1 \in 1..Len(s) /\ i + 1 < j + 1 /\ s[i + 1] = x /\ s[j + 1] = y
    BY <1>2, <2>1
  <2> QED BY <1>2, <2>2 DEF Before
<1>7. ASSUME NEW y \in Range(t) PROVE Before(s, Head(s), y)
  <2>1. PICK j \in 1..(Len(s) - 1) : t[j] = y
    BY <1>2 DEF Range
  <2>2. 1 \in 1..Len(s) /\ j + 1 \in 1..Len(s) /\ 1 < j + 1 /\ s[j + 1] = y
    BY <1>2, <2>1
  <2> QED BY <1>2, <2>2 DEF Before
<1>8. \A x \in Range(s) : x \in Range(t) \/ x \in {Head(s)}
  BY <1>2, <1>3 DEF Range
<1> QED BY <1>1, <1>2, <1>4, <1>5, <1>6, <1>7, <1>8 DEF Goes

LEMMA GoesOn ==
    ASSUME NEW s \in Seq(Messages), NEW t, NEW out, NEW in, Goes(s, t, out, in), NEW m \in Messages, m \notin in
    PROVE  Goes(s, Append(t, m), out, in \cup {m})
<1>0. t \in Seq(Messages)
  BY DEF Goes
<1>1. PICK u \in Seq(Messages) : u = Append(t, m)
  BY <1>0, AppendProperties
<1>2. /\ Len(t) \in Nat /\ DOMAIN t = 1..Len(t) /\ DOMAIN u = 1..(Len(t) + 1)
      /\ u[Len(t) + 1] = m /\ Len(t) + 1 \in 1..(Len(t) + 1)
      /\ \A j \in 1..Len(t) : u[j] = t[j] /\ j \in 1..(Len(t) + 1)
  BY <1>0, <1>1, AppendProperties
<1>3. \A j \in 1..(Len(t) + 1) : j \in 1..Len(t) \/ j = Len(t) + 1
  BY <1>2
<1>4. \A x \in Range(u) : x \in Range(t) \/ x = m
  BY <1>2, <1>3 DEF Range
<1>5. (\A x \in Range(t) : x \in Range(u)) /\ m \in Range(u)
  BY <1>2 DEF Range
<1>6. ASSUME NEW x \in Messages, NEW y \in Messages, Before(u, x, y)
      PROVE  Before(s, x, y) \/ (x \in Range(u) /\ y \in in \cup {m} /\ (x \in Range(s) \/ x # y))
  <2>1. PICK i \in 1..(Len(t) + 1), j \in 1..(Len(t) + 1) : i < j /\ u[i] = x /\ u[j] = y
    BY <1>2, <1>6 DEF Before
  <2>2. CASE j = Len(t) + 1
    <3>1. i \in 1..Len(t) /\ x \in Range(t) /\ y = m
      BY <1>2, <2>1, <2>2 DEF Range
    <3>2. x \in Range(s) \/ x # m
      BY <3>1 DEF Goes
    <3> QED BY <1>5, <3>1, <3>2
  <2>3. CASE j # Len(t) + 1
    <3>1. i \in 1..Len(t) /\ j \in 1..Len(t)
      BY <1>2, <2>1, <2>3
    <3>2. Before(t, x, y)
      BY <1>2, <2>1, <3>1 DEF Before
    <3> QED BY <1>5, <3>2 DEF Goes
  <2> QED BY <2>2, <2>3
<1> QED BY <1>1, <1>4, <1>5, <1>6 DEF Goes

LEMMA GoesOut == ASSUME NEW s \in Seq(Messages), NEW m \in Messages PROVE Goes(s, Append(s, m), {}, {m})
<1>1. Goes(s, Append(s, m), {}, {} \cup {m})
  BY GoesNot, GoesOn
<1> QED BY <1>1

(***************************************************************************)
(* Where messages and pages stand                                          *)
(***************************************************************************)
\* The server's room is the pages that are joining or open, only those have anything in
\* their sockets, and a page sends no more than what its member does.
BoardOK ==
    /\ room \in SUBSET Members /\ tab \in [Members -> {"none", "joining", "open", "left"}]
    /\ up \in [Members -> Seq(Messages)] /\ down \in [Members -> Seq(Messages)]
    /\ \A q \in Members : q \in room <=> tab[q] \in {"joining", "open"}
    /\ \A q \in Members \ room : up[q] = <<>> /\ down[q] = <<>>
    /\ \A q \in Members : \A m \in Range(up[q]) : m.kind \in {"stroke", "clear", "doc", "cursor"} /\ m.from = q
    /\ strokes \in [Members -> Seq(Strokes)] /\ doc \in [Members -> Texts]
    /\ roster \in [Members -> SUBSET Members] /\ cursors \in [Members -> SUBSET Members]
    /\ drawn \in SUBSET Strokes /\ synced \in SUBSET Members /\ crossed \in BOOLEAN

\* Sockets that held d hold e: the first of p's went out, what the server relays of sent came in.
Passes(d, e, p, gone, sent) ==
    \A q \in Members : Goes(d[q], e[q], IF q = p THEN gone ELSE {}, {m \in sent : Gets(q, m)})

\* p's page takes h, and the server relays what the page sends.
Delivers(p, h, sent) ==
    /\ down' \in [Members -> Seq(Messages)] /\ h \in Range(down[p]) /\ p \in room
    /\ Passes(down, down', p, {h}, sent)

LEMMA MsgSound ==
    ASSUME NEW what \in MessageKinds, NEW from \in Members \cup {0}, NEW to \in Addresses, NEW data \in Payloads,
           Sound(Msg(what, from, to, data))
    PROVE  Msg(what, from, to, data) \in Messages
BY DEF Msg, Messages

\* One message relayed on top of what went on.
LEMMA RelaysOn ==
    ASSUME NEW d \in [Members -> Seq(Messages)], NEW e \in [Members -> Seq(Messages)], NEW p, NEW gone, NEW sent, NEW m \in Messages,
           Passes(d, e, p, gone, sent), m \notin sent
    PROVE  /\ Relayed(e, m) \in [Members -> Seq(Messages)]
           /\ Passes(d, Relayed(e, m), p, gone, sent \cup {m})
<1>1. PICK f : f = Relayed(e, m)
  OBVIOUS
<1>2. \A q \in Members : f[q] = IF Gets(q, m) THEN Append(e[q], m) ELSE e[q]
  BY <1>1 DEF Relayed
<1>3. f \in [Members -> Seq(Messages)]
  BY <1>1, AppendProperties DEF Relayed
<1>4. ASSUME NEW q \in Members
      PROVE  Goes(d[q], f[q], IF q = p THEN gone ELSE {}, {n \in sent \cup {m} : Gets(q, n)})
  <2>1. PICK o : o = IF q = p THEN gone ELSE {}
    OBVIOUS
  <2>2. Goes(d[q], e[q], o, {n \in sent : Gets(q, n)})
    BY <2>1 DEF Passes
  <2>3. CASE Gets(q, m)
    <3>1. Goes(d[q], Append(e[q], m), o, {n \in sent : Gets(q, n)} \cup {m})
      BY <2>2, GoesOn
    <3>2. {n \in sent : Gets(q, n)} \cup {m} = {n \in sent \cup {m} : Gets(q, n)}
      BY <2>3
    <3> QED BY <1>2, <2>1, <2>3, <3>1, <3>2
  <2>4. CASE ~Gets(q, m)
    <3>1. {n \in sent : Gets(q, n)} = {n \in sent \cup {m} : Gets(q, n)}
      BY <2>4
    <3> QED BY <1>2, <2>1, <2>2, <2>4, <3>1
  <2> QED BY <2>3, <2>4
<1> QED BY <1>1, <1>3, <1>4 DEF Passes

\* p's page has read h: what it does with it, and what it sends.
Reads(p, h, sent) ==
    \/ /\ h.kind = "welcome" /\ Start(p, h.data)
       /\ sent = {Broadcast(p, "hello", {})} \cup {Msg("sync-request", p, to, {}) : to \in {Min(s) : s \in {h.data} \ {{}}}}
    \/ h.kind = "hello" /\ Hello(p, h.from) /\ sent = {Msg("hi", p, h.from, {})}
    \/ h.kind = "hi" /\ Hi(p, h.from) /\ sent = {}
    \/ h.kind = "stroke" /\ Draw(p, Append(strokes[p], h.data)) /\ sent = {}
    \/ h.kind = "clear" /\ Draw(p, <<>>) /\ sent = {}
    \/ h.kind = "doc" /\ Write(p, h.data) /\ sent = {}
    \/ h.kind = "cursor" /\ Point(p, h.from) /\ sent = {}
    \/ h.kind = "sync-request" /\ SyncRequest(p, h.from)
       /\ sent = {Msg("sync-state", p, h.from, [strokes |-> strokes[p], doc |-> doc[p], synced |-> p \in synced])}
    \/ h.kind = "sync-state" /\ SyncState(p, h.data) /\ sent = {}
    \/ h.kind = "peer-left" /\ PeerLeft(p, h.from) /\ sent = {}

LEMMA Delivered ==
    ASSUME BoardOK, NEW p \in Members, down[p] # <<>>
    PROVE  /\ Rest(p) \in [Members -> Seq(Messages)]
           /\ Head(down[p]) \in Messages /\ Head(down[p]) \in Range(down[p]) /\ p \in room
           /\ Passes(down, Rest(p), p, {Head(down[p])}, {})
<1>1. \A q \in Members : Rest(p)[q] = IF q = p THEN Tail(down[q]) ELSE down[q]
  BY DEF Rest, BoardOK
<1>2. down[p] \in Seq(Messages) /\ p \in room
  BY DEF BoardOK
<1>3. Goes(down[p], Tail(down[p]), {Head(down[p])}, {}) /\ Head(down[p]) \in Messages /\ Head(down[p]) \in Range(down[p])
  BY <1>2, GoesTail
<1>4. Rest(p) \in [Members -> Seq(Messages)]
  BY <1>1, <1>3 DEF Rest, BoardOK, Goes
<1>5. ASSUME NEW q \in Members
      PROVE  Goes(down[q], Rest(p)[q], IF q = p THEN {Head(down[p])} ELSE {}, {n \in {} : Gets(q, n)})
  <2>1. {n \in {} : Gets(q, n)} = {}
    OBVIOUS
  <2>2. CASE q = p
    BY <1>1, <1>3, <2>1, <2>2
  <2>3. CASE q # p
    <3>1. Goes(down[q], down[q], {}, {})
      BY GoesNot DEF BoardOK
    <3> QED BY <1>1, <2>1, <2>3, <3>1
  <2> QED BY <2>2, <2>3
<1> QED BY <1>2, <1>3, <1>4, <1>5 DEF Passes

LEMMA DeliversNothing ==
    ASSUME BoardOK, NEW p \in Members, down[p] # <<>>, NoReply(p)
    PROVE  Delivers(p, Head(down[p]), {})
BY Delivered DEF Delivers, NoReply

LEMMA DeliversOne ==
    ASSUME BoardOK, NEW p \in Members, down[p] # <<>>, NEW m \in Messages, down' = Relayed(Rest(p), m)
    PROVE  Delivers(p, Head(down[p]), {m})
<1>1. PICK e : e = Rest(p)
  OBVIOUS
<1>2. PICK gone : gone = {Head(down[p])}
  OBVIOUS
<1>3. e \in [Members -> Seq(Messages)] /\ Passes(down, e, p, gone, {})
  BY <1>1, <1>2, Delivered
<1>4. /\ Relayed(e, m) \in [Members -> Seq(Messages)]
      /\ Passes(down, Relayed(e, m), p, gone, {} \cup {m})
  <2>1. down \in [Members -> Seq(Messages)] /\ m \notin {}
    BY DEF BoardOK
  <2> QED BY <1>3, <2>1, RelaysOn
<1>5. {} \cup {m} = {m} /\ down' = Relayed(e, m)
  BY <1>1
<1> QED BY <1>2, <1>4, <1>5, Delivered DEF Delivers

LEMMA DeliversTwo ==
    ASSUME BoardOK, NEW p \in Members, down[p] # <<>>, NEW m \in Messages, NEW n \in Messages, m # n,
           down' = Relayed(Relayed(Rest(p), m), n)
    PROVE  Delivers(p, Head(down[p]), {m, n})
<1>1. PICK e : e = Rest(p)
  OBVIOUS
<1>2. PICK gone : gone = {Head(down[p])}
  OBVIOUS
<1>3. e \in [Members -> Seq(Messages)] /\ Passes(down, e, p, gone, {})
  BY <1>1, <1>2, Delivered
<1>4. down \in [Members -> Seq(Messages)] /\ m \notin {} /\ n \notin {} \cup {m}
  BY DEF BoardOK
<1>5. PICK f : f = Relayed(e, m)
  OBVIOUS
<1>6. /\ f \in [Members -> Seq(Messages)]
      /\ Passes(down, f, p, gone, {} \cup {m})
  BY <1>3, <1>4, <1>5, RelaysOn
<1>7. /\ Relayed(f, n) \in [Members -> Seq(Messages)]
      /\ Passes(down, Relayed(f, n), p, gone, ({} \cup {m}) \cup {n})
  BY <1>4, <1>6, RelaysOn
<1>8. ({} \cup {m}) \cup {n} = {m, n} /\ down' = Relayed(f, n)
  BY <1>1, <1>5
<1> QED BY <1>2, <1>7, <1>8, Delivered DEF Delivers

LEMMA Received ==
    ASSUME BoardOK, NEW p \in Members, Receive(p)
    PROVE  \E h \in Messages, sent \in SUBSET Messages : Delivers(p, h, sent) /\ Reads(p, h, sent)
<1> DEFINE h == Head(down[p])
<1>1. down[p] # <<>> /\ h \in Messages /\ h \in Range(down[p]) /\ p \in room
  BY Delivered DEF Receive
<1>2. Sound(h) /\ h \in [kind : MessageKinds, from : Members \cup {0}, to : Addresses, data : Payloads]
  BY <1>1 DEF Messages
<1>3. {} \in Payloads /\ 0 \in Addresses /\ \A q \in Members : q \in Addresses /\ q \in Members \cup {0}
  BY DEF Payloads, Addresses
<1> HIDE DEF h
<1>4. CASE h.kind = "welcome" /\ Start(p, h.data)
  <2> DEFINE hello == Broadcast(p, "hello", {})  ask == Msg("sync-request", p, Min(h.data), {})
  <2>1. h.data \in SUBSET Members
    BY <1>2, <1>4 DEF Sound
  <2>2. hello \in Messages
    <3>1. Sound(Msg("hello", p, 0, {}))
      BY DEF Sound, Msg
    <3> QED BY <1>3, <3>1, MsgSound DEF Broadcast, MessageKinds
  <2>3. ask \in Messages
    <3>1. Min(h.data) \in Addresses
      BY <2>1 DEF Addresses
    <3>2. Sound(Msg("sync-request", p, Min(h.data), {}))
      BY DEF Sound, Msg
    <3> QED BY <1>3, <3>1, <3>2, MsgSound DEF MessageKinds
  <2>4. CASE h.data = {}
    <3>1. down' = Relayed(Rest(p), hello)
      BY <1>4, <2>4 DEF Start
    <3>2. Delivers(p, Head(down[p]), {hello})
      BY <1>1, <2>2, <3>1, DeliversOne
    <3>3. {hello} = {Broadcast(p, "hello", {})} \cup {Msg("sync-request", p, to, {}) : to \in {Min(s) : s \in {h.data} \ {{}}}}
      BY <2>4
    <3>4. Reads(p, h, {hello})
      BY <1>4, <3>3 DEF Reads
    <3> QED BY <1>1, <2>2, <3>2, <3>4 DEF h
  <2>5. CASE h.data # {}
    <3>1. down' = Relayed(Relayed(Rest(p), hello), ask)
      BY <1>4, <2>5 DEF Start
    <3>0. hello # ask
      BY DEF Broadcast, Msg
    <3>2. Delivers(p, Head(down[p]), {hello, ask})
      BY <1>1, <2>2, <2>3, <3>0, <3>1, DeliversTwo
    <3>3. {hello, ask} = {Broadcast(p, "hello", {})} \cup {Msg("sync-request", p, to, {}) : to \in {Min(s) : s \in {h.data} \ {{}}}}
      BY <2>5
    <3>4. Reads(p, h, {hello, ask})
      BY <1>4, <3>3 DEF Reads
    <3>5. {hello, ask} \in SUBSET Messages
      BY <2>2, <2>3
    <3> QED BY <1>1, <3>2, <3>4, <3>5 DEF h
  <2> QED BY <2>4, <2>5
<1>5. CASE h.kind = "hello" /\ Hello(p, h.from)
  <2> DEFINE m == Msg("hi", p, h.from, {})
  <2>1. m \in Messages
    <3>1. h.from \in Members
      BY <1>2, <1>5 DEF Sound
    <3>2. Sound(m)
      BY DEF Sound, Msg
    <3> QED BY <1>3, <3>1, <3>2, MsgSound DEF MessageKinds
  <2>2. Delivers(p, Head(down[p]), {m})
    BY <1>1, <1>5, <2>1, DeliversOne DEF Hello, Reply
  <2>3. Reads(p, h, {m})
    BY <1>5 DEF Reads
  <2> QED BY <1>1, <2>1, <2>2, <2>3 DEF h
<1>6. CASE h.kind = "sync-request" /\ SyncRequest(p, h.from)
  <2> DEFINE board == [strokes |-> strokes[p], doc |-> doc[p], synced |-> p \in synced]
             m == Msg("sync-state", p, h.from, board)
  <2>1. board \in Answers
    <3>0. \E b \in BOOLEAN : b = (p \in synced)
      <4>1. CASE p \in synced
        <5>1. TRUE = (p \in synced)
          BY <4>1
        <5> QED BY <5>1
      <4>2. CASE p \notin synced
        <5>1. FALSE = (p \in synced)
          BY <4>2
        <5> QED BY <5>1
      <4> QED BY <4>1, <4>2
    <3>1. PICK b \in BOOLEAN : b = (p \in synced)
      BY <3>0
    <3>2. strokes[p] \in Seq(Strokes) /\ doc[p] \in Texts
      BY DEF BoardOK
    <3>3. [strokes |-> strokes[p], doc |-> doc[p], synced |-> b] \in Answers
      BY <3>2 DEF Answers
    <3> QED BY <3>1, <3>3
  <2> HIDE DEF board
  <2>2. m \in Messages
    <3>1. h.from \in Members /\ board \in Payloads
      BY <1>2, <1>6, <2>1 DEF Sound, Payloads
    <3>2. Sound(Msg("sync-state", p, h.from, board))
      BY <2>1 DEF Sound, Msg
    <3> QED BY <1>3, <3>1, <3>2, MsgSound DEF MessageKinds
  <2>3. Delivers(p, Head(down[p]), {m})
    BY <1>1, <1>6, <2>2, DeliversOne DEF SyncRequest, Reply, board
  <2>4. Reads(p, h, {m})
    BY <1>6 DEF Reads, board
  <2> QED BY <1>1, <2>2, <2>3, <2>4 DEF h
<1>7. ASSUME NoReply(p), Reads(p, h, {})
      PROVE  \E k \in Messages, sent \in SUBSET Messages : Delivers(p, k, sent) /\ Reads(p, k, sent)
  <2>1. Delivers(p, h, {})
    BY <1>1, <1>7, DeliversNothing DEF h
  <2> QED BY <1>1, <1>7, <2>1
<1>8. CASE h.kind = "hi" /\ Hi(p, h.from)
  BY <1>7, <1>8 DEF Hi, Reads
<1>9. CASE h.kind = "stroke" /\ Draw(p, Append(strokes[p], h.data))
  BY <1>7, <1>9 DEF Draw, Reads
<1>10. CASE h.kind = "clear" /\ Draw(p, <<>>)
  BY <1>7, <1>10 DEF Draw, Reads
<1>11. CASE h.kind = "doc" /\ Write(p, h.data)
  BY <1>7, <1>11 DEF Write, Reads
<1>12. CASE h.kind = "cursor" /\ Point(p, h.from)
  BY <1>7, <1>12 DEF Point, Reads
<1>13. CASE h.kind = "sync-state" /\ SyncState(p, h.data)
  BY <1>7, <1>13 DEF SyncState, Reads
<1>14. CASE h.kind = "peer-left" /\ PeerLeft(p, h.from)
  BY <1>7, <1>14 DEF PeerLeft, Reads
<1> QED BY <1>4, <1>5, <1>6, <1>8, <1>9, <1>10, <1>11, <1>12, <1>13, <1>14 DEF Receive, h

\* p joins, and is welcomed; p leaves, and the others are told; the server relays p's first
\* message; p's member does what m tells.
Welcomed(p) ==
    /\ down' \in [Members -> Seq(Messages)] /\ p \notin room /\ tab[p] = "none"
    /\ Range(down[p]) = {} /\ Range(down'[p]) = {Msg("welcome", 0, p, room)}
    /\ Msg("welcome", 0, p, room) \in Messages
    /\ \A q \in Members : Goes(down[q], down'[q], {}, IF q = p THEN {Msg("welcome", 0, p, room)} ELSE {})
Announced(p) ==
    /\ down' \in [Members -> Seq(Messages)] /\ up' \in [Members -> Seq(Messages)]
    /\ down'[p] = <<>> /\ up'[p] = <<>>
    /\ \A q \in Members \ {p} :
         /\ Msg("peer-left", p, q, {}) \in Messages /\ up'[q] = up[q]
         /\ Goes(down[q], down'[q], {}, IF q \in room THEN {Msg("peer-left", p, q, {})} ELSE {})
Relays(p, m) ==
    /\ down' \in [Members -> Seq(Messages)] /\ up' \in [Members -> Seq(Messages)]
    /\ m \in Messages /\ m \in Range(up[p]) /\ p \in room
    /\ Passes(down, down', p, {}, {m})
    /\ Goes(up[p], up'[p], {m}, {}) /\ \A q \in Members \ {p} : up'[q] = up[q]
Speaks(p, m) ==
    /\ up' \in [Members -> Seq(Messages)] /\ m \in Messages /\ m.from = p /\ p \in room
    /\ Goes(up[p], up'[p], {}, {m}) /\ \A q \in Members \ {p} : up'[q] = up[q]

LEMMA EmptyRange == Range(<<>>) = {} /\ <<>> \in Seq(Messages)
BY DEF Range

LEMMA HasJoined == ASSUME BoardOK, NEW p \in Members, JoinBoard(p) PROVE Welcomed(p)
<1> DEFINE m == Msg("welcome", 0, p, room)
<1>1. m \in Messages
  <2>1. Sound(m)
    BY DEF Sound, Msg, BoardOK
  <2>2. room \in Payloads /\ p \in Addresses
    BY DEF Payloads, Addresses, BoardOK
  <2> QED BY <2>1, <2>2, MsgSound DEF MessageKinds
<1>2. p \notin room /\ down[p] = <<>> /\ tab[p] = "none"
  BY DEF BoardOK, JoinBoard
<1> HIDE DEF m
<1>3. Append(<<>>, m) = <<m>> /\ <<m>> \in Seq(Messages) /\ Range(<<m>>) = {m}
  BY <1>1 DEF Range
<1>4. \A q \in Members : down'[q] = IF q = p THEN <<m>> ELSE down[q]
  BY DEF JoinBoard, m, BoardOK
<1>5. down' = [down EXCEPT ![p] = <<m>>]
  BY DEF JoinBoard, m
<1>6. down' \in [Members -> Seq(Messages)]
  BY <1>3, <1>5 DEF BoardOK
<1>7. Goes(<<>>, <<m>>, {}, {m})
  BY <1>1, <1>3, EmptyRange, GoesOut
<1>8. ASSUME NEW q \in Members PROVE Goes(down[q], down'[q], {}, IF q = p THEN {m} ELSE {})
  <2>1. CASE q = p
    BY <1>2, <1>4, <1>7, <2>1
  <2>2. CASE q # p
    <3>1. Goes(down[q], down[q], {}, {})
      BY GoesNot DEF BoardOK
    <3> QED BY <1>4, <2>2, <3>1
  <2> QED BY <2>1, <2>2
<1>9. Range(down[p]) = {} /\ Range(down'[p]) = {m}
  BY <1>2, <1>3, <1>4, EmptyRange
<1> QED BY <1>1, <1>2, <1>6, <1>8, <1>9 DEF Welcomed, m

LEMMA HasLeft == ASSUME BoardOK, NEW p \in Members, LeaveBoard(p) PROVE Announced(p)
<1>1. ASSUME NEW q \in Members PROVE Msg("peer-left", p, q, {}) \in Messages
  <2>1. Sound(Msg("peer-left", p, q, {}))
    BY DEF Sound, Msg
  <2>2. {} \in Payloads /\ q \in Addresses
    BY DEF Payloads, Addresses
  <2> QED BY <2>1, <2>2, MsgSound DEF MessageKinds
<1>2. \A q \in Members : down'[q] = IF q = p THEN <<>>
                                    ELSE IF q \in room THEN Append(down[q], Msg("peer-left", p, q, {})) ELSE down[q]
  BY DEF LeaveBoard
<1>3. \A q \in Members : down[q] \in Seq(Messages) /\ up[q] \in Seq(Messages)
  BY DEF BoardOK
<1>4. ASSUME NEW q \in Members \ {p}
      PROVE  Goes(down[q], down'[q], {}, IF q \in room THEN {Msg("peer-left", p, q, {})} ELSE {})
  <2>1. Goes(down[q], down[q], {}, {}) /\ Goes(down[q], Append(down[q], Msg("peer-left", p, q, {})), {}, {Msg("peer-left", p, q, {})})
    BY <1>1, <1>3, GoesNot, GoesOut
  <2>2. CASE q \in room
    BY <1>2, <2>1, <2>2
  <2>3. CASE q \notin room
    BY <1>2, <2>1, <2>3
  <2> QED BY <2>2, <2>3
<1>5. \A q \in Members : down'[q] \in Seq(Messages)
  BY <1>2, <1>4, EmptyRange DEF Goes
<1>6. down' \in [Members -> Seq(Messages)]
  BY <1>5 DEF LeaveBoard
<1>7. up' \in [Members -> Seq(Messages)] /\ up'[p] = <<>> /\ \A q \in Members \ {p} : up'[q] = up[q]
  BY EmptyRange DEF LeaveBoard, BoardOK
<1> QED BY <1>1, <1>2, <1>4, <1>6, <1>7 DEF Announced

LEMMA HasRelayed == ASSUME BoardOK, NEW p \in Members, Relay(p) PROVE Relays(p, Head(up[p]))
<1> DEFINE m == Head(up[p])
<1>1. up[p] \in Seq(Messages) /\ up[p] # <<>> /\ p \in room
  BY DEF Relay, BoardOK
<1>2. Goes(up[p], Tail(up[p]), {m}, {}) /\ m \in Messages /\ m \in Range(up[p])
  BY <1>1, GoesTail
<1> HIDE DEF m
<1>3. up' \in [Members -> Seq(Messages)] /\ up'[p] = Tail(up[p]) /\ \A q \in Members \ {p} : up'[q] = up[q]
  BY <1>1, <1>2 DEF Relay, BoardOK, Goes
<1>4. Passes(down, down, p, {}, {})
  <2>1. ASSUME NEW q \in Members PROVE Goes(down[q], down[q], IF q = p THEN {} ELSE {}, {n \in {} : Gets(q, n)})
    <3>1. (IF q = p THEN {} ELSE {}) = {} /\ {n \in {} : Gets(q, n)} = {}
      OBVIOUS
    <3>2. Goes(down[q], down[q], {}, {})
      BY GoesNot DEF BoardOK
    <3> QED BY <3>1, <3>2
  <2> QED BY <2>1 DEF Passes
<1>5. down \in [Members -> Seq(Messages)] /\ down' = Relayed(down, m) /\ m \notin {}
  BY DEF BoardOK, Relay, m
<1>6. Relayed(down, m) \in [Members -> Seq(Messages)] /\ Passes(down, Relayed(down, m), p, {}, {} \cup {m})
  BY <1>2, <1>4, <1>5, RelaysOn
<1>7. {} \cup {m} = {m}
  OBVIOUS
<1> QED BY <1>1, <1>2, <1>3, <1>5, <1>6, <1>7 DEF Relays, m

LEMMA HasSpoken ==
    ASSUME BoardOK, NEW p \in Members, NEW what \in Broadcasts, NEW data, Do(p, what, data),
           data \in Payloads, Sound(Broadcast(p, what, data))
    PROVE  Speaks(p, Broadcast(p, what, data))
<1>1. Broadcast(p, what, data) \in Messages
  <2>1. what \in MessageKinds /\ 0 \in Addresses
    BY DEF Broadcasts, MessageKinds, Addresses
  <2> QED BY <2>1, MsgSound DEF Broadcast
<1>2. PICK m : m = Broadcast(p, what, data)
  OBVIOUS
<1>3. m \in Messages /\ m.from = p
  BY <1>1, <1>2 DEF Broadcast, Msg
<1>4. p \in room /\ up[p] \in Seq(Messages) /\ up' = [up EXCEPT ![p] = Append(@, m)]
  BY <1>2 DEF Do, BoardOK
<1>5. Goes(up[p], Append(up[p], m), {}, {m})
  BY <1>3, <1>4, GoesOut
<1>6. up' \in [Members -> Seq(Messages)] /\ up'[p] = Append(up[p], m) /\ \A q \in Members \ {p} : up'[q] = up[q]
  BY <1>4, <1>5 DEF BoardOK, Goes
<1> QED BY <1>2, <1>3, <1>4, <1>5, <1>6 DEF Speaks

LEMMA StaysEmpty == ASSUME NEW t, Goes(<<>>, t, {}, {}) PROVE t = <<>>
<1>1. t \in Seq(Messages) /\ \A x \in Range(t) : x \in Range(<<>>)
  BY DEF Goes
<1>2. Len(t) \in Nat /\ DOMAIN t = 1..Len(t)
  BY <1>1
<1>3. ASSUME t # <<>> PROVE FALSE
  <2>1. 1 \in DOMAIN t
    BY <1>1, <1>2, <1>3
  <2>2. t[1] \in Range(t)
    BY <2>1 DEF Range
  <2> QED BY <1>1, <2>2, EmptyRange
<1> QED BY <1>3

LEMMA OutsideEmpty ==
    ASSUME BoardOK, NEW p \in Members, NEW gone, NEW sent, Passes(down, down', p, gone, sent), p \in room,
           NEW q \in Members \ room
    PROVE  down'[q] = <<>>
<1>1. Goes(down[q], down'[q], IF q = p THEN gone ELSE {}, {m \in sent : Gets(q, m)})
  BY DEF Passes
<1>2. (IF q = p THEN gone ELSE {}) = {} /\ {m \in sent : Gets(q, m)} = {}
  BY DEF Gets
<1>3. down[q] = <<>>
  BY DEF BoardOK
<1> QED BY <1>1, <1>2, <1>3, StaysEmpty

LEMMA BoardOKInit == ASSUME MembersAssumption, BoardInit PROVE BoardOK
<1>1. room \in SUBSET Members /\ tab \in [Members -> {"none", "joining", "open", "left"}]
  BY DEF MembersAssumption, BoardInit
<1>2. up \in [Members -> Seq(Messages)] /\ down \in [Members -> Seq(Messages)]
  BY EmptyRange DEF BoardInit
<1>3. \A q \in Members : q \in room <=> tab[q] \in {"joining", "open"}
  BY DEF BoardInit
<1>4. \A q \in Members : up[q] = <<>> /\ down[q] = <<>> /\ Range(up[q]) = {}
  BY EmptyRange DEF BoardInit
<1>5. strokes \in [Members -> Seq(Strokes)] /\ doc \in [Members -> Texts]
  BY DEF BoardInit, Texts, NoDoc
<1>6. roster \in [Members -> SUBSET Members] /\ cursors \in [Members -> SUBSET Members]
  BY DEF MembersAssumption, BoardInit
<1>7. drawn \in SUBSET Strokes /\ synced \in SUBSET Members /\ crossed \in BOOLEAN
  BY DEF MembersAssumption, BoardInit
<1> QED BY <1>1, <1>2, <1>3, <1>4, <1>5, <1>6, <1>7 DEF BoardOK

LEMMA BoardOKJoin == ASSUME BoardOK, NEW p \in Members, JoinBoard(p) PROVE BoardOK'
<1>1. Welcomed(p)
  BY HasJoined
<1>2. down' \in [Members -> Seq(Messages)] /\ \A q \in Members \ {p} : down'[q] = down[q]
  BY <1>1 DEF Welcomed, JoinBoard, BoardOK
<1>3. room' \in SUBSET Members /\ tab' \in [Members -> {"none", "joining", "open", "left"}]
  BY DEF JoinBoard, BoardOK
<1>4. ASSUME NEW q \in Members PROVE q \in room' <=> tab'[q] \in {"joining", "open"}
  BY DEF JoinBoard, BoardOK
<1>5. \A q \in Members \ room' : up'[q] = <<>> /\ down'[q] = <<>>
  BY <1>2 DEF JoinBoard, BoardOK
<1>6. crossed' \in BOOLEAN
  BY DEF JoinBoard, BoardOK
<1> QED BY <1>2, <1>3, <1>4, <1>5, <1>6 DEF JoinBoard, BoardOK, canvasVars

LEMMA BoardOKLeave == ASSUME BoardOK, NEW p \in Members, LeaveBoard(p) PROVE BoardOK'
<1>1. Announced(p)
  BY HasLeft
<1>2. room' \in SUBSET Members /\ tab' \in [Members -> {"none", "joining", "open", "left"}]
  BY DEF LeaveBoard, BoardOK
<1>3. ASSUME NEW q \in Members PROVE q \in room' <=> tab'[q] \in {"joining", "open"}
  BY DEF LeaveBoard, BoardOK
<1>4. ASSUME NEW q \in Members \ room' PROVE up'[q] = <<>> /\ down'[q] = <<>>
  <2>1. CASE q = p
    BY <1>1, <2>1 DEF Announced
  <2>2. CASE q # p
    BY <2>2 DEF LeaveBoard, BoardOK
  <2> QED BY <2>1, <2>2
<1>5. ASSUME NEW q \in Members, NEW m \in Range(up'[q]) PROVE m.kind \in {"stroke", "clear", "doc", "cursor"} /\ m.from = q
  <2>1. CASE q = p
    BY <1>1, <1>5, <2>1, EmptyRange DEF Announced
  <2>2. CASE q # p
    BY <1>1, <1>5, <2>2 DEF Announced, BoardOK
  <2> QED BY <2>1, <2>2
<1> QED BY <1>1, <1>2, <1>3, <1>4, <1>5 DEF LeaveBoard, BoardOK, canvasVars, Announced

LEMMA BoardOKRelay == ASSUME BoardOK, NEW p \in Members, Relay(p) PROVE BoardOK'
<1>1. PICK m : Relays(p, m)
  BY HasRelayed
<1>2. UNCHANGED <<room, tab, canvasVars, historyVars>>
  BY DEF Relay
<1>3. \A q \in Members \ room' : up'[q] = <<>> /\ down'[q] = <<>>
  BY <1>1, <1>2, OutsideEmpty DEF Relays, BoardOK
<1>4. ASSUME NEW q \in Members, NEW n \in Range(up'[q]) PROVE n.kind \in {"stroke", "clear", "doc", "cursor"} /\ n.from = q
  <2>1. CASE q = p
    BY <1>1, <1>4, <2>1 DEF Relays, Goes, BoardOK
  <2>2. CASE q # p
    BY <1>1, <1>4, <2>2 DEF Relays, BoardOK
  <2> QED BY <2>1, <2>2
<1>5. up' \in [Members -> Seq(Messages)] /\ down' \in [Members -> Seq(Messages)]
  BY <1>1 DEF Relays
<1> QED BY <1>2, <1>3, <1>4, <1>5 DEF BoardOK, canvasVars, historyVars

\* What p's member does leaves the room and the sockets to the pages alone.
LEMMA BoardOKSpeak ==
    ASSUME BoardOK, NEW p \in Members, NEW m, Speaks(p, m), m.kind \in {"stroke", "clear", "doc", "cursor"},
           UNCHANGED <<room, tab, down, roster, cursors, synced>>,
           strokes' \in [Members -> Seq(Strokes)], doc' \in [Members -> Texts], drawn' \in SUBSET Strokes, crossed' \in BOOLEAN
    PROVE  BoardOK'
<1>1. \A q \in Members \ room' : up'[q] = <<>> /\ down'[q] = <<>>
  BY DEF Speaks, BoardOK
<1>2. ASSUME NEW q \in Members, NEW n \in Range(up'[q]) PROVE n.kind \in {"stroke", "clear", "doc", "cursor"} /\ n.from = q
  <2>1. CASE q = p
    BY <1>2, <2>1 DEF Speaks, Goes, BoardOK
  <2>2. CASE q # p
    BY <1>2, <2>2 DEF Speaks, BoardOK
  <2> QED BY <2>1, <2>2
<1> QED BY <1>1, <1>2 DEF BoardOK, Speaks

LEMMA StrokeSpoken == ASSUME BoardOK, NEW p \in Members, NEW s \in Strokes, AddStroke(p, s) PROVE Speaks(p, Broadcast(p, "stroke", s))
<1>1. s \in Payloads /\ Sound(Broadcast(p, "stroke", s))
  BY DEF Payloads, Sound, Broadcast, Msg
<1> QED BY <1>1, HasSpoken DEF AddStroke, Broadcasts
LEMMA ClearSpoken == ASSUME BoardOK, NEW p \in Members, Clear(p) PROVE Speaks(p, Broadcast(p, "clear", {}))
<1>1. {} \in Payloads /\ Sound(Broadcast(p, "clear", {}))
  BY DEF Payloads, Sound, Broadcast, Msg
<1> QED BY <1>1, HasSpoken DEF Clear, Broadcasts
LEMMA DocSpoken ==
    ASSUME BoardOK, NEW p \in Members, SetDoc(p)
    PROVE  \E d \in Texts : /\ d = [version |-> doc[p].version + 1, author |-> p] /\ doc' = [doc EXCEPT ![p] = d]
                            /\ Speaks(p, Broadcast(p, "doc", d))
<1>1. PICK d : d = [version |-> doc[p].version + 1, author |-> p]
  OBVIOUS
<1>2. d \in Texts
  <2>1. doc[p].version \in Nat
    BY DEF BoardOK, Texts
  <2> QED BY <1>1, <2>1 DEF Texts
<1>3. doc' = [doc EXCEPT ![p] = d] /\ Do(p, "doc", d)
  BY <1>1 DEF SetDoc
<1>4. d \in Payloads /\ Sound(Broadcast(p, "doc", d))
  BY <1>2 DEF Payloads, Sound, Broadcast, Msg
<1> QED BY <1>1, <1>2, <1>3, <1>4, HasSpoken DEF Broadcasts
LEMMA CursorSpoken == ASSUME BoardOK, NEW p \in Members, MoveCursor(p) PROVE Speaks(p, Broadcast(p, "cursor", {}))
<1>1. {} \in Payloads /\ Sound(Broadcast(p, "cursor", {}))
  BY DEF Payloads, Sound, Broadcast, Msg
<1> QED BY <1>1, HasSpoken DEF MoveCursor, Broadcasts

LEMMA BoardOKDo ==
    ASSUME BoardOK, NEW p \in Members, Clear(p) \/ SetDoc(p) \/ MoveCursor(p) \/ \E s \in Strokes : AddStroke(p, s)
    PROVE  BoardOK'
<1>1. CASE Clear(p)
  <2>1. Speaks(p, Broadcast(p, "clear", {})) /\ Broadcast(p, "clear", {}).kind = "clear"
    BY <1>1, ClearSpoken DEF Broadcast, Msg
  <2>2. strokes' \in [Members -> Seq(Strokes)] /\ crossed' \in BOOLEAN
    BY <1>1 DEF Clear, BoardOK
  <2>3. UNCHANGED <<room, tab, down, roster, cursors, synced, doc, drawn>>
    BY <1>1 DEF Clear
  <2> QED BY <2>1, <2>2, <2>3, BoardOKSpeak DEF BoardOK
<1>2. CASE SetDoc(p)
  <2>1. PICK d \in Texts : doc' = [doc EXCEPT ![p] = d] /\ Speaks(p, Broadcast(p, "doc", d))
    BY <1>2, DocSpoken
  <2>2. Broadcast(p, "doc", d).kind = "doc"
    BY DEF Broadcast, Msg
  <2>3. UNCHANGED <<room, tab, down, roster, cursors, synced, strokes, drawn, crossed>> /\ doc' \in [Members -> Texts]
    BY <1>2, <2>1 DEF SetDoc, BoardOK
  <2> QED BY <2>1, <2>2, <2>3, BoardOKSpeak DEF BoardOK
<1>3. CASE MoveCursor(p)
  <2>1. Speaks(p, Broadcast(p, "cursor", {})) /\ Broadcast(p, "cursor", {}).kind = "cursor"
    BY <1>3, CursorSpoken DEF Broadcast, Msg
  <2>2. UNCHANGED <<room, tab, down, roster, cursors, synced, strokes, drawn, crossed, doc>>
    BY <1>3 DEF MoveCursor, canvasVars
  <2> QED BY <2>1, <2>2, BoardOKSpeak DEF BoardOK
<1>4. ASSUME NEW s \in Strokes, AddStroke(p, s) PROVE BoardOK'
  <2>1. Speaks(p, Broadcast(p, "stroke", s)) /\ Broadcast(p, "stroke", s).kind = "stroke"
    BY <1>4, StrokeSpoken DEF Broadcast, Msg
  <2>2. UNCHANGED <<room, tab, down, roster, cursors, synced, doc>> /\ drawn' \in SUBSET Strokes /\ crossed' \in BOOLEAN
    BY <1>4 DEF AddStroke, BoardOK
  <2>3. strokes' \in [Members -> Seq(Strokes)]
    <3>1. Append(strokes[p], s) \in Seq(Strokes)
      BY DEF BoardOK
    <3> QED BY <1>4, <3>1 DEF AddStroke, BoardOK
  <2> QED BY <2>1, <2>2, <2>3, BoardOKSpeak DEF BoardOK
<1> QED BY <1>1, <1>2, <1>3, <1>4

LEMMA BoardOKReceive == ASSUME BoardOK, NEW p \in Members, Receive(p) PROVE BoardOK'
<1>1. PICK h \in Messages, sent \in SUBSET Messages : Delivers(p, h, sent) /\ Reads(p, h, sent)
  BY Received
<1>2. UNCHANGED <<room, up, drawn>>
  BY DEF Receive
<1>3. \A q \in Members \ room' : up'[q] = <<>> /\ down'[q] = <<>>
  BY <1>1, <1>2, OutsideEmpty DEF Delivers, BoardOK
<1>4. down' \in [Members -> Seq(Messages)] /\ p \in room
  BY <1>1 DEF Delivers
<1>5. ASSUME tab' \in [Members -> {"none", "joining", "open", "left"}], \A q \in Members : q \in room <=> tab'[q] \in {"joining", "open"},
             strokes' \in [Members -> Seq(Strokes)], doc' \in [Members -> Texts],
             roster' \in [Members -> SUBSET Members], cursors' \in [Members -> SUBSET Members],
             synced' \in SUBSET Members, crossed' = crossed
      PROVE  BoardOK'
  BY <1>2, <1>3, <1>4, <1>5 DEF BoardOK
<1>6. /\ tab \in [Members -> {"none", "joining", "open", "left"}] /\ \A q \in Members : q \in room <=> tab[q] \in {"joining", "open"}
      /\ strokes \in [Members -> Seq(Strokes)] /\ doc \in [Members -> Texts]
      /\ roster \in [Members -> SUBSET Members] /\ cursors \in [Members -> SUBSET Members] /\ synced \in SUBSET Members
  BY DEF BoardOK
<1>7. Sound(h) /\ h.from \in Members \cup {0}
  BY DEF Messages
<1>8. CASE h.kind = "welcome" /\ Start(p, h.data)
  <2>1. tab' = [tab EXCEPT ![p] = "open"] /\ UNCHANGED <<strokes, doc, roster, cursors, crossed>> /\ synced' \in SUBSET Members
    BY <1>6, <1>8 DEF Start, canvasVars
  <2>2. tab' \in [Members -> {"none", "joining", "open", "left"}] /\ \A q \in Members : q \in room <=> tab'[q] \in {"joining", "open"}
    BY <1>4, <1>6, <2>1
  <2> QED BY <1>5, <1>6, <2>1, <2>2
<1>9. CASE h.kind = "hello" /\ Hello(p, h.from)
  <2>1. h.from \in Members
    BY <1>7, <1>9 DEF Sound
  <2> QED BY <1>5, <1>6, <1>9, <2>1 DEF Hello
<1>10. CASE h.kind = "hi" /\ Hi(p, h.from)
  <2>1. h.from \in Members
    BY <1>7, <1>10 DEF Sound
  <2> QED BY <1>5, <1>6, <1>10, <2>1 DEF Hi
<1>11. CASE h.kind = "stroke" /\ Draw(p, Append(strokes[p], h.data))
  <2>1. h.data \in Strokes
    BY <1>7, <1>11 DEF Sound
  <2>2. Append(strokes[p], h.data) \in Seq(Strokes)
    BY <1>6, <2>1
  <2> QED BY <1>5, <1>6, <1>11, <2>2 DEF Draw
<1>12. CASE h.kind = "clear" /\ Draw(p, <<>>)
  BY <1>5, <1>6, <1>12 DEF Draw
<1>13. CASE h.kind = "doc" /\ Write(p, h.data)
  <2>1. h.data \in Texts
    BY <1>7, <1>13 DEF Sound
  <2>2. doc' \in [Members -> Texts]
    BY <1>6, <1>13, <2>1 DEF Write
  <2> QED BY <1>5, <1>6, <1>13, <2>2 DEF Write
<1>14. CASE h.kind = "cursor" /\ Point(p, h.from)
  <2>1. h.from \in Members
    BY <1>7, <1>14 DEF Sound
  <2> QED BY <1>5, <1>6, <1>14, <2>1 DEF Point
<1>15. CASE h.kind = "sync-request" /\ SyncRequest(p, h.from)
  BY <1>5, <1>6, <1>15 DEF SyncRequest, canvasVars
<1>16. CASE h.kind = "sync-state" /\ SyncState(p, h.data)
  <2>1. h.data.strokes \in Seq(Strokes) /\ h.data.doc \in Texts
    BY <1>7, <1>16 DEF Sound, Answers
  <2>2. doc' \in [Members -> Texts] /\ strokes' \in [Members -> Seq(Strokes)] /\ synced' \in SUBSET Members
    BY <1>6, <1>16, <2>1 DEF SyncState
  <2> QED BY <1>5, <1>6, <1>16, <2>2 DEF SyncState
<1>17. CASE h.kind = "peer-left" /\ PeerLeft(p, h.from)
  BY <1>5, <1>6, <1>17 DEF PeerLeft
<1> QED BY <1>1, <1>8, <1>9, <1>10, <1>11, <1>12, <1>13, <1>14, <1>15, <1>16, <1>17 DEF Reads

LEMMA BoardOKStep == ASSUME BoardOK, [BoardNext]_boardVars PROVE BoardOK'
<1>1. CASE UNCHANGED boardVars
  BY <1>1 DEF boardVars, canvasVars, historyVars, BoardOK
<1>2. CASE BoardNext
  BY <1>2, BoardOKJoin, BoardOKLeave, BoardOKRelay, BoardOKDo, BoardOKReceive DEF BoardNext
<1> QED BY <1>1, <1>2

(***************************************************************************)
(* Presence                                                                *)
(***************************************************************************)
\* m makes its receiver show q; p shows q or is about to hear of it.
About(m, q) == m.kind \in {"hello", "hi", "cursor"} /\ m.from = q
Told(p, q) ==
    \/ q \in roster[p] \/ tab[p] = "joining" \/ tab[q] = "joining"
    \/ \E m \in Range(down[p]) : m.kind \in {"hello", "hi"} /\ m.from = q
    \/ \E m \in Range(down[q]) : m.kind = "hello" /\ m.from = p
Shows(p, q) == q \in roster[p] \/ q \in cursors[p] \/ \E m \in Range(down[p]) : About(m, q)

\* Two members know of each other as soon as both have started; who shows somebody that has
\* left is about to hear it, and hears no more of it after.
PresenceInv ==
    /\ \A p \in Members : tab[p] = "joining" => \E m \in Range(down[p]) : m.kind = "welcome"
    /\ \A p \in Members : tab[p] = "none" => roster[p] = {p} /\ cursors[p] = {}
    /\ \A p \in room : p \in roster[p] /\ p \notin cursors[p] /\ \A m \in Range(down[p]) : ~About(m, p)
    /\ \A p, q \in room : Told(p, q)
    /\ \A p \in Members : \A m \in Range(down[p]) : m.kind = "peer-left" => tab[m.from] = "left"
    /\ \A p \in room, q \in Members \ room :
         Shows(p, q) => \E m \in Range(down[p]) : m.kind = "peer-left" /\ m.from = q
    /\ \A p \in Members : \A m, n \in Messages : Before(down[p], m, n) /\ m.kind = "peer-left" => ~About(n, m.from)

LEMMA BeforeIn == ASSUME NEW s \in Seq(Messages), NEW x, NEW y, Before(s, x, y)
                  PROVE  x \in Range(s) /\ y \in Range(s) /\ x \in Messages /\ y \in Messages
BY DEF Before, Range

LEMMA RangeIn == ASSUME NEW s \in Seq(Messages), NEW x \in Range(s) PROVE x \in Messages
BY DEF Range
LEMMA FromMember == ASSUME NEW m \in Messages, m.kind # "welcome" PROVE m.from \in Members
BY DEF Messages, Sound

\* What the sockets hold after messages went.
LEMMA Passed ==
    ASSUME BoardOK, NEW p \in Members, NEW gone, NEW sent, Passes(down, down', p, gone, sent),
           down' \in [Members -> Seq(Messages)], NEW q \in Members
    PROVE  /\ \A x \in Range(down'[q]) : x \in Messages /\ (x \in Range(down[q]) \/ (x \in sent /\ Gets(q, x)))
           /\ \A x \in Range(down[q]) : x \in Messages /\ (x \in Range(down'[q]) \/ (q = p /\ x \in gone))
           /\ \A x \in sent : Gets(q, x) => x \in Range(down'[q])
           /\ \A x, y \in Messages : Before(down'[q], x, y) => 
              Before(down[q], x, y) \/ (x \in Range(down'[q]) /\ y \in sent /\ Gets(q, y) /\ (x \in Range(down[q]) \/ x # y))
           /\ \A x \in gone, y \in Range(down'[q]) : q = p => Before(down[p], x, y) \/ (y \in sent /\ Gets(p, y))
<1> DEFINE o == IF q = p THEN gone ELSE {}  i == {m \in sent : Gets(q, m)}
<1>1. Goes(down[q], down'[q], o, i)
  BY DEF Passes
<1>2. (\A x : x \in o => q = p /\ x \in gone) /\ (q = p => o = gone) /\ \A x : x \in i <=> x \in sent /\ Gets(q, x)
  OBVIOUS
<1>3. down[q] \in Seq(Messages) /\ down'[q] \in Seq(Messages)
  BY DEF BoardOK
<1>4. (\A x \in Range(down[q]) : x \in Messages) /\ \A x \in Range(down'[q]) : x \in Messages
  BY <1>3 DEF Range
<1> HIDE DEF o, i
<1> QED BY <1>1, <1>2, <1>4 DEF Goes

LEMMA PresenceInvInit == ASSUME MembersAssumption, BoardInit PROVE PresenceInv
<1>1. \A q \in Members : down[q] = <<>> /\ Range(down[q]) = {} /\ \A x, y : ~Before(down[q], x, y)
  BY EmptyRange DEF BoardInit, Before
<1>2. \A q \in Members : /\ tab[q] = IF q \in FirstMembers THEN "open" ELSE "none"
                         /\ roster[q] = (IF q \in FirstMembers THEN FirstMembers ELSE {q}) /\ cursors[q] = {}
  BY DEF BoardInit
<1>3. room = FirstMembers /\ FirstMembers \subseteq Members
  BY DEF BoardInit, MembersAssumption
<1> QED BY <1>1, <1>2, <1>3 DEF PresenceInv, Told, Shows

\* What presence needs of p's page when it reads gone, one message or none, and sends sent.
Greets(p, gone, sent) ==
    /\ room' = room /\ (tab' = tab \/ tab' = [tab EXCEPT ![p] = "open"])
    /\ roster' \in [Members -> SUBSET Members] /\ cursors' \in [Members -> SUBSET Members]
    /\ \A q \in Members \ {p} : roster'[q] = roster[q] /\ cursors'[q] = cursors[q]
    /\ \A m \in sent : m.kind \notin {"welcome", "peer-left"} /\ m.from = p
    /\ \A m \in sent, q \in Members : Gets(q, m) /\ About(m, p) => q # p
    /\ p \in roster'[p] /\ p \notin cursors'[p]
    /\ \A q \in roster'[p] \cup cursors'[p] : q \in roster[p] \cup cursors[p] \/ \E h \in gone : About(h, q)
    /\ \A q \in room : q \in roster[p] => q \in roster'[p]
    /\ \A h \in gone :
         /\ h.kind = "welcome" => tab'[p] = "open"
         /\ h.kind = "peer-left" => h.from \notin roster'[p] \cup cursors'[p]
         /\ h.kind \in {"hello", "hi"} => h.from \in roster'[p]
         /\ h.kind = "hello" /\ h.from \in room => \E m \in sent : m.kind = "hi" /\ Gets(h.from, m)
    /\ tab' # tab => \A q \in room \ {p} : \E m \in sent : m.kind = "hello" /\ Gets(q, m)

LEMMA PresenceMoves ==
    ASSUME BoardOK, PresenceInv, NEW p \in room, NEW gone, NEW sent \in SUBSET Messages,
           Passes(down, down', p, gone, sent), down' \in [Members -> Seq(Messages)],
           gone \subseteq Range(down[p]), \A g, h \in gone : g = h, Greets(p, gone, sent)
    PROVE  PresenceInv'
<1> p \in Members
  BY DEF BoardOK
<1> USE DEF Greets
<1> DEFINE in(q, x) == x \in sent /\ Gets(q, x)
<1>1. \A q \in Members : \A x \in Range(down'[q]) : x \in Messages /\ (x \in Range(down[q]) \/ in(q, x))
  BY Passed
<1>2. \A q \in Members : \A x \in Range(down[q]) : x \in Messages /\ (x \in Range(down'[q]) \/ (q = p /\ x \in gone))
  BY Passed
<1>3. \A q \in Members, x \in sent : Gets(q, x) => x \in Range(down'[q])
  BY Passed
<1>4. \A q \in Members : \A x, y \in Messages : Before(down'[q], x, y) => Before(down[q], x, y) \/ (x \in Range(down'[q]) /\ in(q, y))
  BY Passed
<1>5. \A x \in gone, y \in Range(down'[p]) : Before(down[p], x, y) \/ in(p, y)
  BY Passed
<1>6. tab \in [Members -> {"none", "joining", "open", "left"}] /\ room \subseteq Members /\ \A q \in Members : q \in room <=> tab[q] \in {"joining", "open"}
  BY DEF BoardOK
<1>7. \A q \in Members : tab'[q] = tab[q] \/ (q = p /\ tab'[q] = "open")
  BY <1>6
<1>8. \A q \in Members : tab'[q] \in {"none", "left"} <=> tab[q] \in {"none", "left"}
  BY <1>6, <1>7
<1>9. \A m \in Messages : m.kind # "welcome" => m.from \in Members
  BY DEF Messages, Sound
<1> HIDE DEF in
<1>10. ASSUME NEW q \in Members, tab'[q] = "joining" PROVE \E m \in Range(down'[q]) : m.kind = "welcome"
  <2>1. tab[q] = "joining"
    BY <1>7, <1>10
  <2>2. PICK m \in Range(down[q]) : m.kind = "welcome"
    BY <2>1 DEF PresenceInv
  <2>3. CASE q = p /\ m \in gone
    BY <1>10, <2>2, <2>3
  <2> QED BY <1>2, <2>2, <2>3
<1>11. ASSUME NEW q \in Members, tab'[q] = "none" PROVE roster'[q] = {q} /\ cursors'[q] = {}
  <2>1. tab[q] = "none" /\ q # p
    BY <1>6, <1>7, <1>11
  <2> QED BY <2>1 DEF PresenceInv
<1>12. ASSUME NEW q \in room PROVE q \in roster'[q] /\ q \notin cursors'[q] /\ \A m \in Range(down'[q]) : ~About(m, q)
  <2>1. q \in roster'[q] /\ q \notin cursors'[q]
    <3>1. CASE q = p
      BY <3>1
    <3>2. CASE q # p
      <4>1. q \in Members \ {p} /\ q \in roster[q] /\ q \notin cursors[q]
        BY <1>6, <3>2 DEF PresenceInv
      <4>2. roster'[q] = roster[q] /\ cursors'[q] = cursors[q]
        BY <4>1
      <4> QED BY <4>1, <4>2
    <3> QED BY <3>1, <3>2
  <2>2. ASSUME NEW m \in Range(down'[q]) PROVE ~About(m, q)
    <3>1. CASE m \in Range(down[q])
      BY <3>1 DEF PresenceInv
    <3>2. CASE in(q, m)
      <4>1. m \in sent /\ Gets(q, m) /\ m.from = p
        BY <3>2 DEF in
      <4>2. ASSUME About(m, q) PROVE FALSE
        <5>1. q = p
          BY <4>1, <4>2 DEF About
        <5> QED BY <4>1, <4>2, <5>1
      <4> QED BY <4>2
    <3> QED BY <1>1, <1>6, <3>1, <3>2
  <2> QED BY <2>1, <2>2
<1>13. ASSUME NEW a \in room, NEW b \in room PROVE Told(a, b)'
  <2>1. (b \in roster[a] => b \in roster'[a]) /\ a \in Members /\ b \in Members
    <3>1. a \in Members /\ b \in Members
      BY <1>6
    <3>2. CASE a = p
      BY <3>1, <3>2
    <3>3. CASE a # p
      BY <3>1, <3>3
    <3> QED BY <3>1, <3>2, <3>3
  <2>2. CASE a = b
    BY <1>12, <2>2 DEF Told
  <2>3. CASE tab' # tab /\ a # b /\ (p = a \/ p = b)
    <3>1. CASE p = a
      <4>1. PICK m \in sent : m.kind = "hello" /\ Gets(b, m)
        BY <2>3, <3>1
      <4>2. m \in Range(down'[b]) /\ m.from = a
        BY <1>3, <2>1, <3>1, <4>1
      <4> QED BY <4>1, <4>2 DEF Told
    <3>2. CASE p = b
      <4>1. PICK m \in sent : m.kind = "hello" /\ Gets(a, m)
        BY <2>3, <3>2
      <4>2. m \in Range(down'[a]) /\ m.from = b
        BY <1>3, <2>1, <3>2, <4>1
      <4> QED BY <4>1, <4>2 DEF Told
    <3> QED BY <2>3, <3>1, <3>2
  <2>4. CASE a # b /\ (tab' = tab \/ (p # a /\ p # b))
    <3>1. tab'[a] = tab[a] /\ tab'[b] = tab[b]
      BY <1>7, <2>1, <2>4
    <3>2. CASE b \in roster[a] \/ tab[a] = "joining" \/ tab[b] = "joining"
      BY <2>1, <3>1, <3>2 DEF Told
    <3>3. ASSUME NEW m \in Range(down[a]), m.kind \in {"hello", "hi"}, m.from = b PROVE Told(a, b)'
      <4>1. CASE m \in Range(down'[a])
        BY <3>3, <4>1 DEF Told
      <4>2. CASE a = p /\ m \in gone
        BY <3>3, <4>2 DEF Told
      <4> QED BY <1>2, <2>1, <4>1, <4>2
    <3>4. ASSUME NEW m \in Range(down[b]), m.kind = "hello", m.from = a PROVE Told(a, b)'
      <4>1. CASE m \in Range(down'[b])
        BY <3>4, <4>1 DEF Told
      <4>2. CASE b = p /\ m \in gone
        <5>1. PICK n \in sent : n.kind = "hi" /\ Gets(a, n)
          BY <3>4, <4>2
        <5>2. n \in Range(down'[a]) /\ n.from = b
          BY <1>3, <2>1, <4>2, <5>1
        <5> QED BY <5>1, <5>2 DEF Told
      <4> QED BY <1>2, <2>1, <4>1, <4>2
    <3>5. Told(a, b)
      BY DEF PresenceInv
    <3> QED BY <3>2, <3>3, <3>4, <3>5 DEF Told
  <2> QED BY <2>2, <2>3, <2>4
<1>14. ASSUME NEW q \in Members, NEW m \in Range(down'[q]), m.kind = "peer-left" PROVE tab'[m.from] = "left"
  <2>1. m \in Range(down[q]) /\ m.from \in Members
    BY <1>1, <1>9, <1>14 DEF in
  <2>2. tab[m.from] = "left"
    BY <1>14, <2>1 DEF PresenceInv
  <2> QED BY <1>6, <1>7, <2>1, <2>2
<1>15. ASSUME NEW a \in room, NEW b \in Members \ room, Shows(a, b)'
       PROVE  \E m \in Range(down'[a]) : m.kind = "peer-left" /\ m.from = b
  <2>0. a \in Members /\ b # p
    BY <1>6
  <2>1. CASE a = p /\ \E h \in gone : h.kind = "peer-left" /\ h.from = b
    <3>1. PICK h \in gone : h.kind = "peer-left" /\ h.from = b
      BY <2>1
    <3>2. PICK m \in Range(down'[a]) : About(m, b)
      BY <1>15, <2>1, <3>1 DEF Shows
    <3>3. ~in(p, m)
      BY <2>0, <3>2 DEF in, About
    <3>4. Before(down[p], h, m) /\ h \in Messages /\ m \in Messages
      BY <1>1, <1>2, <1>5, <2>0, <2>1, <3>1, <3>2, <3>3
    <3> QED BY <3>1, <3>2, <3>4 DEF PresenceInv
  <2>2. CASE a # p \/ \A h \in gone : ~(h.kind = "peer-left" /\ h.from = b)
    <3>1. Shows(a, b)
      <4>1. CASE b \in roster'[a] \/ b \in cursors'[a]
        <5>1. CASE a # p
          BY <2>0, <4>1, <5>1 DEF Shows
        <5>2. CASE a = p
          <6>1. b \in roster[p] \/ b \in cursors[p] \/ \E h \in gone : About(h, b)
            BY <4>1, <5>2
          <6> QED BY <5>2, <6>1 DEF Shows
        <5> QED BY <5>1, <5>2
      <4>2. ASSUME NEW m \in Range(down'[a]), About(m, b) PROVE Shows(a, b)
        <5>1. ~in(a, m)
          BY <2>0, <4>2 DEF in, About
        <5> QED BY <1>1, <2>0, <4>2, <5>1 DEF Shows
      <4> QED BY <1>15, <4>1, <4>2 DEF Shows
    <3>2. PICK m \in Range(down[a]) : m.kind = "peer-left" /\ m.from = b
      BY <3>1 DEF PresenceInv
    <3> QED BY <1>2, <2>0, <2>2, <3>2
  <2> QED BY <2>1, <2>2
<1>16. ASSUME NEW q \in Members, NEW m \in Messages, NEW n \in Messages, Before(down'[q], m, n), m.kind = "peer-left"
       PROVE  ~About(n, m.from)
  <2>1. CASE Before(down[q], m, n)
    BY <1>16, <2>1 DEF PresenceInv
  <2>2. CASE m \in Range(down'[q]) /\ in(q, n)
    <3>1. m \in Range(down[q]) /\ n.from = p /\ m.from \in Members
      BY <1>1, <1>9, <1>16, <2>2 DEF in
    <3>2. tab[m.from] = "left"
      BY <1>16, <3>1 DEF PresenceInv
    <3> QED BY <1>6, <3>1, <3>2 DEF About
  <2> QED BY <1>4, <1>16, <2>1, <2>2
<1> QED BY <1>10, <1>11, <1>12, <1>13, <1>14, <1>15, <1>16 DEF PresenceInv

LEMMA PresenceInvKept ==
    ASSUME PresenceInv, UNCHANGED <<room, tab, down, roster, cursors>> PROVE PresenceInv'
BY DEF PresenceInv, Told, Shows

LEMMA PresenceInvJoin == ASSUME BoardOK, PresenceInv, NEW p \in Members, JoinBoard(p) PROVE PresenceInv'
<1> DEFINE w == Msg("welcome", 0, p, room)
<1>1. Welcomed(p)
  BY HasJoined
<1>2. w.kind = "welcome"
  BY DEF Msg
<1>3. Range(down'[p]) = {w} /\ p \notin room /\ tab[p] = "none" /\ w \in Messages
  BY <1>1 DEF Welcomed
<1>4. room' = room \cup {p} /\ tab' = [tab EXCEPT ![p] = "joining"] /\ UNCHANGED <<roster, cursors>>
  BY DEF JoinBoard, canvasVars
<1>5. \A q \in Members \ {p} : down'[q] = down[q] /\ tab'[q] = tab[q]
  BY <1>4 DEF JoinBoard, BoardOK
<1>6. tab'[p] = "joining" /\ tab \in [Members -> {"none", "joining", "open", "left"}] /\ room \subseteq Members
  BY <1>4 DEF BoardOK
<1> HIDE DEF w
<1>7. ASSUME NEW q \in Members, tab'[q] = "joining" PROVE \E m \in Range(down'[q]) : m.kind = "welcome"
  <2>1. CASE q = p
    BY <1>2, <1>3, <2>1
  <2>2. CASE q # p
    BY <1>5, <1>7, <2>2 DEF PresenceInv
  <2> QED BY <2>1, <2>2
<1>8. ASSUME NEW q \in Members, tab'[q] = "none" PROVE roster'[q] = {q} /\ cursors'[q] = {}
  BY <1>4, <1>5, <1>6, <1>8 DEF PresenceInv
<1>9. ASSUME NEW q \in room' PROVE q \in roster'[q] /\ q \notin cursors'[q] /\ \A m \in Range(down'[q]) : ~About(m, q)
  <2>1. CASE q = p
    BY <1>2, <1>3, <1>4, <2>1 DEF PresenceInv, About
  <2>2. CASE q # p
    BY <1>4, <1>5, <1>6, <2>2 DEF PresenceInv
  <2> QED BY <2>1, <2>2
<1>10. ASSUME NEW a \in room', NEW b \in room' PROVE Told(a, b)'
  <2>1. CASE a = p \/ b = p
    BY <1>6, <2>1 DEF Told
  <2>2. CASE a # p /\ b # p
    <3>1. Told(a, b) /\ a \in Members \ {p} /\ b \in Members \ {p}
      BY <1>4, <1>6, <2>2 DEF PresenceInv
    <3>2. down'[a] = down[a] /\ tab'[a] = tab[a] /\ down'[b] = down[b] /\ tab'[b] = tab[b] /\ roster'[a] = roster[a]
      BY <1>4, <1>5, <3>1
    <3> QED BY <3>1, <3>2 DEF Told
  <2> QED BY <2>1, <2>2
<1>11. ASSUME NEW q \in Members, NEW m \in Range(down'[q]), m.kind = "peer-left" PROVE tab'[m.from] = "left"
  <2>1. q # p
    BY <1>2, <1>3, <1>11
  <2>2. m \in Range(down[q])
    BY <1>5, <2>1
  <2>3. tab[m.from] = "left"
    BY <1>11, <2>2 DEF PresenceInv
  <2>4. m.from \in Members
    <3>1. m \in Messages
      BY <2>2, RangeIn DEF BoardOK
    <3> QED BY <1>11, <3>1, FromMember
  <2> QED BY <1>3, <1>5, <2>3, <2>4
<1>12. ASSUME NEW a \in room', NEW b \in Members \ room', Shows(a, b)'
       PROVE  \E m \in Range(down'[a]) : m.kind = "peer-left" /\ m.from = b
  <2>1. CASE a = p
    <3>1. roster'[p] = {p} /\ cursors'[p] = {} /\ b # p /\ ~About(w, b)
      BY <1>2, <1>3, <1>4 DEF PresenceInv, About
    <3> QED BY <1>3, <1>12, <2>1, <3>1 DEF Shows
  <2>2. CASE a # p
    <3>1. a \in room /\ a \in Members \ {p} /\ b \in Members \ room
      BY <1>4, <1>6, <2>2
    <3>2. down'[a] = down[a] /\ roster'[a] = roster[a] /\ cursors'[a] = cursors[a]
      BY <1>4, <1>5, <3>1
    <3>3. Shows(a, b)
      BY <1>12, <3>2 DEF Shows
    <3> QED BY <3>1, <3>2, <3>3 DEF PresenceInv
  <2> QED BY <2>1, <2>2
<1>13. ASSUME NEW q \in Members, NEW m \in Messages, NEW n \in Messages, Before(down'[q], m, n), m.kind = "peer-left"
       PROVE  ~About(n, m.from)
  <2>1. CASE q = p
    <3>1. down'[p] \in Seq(Messages)
      BY <1>1 DEF Welcomed
    <3>2. m \in {w}
      BY <1>3, <1>13, <2>1, <3>1, BeforeIn
    <3> QED BY <1>2, <1>13, <3>2
  <2>2. CASE q # p
    BY <1>5, <1>13, <2>2 DEF PresenceInv
  <2> QED BY <2>1, <2>2
<1> QED BY <1>7, <1>8, <1>9, <1>10, <1>11, <1>12, <1>13 DEF PresenceInv

LEMMA PresenceInvLeave == ASSUME BoardOK, PresenceInv, NEW p \in Members, LeaveBoard(p) PROVE PresenceInv'
<1> DEFINE bye(q) == Msg("peer-left", p, q, {})
<1>1. Announced(p)
  BY HasLeft
<1>2. \A q \in Members : bye(q).kind = "peer-left" /\ bye(q).from = p
  BY DEF Msg
<1>3. down'[p] = <<>> /\ Range(down'[p]) = {}
  BY <1>1, EmptyRange DEF Announced
<1>4. /\ room' = room \ {p} /\ tab' = [tab EXCEPT ![p] = "left"] /\ UNCHANGED <<roster, cursors>> /\ p \in room
      /\ room \subseteq Members /\ tab \in [Members -> {"none", "joining", "open", "left"}]
      /\ \A q \in Members : q \in room <=> tab[q] \in {"joining", "open"}
  BY DEF LeaveBoard, canvasVars, BoardOK
<1>5. tab'[p] = "left" /\ \A q \in Members \ {p} : tab'[q] = tab[q]
  BY <1>4
<1> HIDE DEF bye
<1>6. \A q \in Members \ {p} : /\ bye(q) \in Messages /\ down[q] \in Seq(Messages) /\ down'[q] \in Seq(Messages)
                               /\ Goes(down[q], down'[q], {}, IF q \in room THEN {bye(q)} ELSE {})
  BY <1>1 DEF Announced, bye, BoardOK
<1>7. \A q \in Members \ {p} : \A x \in Range(down'[q]) : x \in Messages /\ (x \in Range(down[q]) \/ x = bye(q))
  <2>1. ASSUME NEW q \in Members \ {p}, NEW x \in Range(down'[q]) PROVE x \in Messages /\ (x \in Range(down[q]) \/ x = bye(q))
    <3>1. x \in Messages
      BY <1>6, <2>1, RangeIn
    <3>2. x \in Range(down[q]) \/ x \in IF q \in room THEN {bye(q)} ELSE {}
      BY <1>6, <2>1 DEF Goes
    <3> QED BY <3>1, <3>2
  <2> QED BY <2>1
<1>8. \A q \in Members \ {p} : \A x \in Range(down[q]) : x \in Messages /\ x \in Range(down'[q])
  <2>1. ASSUME NEW q \in Members \ {p}, NEW x \in Range(down[q]) PROVE x \in Messages /\ x \in Range(down'[q])
    <3>1. x \in Messages
      BY <1>6, <2>1, RangeIn
    <3> QED BY <1>6, <2>1, <3>1 DEF Goes
  <2> QED BY <2>1
<1>9. \A q \in room \ {p} : bye(q) \in Range(down'[q])
  BY <1>4, <1>6 DEF Goes
<1>10. \A q \in Members \ {p} : \A x, y \in Messages : Before(down'[q], x, y) => Before(down[q], x, y) \/ y = bye(q)
  BY <1>6 DEF Goes
<1>11. ASSUME NEW q \in Members, tab'[q] = "joining" PROVE \E m \in Range(down'[q]) : m.kind = "welcome"
  <2>1. q \in Members \ {p} /\ tab[q] = "joining"
    BY <1>5, <1>11
  <2> QED BY <1>8, <2>1 DEF PresenceInv
<1>12. ASSUME NEW q \in Members, tab'[q] = "none" PROVE roster'[q] = {q} /\ cursors'[q] = {}
  BY <1>4, <1>5, <1>12 DEF PresenceInv
<1>13. ASSUME NEW q \in room' PROVE q \in roster'[q] /\ q \notin cursors'[q] /\ \A m \in Range(down'[q]) : ~About(m, q)
  <2>1. q \in Members \ {p} /\ q \in room
    BY <1>4
  <2>2. ASSUME NEW m \in Range(down'[q]) PROVE ~About(m, q)
    BY <1>2, <1>7, <2>1 DEF PresenceInv, About
  <2> QED BY <1>4, <2>1, <2>2 DEF PresenceInv
<1>14. ASSUME NEW a \in room', NEW b \in room' PROVE Told(a, b)'
  <2>1. a \in Members \ {p} /\ b \in Members \ {p} /\ a \in room /\ b \in room
    BY <1>4
  <2>2. Told(a, b)
    BY <2>1 DEF PresenceInv
  <2>3. tab'[a] = tab[a] /\ tab'[b] = tab[b] /\ roster'[a] = roster[a]
    BY <1>4, <1>5, <2>1
  <2>4. (\A x \in Range(down[a]) : x \in Range(down'[a])) /\ \A x \in Range(down[b]) : x \in Range(down'[b])
    BY <1>8, <2>1
  <2> QED BY <2>2, <2>3, <2>4 DEF Told
<1>15. ASSUME NEW q \in Members, NEW m \in Range(down'[q]), m.kind = "peer-left" PROVE tab'[m.from] = "left"
  <2>1. q \in Members \ {p}
    BY <1>3
  <2>2. CASE m = bye(q)
    BY <1>2, <1>5, <2>2
  <2>3. CASE m \in Range(down[q])
    <3>1. tab[m.from] = "left" /\ m.from \in Members
      BY <1>8, <1>15, <2>1, <2>3 DEF PresenceInv, Messages, Sound
    <3> QED BY <1>5, <3>1
  <2> QED BY <1>7, <2>1, <2>2, <2>3
<1>16. ASSUME NEW a \in room', NEW b \in Members \ room', Shows(a, b)'
       PROVE  \E m \in Range(down'[a]) : m.kind = "peer-left" /\ m.from = b
  <2>1. a \in Members \ {p} /\ a \in room
    BY <1>4
  <2>2. CASE b = p
    BY <1>2, <1>9, <2>1, <2>2
  <2>3. CASE b # p
    <3>1. b \in Members \ room
      BY <1>4, <2>3
    <3>2. Shows(a, b)
      <4>1. CASE b \in roster'[a] \/ b \in cursors'[a]
        BY <1>4, <4>1 DEF Shows
      <4>2. ASSUME NEW m \in Range(down'[a]), About(m, b) PROVE Shows(a, b)
        <5>1. m # bye(a)
          BY <1>2, <2>1, <4>2 DEF About
        <5> QED BY <1>7, <2>1, <4>2, <5>1 DEF Shows
      <4> QED BY <1>16, <4>1, <4>2 DEF Shows
    <3>3. PICK m \in Range(down[a]) : m.kind = "peer-left" /\ m.from = b
      BY <2>1, <3>1, <3>2 DEF PresenceInv
    <3> QED BY <1>8, <2>1, <3>3
  <2> QED BY <2>2, <2>3
<1>17. ASSUME NEW q \in Members, NEW m \in Messages, NEW n \in Messages, Before(down'[q], m, n), m.kind = "peer-left"
       PROVE  ~About(n, m.from)
  <2>1. CASE q = p
    BY <1>3, <1>17, <2>1, EmptyRange, BeforeIn
  <2>2. CASE q # p /\ n = bye(q)
    BY <1>2, <2>2 DEF About
  <2>3. CASE q # p /\ Before(down[q], m, n)
    BY <1>17, <2>3 DEF PresenceInv
  <2> QED BY <1>10, <1>17, <2>1, <2>2, <2>3
<1> QED BY <1>11, <1>12, <1>13, <1>14, <1>15, <1>16, <1>17 DEF PresenceInv

LEMMA PresenceInvRelay == ASSUME BoardOK, PresenceInv, NEW p \in Members, Relay(p) PROVE PresenceInv'
<1>1. PICK m : Relays(p, m)
  BY HasRelayed
<1>2. m \in Messages /\ m.kind \in {"stroke", "clear", "doc", "cursor"} /\ m.from = p /\ p \in room
  BY <1>1 DEF Relays, BoardOK
<1>3. Passes(down, down', p, {}, {m}) /\ down' \in [Members -> Seq(Messages)] /\ UNCHANGED <<room, tab, roster, cursors>>
  BY <1>1 DEF Relays, Relay, canvasVars
<1>4. \A q \in Members : Gets(q, m) => q # p
  BY <1>2 DEF Gets, Broadcasts
<1>5. roster \in [Members -> SUBSET Members] /\ cursors \in [Members -> SUBSET Members] /\ p \in roster[p] /\ p \notin cursors[p]
  BY <1>2 DEF BoardOK, PresenceInv
<1>6. Greets(p, {}, {m})
  BY <1>2, <1>3, <1>4, <1>5 DEF Greets
<1> QED BY <1>2, <1>3, <1>6, PresenceMoves

LEMMA PresenceInvReceive == ASSUME BoardOK, PresenceInv, NEW p \in Members, Receive(p) PROVE PresenceInv'
<1>1. PICK h \in Messages, sent \in SUBSET Messages : Delivers(p, h, sent) /\ Reads(p, h, sent)
  BY Received
<1>2. /\ Passes(down, down', p, {h}, sent) /\ down' \in [Members -> Seq(Messages)] /\ p \in room /\ room' = room
      /\ {h} \subseteq Range(down[p]) /\ \A f, g \in {h} : f = g
  BY <1>1 DEF Delivers, Receive
<1>3. /\ tab \in [Members -> {"none", "joining", "open", "left"}] /\ roster \in [Members -> SUBSET Members] /\ cursors \in [Members -> SUBSET Members]
      /\ p \in roster[p] /\ p \notin cursors[p] /\ ~About(h, p) /\ (h.kind = "peer-left" => tab[h.from] = "left")
      /\ \A q \in room : tab[q] \in {"joining", "open"}
  BY <1>2 DEF BoardOK, PresenceInv
<1>4. Sound(h) /\ (h.kind # "welcome" => h.from \in Members)
  BY FromMember DEF Messages
<1>5. CASE h.kind = "welcome" /\ Start(p, h.data)
           /\ sent = {Broadcast(p, "hello", {})} \cup {Msg("sync-request", p, to, {}) : to \in {Min(s) : s \in {h.data} \ {{}}}}
  <2> DEFINE hello == Broadcast(p, "hello", {})
  <2>1. hello.kind = "hello" /\ hello.from = p /\ \A q \in room : q # p <=> Gets(q, hello)
    BY DEF Broadcast, Msg, Gets, Broadcasts
  <2>2. \A m \in sent : m.from = p /\ (m = hello \/ m.kind = "sync-request")
    BY <1>5 DEF Broadcast, Msg
  <2>3. hello \in sent
    BY <1>5
  <2> HIDE DEF hello
  <2>4. tab' = [tab EXCEPT ![p] = "open"] /\ UNCHANGED <<roster, cursors>>
    BY <1>5 DEF Start, canvasVars
  <2>5. tab'[p] = "open"
    BY <1>3, <2>4
  <2>6. \A m \in sent : m.kind \notin {"welcome", "peer-left"} /\ m.from = p
    BY <2>1, <2>2
  <2>7. \A m \in sent, q \in Members : Gets(q, m) /\ About(m, p) => q # p
    BY <2>1, <2>2 DEF About, Gets
  <2>8. tab' # tab => \A q \in room \ {p} : \E m \in sent : m.kind = "hello" /\ Gets(q, m)
    BY <2>1, <2>3
  <2>20. Greets(p, {h}, sent)
    BY <1>2, <1>3, <1>5, <2>4, <2>5, <2>6, <2>7, <2>8 DEF Greets
  <2> QED BY <1>2, <2>20, PresenceMoves
<1>6. CASE h.kind = "hello" /\ Hello(p, h.from) /\ sent = {Msg("hi", p, h.from, {})}
  <2> DEFINE hi == Msg("hi", p, h.from, {})
  <2>1. hi.kind = "hi" /\ hi.from = p /\ (\A q \in Members : Gets(q, hi) <=> q = h.from /\ q \in room) /\ h.from # p
    BY <1>3, <1>6 DEF Msg, Gets, Broadcasts, About
  <2>2. sent = {hi}
    BY <1>6
  <2> HIDE DEF hi
  <2>3. roster' = [roster EXCEPT ![p] = @ \cup {h.from}] /\ UNCHANGED <<tab, cursors>>
    BY <1>6 DEF Hello
  <2>4. roster'[p] = roster[p] \cup {h.from} /\ (\A q \in Members \ {p} : roster'[q] = roster[q]) /\ roster' \in [Members -> SUBSET Members]
    BY <1>3, <1>4, <1>6, <2>3
  <2>5. \A q \in roster'[p] \cup cursors'[p] : q \in roster[p] \cup cursors[p] \/ \E f \in {h} : About(f, q)
    BY <1>6, <2>3, <2>4 DEF About
  <2>6. \A f \in {h} :
             /\ f.kind = "welcome" => tab'[p] = "open"
             /\ f.kind = "peer-left" => f.from \notin roster'[p] \cup cursors'[p]
             /\ f.kind \in {"hello", "hi"} => f.from \in roster'[p]
             /\ f.kind = "hello" /\ f.from \in room => \E m \in sent : m.kind = "hi" /\ Gets(f.from, m)
    BY <1>4, <1>6, <2>1, <2>2, <2>4
  <2>7. \A m \in sent : m.kind \notin {"welcome", "peer-left"} /\ m.from = p
    BY <2>1, <2>2
  <2>8. \A m \in sent, q \in Members : Gets(q, m) /\ About(m, p) => q # p
    BY <2>1, <2>2
  <2>9. p \in roster'[p] /\ p \notin cursors'[p] /\ \A q \in room : q \in roster[p] => q \in roster'[p]
    BY <1>3, <2>3, <2>4
  <2>10. cursors' \in [Members -> SUBSET Members] /\ (\A q \in Members \ {p} : cursors'[q] = cursors[q])
    BY <1>3, <2>3
  <2>20. Greets(p, {h}, sent)
    BY <1>2, <2>3, <2>4, <2>5, <2>6, <2>7, <2>8, <2>9, <2>10 DEF Greets
  <2> QED BY <1>2, <2>20, PresenceMoves
<1>7. CASE h.kind = "hi" /\ Hi(p, h.from) /\ sent = {}
  <2>3. roster' = [roster EXCEPT ![p] = @ \cup {h.from}] /\ UNCHANGED <<tab, cursors>>
    BY <1>7 DEF Hi
  <2>4. roster'[p] = roster[p] \cup {h.from} /\ (\A q \in Members \ {p} : roster'[q] = roster[q]) /\ roster' \in [Members -> SUBSET Members]
    BY <1>3, <1>4, <1>7, <2>3
  <2>5. \A q \in roster'[p] \cup cursors'[p] : q \in roster[p] \cup cursors[p] \/ \E f \in {h} : About(f, q)
    BY <1>7, <2>3, <2>4 DEF About
  <2>20. Greets(p, {h}, sent)
    BY <1>2, <1>3, <1>7, <2>3, <2>4, <2>5 DEF Greets
  <2> QED BY <1>2, <2>20, PresenceMoves
<1>8. CASE h.kind = "cursor" /\ Point(p, h.from) /\ sent = {}
  <2>3. cursors' = [cursors EXCEPT ![p] = @ \cup {h.from}] /\ UNCHANGED <<tab, roster>>
    BY <1>8 DEF Point
  <2>4. cursors'[p] = cursors[p] \cup {h.from} /\ (\A q \in Members \ {p} : cursors'[q] = cursors[q]) /\ cursors' \in [Members -> SUBSET Members]
    BY <1>3, <1>4, <1>8, <2>3
  <2>5. \A q \in roster'[p] \cup cursors'[p] : q \in roster[p] \cup cursors[p] \/ \E f \in {h} : About(f, q)
    BY <1>8, <2>3, <2>4 DEF About
  <2>6. p \notin cursors'[p]
    BY <1>3, <1>8, <2>4 DEF About
  <2>20. Greets(p, {h}, sent)
    BY <1>2, <1>3, <1>8, <2>3, <2>4, <2>5, <2>6 DEF Greets
  <2> QED BY <1>2, <2>20, PresenceMoves
<1>9. CASE h.kind = "peer-left" /\ PeerLeft(p, h.from) /\ sent = {}
  <2>1. roster' = [roster EXCEPT ![p] = @ \ {h.from}] /\ cursors' = [cursors EXCEPT ![p] = @ \ {h.from}] /\ UNCHANGED tab
    BY <1>9 DEF PeerLeft
  <2>2. /\ roster'[p] = roster[p] \ {h.from} /\ (\A q \in Members \ {p} : roster'[q] = roster[q]) /\ roster' \in [Members -> SUBSET Members]
        /\ cursors'[p] = cursors[p] \ {h.from} /\ (\A q \in Members \ {p} : cursors'[q] = cursors[q]) /\ cursors' \in [Members -> SUBSET Members]
    BY <1>3, <2>1
  <2>3. h.from \notin room
    BY <1>3, <1>9
  <2>4. p # h.from /\ \A q \in room : q \in roster[p] => q \in roster'[p]
    BY <1>2, <2>2, <2>3
  <2>5. p \in roster'[p] /\ p \notin cursors'[p]
    BY <1>3, <2>2, <2>4
  <2>20. Greets(p, {h}, sent)
    BY <1>2, <1>9, <2>1, <2>2, <2>4, <2>5 DEF Greets
  <2> QED BY <1>2, <2>20, PresenceMoves
<1>10. ASSUME UNCHANGED <<tab, roster, cursors>>, h.kind \notin {"welcome", "peer-left", "hello", "hi"},
              \A m \in sent : m.kind = "sync-state" /\ m.from = p
       PROVE  PresenceInv'
  <2>1. \A m \in sent, q \in Members : Gets(q, m) /\ About(m, p) => q # p
    BY <1>10 DEF About
  <2>20. Greets(p, {h}, sent)
    BY <1>2, <1>3, <1>10, <2>1 DEF Greets
  <2> QED BY <1>2, <2>20, PresenceMoves
<1>11. CASE h.kind \in {"stroke", "clear"} /\ sent = {} /\ \E ss : Draw(p, ss)
  BY <1>10, <1>11 DEF Draw
<1>12. CASE h.kind = "doc" /\ Write(p, h.data) /\ sent = {}
  BY <1>10, <1>12 DEF Write
<1>13. CASE h.kind = "sync-request" /\ SyncRequest(p, h.from)
            /\ sent = {Msg("sync-state", p, h.from, [strokes |-> strokes[p], doc |-> doc[p], synced |-> p \in synced])}
  <2>1. \A m \in sent : m.kind = "sync-state" /\ m.from = p
    BY <1>13 DEF Msg
  <2> QED BY <1>10, <1>13, <2>1 DEF SyncRequest, canvasVars
<1>14. CASE h.kind = "sync-state" /\ SyncState(p, h.data) /\ sent = {}
  BY <1>10, <1>14 DEF SyncState
<1> QED BY <1>1, <1>5, <1>6, <1>7, <1>8, <1>9, <1>11, <1>12, <1>13, <1>14 DEF Reads

LEMMA PresenceInvStep == ASSUME BoardOK, PresenceInv, [BoardNext]_boardVars PROVE PresenceInv'
<1>1. CASE UNCHANGED boardVars
  BY <1>1, PresenceInvKept DEF boardVars, canvasVars, historyVars
<1>2. ASSUME NEW p \in Members, Clear(p) \/ SetDoc(p) \/ MoveCursor(p) \/ \E s \in Strokes : AddStroke(p, s) PROVE PresenceInv'
  BY <1>2, PresenceInvKept DEF Clear, SetDoc, MoveCursor, AddStroke, canvasVars
<1>3. CASE BoardNext
  BY <1>2, <1>3, PresenceInvJoin, PresenceInvLeave, PresenceInvRelay, PresenceInvReceive DEF BoardNext
<1> QED BY <1>1, <1>3

\* Who knows of whom, and what is on its way about it (the greetings of start(), onBroadcast
\* and onSignal; the server's peer-left).
THEOREM PresenceInvariance == BoardSpec => []PresenceInv
<1>1. BoardInit => BoardOK /\ PresenceInv
  BY MembersAssumption, BoardOKInit, PresenceInvInit
<1>2. BoardOK /\ PresenceInv /\ [BoardNext]_boardVars => (BoardOK /\ PresenceInv)'
  BY BoardOKStep, PresenceInvStep
<1> QED BY <1>1, <1>2, PTL DEF BoardSpec

\* Whatever crosses, once all has arrived every page shows exactly the members in the room.
THEOREM PresenceSettles == BoardSpec => []PresenceAgrees
<1>1. BoardOK /\ PresenceInv => PresenceAgrees
  <2> SUFFICES ASSUME BoardOK, PresenceInv, Quiet, NEW p \in room PROVE roster[p] = room /\ cursors[p] \subseteq room \ {p}
    BY DEF PresenceAgrees
  <2>1. \A q \in Members : Range(down[q]) = {}
    BY EmptyRange DEF Quiet
  <2>2. \A q \in room : q \in Members /\ tab[q] # "joining"
    BY <2>1 DEF BoardOK, PresenceInv
  <2>3. \A q \in room : q \in roster[p]
    BY <2>1, <2>2 DEF PresenceInv, Told
  <2>4. \A q \in Members \ room : q \notin roster[p] /\ q \notin cursors[p]
    BY <2>1, <2>2 DEF PresenceInv, Shows
  <2>5. roster[p] \subseteq Members /\ cursors[p] \subseteq Members /\ p \notin cursors[p]
    BY <2>2 DEF BoardOK, PresenceInv
  <2> QED BY <2>3, <2>4, <2>5
<1>2. BoardSpec => [](BoardOK /\ PresenceInv)
  <2>1. BoardInit => BoardOK /\ PresenceInv
    BY MembersAssumption, BoardOKInit, PresenceInvInit
  <2>2. BoardOK /\ PresenceInv /\ [BoardNext]_boardVars => (BoardOK /\ PresenceInv)'
    BY BoardOKStep, PresenceInvStep
  <2> QED BY <2>1, <2>2, PTL DEF BoardSpec
<1> QED BY <1>1, <1>2, PTL

(***************************************************************************)
(* Strokes                                                                 *)
(***************************************************************************)
LEMMA StrokeAppended ==
    ASSUME NEW s \in Seq(Strokes), NEW x \in Strokes, IsInjective(s), x \notin Range(s)
    PROVE  IsInjective(Append(s, x))
<1>1. PICK t \in Seq(Strokes) : t = Append(s, x)
  BY AppendProperties
<1>2. /\ Len(s) \in Nat /\ DOMAIN s = 1..Len(s) /\ DOMAIN t = 1..(Len(s) + 1)
      /\ t[Len(s) + 1] = x /\ \A i \in 1..Len(s) : t[i] = s[i]
  BY <1>1, AppendProperties
<1>3. \A i \in 1..(Len(s) + 1) : i \in 1..Len(s) \/ i = Len(s) + 1
  BY <1>2
<1>4. \A i \in 1..Len(s) : t[i] # x
  BY <1>2 DEF Range
<1>5. ASSUME NEW i \in 1..(Len(s) + 1), NEW j \in 1..(Len(s) + 1), t[i] = t[j] PROVE i = j
  <2>1. CASE i \in 1..Len(s) /\ j \in 1..Len(s)
    BY <1>2, <1>5, <2>1 DEF IsInjective
  <2>2. CASE i = Len(s) + 1 \/ j = Len(s) + 1
    BY <1>2, <1>3, <1>4, <1>5, <2>2
  <2> QED BY <1>3, <2>1, <2>2
<1> QED BY <1>1, <1>2, <1>5 DEF IsInjective

LEMMA StrokeAdded == ASSUME NEW s \in Seq(Strokes), NEW x \in Strokes
                     PROVE  Range(Append(s, x)) = Range(s) \cup {x}
<1>1. PICK t \in Seq(Strokes) : t = Append(s, x)
  BY AppendProperties
<1>2. /\ Len(s) \in Nat /\ DOMAIN s = 1..Len(s) /\ DOMAIN t = 1..(Len(s) + 1)
      /\ t[Len(s) + 1] = x /\ Len(s) + 1 \in 1..(Len(s) + 1) /\ \A i \in 1..Len(s) : t[i] = s[i] /\ i \in 1..(Len(s) + 1)
  BY <1>1, AppendProperties
<1>3. \A i \in 1..(Len(s) + 1) : i \in 1..Len(s) \/ i = Len(s) + 1
  BY <1>2
<1>4. Range(t) \subseteq Range(s) \cup {x}
  BY <1>2, <1>3 DEF Range
<1>5. Range(s) \cup {x} \subseteq Range(t)
  BY <1>2 DEF Range
<1> QED BY <1>1, <1>4, <1>5

IsStroke(m) == m.kind = "stroke"
IsBoard(m) == m.kind = "sync-state"

\* A stroke on its way to the server is nowhere but with its author; a stroke on its way to a
\* page is neither on its canvas, nor twice on its way, nor in a board that is before it.
StrokeInv ==
    /\ \A p \in Members : IsInjective(strokes[p]) /\ Range(strokes[p]) \subseteq drawn
    /\ \A p \in Members : \A m \in Range(up[p]) : IsStroke(m) => m.data \in drawn
    /\ \A p \in Members : \A m \in Range(down[p]) :
         /\ IsStroke(m) => m.data \in drawn /\ m.data \notin Range(strokes[p])
         /\ IsBoard(m) => Range(m.data.strokes) \subseteq drawn /\ IsInjective(m.data.strokes)
    /\ \A p, q \in Members : \A m \in Range(up[p]) : IsStroke(m) =>
         /\ p # q => m.data \notin Range(strokes[q]) /\ \A n \in Range(up[q]) : IsStroke(n) => n.data # m.data
         /\ \A n \in Range(down[q]) : /\ IsStroke(n) => n.data # m.data
                                      /\ IsBoard(n) => m.data \notin Range(n.data.strokes)
    /\ \A p \in Members : \A m, n \in Messages : Before(up[p], m, n) /\ IsStroke(m) /\ IsStroke(n) => m.data # n.data
    /\ \A p \in Members : \A m, n \in Messages : Before(down[p], m, n) /\ IsStroke(n) =>
         /\ IsStroke(m) => m.data # n.data
         /\ IsBoard(m) => n.data \notin Range(m.data.strokes)

LEMMA StrokeInvInit == ASSUME MembersAssumption, BoardInit PROVE StrokeInv
<1>1. \A q \in Members : up[q] = <<>> /\ down[q] = <<>> /\ strokes[q] = <<>>
  BY DEF BoardInit
<1>2. Range(<<>>) = {} /\ IsInjective(<<>>) /\ \A x, y : ~Before(<<>>, x, y)
  BY EmptyRange DEF Before, IsInjective
<1> QED BY <1>1, <1>2 DEF StrokeInv

LEMMA StrokeInvKept == ASSUME StrokeInv, UNCHANGED <<strokes, up, down, drawn>> PROVE StrokeInv'
BY DEF StrokeInv

\* What the strokes need of p's page when it reads h and sends sent.
Paints(p, sent) ==
    /\ up' = up /\ drawn' = drawn /\ \A q \in Members \ {p} : strokes'[q] = strokes[q]
    /\ IsInjective(strokes'[p]) /\ Range(strokes'[p]) \subseteq drawn
    /\ \A r \in Members \ {p} : \A m \in Range(up[r]) : IsStroke(m) => m.data \notin Range(strokes'[p])
    /\ \A n \in Range(down'[p]) : IsStroke(n) => n.data \notin Range(strokes'[p])
    /\ \A m \in sent : ~IsStroke(m)
    /\ \A m \in sent : IsBoard(m) =>
         /\ Range(m.data.strokes) \subseteq drawn /\ IsInjective(m.data.strokes)
         /\ \A r \in Members : \A k \in Range(up[r]) : IsStroke(k) => k.data \notin Range(m.data.strokes)

LEMMA StrokeMoves ==
    ASSUME BoardOK, StrokeInv, NEW p \in Members, NEW gone, NEW sent \in SUBSET Messages,
           Passes(down, down', p, gone, sent), down' \in [Members -> Seq(Messages)], Paints(p, sent)
    PROVE  StrokeInv'
<1> DEFINE in(q, x) == x \in sent /\ Gets(q, x)
<1>1. \A q \in Members : \A x \in Range(down'[q]) : x \in Messages /\ (x \in Range(down[q]) \/ in(q, x))
  BY Passed
<1>4. \A q \in Members : \A x, y \in Messages : Before(down'[q], x, y) => Before(down[q], x, y) \/ (x \in Range(down'[q]) /\ in(q, y))
  BY Passed
<1>6. up' = up /\ drawn' = drawn /\ \A q \in Members : q = p \/ strokes'[q] = strokes[q]
  BY DEF Paints
<1>7. \A q \in Members : \A x : in(q, x) => ~IsStroke(x) /\ (IsBoard(x) =>
         /\ Range(x.data.strokes) \subseteq drawn /\ IsInjective(x.data.strokes)
         /\ \A r \in Members : \A k \in Range(up[r]) : IsStroke(k) => k.data \notin Range(x.data.strokes))
  BY DEF Paints
<1> HIDE DEF in
<1>8. ASSUME NEW q \in Members PROVE IsInjective(strokes'[q]) /\ Range(strokes'[q]) \subseteq drawn'
  BY <1>6 DEF Paints, StrokeInv
<1>9. ASSUME NEW q \in Members, NEW m \in Range(up'[q]), IsStroke(m) PROVE m.data \in drawn'
  BY <1>6, <1>9 DEF StrokeInv
<1>10. ASSUME NEW q \in Members, NEW m \in Range(down'[q])
       PROVE  /\ IsStroke(m) => m.data \in drawn' /\ m.data \notin Range(strokes'[q])
              /\ IsBoard(m) => Range(m.data.strokes) \subseteq drawn' /\ IsInjective(m.data.strokes)
  <2>1. CASE in(q, m)
    BY <1>6, <1>7, <2>1
  <2>2. CASE m \in Range(down[q])
    <3>1. CASE q = p
      BY <1>6, <2>2, <3>1 DEF StrokeInv, Paints
    <3>2. CASE q # p
      BY <1>6, <2>2, <3>2 DEF StrokeInv
    <3> QED BY <3>1, <3>2
  <2> QED BY <1>1, <2>1, <2>2
<1>11. ASSUME NEW a \in Members, NEW b \in Members, NEW m \in Range(up'[a]), IsStroke(m)
       PROVE  /\ a # b => m.data \notin Range(strokes'[b]) /\ \A n \in Range(up'[b]) : IsStroke(n) => n.data # m.data
              /\ \A n \in Range(down'[b]) : /\ IsStroke(n) => n.data # m.data
                                            /\ IsBoard(n) => m.data \notin Range(n.data.strokes)
  <2>1. m \in Range(up[a])
    BY <1>6
  <2>2. ASSUME a # b PROVE m.data \notin Range(strokes'[b]) /\ \A n \in Range(up'[b]) : IsStroke(n) => n.data # m.data
    <3>1. CASE b = p
      BY <1>6, <1>11, <2>1, <2>2, <3>1 DEF StrokeInv, Paints
    <3>2. CASE b # p
      BY <1>6, <1>11, <2>1, <2>2, <3>2 DEF StrokeInv
    <3> QED BY <3>1, <3>2
  <2>3. ASSUME NEW n \in Range(down'[b]) PROVE (IsStroke(n) => n.data # m.data) /\ (IsBoard(n) => m.data \notin Range(n.data.strokes))
    <3>1. CASE in(b, n)
      BY <1>7, <1>11, <2>1, <3>1
    <3>2. CASE n \in Range(down[b])
      BY <1>11, <2>1, <3>2 DEF StrokeInv
    <3> QED BY <1>1, <3>1, <3>2
  <2> QED BY <2>2, <2>3
<1>12. \A q \in Members : \A m, n \in Messages : Before(up'[q], m, n) /\ IsStroke(m) /\ IsStroke(n) => m.data # n.data
  BY <1>6 DEF StrokeInv
<1>13. ASSUME NEW q \in Members, NEW m \in Messages, NEW n \in Messages, Before(down'[q], m, n), IsStroke(n)
       PROVE  (IsStroke(m) => m.data # n.data) /\ (IsBoard(m) => n.data \notin Range(m.data.strokes))
  <2>1. Before(down[q], m, n)
    BY <1>4, <1>7, <1>13
  <2> QED BY <1>13, <2>1 DEF StrokeInv
<1> QED BY <1>8, <1>9, <1>10, <1>11, <1>12, <1>13 DEF StrokeInv

LEMMA StrokeInvRelay == ASSUME BoardOK, StrokeInv, NEW p \in Members, Relay(p) PROVE StrokeInv'
<1>0. PICK o : Relays(p, o)
  BY HasRelayed
<1> DEFINE in(q, x) == x = o /\ Gets(q, o)
<1>1. Passes(down, down', p, {}, {o}) /\ down' \in [Members -> Seq(Messages)] /\ o \in Messages /\ o \in Range(up[p])
      /\ o.kind \in {"stroke", "clear", "doc", "cursor"} /\ o.from = p
  BY <1>0 DEF Relays, BoardOK
<1>2. \A q \in Members : \A x \in Range(down'[q]) : x \in Messages /\ (x \in Range(down[q]) \/ in(q, x))
  BY <1>1, Passed
<1>4. \A q \in Members : \A x, y \in Messages : Before(down'[q], x, y) =>
        Before(down[q], x, y) \/ (x \in Range(down'[q]) /\ in(q, y) /\ (x \in Range(down[q]) \/ x # y))
  BY <1>1, Passed
<1>5. \A q \in Members : Gets(q, o) => q # p
  BY <1>1 DEF Gets, Broadcasts
<1>6. UNCHANGED <<drawn, strokes>>
  BY DEF Relay, canvasVars, historyVars
<1>7. Goes(up[p], up'[p], {o}, {}) /\ \A q \in Members \ {p} : up'[q] = up[q]
  BY <1>0 DEF Relays
<1>8. \A q \in Members : \A x \in Range(up'[q]) : x \in Range(up[q])
  BY <1>7 DEF Goes
<1>9. \A q \in Members : \A x, y \in Messages : Before(up'[q], x, y) => Before(up[q], x, y)
  BY <1>7 DEF Goes
<1>10. \A x \in Range(up'[p]) : Before(up[p], o, x) /\ x \in Messages
  <2>1. \A x \in Range(up'[p]) : Before(up[p], o, x)
    BY <1>7 DEF Goes
  <2> QED BY <2>1, BeforeIn DEF BoardOK
<1>11. IsStroke(o) => o.data \in drawn /\ \A q \in Members \ {p} : o.data \notin Range(strokes[q])
  BY <1>1 DEF StrokeInv
<1>12. ASSUME IsStroke(o), NEW q \in Members, NEW n \in Range(up'[q]), IsStroke(n) PROVE n.data # o.data
  <2>1. CASE q = p
    BY <1>1, <1>10, <1>12, <2>1 DEF StrokeInv
  <2>2. CASE q # p
    BY <1>1, <1>8, <1>12, <2>2 DEF StrokeInv
  <2> QED BY <2>1, <2>2
<1> HIDE DEF in
<1>13. \A q \in Members : IsInjective(strokes'[q]) /\ Range(strokes'[q]) \subseteq drawn'
  BY <1>6 DEF StrokeInv
<1>14. \A q \in Members : \A m \in Range(up'[q]) : IsStroke(m) => m.data \in drawn'
  BY <1>6, <1>8 DEF StrokeInv
<1>15. ASSUME NEW q \in Members, NEW m \in Range(down'[q])
       PROVE  /\ IsStroke(m) => m.data \in drawn' /\ m.data \notin Range(strokes'[q])
              /\ IsBoard(m) => Range(m.data.strokes) \subseteq drawn' /\ IsInjective(m.data.strokes)
  <2>1. CASE in(q, m)
    BY <1>1, <1>5, <1>6, <1>11, <2>1 DEF in, IsBoard
  <2>2. CASE m \in Range(down[q])
    BY <1>6, <2>2 DEF StrokeInv
  <2> QED BY <1>2, <2>1, <2>2
<1>16. ASSUME NEW a \in Members, NEW b \in Members, NEW m \in Range(up'[a]), IsStroke(m)
       PROVE  /\ a # b => m.data \notin Range(strokes'[b]) /\ \A n \in Range(up'[b]) : IsStroke(n) => n.data # m.data
              /\ \A n \in Range(down'[b]) : /\ IsStroke(n) => n.data # m.data
                                            /\ IsBoard(n) => m.data \notin Range(n.data.strokes)
  <2>1. m \in Range(up[a])
    BY <1>8
  <2>2. ASSUME a # b PROVE m.data \notin Range(strokes'[b]) /\ \A n \in Range(up'[b]) : IsStroke(n) => n.data # m.data
    BY <1>6, <1>8, <1>16, <2>1, <2>2 DEF StrokeInv
  <2>3. ASSUME NEW n \in Range(down'[b]) PROVE (IsStroke(n) => n.data # m.data) /\ (IsBoard(n) => m.data \notin Range(n.data.strokes))
    <3>1. CASE in(b, n)
      BY <1>1, <1>12, <1>16, <3>1 DEF in, IsBoard
    <3>2. CASE n \in Range(down[b])
      BY <1>16, <2>1, <3>2 DEF StrokeInv
    <3> QED BY <1>2, <3>1, <3>2
  <2> QED BY <2>2, <2>3
<1>17. \A q \in Members : \A m, n \in Messages : Before(up'[q], m, n) /\ IsStroke(m) /\ IsStroke(n) => m.data # n.data
  BY <1>9 DEF StrokeInv
<1>18. ASSUME NEW q \in Members, NEW m \in Messages, NEW n \in Messages, Before(down'[q], m, n), IsStroke(n)
       PROVE  (IsStroke(m) => m.data # n.data) /\ (IsBoard(m) => n.data \notin Range(m.data.strokes))
  <2>1. CASE Before(down[q], m, n)
    BY <1>18, <2>1 DEF StrokeInv
  <2>2. CASE m \in Range(down'[q]) /\ in(q, n) /\ (m \in Range(down[q]) \/ m # n)
    <3>1. n = o /\ IsStroke(o) /\ q # p /\ m \in Range(down[q])
      BY <1>2, <1>5, <1>18, <2>2 DEF in
    <3> QED BY <1>1, <3>1 DEF StrokeInv
  <2> QED BY <1>4, <1>18, <2>1, <2>2
<1> QED BY <1>13, <1>14, <1>15, <1>16, <1>17, <1>18 DEF StrokeInv

LEMMA StrokeInvJoin == ASSUME BoardOK, StrokeInv, NEW p \in Members, JoinBoard(p) PROVE StrokeInv'
<1> DEFINE w == Msg("welcome", 0, p, room)
<1>1. Welcomed(p)
  BY HasJoined
<1>2. ~IsStroke(w) /\ ~IsBoard(w)
  BY DEF Msg, IsStroke, IsBoard
<1>3. Range(down'[p]) = {w} /\ down'[p] \in Seq(Messages)
  BY <1>1 DEF Welcomed
<1>4. UNCHANGED <<strokes, up, drawn>> /\ \A q \in Members \ {p} : down'[q] = down[q]
  BY DEF JoinBoard, canvasVars, BoardOK
<1> HIDE DEF w
<1>5. \A q \in Members : \A m \in Range(down'[q]) : m \in Range(down[q]) \/ (~IsStroke(m) /\ ~IsBoard(m))
  <2>1. ASSUME NEW q \in Members, NEW m \in Range(down'[q]) PROVE m \in Range(down[q]) \/ (~IsStroke(m) /\ ~IsBoard(m))
    <3>1. CASE q = p
      BY <1>2, <1>3, <2>1, <3>1
    <3>2. CASE q # p
      BY <1>4, <2>1, <3>2
    <3> QED BY <3>1, <3>2
  <2> QED BY <2>1
<1>6. \A q \in Members : \A m, n \in Messages : Before(down'[q], m, n) => Before(down[q], m, n) \/ ~IsStroke(n)
  <2>1. ASSUME NEW q \in Members, NEW m \in Messages, NEW n \in Messages, Before(down'[q], m, n) PROVE Before(down[q], m, n) \/ ~IsStroke(n)
    <3>1. CASE q = p
      BY <1>2, <1>3, <2>1, <3>1, BeforeIn
    <3>2. CASE q # p
      BY <1>4, <2>1, <3>2
    <3> QED BY <3>1, <3>2
  <2> QED BY <2>1
<1> QED BY <1>4, <1>5, <1>6 DEF StrokeInv

LEMMA StrokeInvLeave == ASSUME BoardOK, StrokeInv, NEW p \in Members, LeaveBoard(p) PROVE StrokeInv'
<1> DEFINE bye(q) == Msg("peer-left", p, q, {})
<1>1. Announced(p)
  BY HasLeft
<1>2. \A q \in Members : ~IsStroke(bye(q)) /\ ~IsBoard(bye(q))
  BY DEF Msg, IsStroke, IsBoard
<1>3. UNCHANGED <<strokes, drawn>>
  BY DEF LeaveBoard, canvasVars
<1>4. Range(down'[p]) = {} /\ Range(up'[p]) = {} /\ (\A x, y : ~Before(down'[p], x, y) /\ ~Before(up'[p], x, y)) /\ \A q \in Members \ {p} : up'[q] = up[q]
  <2>1. down'[p] = <<>> /\ up'[p] = <<>> /\ \A q \in Members \ {p} : up'[q] = up[q]
    BY <1>1 DEF Announced
  <2>2. Range(<<>>) = {} /\ \A x, y : ~Before(<<>>, x, y)
    BY EmptyRange DEF Before
  <2> QED BY <2>1, <2>2
<1>5. \A q \in Members \ {p} : Goes(down[q], down'[q], {}, IF q \in room THEN {bye(q)} ELSE {})
  BY <1>1 DEF Announced
<1> HIDE DEF bye
<1>6. \A q \in Members : \A m \in Range(down'[q]) : m \in Range(down[q]) \/ (~IsStroke(m) /\ ~IsBoard(m))
  <2>1. ASSUME NEW q \in Members, NEW m \in Range(down'[q]) PROVE m \in Range(down[q]) \/ (~IsStroke(m) /\ ~IsBoard(m))
    <3>1. CASE q = p
      BY <1>4, <2>1, <3>1
    <3>2. CASE q # p
      BY <1>2, <1>5, <2>1, <3>2 DEF Goes
    <3> QED BY <3>1, <3>2
  <2> QED BY <2>1
<1>7. \A q \in Members : \A m, n \in Messages : Before(down'[q], m, n) => Before(down[q], m, n) \/ ~IsStroke(n)
  <2>1. ASSUME NEW q \in Members, NEW m \in Messages, NEW n \in Messages, Before(down'[q], m, n) PROVE Before(down[q], m, n) \/ ~IsStroke(n)
    <3>1. CASE q = p
      BY <1>4, <2>1, <3>1
    <3>2. CASE q # p
      <4>1. Before(down[q], m, n) \/ n \in IF q \in room THEN {bye(q)} ELSE {}
        BY <1>5, <2>1, <3>2 DEF Goes
      <4> QED BY <1>2, <4>1
    <3> QED BY <3>1, <3>2
  <2> QED BY <2>1
<1>8. \A q \in Members : \A m \in Range(up'[q]) : m \in Range(up[q])
  BY <1>4
<1>9. \A q \in Members : \A m, n : Before(up'[q], m, n) => Before(up[q], m, n)
  BY <1>4
<1> QED BY <1>3, <1>6, <1>7, <1>8, <1>9 DEF StrokeInv

\* What p's member does.
LEMMA StrokeInvSpeak ==
    ASSUME BoardOK, StrokeInv, NEW p \in Members, NEW o, Speaks(p, o), UNCHANGED <<down, room>>,
           \A q \in Members \ {p} : strokes'[q] = strokes[q],
           IsInjective(strokes'[p]) /\ Range(strokes'[p]) \subseteq drawn', drawn \subseteq drawn',
           \A s \in Range(strokes'[p]) : s \in Range(strokes[p]) \/ (s \notin drawn /\ IsStroke(o)),
           IsStroke(o) => o.data \in drawn' /\ o.data \notin drawn
    PROVE  StrokeInv'
<1>1. Goes(up[p], up'[p], {}, {o}) /\ \A q \in Members \ {p} : up'[q] = up[q]
  BY DEF Speaks
<1>2. \A q \in Members : \A m \in Range(up'[q]) : m \in Range(up[q]) \/ (q = p /\ m = o)
  BY <1>1 DEF Goes
<1>3. \A q \in Members : \A m, n \in Messages : Before(up'[q], m, n) =>
         Before(up[q], m, n) \/ (q = p /\ n = o /\ m \in Range(up'[p]) /\ (m \in Range(up[p]) \/ m # n))
  BY <1>1 DEF Goes
<1>4. \A q \in Members : IsInjective(strokes'[q]) /\ Range(strokes'[q]) \subseteq drawn'
  BY DEF StrokeInv
<1>5. \A q \in Members : \A m \in Range(up'[q]) : IsStroke(m) => m.data \in drawn'
  BY <1>2 DEF StrokeInv
<1>6. ASSUME NEW q \in Members, NEW m \in Range(down'[q])
      PROVE  /\ IsStroke(m) => m.data \in drawn' /\ m.data \notin Range(strokes'[q])
             /\ IsBoard(m) => Range(m.data.strokes) \subseteq drawn' /\ IsInjective(m.data.strokes)
  <2>1. /\ IsStroke(m) => m.data \in drawn /\ m.data \notin Range(strokes[q])
        /\ IsBoard(m) => Range(m.data.strokes) \subseteq drawn /\ IsInjective(m.data.strokes)
    BY DEF StrokeInv
  <2>2. \A s \in Range(strokes'[q]) : s \in Range(strokes[q]) \/ s \notin drawn
    <3>1. CASE q = p
      BY <3>1
    <3>2. CASE q # p
      BY <3>2
    <3> QED BY <3>1, <3>2
  <2> QED BY <2>1, <2>2
<1>7. ASSUME NEW a \in Members, NEW b \in Members, NEW m \in Range(up'[a]), IsStroke(m)
      PROVE  /\ a # b => m.data \notin Range(strokes'[b]) /\ \A n \in Range(up'[b]) : IsStroke(n) => n.data # m.data
             /\ \A n \in Range(down'[b]) : /\ IsStroke(n) => n.data # m.data
                                           /\ IsBoard(n) => m.data \notin Range(n.data.strokes)
  <2>1. CASE m \in Range(up[a])
    <3>1. m.data \in drawn
      BY <1>7, <2>1 DEF StrokeInv
    <3>2. ASSUME a # b PROVE m.data \notin Range(strokes'[b])
      <4>1. m.data \notin Range(strokes[b])
        BY <1>7, <2>1, <3>2 DEF StrokeInv
      <4>2. CASE b = p
        BY <3>1, <4>1, <4>2
      <4>3. CASE b # p
        BY <4>1, <4>3
      <4> QED BY <4>2, <4>3
    <3>3. ASSUME a # b, NEW n \in Range(up'[b]), IsStroke(n) PROVE n.data # m.data
      <4>1. CASE n \in Range(up[b])
        BY <1>7, <2>1, <3>3, <4>1 DEF StrokeInv
      <4>2. CASE n = o
        BY <3>1, <3>3, <4>2
      <4> QED BY <1>2, <4>1, <4>2
    <3>4. \A n \in Range(down'[b]) : (IsStroke(n) => n.data # m.data) /\ (IsBoard(n) => m.data \notin Range(n.data.strokes))
      BY <1>7, <2>1 DEF StrokeInv
    <3> QED BY <3>2, <3>3, <3>4
  <2>2. CASE a = p /\ m = o
    <3>1. m.data \notin drawn
      BY <1>7, <2>2
    <3>2. ASSUME a # b PROVE m.data \notin Range(strokes'[b]) /\ \A n \in Range(up'[b]) : IsStroke(n) => n.data # m.data
      <4>1. strokes'[b] = strokes[b] /\ up'[b] = up[b] /\ Range(strokes[b]) \subseteq drawn
        BY <1>1, <2>2, <3>2 DEF StrokeInv
      <4>2. \A n \in Range(up[b]) : IsStroke(n) => n.data \in drawn
        BY DEF StrokeInv
      <4> QED BY <3>1, <4>1, <4>2
    <3>3. \A n \in Range(down'[b]) : (IsStroke(n) => n.data # m.data) /\ (IsBoard(n) => m.data \notin Range(n.data.strokes))
      BY <3>1 DEF StrokeInv
    <3> QED BY <3>2, <3>3
  <2> QED BY <1>2, <2>1, <2>2
<1>8. ASSUME NEW q \in Members, NEW m \in Messages, NEW n \in Messages, Before(up'[q], m, n), IsStroke(m), IsStroke(n)
      PROVE  m.data # n.data
  <2>1. CASE Before(up[q], m, n)
    BY <1>8, <2>1 DEF StrokeInv
  <2>2. CASE q = p /\ n = o /\ m \in Range(up'[p]) /\ (m \in Range(up[p]) \/ m # n)
    <3>1. m \in Range(up[p])
      BY <1>2, <2>2
    <3>2. m.data \in drawn
      BY <1>8, <3>1 DEF StrokeInv
    <3> QED BY <1>8, <2>2, <3>2
  <2> QED BY <1>3, <1>8, <2>1, <2>2
<1>9. ASSUME NEW q \in Members, NEW m \in Messages, NEW n \in Messages, Before(down'[q], m, n), IsStroke(n)
      PROVE  (IsStroke(m) => m.data # n.data) /\ (IsBoard(m) => n.data \notin Range(m.data.strokes))
  BY <1>9 DEF StrokeInv
<1> QED BY <1>4, <1>5, <1>6, <1>7, <1>8, <1>9 DEF StrokeInv

LEMMA StrokeInvDo ==
    ASSUME BoardOK, StrokeInv, NEW p \in Members, Clear(p) \/ SetDoc(p) \/ MoveCursor(p) \/ \E s \in Strokes : AddStroke(p, s)
    PROVE  StrokeInv'
<1>0. /\ strokes \in [Members -> Seq(Strokes)] /\ IsInjective(strokes[p]) /\ Range(strokes[p]) \subseteq drawn
      /\ Range(<<>>) = {} /\ IsInjective(<<>>)
  BY EmptyRange DEF BoardOK, StrokeInv, IsInjective
<1>1. CASE Clear(p)
  <2>1. Speaks(p, Broadcast(p, "clear", {})) /\ ~IsStroke(Broadcast(p, "clear", {}))
    BY <1>1, ClearSpoken DEF Broadcast, Msg, IsStroke
  <2>2. UNCHANGED <<down, room, drawn>> /\ strokes'[p] = <<>> /\ \A q \in Members \ {p} : strokes'[q] = strokes[q]
    BY <1>0, <1>1 DEF Clear
  <2> QED BY <1>0, <2>1, <2>2, StrokeInvSpeak
<1>2. CASE SetDoc(p)
  <2>1. PICK d \in Texts : Speaks(p, Broadcast(p, "doc", d))
    BY <1>2, DocSpoken
  <2>2. ~IsStroke(Broadcast(p, "doc", d))
    BY DEF Broadcast, Msg, IsStroke
  <2>3. UNCHANGED <<down, room, drawn, strokes>>
    BY <1>2 DEF SetDoc
  <2> QED BY <1>0, <2>1, <2>2, <2>3, StrokeInvSpeak
<1>3. CASE MoveCursor(p)
  <2>1. Speaks(p, Broadcast(p, "cursor", {})) /\ ~IsStroke(Broadcast(p, "cursor", {}))
    BY <1>3, CursorSpoken DEF Broadcast, Msg, IsStroke
  <2>2. UNCHANGED <<down, room, drawn, strokes>>
    BY <1>3 DEF MoveCursor, canvasVars
  <2> QED BY <1>0, <2>1, <2>2, StrokeInvSpeak
<1>4. ASSUME NEW s \in Strokes, AddStroke(p, s) PROVE StrokeInv'
  <2>1. Speaks(p, Broadcast(p, "stroke", s)) /\ IsStroke(Broadcast(p, "stroke", s)) /\ Broadcast(p, "stroke", s).data = s
    BY <1>4, StrokeSpoken DEF Broadcast, Msg, IsStroke
  <2>2. UNCHANGED <<down, room>> /\ drawn' = drawn \cup {s} /\ s \notin drawn
    BY <1>4 DEF AddStroke
  <2>3. strokes'[p] = Append(strokes[p], s) /\ \A q \in Members \ {p} : strokes'[q] = strokes[q]
    BY <1>0, <1>4 DEF AddStroke
  <2>4. IsInjective(Append(strokes[p], s)) /\ Range(Append(strokes[p], s)) = Range(strokes[p]) \cup {s}
    BY <1>0, <2>2, StrokeAppended, StrokeAdded
  <2>5. IsInjective(strokes'[p]) /\ Range(strokes'[p]) = Range(strokes[p]) \cup {s}
    BY <2>3, <2>4
  <2> QED BY <1>0, <2>1, <2>2, <2>3, <2>5, StrokeInvSpeak
<1> QED BY <1>1, <1>2, <1>3, <1>4

LEMMA StrokeInvReceive == ASSUME BoardOK, StrokeInv, NEW p \in Members, Receive(p) PROVE StrokeInv'
<1>1. PICK h \in Messages, sent \in SUBSET Messages : Delivers(p, h, sent) /\ Reads(p, h, sent)
  BY Received
<1>2. Passes(down, down', p, {h}, sent) /\ down' \in [Members -> Seq(Messages)] /\ h \in Range(down[p]) /\ UNCHANGED <<up, drawn>>
  BY <1>1 DEF Delivers, Receive
<1>3. Sound(h) /\ strokes \in [Members -> Seq(Strokes)] /\ IsInjective(strokes[p]) /\ Range(strokes[p]) \subseteq drawn
  BY DEF Messages, BoardOK, StrokeInv
\* the messages that stay are not strokes of the old canvas, nor does h tell of them
<1>4. ASSUME NEW n \in Range(down'[p]), IsStroke(n), \A m \in sent : ~IsStroke(m)
      PROVE  /\ n.data \notin Range(strokes[p]) /\ (IsStroke(h) => n.data # h.data)
             /\ IsBoard(h) => n.data \notin Range(h.data.strokes)
  <2>1. n \in Messages /\ n \in Range(down[p]) /\ Before(down[p], h, n)
    BY <1>2, <1>4, Passed
  <2> QED BY <1>4, <2>1 DEF StrokeInv
<1>5. ASSUME NEW r \in Members \ {p}, NEW m \in Range(up[r]), IsStroke(m)
      PROVE  /\ m.data \notin Range(strokes[p]) /\ (IsStroke(h) => m.data # h.data)
             /\ IsBoard(h) => m.data \notin Range(h.data.strokes)
  BY <1>2, <1>5 DEF StrokeInv
<1>6. ASSUME strokes' = strokes, \A m \in sent : ~IsStroke(m) /\ ~IsBoard(m) PROVE StrokeInv'
  <2>1. Paints(p, sent)
    BY <1>2, <1>3, <1>4, <1>5, <1>6 DEF Paints
  <2> QED BY <1>2, <2>1, StrokeMoves
<1>7. CASE h.kind = "welcome" /\ Start(p, h.data)
           /\ sent = {Broadcast(p, "hello", {})} \cup {Msg("sync-request", p, to, {}) : to \in {Min(s) : s \in {h.data} \ {{}}}}
  <2>1. \A m \in sent : ~IsStroke(m) /\ ~IsBoard(m)
    BY <1>7 DEF Broadcast, Msg, IsStroke, IsBoard
  <2>2. strokes' = strokes
    BY <1>7 DEF Start, canvasVars
  <2> QED BY <1>6, <2>1, <2>2
<1>8. CASE h.kind = "hello" /\ Hello(p, h.from) /\ sent = {Msg("hi", p, h.from, {})}
  <2>1. \A m \in sent : ~IsStroke(m) /\ ~IsBoard(m)
    BY <1>8 DEF Msg, IsStroke, IsBoard
  <2> QED BY <1>6, <1>8, <2>1 DEF Hello
<1>9. CASE sent = {} /\ (Hi(p, h.from) \/ Write(p, h.data) \/ Point(p, h.from) \/ PeerLeft(p, h.from))
  BY <1>6, <1>9 DEF Hi, Write, Point, PeerLeft
<1>10. CASE h.kind = "stroke" /\ Draw(p, Append(strokes[p], h.data)) /\ sent = {}
  <2>1. h.data \in Strokes /\ IsStroke(h)
    BY <1>3, <1>10 DEF Sound, IsStroke
  <2>2. h.data \notin Range(strokes[p]) /\ h.data \in drawn
    BY <1>2, <2>1 DEF StrokeInv
  <2>3. IsInjective(Append(strokes[p], h.data)) /\ Range(Append(strokes[p], h.data)) = Range(strokes[p]) \cup {h.data}
    BY <1>3, <2>1, <2>2, StrokeAppended, StrokeAdded
  <2>4. strokes'[p] = Append(strokes[p], h.data) /\ \A q \in Members \ {p} : strokes'[q] = strokes[q]
    BY <1>3, <1>10 DEF Draw
  <2>5. IsInjective(strokes'[p]) /\ Range(strokes'[p]) = Range(strokes[p]) \cup {h.data}
    BY <2>3, <2>4
  <2>6. Paints(p, sent)
    BY <1>2, <1>3, <1>4, <1>5, <1>10, <2>1, <2>2, <2>4, <2>5 DEF Paints
  <2> QED BY <1>2, <2>6, StrokeMoves
<1>11. CASE h.kind = "clear" /\ Draw(p, <<>>) /\ sent = {}
  <2>1. Range(<<>>) = {} /\ IsInjective(<<>>)
    BY EmptyRange DEF IsInjective
  <2>2. strokes'[p] = <<>> /\ \A q \in Members \ {p} : strokes'[q] = strokes[q]
    BY <1>3, <1>11 DEF Draw
  <2>3. Paints(p, sent)
    BY <1>2, <1>11, <2>1, <2>2 DEF Paints
  <2> QED BY <1>2, <2>3, StrokeMoves
<1>12. CASE h.kind = "sync-request" /\ SyncRequest(p, h.from)
            /\ sent = {Msg("sync-state", p, h.from, [strokes |-> strokes[p], doc |-> doc[p], synced |-> p \in synced])}
  <2>1. strokes' = strokes /\ up[p] = <<>> /\ Range(up[p]) = {}
    BY <1>12, EmptyRange DEF SyncRequest, canvasVars, Reply
  <2>2. \A m \in sent : ~IsStroke(m) /\ IsBoard(m) /\ m.data.strokes = strokes[p]
    BY <1>12 DEF Msg, IsStroke, IsBoard
  <2>3. \A r \in Members : \A k \in Range(up[r]) : IsStroke(k) => k.data \notin Range(strokes[p])
    BY <1>5, <2>1
  <2>4. Paints(p, sent)
    BY <1>2, <1>3, <1>4, <1>5, <2>1, <2>2, <2>3 DEF Paints
  <2> QED BY <1>2, <2>4, StrokeMoves
<1>13. CASE h.kind = "sync-state" /\ SyncState(p, h.data) /\ sent = {}
  <2>1. IsBoard(h) /\ Range(h.data.strokes) \subseteq drawn /\ IsInjective(h.data.strokes)
    BY <1>2, <1>13 DEF StrokeInv, IsBoard
  <2>2. strokes'[p] = h.data.strokes /\ \A q \in Members \ {p} : strokes'[q] = strokes[q]
    BY <1>3, <1>13 DEF SyncState
  <2>3. Paints(p, sent)
    BY <1>2, <1>4, <1>5, <1>13, <2>1, <2>2 DEF Paints
  <2> QED BY <1>2, <2>3, StrokeMoves
<1> QED BY <1>1, <1>7, <1>8, <1>9, <1>10, <1>11, <1>12, <1>13 DEF Reads

LEMMA StrokeInvStep == ASSUME BoardOK, StrokeInv, [BoardNext]_boardVars PROVE StrokeInv'
<1>1. CASE UNCHANGED boardVars
  BY <1>1, StrokeInvKept DEF boardVars, canvasVars, historyVars
<1>2. CASE BoardNext
  BY <1>2, StrokeInvJoin, StrokeInvLeave, StrokeInvRelay, StrokeInvDo, StrokeInvReceive DEF BoardNext
<1> QED BY <1>1, <1>2

\* No stroke is drawn twice, however a newcomer's catching up crosses what is drawn.
THEOREM StrokesOnce == BoardSpec => []NoStrokeTwice
<1>1. BoardInit => BoardOK /\ StrokeInv
  BY MembersAssumption, BoardOKInit, StrokeInvInit
<1>2. BoardOK /\ StrokeInv /\ [BoardNext]_boardVars => (BoardOK /\ StrokeInv)'
  BY BoardOKStep, StrokeInvStep
<1>3. StrokeInv => NoStrokeTwice
  BY DEF StrokeInv, NoStrokeTwice
<1> QED BY <1>1, <1>2, <1>3, PTL DEF BoardSpec

(***************************************************************************)
(* A page catches up once                                                  *)
(***************************************************************************)
IsRequest(m, p) == m.kind = "sync-request" /\ m.from = p
Asked(p) == \E r \in Members : \E m \in Range(down[r]) : IsRequest(m, p)

\* A page is welcomed once, asks one page once for the board, and gets one answer.
OnceInv ==
    /\ \A p \in Members : \A m \in Range(down[p]) :
         /\ IsBoard(m) => p \notin synced /\ tab[p] = "open" /\ ~Asked(p)
         /\ m.kind = "welcome" => p \notin synced /\ tab[p] = "joining"
    /\ \A p \in Members : tab[p] \in {"none", "joining"} => ~Asked(p)
    /\ \A p \in Members : p \in synced => ~Asked(p) /\ tab[p] \in {"open", "left"}
    /\ \A p \in Members : \A m, n \in Messages : Before(down[p], m, n) =>
         /\ ~(IsBoard(m) /\ IsBoard(n))
         /\ \A q \in Members : ~(IsRequest(m, q) /\ IsRequest(n, q))
         /\ n.kind # "welcome"
    /\ \A p, q, r \in Members : \A m \in Range(down[p]), n \in Range(down[q]) : IsRequest(m, r) /\ IsRequest(n, r) => p = q

OfCatchingUp == {"welcome", "sync-request", "sync-state"}

LEMMA OnceInvInit == ASSUME MembersAssumption, BoardInit PROVE OnceInv
<1>1. \A q \in Members : down[q] = <<>> /\ (q \in synced => tab[q] = "open")
  BY DEF BoardInit
<1>2. Range(<<>>) = {} /\ \A x, y : ~Before(<<>>, x, y)
  BY EmptyRange DEF Before
<1>3. \A q \in Members : Range(down[q]) = {} /\ (\A x, y : ~Before(down[q], x, y)) /\ ~Asked(q)
  BY <1>1, <1>2 DEF Asked
<1> QED BY <1>1, <1>3 DEF OnceInv

\* Nothing of catching up is sent.
LEMMA OnceInvKept ==
    ASSUME BoardOK, OnceInv, synced' = synced, tab' = tab \/ \E x \in Members : tab' = [tab EXCEPT ![x] = "left"] /\ Range(down'[x]) = {},
           \A q \in Members : \A x \in Range(down'[q]) : x \in Range(down[q]) \/ x.kind \notin OfCatchingUp,
           \A q \in Members : \A x, y \in Messages : Before(down'[q], x, y) => Before(down[q], x, y) \/ y.kind \notin OfCatchingUp
    PROVE  OnceInv'
<1>1. \A q \in Members : Asked(q)' => Asked(q)
  BY DEF Asked, IsRequest, OfCatchingUp
<1>2. tab \in [Members -> {"none", "joining", "open", "left"}]
  BY DEF BoardOK
<1>3. ASSUME NEW q \in Members, NEW m \in Range(down'[q])
      PROVE  /\ IsBoard(m) => q \notin synced' /\ tab'[q] = "open" /\ ~Asked(q)'
             /\ m.kind = "welcome" => q \notin synced' /\ tab'[q] = "joining"
  <2>1. tab'[q] = tab[q]
    BY <1>2, <1>3
  <2> QED BY <1>1, <2>1 DEF OnceInv, IsBoard, OfCatchingUp
<1>4. \A q \in Members : tab'[q] = tab[q] \/ tab'[q] = "left"
  BY <1>2
<1>5. \A q \in Members : tab'[q] \in {"none", "joining"} => ~Asked(q)'
  BY <1>1, <1>4 DEF OnceInv
<1>6. \A q \in Members : q \in synced' => ~Asked(q)' /\ tab'[q] \in {"open", "left"}
  BY <1>1, <1>4 DEF OnceInv
<1>7. ASSUME NEW q \in Members, NEW m \in Messages, NEW n \in Messages, Before(down'[q], m, n)
      PROVE  /\ ~(IsBoard(m) /\ IsBoard(n)) /\ n.kind # "welcome"
             /\ \A r \in Members : ~(IsRequest(m, r) /\ IsRequest(n, r))
  BY <1>7 DEF OnceInv, IsBoard, IsRequest, OfCatchingUp
<1>8. ASSUME NEW a \in Members, NEW b \in Members, NEW r \in Members, NEW m \in Range(down'[a]), NEW n \in Range(down'[b]),
             IsRequest(m, r), IsRequest(n, r)
      PROVE  a = b
  <2>1. m \in Range(down[a]) /\ n \in Range(down[b])
    BY <1>8 DEF IsRequest, OfCatchingUp
  <2> QED BY <1>8, <2>1 DEF OnceInv
<1> QED BY <1>3, <1>5, <1>6, <1>7, <1>8 DEF OnceInv

LEMMA OnceInvJoin == ASSUME BoardOK, OnceInv, NEW p \in Members, JoinBoard(p) PROVE OnceInv'
<1> DEFINE w == Msg("welcome", 0, p, room)
<1>1. Welcomed(p)
  BY HasJoined
<1>2. w.kind = "welcome" /\ ~IsBoard(w) /\ \A r \in Members : ~IsRequest(w, r)
  BY DEF Msg, IsBoard, IsRequest
<1>3. Range(down'[p]) = {w} /\ Range(down[p]) = {} /\ tab[p] = "none" /\ w \in Messages
  BY <1>1 DEF Welcomed
<1>4. UNCHANGED synced /\ tab'[p] = "joining" /\ \A q \in Members \ {p} : down'[q] = down[q] /\ tab'[q] = tab[q]
  BY DEF JoinBoard, BoardOK
<1>5. Goes(down[p], down'[p], {}, {w})
  BY <1>1 DEF Welcomed
<1>6. \A x, y \in Messages : ~Before(down'[p], x, y)
  <2>1. ASSUME NEW x \in Messages, NEW y \in Messages, Before(down'[p], x, y) PROVE FALSE
    <3>1. Before(down[p], x, y) \/ (x \in Range(down'[p]) /\ y \in {w} /\ (x \in Range(down[p]) \/ x # y))
      BY <1>5, <2>1 DEF Goes
    <3>2. ~Before(down[p], x, y)
      BY <1>3, BeforeIn DEF BoardOK
    <3> QED BY <1>3, <3>1, <3>2
  <2> QED BY <2>1
<1> HIDE DEF w
<1>7. \A q, r \in Members : \A m \in Range(down'[q]) : IsRequest(m, r) => q # p /\ m \in Range(down[q])
  BY <1>2, <1>3, <1>4
<1>8. \A r \in Members : Asked(r)' => Asked(r)
  BY <1>7 DEF Asked
<1>9. ASSUME NEW q \in Members, NEW m \in Range(down'[q])
      PROVE  /\ IsBoard(m) => q \notin synced' /\ tab'[q] = "open" /\ ~Asked(q)'
             /\ m.kind = "welcome" => q \notin synced' /\ tab'[q] = "joining"
  <2>1. CASE q = p
    BY <1>2, <1>3, <1>4, <2>1 DEF OnceInv
  <2>2. CASE q # p
    BY <1>4, <1>8, <2>2 DEF OnceInv
  <2> QED BY <2>1, <2>2
<1>10. \A q \in Members : tab'[q] \in {"none", "joining"} => ~Asked(q)'
  BY <1>3, <1>4, <1>8 DEF OnceInv
<1>11. \A q \in Members : q \in synced' => ~Asked(q)' /\ tab'[q] \in {"open", "left"}
  BY <1>3, <1>4, <1>8 DEF OnceInv
<1>12. ASSUME NEW q \in Members, NEW m \in Messages, NEW n \in Messages, Before(down'[q], m, n)
       PROVE  /\ ~(IsBoard(m) /\ IsBoard(n)) /\ n.kind # "welcome"
              /\ \A r \in Members : ~(IsRequest(m, r) /\ IsRequest(n, r))
  BY <1>4, <1>6, <1>12 DEF OnceInv
<1>13. ASSUME NEW a \in Members, NEW b \in Members, NEW r \in Members, NEW m \in Range(down'[a]), NEW n \in Range(down'[b]),
             IsRequest(m, r), IsRequest(n, r)
       PROVE  a = b
  <2>1. m \in Range(down[a]) /\ n \in Range(down[b])
    BY <1>7, <1>13
  <2> QED BY <1>13, <2>1 DEF OnceInv
<1> QED BY <1>9, <1>10, <1>11, <1>12, <1>13 DEF OnceInv

\* What p leaving does to the sockets.
LEMMA LeftDown ==
    ASSUME BoardOK, NEW p \in Members, LeaveBoard(p), NEW q \in Members
    PROVE  /\ q = p => Range(down'[q]) = {} /\ Range(up'[q]) = {}
           /\ q # p => up'[q] = up[q]
           /\ \A x \in Range(down'[q]) : x \in Messages /\ (x \in Range(down[q]) \/ x = Msg("peer-left", p, q, {}))
           /\ \A x \in Range(down[q]) : q = p \/ x \in Range(down'[q])
           /\ \A x, y \in Messages : Before(down'[q], x, y) => Before(down[q], x, y) \/ y = Msg("peer-left", p, q, {})
<1>1. Announced(p)
  BY HasLeft
<1>2. Range(<<>>) = {} /\ \A x, y : ~Before(<<>>, x, y)
  BY EmptyRange DEF Before
<1>3. CASE q = p
  <2>1. down'[q] = <<>> /\ up'[q] = <<>>
    BY <1>1, <1>3 DEF Announced
  <2> QED BY <1>2, <1>3, <2>1
<1>4. CASE q # p
  <2>1. Goes(down[q], down'[q], {}, IF q \in room THEN {Msg("peer-left", p, q, {})} ELSE {}) /\ up'[q] = up[q] /\ down'[q] \in Seq(Messages)
    BY <1>1, <1>4 DEF Announced
  <2>2. \A x : x \in (IF q \in room THEN {Msg("peer-left", p, q, {})} ELSE {}) => x = Msg("peer-left", p, q, {})
    OBVIOUS
  <2>3. \A x \in Range(down'[q]) : x \in Messages
    BY <2>1, RangeIn
  <2> QED BY <1>4, <2>1, <2>2, <2>3 DEF Goes
<1> QED BY <1>3, <1>4

LEMMA OnceInvLeave == ASSUME BoardOK, OnceInv, NEW p \in Members, LeaveBoard(p) PROVE OnceInv'
<1>1. \A q \in Members : Msg("peer-left", p, q, {}).kind \notin OfCatchingUp
  BY DEF Msg, OfCatchingUp
<1>2. \A q \in Members : \A x \in Range(down'[q]) : x \in Range(down[q]) \/ x.kind \notin OfCatchingUp
  BY <1>1, LeftDown
<1>3. \A q \in Members : \A x, y \in Messages : Before(down'[q], x, y) => Before(down[q], x, y) \/ y.kind \notin OfCatchingUp
  BY <1>1, LeftDown
<1>4. tab' = [tab EXCEPT ![p] = "left"] /\ Range(down'[p]) = {} /\ synced' = synced
  BY LeftDown DEF LeaveBoard
<1> QED BY <1>2, <1>3, <1>4, OnceInvKept

\* A page reads what is not of catching up, or the server relays.
LEMMA OnceInvMoves ==
    ASSUME BoardOK, OnceInv, NEW p \in Members, NEW gone, NEW sent, Passes(down, down', p, gone, sent),
           down' \in [Members -> Seq(Messages)], UNCHANGED <<tab, synced>>, \A m \in sent : m.kind \notin OfCatchingUp
    PROVE  OnceInv'
<1>1. \A q \in Members : \A x \in Range(down'[q]) : x \in Range(down[q]) \/ x.kind \notin OfCatchingUp
  BY Passed
<1>2. \A q \in Members : \A x, y \in Messages : Before(down'[q], x, y) => Before(down[q], x, y) \/ y.kind \notin OfCatchingUp
  BY Passed
<1> QED BY <1>1, <1>2, OnceInvKept

LEMMA OnceInvStart ==
    ASSUME BoardOK, OnceInv, NEW p \in Members, NEW h \in Messages, NEW sent \in SUBSET Messages, Delivers(p, h, sent),
           h.kind = "welcome", Start(p, h.data),
           sent = {Broadcast(p, "hello", {})} \cup {Msg("sync-request", p, to, {}) : to \in {Min(s) : s \in {h.data} \ {{}}}}
    PROVE  OnceInv'
<1> DEFINE hello == Broadcast(p, "hello", {})
<1>1. Passes(down, down', p, {h}, sent) /\ down' \in [Members -> Seq(Messages)] /\ h \in Range(down[p])
  BY DEF Delivers
<1>2. p \notin synced /\ tab[p] = "joining" /\ ~Asked(p)
  BY <1>1 DEF OnceInv
<1>3. tab'[p] = "open" /\ \A q \in Members \ {p} : tab'[q] = tab[q]
  BY DEF Start, BoardOK
<1>4. hello.kind = "hello"
  BY DEF Broadcast, Msg
<1>5. \A m \in sent : m = hello \/ IsRequest(m, p)
  BY DEF Msg, IsRequest
<1>6. \A m, n \in sent : IsRequest(m, p) /\ IsRequest(n, p) => m = n
  BY <1>4 DEF IsRequest
<1> HIDE DEF hello
<1>7. \A m \in sent : ~IsBoard(m) /\ m.kind # "welcome" /\ \A r \in Members : IsRequest(m, r) => r = p
  BY <1>4, <1>5 DEF IsBoard, IsRequest
<1>8. \A q \in Members : \A x \in Range(down'[q]) : x \in Messages /\ (x \in Range(down[q]) \/ (x \in sent /\ Gets(q, x)))
  BY <1>1, Passed
<1>9. \A q \in Members : \A x, y \in Messages : Before(down'[q], x, y) =>
        Before(down[q], x, y) \/ (x \in Range(down'[q]) /\ y \in sent /\ Gets(q, y) /\ (x \in Range(down[q]) \/ x # y))
  BY <1>1, Passed
<1>10. \A y \in Range(down'[p]) : Before(down[p], h, y) \/ y \in sent
  BY <1>1, Passed
<1>11. \A y \in Range(down'[p]) : ~IsBoard(y) /\ y.kind # "welcome"
  <2>1. ASSUME NEW y \in Range(down'[p]) PROVE ~IsBoard(y) /\ y.kind # "welcome"
    <3>1. CASE y \in sent
      BY <1>7, <3>1
    <3>2. CASE y \notin sent
      <4>1. Before(down[p], h, y) /\ y \in Messages /\ y \in Range(down[p])
        BY <1>8, <1>10, <3>2
      <4>2. y.kind # "welcome"
        BY <4>1 DEF OnceInv
      <4>3. ~IsBoard(y)
        BY <1>2, <4>1 DEF OnceInv
      <4> QED BY <4>2, <4>3
    <3> QED BY <3>1, <3>2
  <2> QED BY <2>1
<1>12. \A q \in Members \ {p} : Asked(q)' => Asked(q)
  BY <1>7, <1>8 DEF Asked
<1>13. Asked(p)' => p \notin synced'
  <2>1. CASE h.data = {}
    <3>1. \A m \in sent : m = hello
      BY <2>1 DEF hello
    <3>2. \A m \in sent : ~IsRequest(m, p)
      BY <1>4, <3>1 DEF IsRequest
    <3> QED BY <1>2, <1>8, <3>2 DEF Asked
  <2>2. CASE h.data # {}
    BY <1>2, <2>2 DEF Start
  <2> QED BY <2>1, <2>2
<1>14. \A q \in Members \ {p} : q \in synced' <=> q \in synced
  BY DEF Start
<1>15. ASSUME NEW q \in Members, NEW m \in Range(down'[q])
       PROVE  /\ IsBoard(m) => q \notin synced' /\ tab'[q] = "open" /\ ~Asked(q)'
              /\ m.kind = "welcome" => q \notin synced' /\ tab'[q] = "joining"
  <2>1. CASE q = p
    BY <1>11, <2>1
  <2>2. CASE q # p
    <3>1. CASE m \in Range(down[q])
      BY <1>3, <1>12, <1>14, <2>2, <3>1 DEF OnceInv
    <3>2. CASE m \in sent
      BY <1>7, <3>2
    <3> QED BY <1>8, <3>1, <3>2
  <2> QED BY <2>1, <2>2
<1>16. \A q \in Members : tab'[q] \in {"none", "joining"} => ~Asked(q)'
  BY <1>3, <1>12 DEF OnceInv
<1>17. \A q \in Members : q \in synced' => ~Asked(q)' /\ tab'[q] \in {"open", "left"}
  BY <1>3, <1>12, <1>13, <1>14 DEF OnceInv
<1>18. ASSUME NEW q \in Members, NEW m \in Messages, NEW n \in Messages, Before(down'[q], m, n)
       PROVE  /\ ~(IsBoard(m) /\ IsBoard(n)) /\ n.kind # "welcome"
              /\ \A r \in Members : ~(IsRequest(m, r) /\ IsRequest(n, r))
  <2>1. CASE Before(down[q], m, n)
    BY <2>1 DEF OnceInv
  <2>2. CASE m \in Range(down'[q]) /\ n \in sent /\ (m \in Range(down[q]) \/ m # n)
    <3>1. ASSUME NEW r \in Members, IsRequest(m, r), IsRequest(n, r) PROVE FALSE
      <4>1. r = p
        BY <1>7, <2>2, <3>1
      <4>2. m \notin Range(down[q])
        BY <1>2, <3>1, <4>1 DEF Asked
      <4>3. m \in sent
        BY <1>8, <2>2, <4>2
      <4> QED BY <1>6, <2>2, <3>1, <4>1, <4>2, <4>3
    <3> QED BY <1>7, <2>2, <3>1
  <2> QED BY <1>9, <1>18, <2>1, <2>2
<1>19. ASSUME NEW a \in Members, NEW b \in Members, NEW r \in Members, NEW m \in Range(down'[a]), NEW n \in Range(down'[b]),
              IsRequest(m, r), IsRequest(n, r)
       PROVE  a = b
  <2>1. CASE r = p
    <3>1. m \in sent /\ n \in sent /\ Gets(a, m) /\ Gets(b, n)
      BY <1>2, <1>8, <1>19, <2>1 DEF Asked
    <3>2. m = n
      BY <1>6, <1>19, <2>1, <3>1
    <3> QED BY <1>19, <3>1, <3>2 DEF Gets, IsRequest, Broadcasts
  <2>2. CASE r # p
    <3>1. m \in Range(down[a]) /\ n \in Range(down[b])
      BY <1>7, <1>8, <1>19, <2>2
    <3> QED BY <1>19, <3>1 DEF OnceInv
  <2> QED BY <2>1, <2>2
<1> QED BY <1>15, <1>16, <1>17, <1>18, <1>19 DEF OnceInv

\* The one request of f has been answered.
LEMMA OnceInvAnswer ==
    ASSUME BoardOK, OnceInv, NEW p \in Members, NEW h \in Messages, NEW a, Delivers(p, h, {a}),
           h.kind = "sync-request", IsBoard(a), a.to = h.from, UNCHANGED <<tab, synced>>
    PROVE  OnceInv' /\ ~Asked(h.from)' /\ h.from \in Members
                    /\ (h.from \in room => h.from \notin synced /\ tab[h.from] = "open" /\ \A m \in Range(down[h.from]) : ~IsBoard(m))
<1> DEFINE f == h.from
<1>1. Passes(down, down', p, {h}, {a}) /\ down' \in [Members -> Seq(Messages)] /\ h \in Range(down[p])
  BY DEF Delivers
<1>2. f \in Members /\ IsRequest(h, f)
  BY FromMember DEF IsRequest
<1> HIDE DEF f
<1>3. Asked(f)
  BY <1>1, <1>2 DEF Asked
<1>4. /\ ~IsRequest(a, f) /\ a.kind # "welcome" /\ \A r : ~IsRequest(a, r)
      /\ \A q \in Members : Gets(q, a) <=> q = f /\ q \in room
  BY DEF IsBoard, IsRequest, Gets, Broadcasts, f
<1>5. f \notin synced /\ tab[f] \notin {"none", "joining"} /\ \A m \in Range(down[f]) : ~IsBoard(m) /\ m.kind # "welcome"
  BY <1>2, <1>3 DEF OnceInv
<1>6. f \in room => tab[f] = "open"
  BY <1>2, <1>5 DEF BoardOK
<1>7. \A q \in Members : \A x \in Range(down'[q]) : x \in Messages /\ (x \in Range(down[q]) \/ (x = a /\ q = f /\ f \in room))
  BY <1>1, <1>4, Passed
<1>8. \A q \in Members : \A x, y \in Messages : Before(down'[q], x, y) =>
        Before(down[q], x, y) \/ (x \in Range(down'[q]) /\ y = a /\ q = f /\ (x \in Range(down[q]) \/ x # a))
  BY <1>1, <1>4, Passed
<1>9. \A y \in Range(down'[p]) : Before(down[p], h, y) \/ y = a
  BY <1>1, Passed
<1>10. ~Asked(f)'
  <2>1. ASSUME NEW r \in Members, NEW m \in Range(down'[r]), IsRequest(m, f) PROVE FALSE
    <3>1. m \in Range(down[r]) /\ m \in Messages
      BY <1>4, <1>7, <2>1
    <3>2. r = p
      BY <1>1, <1>2, <2>1, <3>1 DEF OnceInv
    <3>3. Before(down[p], h, m)
      BY <1>4, <1>9, <2>1, <3>2
    <3> QED BY <1>2, <2>1, <3>1, <3>3 DEF OnceInv
  <2> QED BY <2>1 DEF Asked
<1>11. \A q \in Members : Asked(q)' => Asked(q)
  BY <1>4, <1>7 DEF Asked
<1>12. ASSUME NEW q \in Members, NEW m \in Range(down'[q])
       PROVE  /\ IsBoard(m) => q \notin synced' /\ tab'[q] = "open" /\ ~Asked(q)'
              /\ m.kind = "welcome" => q \notin synced' /\ tab'[q] = "joining"
  <2>1. CASE m \in Range(down[q])
    BY <1>11, <2>1 DEF OnceInv
  <2>2. CASE m = a /\ q = f /\ f \in room
    BY <1>4, <1>5, <1>6, <1>10, <2>2
  <2> QED BY <1>7, <2>1, <2>2
<1>13. \A q \in Members : tab'[q] \in {"none", "joining"} => ~Asked(q)'
  BY <1>11 DEF OnceInv
<1>14. \A q \in Members : q \in synced' => ~Asked(q)' /\ tab'[q] \in {"open", "left"}
  BY <1>11 DEF OnceInv
<1>15. ASSUME NEW q \in Members, NEW m \in Messages, NEW n \in Messages, Before(down'[q], m, n)
       PROVE  /\ ~(IsBoard(m) /\ IsBoard(n)) /\ n.kind # "welcome"
              /\ \A r \in Members : ~(IsRequest(m, r) /\ IsRequest(n, r))
  <2>1. CASE Before(down[q], m, n)
    BY <2>1 DEF OnceInv
  <2>2. CASE m \in Range(down'[q]) /\ n = a /\ q = f /\ (m \in Range(down[q]) \/ m # a)
    <3>1. m \in Range(down[f])
      BY <1>7, <2>2
    <3> QED BY <1>4, <1>5, <2>2, <3>1
  <2> QED BY <1>8, <1>15, <2>1, <2>2
<1>16. ASSUME NEW c \in Members, NEW d \in Members, NEW r \in Members, NEW m \in Range(down'[c]), NEW n \in Range(down'[d]),
              IsRequest(m, r), IsRequest(n, r)
       PROVE  c = d
  <2>1. m \in Range(down[c]) /\ n \in Range(down[d])
    BY <1>4, <1>7, <1>16
  <2> QED BY <1>16, <2>1 DEF OnceInv
<1>17. OnceInv'
  BY <1>12, <1>13, <1>14, <1>15, <1>16 DEF OnceInv
<1> QED BY <1>2, <1>5, <1>6, <1>10, <1>17 DEF f

LEMMA OnceInvCatchUp ==
    ASSUME BoardOK, OnceInv, NEW p \in Members, NEW h \in Messages, Delivers(p, h, {}), IsBoard(h), SyncState(p, h.data)
    PROVE  OnceInv' /\ \A m \in Range(down'[p]) : ~IsBoard(m) /\ m.kind # "welcome"
<1>1. Passes(down, down', p, {h}, {}) /\ down' \in [Members -> Seq(Messages)] /\ h \in Range(down[p])
  BY DEF Delivers
<1>2. p \notin synced /\ tab[p] = "open" /\ ~Asked(p)
  BY <1>1 DEF OnceInv
<1>3. tab' = tab /\ \A q \in Members \ {p} : q \in synced' <=> q \in synced
  BY DEF SyncState
<1>4. \A q \in Members : \A x \in Range(down'[q]) : x \in Messages /\ x \in Range(down[q])
  BY <1>1, Passed
<1>5. \A q \in Members : \A x, y \in Messages : Before(down'[q], x, y) => Before(down[q], x, y)
  BY <1>1, Passed
<1>6. \A y \in Range(down'[p]) : Before(down[p], h, y)
  BY <1>1, Passed, SMTT(30)
<1>7. \A q \in Members : Asked(q)' => Asked(q)
  BY <1>4 DEF Asked
<1>8. \A m \in Range(down'[p]) : ~IsBoard(m) /\ m.kind # "welcome"
  BY <1>4, <1>6 DEF OnceInv
<1>9. ASSUME NEW q \in Members, NEW m \in Range(down'[q])
      PROVE  /\ IsBoard(m) => q \notin synced' /\ tab'[q] = "open" /\ ~Asked(q)'
             /\ m.kind = "welcome" => q \notin synced' /\ tab'[q] = "joining"
  <2>1. CASE q = p
    BY <1>8, <2>1
  <2>2. CASE q # p
    BY <1>3, <1>4, <1>7, <2>2 DEF OnceInv
  <2> QED BY <2>1, <2>2
<1>10. \A q \in Members : tab'[q] \in {"none", "joining"} => ~Asked(q)'
  BY <1>3, <1>7 DEF OnceInv
<1>11. \A q \in Members : q \in synced' => ~Asked(q)' /\ tab'[q] \in {"open", "left"}
  BY <1>2, <1>3, <1>7 DEF OnceInv
<1>12. ASSUME NEW q \in Members, NEW m \in Messages, NEW n \in Messages, Before(down'[q], m, n)
       PROVE  /\ ~(IsBoard(m) /\ IsBoard(n)) /\ n.kind # "welcome"
              /\ \A r \in Members : ~(IsRequest(m, r) /\ IsRequest(n, r))
  BY <1>5, <1>12 DEF OnceInv
<1>13. ASSUME NEW c \in Members, NEW d \in Members, NEW r \in Members, NEW m \in Range(down'[c]), NEW n \in Range(down'[d]),
              IsRequest(m, r), IsRequest(n, r)
       PROVE  c = d
  BY <1>4, <1>13 DEF OnceInv
<1> QED BY <1>8, <1>9, <1>10, <1>11, <1>12, <1>13 DEF OnceInv

LEMMA OnceInvReceive == ASSUME BoardOK, OnceInv, NEW p \in Members, Receive(p) PROVE OnceInv'
<1>1. PICK h \in Messages, sent \in SUBSET Messages : Delivers(p, h, sent) /\ Reads(p, h, sent)
  BY Received
<1>2. Passes(down, down', p, {h}, sent) /\ down' \in [Members -> Seq(Messages)]
  BY <1>1 DEF Delivers
<1>3. CASE h.kind = "welcome" /\ Start(p, h.data)
           /\ sent = {Broadcast(p, "hello", {})} \cup {Msg("sync-request", p, to, {}) : to \in {Min(s) : s \in {h.data} \ {{}}}}
  BY <1>1, <1>3, OnceInvStart
<1>4. CASE h.kind = "hello" /\ Hello(p, h.from) /\ sent = {Msg("hi", p, h.from, {})}
  <2>1. \A m \in sent : m.kind \notin OfCatchingUp
    BY <1>4 DEF Msg, OfCatchingUp
  <2> QED BY <1>2, <1>4, <2>1, OnceInvMoves DEF Hello
<1>5. CASE sent = {} /\ UNCHANGED <<tab, synced>>
  BY <1>2, <1>5, OnceInvMoves
<1>6. CASE h.kind = "sync-request" /\ SyncRequest(p, h.from)
            /\ sent = {Msg("sync-state", p, h.from, [strokes |-> strokes[p], doc |-> doc[p], synced |-> p \in synced])}
  <2> DEFINE a == Msg("sync-state", p, h.from, [strokes |-> strokes[p], doc |-> doc[p], synced |-> p \in synced])
  <2>1. IsBoard(a) /\ a.to = h.from
    BY DEF Msg, IsBoard
  <2>2. UNCHANGED <<tab, synced>> /\ Delivers(p, h, {a})
    BY <1>1, <1>6 DEF SyncRequest
  <2> HIDE DEF a
  <2> QED BY <1>6, <2>1, <2>2, OnceInvAnswer
<1>7. CASE h.kind = "sync-state" /\ SyncState(p, h.data) /\ sent = {}
  BY <1>1, <1>7, OnceInvCatchUp DEF IsBoard
<1> QED BY <1>1, <1>3, <1>4, <1>5, <1>6, <1>7 DEF Reads, Hi, Draw, Write, Point, PeerLeft

LEMMA OnceInvStep == ASSUME BoardOK, OnceInv, [BoardNext]_boardVars PROVE OnceInv'
<1>1. ASSUME UNCHANGED <<tab, synced, down>> PROVE OnceInv'
  BY <1>1 DEF OnceInv, Asked
<1>2. ASSUME NEW p \in Members, Relay(p) PROVE OnceInv'
  <2>1. PICK m : Relays(p, m)
    BY <1>2, HasRelayed
  <2>2. Passes(down, down', p, {}, {m}) /\ down' \in [Members -> Seq(Messages)] /\ m.kind \in {"stroke", "clear", "doc", "cursor"}
    BY <2>1 DEF Relays, BoardOK
  <2>3. \A n \in {m} : n.kind \notin OfCatchingUp
    BY <2>2 DEF OfCatchingUp
  <2>4. UNCHANGED <<tab, synced>>
    BY <1>2 DEF Relay, historyVars
  <2> QED BY <2>2, <2>3, <2>4, OnceInvMoves
<1>3. ASSUME NEW p \in Members, Clear(p) \/ SetDoc(p) \/ MoveCursor(p) \/ \E s \in Strokes : AddStroke(p, s) PROVE OnceInv'
  BY <1>1, <1>3 DEF Clear, SetDoc, MoveCursor, AddStroke
<1>4. CASE UNCHANGED boardVars
  BY <1>1, <1>4 DEF boardVars, canvasVars, historyVars
<1>5. CASE BoardNext
  BY <1>2, <1>3, <1>5, OnceInvJoin, OnceInvLeave, OnceInvReceive DEF BoardNext
<1> QED BY <1>4, <1>5

(***************************************************************************)
(* Notes                                                                   *)
(***************************************************************************)
\* m brings notes, and their version; p's page has notes of version v or is about to have.
IsText(m) == m.kind \in {"doc", "sync-state"}
Version(m) == IF m.kind = "doc" THEN m.data.version ELSE m.data.doc.version
Reaches(p, v) == doc[p].version >= v \/ \E m \in Range(down[p]) : IsText(m) /\ Version(m) >= v
\* m makes its receiver one that has caught up; p's page has, or is about to.
Completes(m) == (IsBoard(m) /\ m.data.synced) \/ (m.kind = "welcome" /\ m.data = {})
Soon(p) == p \in room /\ (p \in synced \/ \E m \in Range(down[p]) : Completes(m))

\* Who catches up misses no notes: neither what a page has, unless it is still to be relayed,
\* nor what is on its way to a page, nor what whom it asks hears before it answers.
DocInv ==
    /\ \A p \in Members : tab[p] = "none" => doc[p] = NoDoc
    /\ \A p \in Members : \A m \in Range(up[p]) : IsText(m) => Version(m) <= doc[p].version
    /\ \A p, q \in room : Soon(p) =>
         /\ Reaches(p, doc[q].version) \/ \E m \in Range(up[q]) : IsText(m) /\ Version(m) >= doc[q].version
         /\ \A m \in Range(down[q]) : IsText(m) => Reaches(p, Version(m))
    /\ \A r, p \in room : \A m, n \in Messages :
         Before(down[r], m, n) /\ IsRequest(m, p) /\ n.kind = "doc" => Reaches(p, Version(n))

LEMMA VersionNat == ASSUME NEW m \in Messages, IsText(m) PROVE Version(m) \in Nat
<1>1. Sound(m)
  BY DEF Messages
<1>2. CASE m.kind = "doc"
  BY <1>1, <1>2 DEF Sound, Version, Texts
<1>3. CASE m.kind = "sync-state"
  BY <1>1, <1>3 DEF Sound, Version, Texts, Answers
<1> QED BY <1>2, <1>3 DEF IsText

LEMMA DocNat == ASSUME BoardOK, NEW p \in Members PROVE doc[p].version \in Nat
BY DEF BoardOK, Texts

LEMMA DocInvInit == ASSUME MembersAssumption, BoardInit PROVE DocInv
<1>1. room \subseteq Members /\ \A q \in Members : up[q] = <<>> /\ down[q] = <<>> /\ doc[q] = NoDoc
  BY DEF BoardInit, MembersAssumption
<1>2. Range(<<>>) = {} /\ \A x, y : ~Before(<<>>, x, y)
  BY EmptyRange DEF Before
<1>3. ASSUME NEW p \in room, NEW q \in room PROVE Reaches(p, doc[q].version)
  <2>0. NoDoc.version = 0 /\ doc[p] = NoDoc /\ doc[q] = NoDoc
    BY <1>1 DEF NoDoc
  <2>1. doc[p].version = 0 /\ doc[q].version = 0
    BY <2>0
  <2> QED BY <2>1 DEF Reaches
<1>4. \A q \in Members : Range(up[q]) = {} /\ Range(down[q]) = {} /\ \A x, y : ~Before(down[q], x, y)
  BY <1>1, <1>2
<1> QED BY <1>1, <1>3, <1>4 DEF DocInv

\* What a page is about to have it still is after messages went.
LEMMA ReachesOn ==
    ASSUME BoardOK, NEW p \in Members, NEW gone, NEW sent, Passes(down, down', p, gone, sent), down' \in [Members -> Seq(Messages)],
           NEW q \in Members, NEW v \in Nat, doc'[q].version \in Nat, doc'[q].version >= doc[q].version,
           q = p => \A h \in gone : IsText(h) => doc'[p].version >= Version(h), Reaches(q, v)
    PROVE  Reaches(q, v)'
<1>0. doc[q].version \in Nat
  BY DocNat
<1>1. CASE doc[q].version >= v
  BY <1>0, <1>1 DEF Reaches
<1>2. ASSUME NEW m \in Range(down[q]), IsText(m), Version(m) >= v PROVE Reaches(q, v)'
  <2>1. m \in Messages /\ (m \in Range(down'[q]) \/ (q = p /\ m \in gone))
    BY Passed
  <2>2. Version(m) \in Nat
    BY <1>2, <2>1, VersionNat
  <2>3. CASE m \in Range(down'[q])
    BY <1>2, <2>3 DEF Reaches
  <2>4. CASE q = p /\ m \in gone
    <3>1. doc'[q].version >= Version(m)
      BY <1>2, <2>4
    <3>2. doc'[q].version >= v
      BY <1>0, <1>2, <2>2, <3>1
    <3> QED BY <3>2 DEF Reaches
  <2> QED BY <2>1, <2>3, <2>4
<1> QED BY <1>1, <1>2 DEF Reaches

LEMMA SoonKept ==
    ASSUME BoardOK, NEW p \in Members, NEW gone, NEW sent, Passes(down, down', p, gone, sent), down' \in [Members -> Seq(Messages)],
           room' = room, \A m \in sent : ~Completes(m), gone \subseteq Range(down[p]),
           \A q \in Members : q \in synced' => q \in synced \/ (q = p /\ \E h \in gone : Completes(h)),
           NEW q \in Members, Soon(q)'
    PROVE  Soon(q)
<1>1. \A x \in Range(down'[q]) : x \in Range(down[q]) \/ x \in sent
  BY Passed
<1>2. q \in room /\ (q \in synced' \/ \E m \in Range(down'[q]) : Completes(m))
  BY DEF Soon
<1>3. q \in synced' => Soon(q)
  BY <1>2 DEF Soon
<1>4. ASSUME NEW m \in Range(down'[q]), Completes(m) PROVE Soon(q)
  BY <1>1, <1>2, <1>4 DEF Soon
<1> QED BY <1>2, <1>3, <1>4

\* p's page reads what is in gone and sends no notes.
LEMMA DocMoves ==
    ASSUME BoardOK, DocInv, NEW p \in room, NEW gone, NEW sent, Passes(down, down', p, gone, sent), down' \in [Members -> Seq(Messages)],
           gone \subseteq Range(down[p]), UNCHANGED <<room, up>>, \A q \in Members : tab'[q] = "none" => tab[q] = "none" /\ q # p,
           \A m \in sent : ~IsText(m) /\ m.kind # "welcome",
           \A q \in Members : q \in synced' => q \in synced \/ (q = p /\ \E h \in gone : Completes(h)),
           doc' \in [Members -> Texts], \A q \in Members \ {p} : doc'[q] = doc[q],
           \A h \in gone : IsText(h) => doc'[p].version >= Version(h),
           \/ doc'[p].version = doc[p].version
           \/ \E h \in gone : IsText(h) /\ doc'[p].version = Version(h) /\ Version(h) >= doc[p].version
    PROVE  DocInv'
<1>0. p \in Members /\ room \subseteq Members
  BY DEF BoardOK
<1>1. \A q \in Members : doc[q].version \in Nat /\ doc'[q].version \in Nat
  BY DocNat DEF Texts
<1>2. \A h \in gone : h \in Messages
  BY <1>0, RangeIn DEF BoardOK
<1>3. doc'[p].version >= doc[p].version
  <2>1. ASSUME NEW h \in gone, IsText(h), doc'[p].version = Version(h), Version(h) >= doc[p].version PROVE doc'[p].version >= doc[p].version
    BY <2>1
  <2> QED BY <1>0, <1>1, <2>1
<1>4. \A q \in Members : doc'[q].version >= doc[q].version
  <2>1. ASSUME NEW q \in Members PROVE doc'[q].version >= doc[q].version
    <3>1. CASE q = p
      BY <1>3, <3>1
    <3>2. CASE q # p
      BY <1>1, <3>2
    <3> QED BY <3>1, <3>2
  <2> QED BY <2>1
<1>5. \A q \in Members : \A v \in Nat : Reaches(q, v) => Reaches(q, v)'
  BY <1>0, <1>1, <1>4, ReachesOn
<1>6. \A q \in Members : Soon(q)' => Soon(q)
  <2>1. \A m \in sent : ~Completes(m)
    BY DEF Completes, IsBoard, IsText
  <2> QED BY <1>0, <2>1, SoonKept
<1>7. \A q \in Members : \A x \in Range(down'[q]) : x \in Messages /\ (x \in Range(down[q]) \/ x \in sent)
  BY <1>0, Passed
<1>8. \A q \in Members : \A x, y \in Messages : Before(down'[q], x, y) => Before(down[q], x, y) \/ y \in sent
  BY <1>0, Passed
<1>9. \A q \in Members : tab'[q] = "none" => doc'[q] = NoDoc
  BY DEF DocInv
<1>10. ASSUME NEW q \in Members, NEW m \in Range(up'[q]), IsText(m) PROVE Version(m) <= doc'[q].version
  <2>1. m \in Range(up[q]) /\ Version(m) <= doc[q].version /\ m \in Messages
    BY <1>10, RangeIn DEF DocInv, BoardOK
  <2>2. Version(m) \in Nat
    BY <1>10, <2>1, VersionNat
  <2> QED BY <1>1, <1>4, <2>1, <2>2
<1>11. ASSUME NEW a \in room, NEW b \in room, Soon(a)'
       PROVE  Reaches(a, doc[b].version)' \/ \E m \in Range(up'[b]) : IsText(m) /\ Version(m) >= doc'[b].version
  <2>1. Soon(a) /\ a \in Members /\ b \in Members
    BY <1>0, <1>6, <1>11
  <2>2. CASE doc'[b].version = doc[b].version
    <3>1. CASE Reaches(a, doc[b].version)
      <4>1. PICK v \in Nat : v = doc[b].version
        BY <1>1, <2>1
      <4>2. Reaches(a, v)'
        BY <1>5, <2>1, <3>1, <4>1
      <4>3. v = doc'[b].version
        BY <2>2, <4>1
      <4> QED BY <4>2, <4>3 DEF Reaches
    <3>2. CASE \E m \in Range(up[b]) : IsText(m) /\ Version(m) >= doc[b].version
      BY <2>2, <3>2
    <3> QED BY <2>1, <3>1, <3>2 DEF DocInv
  <2>3. CASE doc'[b].version # doc[b].version
    <3>1. b = p
      BY <2>1, <2>3
    <3>2. PICK h \in gone : IsText(h) /\ doc'[p].version = Version(h)
      BY <2>3, <3>1
    <3>3. Reaches(a, Version(h)) /\ Version(h) \in Nat
      BY <1>2, <2>1, <3>2, VersionNat DEF DocInv
    <3>4. PICK v \in Nat : v = Version(h)
      BY <3>3
    <3>5. Reaches(a, v)'
      BY <1>5, <2>1, <3>3, <3>4
    <3>6. v = doc'[b].version
      BY <3>1, <3>2, <3>4
    <3> QED BY <3>5, <3>6 DEF Reaches
  <2> QED BY <2>2, <2>3
<1>12. ASSUME NEW a \in room, NEW b \in room, Soon(a)', NEW m \in Range(down'[b]), IsText(m) PROVE Reaches(a, Version(m))'
  <2>1. Soon(a) /\ a \in Members /\ b \in Members
    BY <1>0, <1>6, <1>12
  <2>2. m \in Range(down[b]) /\ m \in Messages
    BY <1>7, <1>12, <2>1
  <2>3. PICK v \in Nat : v = Version(m)
    BY <1>12, <2>2, VersionNat
  <2>4. Reaches(a, v)
    BY <1>12, <2>1, <2>2, <2>3 DEF DocInv
  <2>5. Reaches(a, v)'
    BY <1>5, <2>1, <2>4
  <2> QED BY <2>3, <2>5
<1>13. ASSUME NEW r \in room, NEW a \in room, NEW m \in Messages, NEW n \in Messages,
              Before(down'[r], m, n), IsRequest(m, a), n.kind = "doc"
       PROVE  Reaches(a, Version(n))'
  <2>1. Before(down[r], m, n) /\ a \in Members /\ IsText(n)
    BY <1>0, <1>8, <1>13 DEF IsText
  <2>2. PICK v \in Nat : v = Version(n)
    BY <2>1, VersionNat
  <2>3. Reaches(a, v)
    BY <1>13, <2>1, <2>2 DEF DocInv
  <2>4. Reaches(a, v)'
    BY <1>5, <2>1, <2>3
  <2> QED BY <2>2, <2>4
<1> QED BY <1>9, <1>10, <1>11, <1>12, <1>13 DEF DocInv

\* h is p's request: the page of p has told the notes it had when the request came.
LEMMA DocAnswer ==
    ASSUME BoardOK, OnceInv, DocInv, NEW p \in Members, NEW h \in Messages, NEW a \in Messages, Delivers(p, h, {a}),
           h.kind = "sync-request", IsBoard(a), a.to = h.from, a.data.synced <=> p \in synced, a.data.doc = doc[p],
           up[p] = <<>>, UNCHANGED <<room, up, tab, doc, synced>>
    PROVE  DocInv'
<1> DEFINE f == h.from
<1>0. room \subseteq Members /\ p \in room /\ f \in Members /\ IsRequest(h, f)
  BY FromMember DEF BoardOK, Delivers, IsRequest
<1>1. Passes(down, down', p, {h}, {a}) /\ down' \in [Members -> Seq(Messages)] /\ h \in Range(down[p])
  BY DEF Delivers
<1>2. ~Completes(h) /\ ~IsText(h) /\ IsText(a) /\ a.kind # "doc" /\ Version(a) = doc[p].version
  BY DEF IsBoard, IsText, Completes, Version
<1>3. \A q \in Members : Gets(q, a) <=> q = f /\ q \in room
  BY DEF IsBoard, Gets, Broadcasts
<1> HIDE DEF f
<1>4. \A q \in Members : \A x \in Range(down'[q]) : x \in Messages /\ (x \in Range(down[q]) \/ (x = a /\ q = f /\ f \in room))
  BY <1>1, <1>3, Passed
<1>5. \A q \in Members : \A x, y \in Messages : Before(down'[q], x, y) => Before(down[q], x, y) \/ y = a
  BY <1>1, Passed
<1>6. \A q \in Members : doc[q].version \in Nat
  BY DocNat
<1>7. \A q \in Members : \A v \in Nat : Reaches(q, v) => Reaches(q, v)'
  BY <1>1, <1>2, <1>6, ReachesOn, SMTT(30)
<1>8. f \in room => a \in Range(down'[f])
  BY <1>0, <1>1, <1>3, Passed
<1>9. \A q \in Members : Soon(q)' => Soon(q) \/ (q = f /\ f \in room /\ p \in synced)
  <2>1. ASSUME NEW q \in Members, Soon(q)' PROVE Soon(q) \/ (q = f /\ f \in room /\ p \in synced)
    <3>1. q \in room /\ (q \in synced \/ \E m \in Range(down'[q]) : Completes(m))
      BY <2>1 DEF Soon
    <3>2. CASE q \in synced
      BY <3>1, <3>2 DEF Soon
    <3>3. ASSUME NEW m \in Range(down'[q]), Completes(m) PROVE Soon(q) \/ (q = f /\ f \in room /\ p \in synced)
      <4>1. CASE m \in Range(down[q])
        BY <3>1, <3>3, <4>1 DEF Soon
      <4>2. CASE m = a /\ q = f /\ f \in room
        BY <3>3, <4>2 DEF Completes, IsBoard
      <4> QED BY <1>4, <4>1, <4>2
    <3> QED BY <3>1, <3>2, <3>3
  <2> QED BY <2>1
\* what p, who has caught up, has or hears, f has or hears
<1>10. ASSUME f \in room, p \in synced, NEW v \in Nat, Reaches(p, v) PROVE Reaches(f, v)'
  <2>1. CASE doc[p].version >= v
    BY <1>2, <1>8, <1>10, <2>1 DEF Reaches
  <2>2. ASSUME NEW m \in Range(down[p]), IsText(m), Version(m) >= v PROVE Reaches(f, v)'
    <3>1. m \in Messages /\ ~IsBoard(m) /\ m # h
      BY <1>0, <1>2, <1>10, <2>2, RangeIn DEF BoardOK, OnceInv
    <3>2. m.kind = "doc"
      BY <2>2, <3>1 DEF IsText, IsBoard
    <3>3. m \in Range(down'[p])
      BY <1>1, <2>2, <3>1, Passed
    <3>4. Before(down[p], h, m)
      <4>1. Before(down[p], h, m) \/ m \in {a}
        BY <1>1, <3>3, Passed
      <4> QED BY <1>2, <3>2, <4>1
    <3>5. Reaches(f, Version(m)) /\ Version(m) \in Nat
      BY <1>0, <1>10, <2>2, <3>1, <3>2, <3>4, VersionNat DEF DocInv
    <3>6. PICK w \in Nat : w = Version(m)
      BY <3>5
    <3>7. Reaches(f, w)' /\ w >= v
      BY <1>0, <1>7, <2>2, <3>5, <3>6
    <3>8. ASSUME NEW x \in Nat, x >= w PROVE x >= v
      BY <3>7, <3>8
    <3>9. CASE doc'[f].version >= w
      BY <1>0, <1>6, <3>8, <3>9 DEF Reaches
    <3>10. ASSUME NEW n \in Range(down'[f]), IsText(n), Version(n) >= w PROVE Reaches(f, v)'
      <4>1. Version(n) \in Nat
        BY <1>0, <1>4, <3>10, VersionNat
      <4> QED BY <3>8, <3>10, <4>1 DEF Reaches
    <3> QED BY <3>7, <3>9, <3>10 DEF Reaches
  <2> QED BY <1>10, <2>1, <2>2 DEF Reaches
<1>11. p \in synced => Soon(p)
  BY <1>0 DEF Soon
<1>12. \A q \in Members : tab'[q] = "none" => doc'[q] = NoDoc
  BY DEF DocInv
<1>13. \A q \in Members : \A m \in Range(up'[q]) : IsText(m) => Version(m) <= doc'[q].version
  BY DEF DocInv
<1>14. ASSUME NEW b \in room, NEW c \in room, Soon(b)'
       PROVE  Reaches(b, doc[c].version)' \/ \E m \in Range(up'[c]) : IsText(m) /\ Version(m) >= doc'[c].version
  <2>0. b \in Members /\ c \in Members
    BY <1>0
  <2>1. PICK v \in Nat : v = doc[c].version
    BY <1>6, <2>0
  <2>2. CASE \E m \in Range(up[c]) : IsText(m) /\ Version(m) >= doc[c].version
    BY <2>2
  <2>3. CASE Soon(b) /\ Reaches(b, v)
    <3>1. Reaches(b, v)'
      BY <1>7, <2>0, <2>3
    <3> QED BY <2>1, <3>1
  <2>4. CASE b = f /\ p \in synced /\ Reaches(p, v)
    <3>1. Reaches(b, v)'
      BY <1>10, <2>4
    <3> QED BY <2>1, <3>1
  <2> QED BY <1>0, <1>9, <1>11, <1>14, <2>0, <2>1, <2>2, <2>3, <2>4 DEF DocInv
<1>15. ASSUME NEW b \in room, NEW c \in room, Soon(b)', NEW m \in Range(down'[c]), IsText(m) PROVE Reaches(b, Version(m))'
  <2>0. b \in Members /\ c \in Members /\ m \in Messages
    BY <1>0, <1>4
  <2>1. PICK v \in Nat : v = Version(m)
    BY <1>15, <2>0, VersionNat
  <2>2. ASSUME Soon(b) \/ p \in synced PROVE \A d \in room : (d = b /\ Soon(b)) \/ (d = p /\ p \in synced) => Reaches(d, v)
    <3>1. ASSUME NEW d \in room, Soon(d) PROVE Reaches(d, v)
      <4>1. CASE m \in Range(down[c])
        BY <1>15, <2>1, <3>1, <4>1 DEF DocInv
      <4>2. CASE m = a
        <5>1. \A n \in Range(up[p]) : FALSE
          BY EmptyRange
        <5>2. Reaches(d, doc[p].version)
          BY <1>0, <3>1, <5>1 DEF DocInv
        <5> QED BY <1>2, <2>1, <4>2, <5>2
      <4> QED BY <1>4, <2>0, <4>1, <4>2
    <3> QED BY <1>11, <3>1
  <2>3. CASE Soon(b)
    <3>1. Reaches(b, v)'
      BY <1>7, <2>0, <2>2, <2>3
    <3> QED BY <2>1, <3>1
  <2>4. CASE b = f /\ p \in synced
    <3>1. Reaches(b, v)'
      BY <1>0, <1>10, <2>2, <2>4
    <3> QED BY <2>1, <3>1
  <2> QED BY <1>9, <1>15, <2>0, <2>3, <2>4
<1>16. ASSUME NEW r \in room, NEW b \in room, NEW m \in Messages, NEW n \in Messages,
              Before(down'[r], m, n), IsRequest(m, b), n.kind = "doc"
       PROVE  Reaches(b, Version(n))'
  <2>1. Before(down[r], m, n) /\ b \in Members /\ IsText(n)
    BY <1>0, <1>2, <1>5, <1>16 DEF IsText
  <2>2. PICK v \in Nat : v = Version(n)
    BY <2>1, VersionNat
  <2>3. Reaches(b, v)
    BY <1>16, <2>1, <2>2 DEF DocInv
  <2>4. Reaches(b, v)'
    BY <1>7, <2>1, <2>3
  <2> QED BY <2>2, <2>4
<1> QED BY <1>12, <1>13, <1>14, <1>15, <1>16 DEF DocInv

LEMMA DocInvReceive == ASSUME BoardOK, OnceInv, DocInv, NEW p \in Members, Receive(p) PROVE DocInv'
<1>1. PICK h \in Messages, sent \in SUBSET Messages : Delivers(p, h, sent) /\ Reads(p, h, sent)
  BY Received
<1>2. Passes(down, down', p, {h}, sent) /\ down' \in [Members -> Seq(Messages)] /\ {h} \subseteq Range(down[p]) /\ p \in room /\ UNCHANGED <<room, up>>
  BY <1>1 DEF Delivers, Receive
<1>3. tab[p] # "none" /\ doc \in [Members -> Texts] /\ Sound(h) /\ doc[p].version \in Nat /\ tab \in [Members -> {"none", "joining", "open", "left"}]
  BY <1>2, DocNat DEF BoardOK, Messages
<1>4. ASSUME doc' = doc, ~IsText(h), \A q \in Members : tab'[q] = "none" => tab[q] = "none" /\ q # p,
             \A m \in sent : ~IsText(m) /\ m.kind # "welcome",
             \A q \in Members : q \in synced' => q \in synced \/ (q = p /\ \E g \in {h} : Completes(g))
      PROVE  DocInv'
  BY <1>2, <1>3, <1>4, DocMoves
<1>5. CASE h.kind = "welcome" /\ Start(p, h.data)
           /\ sent = {Broadcast(p, "hello", {})} \cup {Msg("sync-request", p, to, {}) : to \in {Min(s) : s \in {h.data} \ {{}}}}
  <2>1. \A m \in sent : ~IsText(m) /\ m.kind # "welcome"
    BY <1>5 DEF Broadcast, Msg, IsText
  <2>2. doc' = doc /\ ~IsText(h) /\ \A q \in Members : tab'[q] = "none" => tab[q] = "none" /\ q # p
    BY <1>3, <1>5 DEF Start, canvasVars, IsText
  <2>3. \A q \in Members : q \in synced' => q \in synced \/ (q = p /\ \E g \in {h} : Completes(g))
    BY <1>5 DEF Start, Completes
  <2> QED BY <1>4, <2>1, <2>2, <2>3
<1>6. CASE h.kind = "hello" /\ Hello(p, h.from) /\ sent = {Msg("hi", p, h.from, {})}
  <2>1. \A m \in sent : ~IsText(m) /\ m.kind # "welcome"
    BY <1>6 DEF Msg, IsText
  <2> QED BY <1>3, <1>4, <1>6, <2>1 DEF Hello, IsText
<1>7. CASE sent = {} /\ ~IsText(h) /\ UNCHANGED <<tab, doc, synced>>
  BY <1>3, <1>4, <1>7
<1>8. ASSUME IsText(h), NEW d \in Texts, d.version = Version(h), doc' = IF Newer(doc[p], d) THEN [doc EXCEPT ![p] = d] ELSE doc,
             sent = {}, tab' = tab, \A q \in Members : q \in synced' => q \in synced \/ (q = p /\ \E g \in {h} : Completes(g))
      PROVE  DocInv'
  <2>1. d.version \in Nat
    BY DEF Texts
  <2>2. doc' \in [Members -> Texts] /\ \A q \in Members \ {p} : doc'[q] = doc[q]
    BY <1>3, <1>8
  <2>3. CASE Newer(doc[p], d)
    <3>1. doc'[p].version = Version(h) /\ Version(h) >= doc[p].version
      BY <1>3, <1>8, <2>1, <2>3 DEF Newer
    <3>2. doc'[p].version >= Version(h)
      BY <1>8, <2>1, <3>1
    <3> QED BY <1>2, <1>3, <1>8, <2>2, <3>1, <3>2, DocMoves
  <2>4. CASE ~Newer(doc[p], d)
    <3>1. doc'[p].version = doc[p].version /\ doc'[p].version >= Version(h)
      BY <1>3, <1>8, <2>1, <2>4 DEF Newer
    <3> QED BY <1>2, <1>3, <1>8, <2>2, <3>1, DocMoves
  <2> QED BY <2>3, <2>4
<1>9. CASE h.kind = "doc" /\ Write(p, h.data) /\ sent = {}
  <2>1. h.data \in Texts /\ IsText(h) /\ h.data.version = Version(h)
    BY <1>3, <1>9 DEF Sound, IsText, Version
  <2> QED BY <1>8, <1>9, <2>1 DEF Write
<1>10. CASE h.kind = "sync-state" /\ SyncState(p, h.data) /\ sent = {}
  <2>1. h.data.doc \in Texts /\ IsText(h) /\ h.data.doc.version = Version(h)
    BY <1>3, <1>10 DEF Sound, IsText, Version, Answers
  <2>2. \A q \in Members : q \in synced' => q \in synced \/ (q = p /\ \E g \in {h} : Completes(g))
    BY <1>10 DEF SyncState, Completes, IsBoard
  <2> QED BY <1>8, <1>10, <2>1, <2>2 DEF SyncState
<1>11. CASE h.kind = "sync-request" /\ SyncRequest(p, h.from)
            /\ sent = {Msg("sync-state", p, h.from, [strokes |-> strokes[p], doc |-> doc[p], synced |-> p \in synced])}
  <2> DEFINE a == Msg("sync-state", p, h.from, [strokes |-> strokes[p], doc |-> doc[p], synced |-> p \in synced])
  <2>1. IsBoard(a) /\ a.to = h.from /\ (a.data.synced <=> p \in synced) /\ a.data.doc = doc[p]
    BY DEF Msg, IsBoard
  <2>2. up[p] = <<>> /\ UNCHANGED <<room, up, tab, doc, synced>> /\ Delivers(p, h, {a}) /\ a \in Messages
    BY <1>1, <1>2, <1>11 DEF SyncRequest, Reply, canvasVars
  <2> HIDE DEF a
  <2> QED BY <1>11, <2>1, <2>2, DocAnswer
<1> QED BY <1>1, <1>5, <1>6, <1>7, <1>9, <1>10, <1>11 DEF Reads, Hi, Draw, Point, PeerLeft, IsText

LEMMA DocInvJoin == ASSUME BoardOK, OnceInv, DocInv, NEW p \in Members, JoinBoard(p) PROVE DocInv'
<1> DEFINE w == Msg("welcome", 0, p, room)
<1>1. Welcomed(p)
  BY HasJoined
<1>2. w.kind = "welcome" /\ w.data = room /\ ~IsText(w) /\ \A r \in Members : ~IsRequest(w, r)
  BY DEF Msg, IsText, IsRequest
<1>3. Range(down'[p]) = {w} /\ Range(down[p]) = {} /\ p \notin room /\ tab[p] = "none" /\ down'[p] \in Seq(Messages)
  BY <1>1 DEF Welcomed
<1>4. /\ room' = room \cup {p} /\ room \subseteq Members /\ UNCHANGED <<up, doc, synced>> /\ tab'[p] = "joining"
      /\ \A q \in Members \ {p} : down'[q] = down[q] /\ tab'[q] = tab[q]
  BY DEF JoinBoard, BoardOK, canvasVars
<1> HIDE DEF w
<1>5. \A q \in Members : doc[q].version \in Nat
  BY DocNat
<1>6. doc[p].version = 0 /\ p \notin synced /\ ~Asked(p) /\ Range(up[p]) = {}
  BY <1>3, EmptyRange DEF DocInv, NoDoc, OnceInv, BoardOK
<1>7. \A q \in room : down'[q] = down[q] /\ tab'[q] = tab[q] /\ q # p /\ q \in Members
  BY <1>3, <1>4
<1>8. \A q \in room : \A v : Reaches(q, v) => Reaches(q, v)'
  BY <1>4, <1>7 DEF Reaches
<1>9. \A q \in room' : Soon(q)' => (q # p /\ q \in room /\ Soon(q)) \/ (q = p /\ room = {})
  <2>1. ASSUME NEW q \in room', Soon(q)' PROVE (q # p /\ q \in room /\ Soon(q)) \/ (q = p /\ room = {})
    <3>1. CASE q = p
      <4>1. q \in synced' \/ \E m \in Range(down'[q]) : Completes(m)
        BY <2>1 DEF Soon
      <4>2. Completes(w) /\ w.data = room
        BY <1>2, <1>3, <1>4, <1>6, <3>1, <4>1
      <4>3. ~IsBoard(w)
        BY <1>2 DEF IsBoard
      <4> QED BY <3>1, <4>2, <4>3 DEF Completes
    <3>2. CASE q # p
      <4>1. q \in room
        BY <1>4, <3>2
      <4> QED BY <1>4, <1>7, <2>1, <3>2, <4>1 DEF Soon
    <3> QED BY <3>1, <3>2
  <2> QED BY <2>1
<1>10. \A q \in Members : tab'[q] = "none" => doc'[q] = NoDoc
  BY <1>4 DEF DocInv
<1>11. \A q \in Members : \A m \in Range(up'[q]) : IsText(m) => Version(m) <= doc'[q].version
  BY <1>4 DEF DocInv
<1>12. ASSUME NEW a \in room', NEW b \in room', Soon(a)'
       PROVE  Reaches(a, doc[b].version)' \/ \E m \in Range(up'[b]) : IsText(m) /\ Version(m) >= doc'[b].version
  <2>0. a \in Members /\ b \in Members
    BY <1>4
  <2>1. CASE b = p
    <3>1. doc'[a].version >= doc'[b].version
      BY <1>4, <1>5, <1>6, <2>0, <2>1
    <3> QED BY <3>1 DEF Reaches
  <2>2. CASE b # p
    <3>1. b \in room /\ a \in room /\ Soon(a)
      BY <1>4, <1>9, <1>12, <2>2
    <3>2. Reaches(a, doc[b].version) \/ \E m \in Range(up[b]) : IsText(m) /\ Version(m) >= doc[b].version
      BY <3>1 DEF DocInv
    <3>3. PICK v : v = doc[b].version
      OBVIOUS
    <3>4. CASE Reaches(a, v)
      <4>1. Reaches(a, v)'
        BY <1>8, <3>1, <3>4
      <4>2. v = doc'[b].version
        BY <1>4, <3>3
      <4> QED BY <4>1, <4>2 DEF Reaches
    <3> QED BY <1>4, <3>2, <3>3, <3>4
  <2> QED BY <2>1, <2>2
<1>13. ASSUME NEW a \in room', NEW b \in room', Soon(a)', NEW m \in Range(down'[b]), IsText(m) PROVE Reaches(a, Version(m))'
  <2>1. b # p
    BY <1>2, <1>3, <1>13
  <2>2. b \in room /\ a \in room /\ Soon(a) /\ m \in Range(down[b])
    BY <1>4, <1>7, <1>9, <1>13, <2>1
  <2>3. Reaches(a, Version(m))
    BY <1>13, <2>2 DEF DocInv
  <2>4. PICK v : v = Version(m)
    OBVIOUS
  <2>5. Reaches(a, v)'
    BY <1>8, <2>2, <2>3, <2>4
  <2> QED BY <2>4, <2>5
<1>14. ASSUME NEW r \in room', NEW a \in room', NEW m \in Messages, NEW n \in Messages,
              Before(down'[r], m, n), IsRequest(m, a), n.kind = "doc"
       PROVE  Reaches(a, Version(n))'
  <2>1. r # p
    <3>1. CASE r = p
      <4>1. m \in Range(down'[p])
        BY <1>3, <1>14, <3>1, BeforeIn
      <4> QED BY <1>2, <1>3, <1>4, <1>14, <4>1
    <3> QED BY <3>1
  <2>2. r \in room /\ Before(down[r], m, n) /\ r \in Members
    BY <1>4, <1>7, <1>14, <2>1
  <2>3. m \in Range(down[r])
    BY <2>2, BeforeIn DEF BoardOK
  <2>4. a \in room
    BY <1>4, <1>6, <1>14, <2>2, <2>3 DEF Asked
  <2>5. Reaches(a, Version(n))
    BY <1>14, <2>2, <2>4 DEF DocInv
  <2>6. PICK v : v = Version(n)
    OBVIOUS
  <2>7. Reaches(a, v)'
    BY <1>8, <2>4, <2>5, <2>6
  <2> QED BY <2>6, <2>7
<1> QED BY <1>10, <1>11, <1>12, <1>13, <1>14 DEF DocInv

\* The room loses a member; the others' pages and sockets keep what they have.
LEMMA SoonLeave == ASSUME BoardOK, NEW p \in Members, LeaveBoard(p), NEW q \in room', Soon(q)' PROVE Soon(q) /\ q # p /\ q \in room
<1>1. q \in room /\ q # p /\ q \in Members /\ synced' = synced
  BY DEF LeaveBoard, BoardOK
<1>2. ~Completes(Msg("peer-left", p, q, {}))
  BY DEF Completes, IsBoard, Msg
<1>3. \A x \in Range(down'[q]) : x \in Range(down[q]) \/ x = Msg("peer-left", p, q, {})
  BY <1>1, LeftDown
<1> QED BY <1>1, <1>2, <1>3 DEF Soon

LEMMA DocInvLeave == ASSUME BoardOK, DocInv, NEW p \in Members, LeaveBoard(p) PROVE DocInv'
<1>1. /\ room' = room \ {p} /\ room \subseteq Members /\ UNCHANGED <<doc, synced>>
      /\ \A q \in Members : tab'[q] = "none" => tab[q] = "none"
  BY DEF LeaveBoard, BoardOK, canvasVars
<1>2. \A q \in Members : ~IsText(Msg("peer-left", p, q, {})) /\ Msg("peer-left", p, q, {}).kind # "doc"
  BY DEF Msg, IsText
<1>3. \A q \in Members : \A x \in Range(down'[q]) : x \in Range(down[q]) \/ x = Msg("peer-left", p, q, {})
  BY LeftDown
<1>4. \A q \in Members : \A x \in Range(down[q]) : q = p \/ x \in Range(down'[q])
  BY LeftDown
<1>5. \A q \in Members : \A x, y \in Messages : Before(down'[q], x, y) => Before(down[q], x, y) \/ y = Msg("peer-left", p, q, {})
  BY LeftDown
<1>6. \A q \in Members : \A x \in Range(up'[q]) : x \in Range(up[q])
  BY LeftDown
<1>7. \A q \in Members : q # p => up'[q] = up[q]
  BY LeftDown
<1>8. \A q \in room' : \A v : Reaches(q, v) => Reaches(q, v)'
  BY <1>1, <1>4 DEF Reaches
<1>9. \A q \in Members : tab'[q] = "none" => doc'[q] = NoDoc
  BY <1>1 DEF DocInv
<1>10. \A q \in Members : \A m \in Range(up'[q]) : IsText(m) => Version(m) <= doc'[q].version
  BY <1>1, <1>6 DEF DocInv
<1>11. ASSUME NEW a \in room', NEW b \in room', Soon(a)'
       PROVE  Reaches(a, doc[b].version)' \/ \E m \in Range(up'[b]) : IsText(m) /\ Version(m) >= doc'[b].version
  <2>1. Soon(a) /\ a \in room /\ b \in room /\ up'[b] = up[b]
    BY <1>1, <1>7, <1>11, SoonLeave
  <2>2. Reaches(a, doc[b].version) \/ \E m \in Range(up[b]) : IsText(m) /\ Version(m) >= doc[b].version
    BY <2>1 DEF DocInv
  <2>3. PICK v : v = doc[b].version
    OBVIOUS
  <2>4. CASE Reaches(a, v)
    <3>1. Reaches(a, v)'
      BY <1>8, <2>4
    <3>2. v = doc'[b].version
      BY <1>1, <2>3
    <3> QED BY <3>1, <3>2 DEF Reaches
  <2> QED BY <1>1, <2>1, <2>2, <2>3, <2>4
<1>12. ASSUME NEW a \in room', NEW b \in room', Soon(a)', NEW m \in Range(down'[b]), IsText(m) PROVE Reaches(a, Version(m))'
  <2>1. Soon(a) /\ a \in room /\ b \in room /\ m \in Range(down[b])
    BY <1>1, <1>2, <1>3, <1>12, SoonLeave
  <2>2. Reaches(a, Version(m))
    BY <1>12, <2>1 DEF DocInv
  <2>3. PICK v : v = Version(m)
    OBVIOUS
  <2>4. Reaches(a, v)'
    BY <1>8, <2>2, <2>3
  <2> QED BY <2>3, <2>4
<1>13. ASSUME NEW r \in room', NEW a \in room', NEW m \in Messages, NEW n \in Messages,
              Before(down'[r], m, n), IsRequest(m, a), n.kind = "doc"
       PROVE  Reaches(a, Version(n))'
  <2>1. Before(down[r], m, n) /\ r \in room /\ a \in room
    BY <1>1, <1>2, <1>5, <1>13
  <2>2. Reaches(a, Version(n))
    BY <1>13, <2>1 DEF DocInv
  <2>3. PICK v : v = Version(n)
    OBVIOUS
  <2>4. Reaches(a, v)'
    BY <1>8, <2>2, <2>3
  <2> QED BY <2>3, <2>4
<1> QED BY <1>9, <1>10, <1>11, <1>12, <1>13 DEF DocInv

LEMMA DocInvRelay == ASSUME BoardOK, DocInv, NEW p \in Members, Relay(p) PROVE DocInv'
<1>0. PICK o : Relays(p, o)
  BY HasRelayed
<1>1. /\ Passes(down, down', p, {}, {o}) /\ down' \in [Members -> Seq(Messages)] /\ o \in Messages /\ o \in Range(up[p]) /\ p \in room
      /\ o.kind \in {"stroke", "clear", "doc", "cursor"} /\ o.from = p
  BY <1>0 DEF Relays, BoardOK
<1>2. UNCHANGED <<room, tab, doc, synced>> /\ room \subseteq Members
  BY DEF Relay, canvasVars, historyVars, BoardOK
<1>3. ~Completes(o) /\ \A q \in room : q # p => Gets(q, o)
  BY <1>1 DEF Completes, IsBoard, Gets, Broadcasts
<1>4. Goes(up[p], up'[p], {o}, {}) /\ \A q \in Members \ {p} : up'[q] = up[q]
  BY <1>0 DEF Relays
<1>5. \A q \in Members : \A x \in Range(up'[q]) : x \in Range(up[q])
  BY <1>4 DEF Goes
<1>6. \A q \in Members : \A x \in Range(up[q]) : x \in Range(up'[q]) \/ (q = p /\ x = o)
  BY <1>4 DEF Goes
<1>7. \A q \in Members : \A x \in Range(down'[q]) : x \in Messages /\ (x \in Range(down[q]) \/ x = o)
  BY <1>1, Passed
<1>8. \A q \in Members : \A x, y \in Messages : Before(down'[q], x, y) => Before(down[q], x, y) \/ y = o
  BY <1>1, Passed
<1>9. \A q \in room : q # p => o \in Range(down'[q])
  BY <1>1, <1>2, <1>3, Passed
<1>10. \A q \in Members : doc[q].version \in Nat
  BY DocNat
<1>11. \A q \in Members : \A v \in Nat : Reaches(q, v) => Reaches(q, v)'
  BY <1>1, <1>2, <1>10, ReachesOn, SMTT(30)
<1>12. \A q \in Members : Soon(q)' => Soon(q)
  BY <1>1, <1>2, <1>3, SoonKept
\* what was to be relayed is with everybody
<1>13. ASSUME IsText(o), NEW q \in room, NEW v \in Nat, Version(o) >= v PROVE Reaches(q, v)'
  <2>1. CASE q = p
    <3>1. Version(o) \in Nat /\ Version(o) <= doc[p].version
      BY <1>1, <1>13, VersionNat DEF DocInv
    <3>2. doc'[p].version >= v
      BY <1>2, <1>10, <1>13, <3>1
    <3> QED BY <2>1, <3>2 DEF Reaches
  <2>2. CASE q # p
    BY <1>9, <1>13, <2>2 DEF Reaches
  <2> QED BY <2>1, <2>2
<1>14. \A q \in Members : tab'[q] = "none" => doc'[q] = NoDoc
  BY <1>2 DEF DocInv
<1>15. \A q \in Members : \A m \in Range(up'[q]) : IsText(m) => Version(m) <= doc'[q].version
  BY <1>2, <1>5 DEF DocInv
<1>16. ASSUME NEW a \in room, NEW b \in room, Soon(a)'
       PROVE  Reaches(a, doc[b].version)' \/ \E m \in Range(up'[b]) : IsText(m) /\ Version(m) >= doc'[b].version
  <2>0. a \in Members /\ b \in Members /\ Soon(a)
    BY <1>2, <1>12, <1>16
  <2>1. PICK v \in Nat : v = doc[b].version
    BY <1>10, <2>0
  <2>2. CASE Reaches(a, v)
    <3>1. Reaches(a, v)'
      BY <1>11, <2>0, <2>2
    <3>2. v = doc'[b].version
      BY <1>2, <2>1
    <3> QED BY <3>1, <3>2 DEF Reaches
  <2>3. ASSUME NEW m \in Range(up[b]), IsText(m), Version(m) >= v
        PROVE  Reaches(a, doc[b].version)' \/ \E n \in Range(up'[b]) : IsText(n) /\ Version(n) >= doc'[b].version
    <3>1. CASE m \in Range(up'[b])
      BY <1>2, <2>1, <2>3, <3>1
    <3>2. CASE m = o
      <4>1. Reaches(a, v)'
        BY <1>13, <2>3, <3>2
      <4>2. v = doc'[b].version
        BY <1>2, <2>1
      <4> QED BY <4>1, <4>2 DEF Reaches
    <3> QED BY <1>6, <2>0, <3>1, <3>2
  <2>4. Reaches(a, v) \/ \E m \in Range(up[b]) : IsText(m) /\ Version(m) >= v
    BY <2>0, <2>1 DEF DocInv
  <2> QED BY <2>2, <2>3, <2>4
<1>17. ASSUME NEW a \in room, NEW b \in room, Soon(a)', NEW m \in Range(down'[b]), IsText(m) PROVE Reaches(a, Version(m))'
  <2>0. a \in Members /\ b \in Members /\ Soon(a) /\ m \in Messages
    BY <1>2, <1>7, <1>12, <1>17
  <2>1. PICK v \in Nat : v = Version(m)
    BY <1>17, <2>0, VersionNat
  <2>2. CASE m = o
    <3>1. Reaches(a, v)'
      BY <1>13, <1>17, <2>1, <2>2
    <3> QED BY <2>1, <3>1
  <2>3. CASE m \in Range(down[b])
    <3>1. Reaches(a, v)
      BY <1>17, <2>0, <2>1, <2>3 DEF DocInv
    <3>2. Reaches(a, v)'
      BY <1>11, <2>0, <3>1
    <3> QED BY <2>1, <3>2
  <2> QED BY <1>7, <2>0, <2>2, <2>3
<1>18. ASSUME NEW r \in room, NEW a \in room, NEW m \in Messages, NEW n \in Messages,
              Before(down'[r], m, n), IsRequest(m, a), n.kind = "doc"
       PROVE  Reaches(a, Version(n))'
  <2>0. a \in Members /\ r \in Members /\ IsText(n)
    BY <1>2, <1>18 DEF IsText
  <2>1. PICK v \in Nat : v = Version(n)
    BY <2>0, VersionNat
  <2>2. CASE n = o
    <3>1. Reaches(a, v)'
      BY <1>13, <2>0, <2>1, <2>2
    <3> QED BY <2>1, <3>1
  <2>3. CASE Before(down[r], m, n)
    <3>1. Reaches(a, v)
      BY <1>18, <2>1, <2>3 DEF DocInv
    <3>2. Reaches(a, v)'
      BY <1>11, <2>0, <3>1
    <3> QED BY <2>1, <3>2
  <2> QED BY <1>8, <1>18, <2>0, <2>2, <2>3
<1> QED BY <1>2, <1>14, <1>15, <1>16, <1>17, <1>18 DEF DocInv

LEMMA DocInvSpeak ==
    ASSUME BoardOK, DocInv, NEW p \in Members, NEW o, Speaks(p, o), UNCHANGED <<room, tab, down, synced>>,
           doc' \in [Members -> Texts], \A q \in Members \ {p} : doc'[q] = doc[q],
           doc' = doc \/ (o.kind = "doc" /\ Version(o) = doc'[p].version /\ doc'[p].version >= doc[p].version),
           IsText(o) => Version(o) = doc'[p].version
    PROVE  DocInv'
<1>1. Goes(up[p], up'[p], {}, {o}) /\ (\A q \in Members \ {p} : up'[q] = up[q]) /\ p \in room /\ tab[p] # "none"
  BY DEF Speaks, BoardOK
<1>2. \A q \in Members : \A m \in Range(up'[q]) : m \in Range(up[q]) \/ (q = p /\ m = o)
  BY <1>1 DEF Goes
<1>3. \A q \in Members : \A m \in Range(up[q]) : m \in Range(up'[q])
  <2>1. ASSUME NEW q \in Members, NEW m \in Range(up[q]) PROVE m \in Range(up'[q])
    <3>1. CASE q = p
      BY <1>1, <2>1, <3>1 DEF Goes
    <3>2. CASE q # p
      BY <1>1, <2>1, <3>2
    <3> QED BY <3>1, <3>2
  <2> QED BY <2>1
<1>4. o \in Range(up'[p])
  BY <1>1 DEF Goes
<1>5. \A q \in Members : doc[q].version \in Nat /\ doc'[q].version \in Nat /\ doc'[q].version >= doc[q].version
  <2>1. ASSUME NEW q \in Members PROVE doc[q].version \in Nat /\ doc'[q].version \in Nat /\ doc'[q].version >= doc[q].version
    <3>1. doc[q].version \in Nat /\ doc'[q].version \in Nat
      BY DocNat DEF Texts
    <3>2. CASE q = p
      BY <3>1, <3>2
    <3>3. CASE q # p
      BY <3>1, <3>3
    <3> QED BY <3>1, <3>2, <3>3
  <2> QED BY <2>1
<1>6. room \subseteq Members /\ \A q \in Members : \A m \in Range(down[q]) : m \in Messages
  BY RangeIn DEF BoardOK
<1>7. ASSUME NEW q \in Members, NEW v \in Nat, Reaches(q, v) PROVE Reaches(q, v)'
  <2>1. CASE doc[q].version >= v
    BY <1>5, <2>1 DEF Reaches
  <2>2. CASE \E m \in Range(down[q]) : IsText(m) /\ Version(m) >= v
    BY <2>2 DEF Reaches
  <2> QED BY <1>7, <2>1, <2>2 DEF Reaches
<1>8. \A q : Soon(q)' <=> Soon(q)
  BY DEF Soon
<1>9. \A q \in Members : tab'[q] = "none" => doc'[q] = NoDoc
  BY <1>1 DEF DocInv
<1>10. ASSUME NEW q \in Members, NEW m \in Range(up'[q]), IsText(m) PROVE Version(m) <= doc'[q].version
  <2>1. CASE m \in Range(up[q])
    <3>1. Version(m) <= doc[q].version /\ Version(m) \in Nat
      BY <1>10, <2>1, RangeIn, VersionNat DEF DocInv, BoardOK
    <3> QED BY <1>5, <3>1
  <2>2. CASE q = p /\ m = o
    BY <1>5, <1>10, <2>2
  <2> QED BY <1>2, <2>1, <2>2
<1>11. ASSUME NEW a \in room, NEW b \in room, Soon(a)'
       PROVE  Reaches(a, doc[b].version)' \/ \E m \in Range(up'[b]) : IsText(m) /\ Version(m) >= doc'[b].version
  <2>0. Soon(a) /\ a \in Members /\ b \in Members
    BY <1>6, <1>8, <1>11
  <2>1. CASE doc' # doc /\ b = p
    <3>1. IsText(o) /\ Version(o) >= doc'[b].version
      BY <1>5, <2>0, <2>1 DEF IsText
    <3> QED BY <1>4, <2>1, <3>1
  <2>2. CASE doc' = doc \/ b # p
    <3>1. doc'[b] = doc[b]
      BY <2>0, <2>2
    <3>2. PICK v \in Nat : v = doc[b].version
      BY <1>5, <2>0
    <3>3. CASE Reaches(a, v)
      <4>1. Reaches(a, v)'
        BY <1>7, <2>0, <3>3
      <4>2. v = doc'[b].version
        BY <3>1, <3>2
      <4> QED BY <4>1, <4>2 DEF Reaches
    <3>4. CASE \E m \in Range(up[b]) : IsText(m) /\ Version(m) >= doc[b].version
      BY <1>3, <2>0, <3>1, <3>4
    <3> QED BY <2>0, <3>2, <3>3, <3>4 DEF DocInv
  <2> QED BY <2>1, <2>2
<1>12. ASSUME NEW a \in room, NEW b \in room, Soon(a)', NEW m \in Range(down'[b]), IsText(m) PROVE Reaches(a, Version(m))'
  <2>0. Soon(a) /\ a \in Members /\ b \in Members /\ m \in Range(down[b]) /\ m \in Messages
    BY <1>6, <1>8, <1>12
  <2>1. PICK v \in Nat : v = Version(m)
    BY <1>12, <2>0, VersionNat
  <2>2. Reaches(a, v)
    BY <1>12, <2>0, <2>1 DEF DocInv
  <2>3. Reaches(a, v)'
    BY <1>7, <2>0, <2>2
  <2> QED BY <2>1, <2>3
<1>13. ASSUME NEW r \in room, NEW a \in room, NEW m \in Messages, NEW n \in Messages,
              Before(down'[r], m, n), IsRequest(m, a), n.kind = "doc"
       PROVE  Reaches(a, Version(n))'
  <2>0. a \in Members /\ IsText(n)
    BY <1>6, <1>13 DEF IsText
  <2>1. PICK v \in Nat : v = Version(n)
    BY <2>0, VersionNat
  <2>2. Reaches(a, v)
    BY <1>13, <2>1 DEF DocInv
  <2>3. Reaches(a, v)'
    BY <1>7, <2>0, <2>2
  <2> QED BY <2>1, <2>3
<1> QED BY <1>9, <1>10, <1>11, <1>12, <1>13 DEF DocInv

LEMMA DocInvStep == ASSUME BoardOK, OnceInv, DocInv, [BoardNext]_boardVars PROVE DocInv'
<1>0. doc \in [Members -> Texts]
  BY DEF BoardOK
<1>1. CASE UNCHANGED boardVars
  BY <1>1 DEF boardVars, canvasVars, historyVars, DocInv, Reaches, Soon
<1>2. ASSUME NEW p \in Members, Clear(p) PROVE DocInv'
  <2>1. Speaks(p, Broadcast(p, "clear", {})) /\ ~IsText(Broadcast(p, "clear", {}))
    BY <1>2, ClearSpoken DEF Broadcast, Msg, IsText
  <2> QED BY <1>0, <1>2, <2>1, DocInvSpeak DEF Clear
<1>3. ASSUME NEW p \in Members, MoveCursor(p) PROVE DocInv'
  <2>1. Speaks(p, Broadcast(p, "cursor", {})) /\ ~IsText(Broadcast(p, "cursor", {}))
    BY <1>3, CursorSpoken DEF Broadcast, Msg, IsText
  <2> QED BY <1>0, <1>3, <2>1, DocInvSpeak DEF MoveCursor, canvasVars
<1>4. ASSUME NEW p \in Members, NEW s \in Strokes, AddStroke(p, s) PROVE DocInv'
  <2>1. Speaks(p, Broadcast(p, "stroke", s)) /\ ~IsText(Broadcast(p, "stroke", s))
    BY <1>4, StrokeSpoken DEF Broadcast, Msg, IsText
  <2> QED BY <1>0, <1>4, <2>1, DocInvSpeak DEF AddStroke
<1>5. ASSUME NEW p \in Members, SetDoc(p) PROVE DocInv'
  <2>1. PICK d \in Texts : /\ d = [version |-> doc[p].version + 1, author |-> p] /\ doc' = [doc EXCEPT ![p] = d]
                           /\ Speaks(p, Broadcast(p, "doc", d))
    BY <1>5, DocSpoken
  <2>2. PICK o : o = Broadcast(p, "doc", d)
    OBVIOUS
  <2>3. o.kind = "doc" /\ Version(o) = d.version
    BY <2>2 DEF Broadcast, Msg, Version
  <2>4. doc' \in [Members -> Texts] /\ doc'[p] = d /\ \A q \in Members \ {p} : doc'[q] = doc[q]
    BY <1>0, <2>1
  <2>5. d.version >= doc[p].version
    <3>1. doc[p].version \in Nat /\ d.version = doc[p].version + 1
      BY <2>1, DocNat
    <3> QED BY <3>1
  <2>6. Speaks(p, o) /\ UNCHANGED <<room, tab, down, synced>>
    BY <1>5, <2>1, <2>2 DEF SetDoc
  <2> QED BY <2>3, <2>4, <2>5, <2>6, DocInvSpeak
<1>6. CASE BoardNext
  BY <1>2, <1>3, <1>4, <1>5, <1>6, DocInvJoin, DocInvLeave, DocInvRelay, DocInvReceive DEF BoardNext
<1> QED BY <1>1, <1>6

(***************************************************************************)
(* Boards                                                                  *)
(***************************************************************************)
StrokesIn(s) == {m.data : m \in {n \in Range(s) : IsStroke(n)}}
ClearIn(s) == \E m \in Range(s) : m.kind = "clear"
FullBoards(p) == {m \in Range(down[p]) : IsBoard(m) /\ m.data.synced}

\* The strokes p's page shows once it has read what is on its way.
Board(p) == IF ClearIn(down[p]) THEN {}
            ELSE IF FullBoards(p) # {} THEN UNION {Range(m.data.strokes) : m \in FullBoards(p)}
            ELSE Range(strokes[p]) \cup StrokesIn(down[p])
Common(p) == Board(p) \ StrokesIn(up[p])

\* As long as no stroke crosses a clearing or a catching-up, the boards of those who have
\* caught up differ by what each has still to send.
BoardInv == ~crossed =>
    /\ ~AllSynced => ~InFlight({"stroke", "clear"})
    /\ ~(InFlight({"stroke"}) /\ InFlight({"clear"}))
    /\ \A p, q \in room : Soon(p) /\ Soon(q) /\ ~ClearIn(up[p]) /\ ~ClearIn(up[q]) => Common(p) = Common(q)
    /\ \A p \in room : Soon(p) => StrokesIn(up[p]) \subseteq Board(p) /\ (ClearIn(up[p]) => Board(p) = {})

LEMMA Flying == ASSUME NEW q \in Members, NEW m, m \in Range(up[q]) \/ m \in Range(down[q]), NEW kinds, m.kind \in kinds
                PROVE  InFlight(kinds)
BY DEF InFlight

LEMMA StillFlying ==
    ASSUME \A q \in Members : \A x : x \in Range(up'[q]) \/ x \in Range(down'[q]) =>
               x.kind \notin {"stroke", "clear"} \/ \E r \in Members : x \in Range(up[r]) \/ x \in Range(down[r]),
           NEW kinds \in SUBSET {"stroke", "clear"}, InFlight(kinds)'
    PROVE  InFlight(kinds)
<1>0. PICK q \in Members : \E x \in Range(up'[q]) \cup Range(down'[q]) : x.kind \in kinds
  BY DEF InFlight
<1>1. PICK x : (x \in Range(up'[q]) \/ x \in Range(down'[q])) /\ x.kind \in kinds
  BY <1>0
<1>2. PICK r \in Members : x \in Range(up[r]) \/ x \in Range(down[r])
  BY <1>1
<1> QED BY <1>1, <1>2 DEF InFlight

LEMMA BoardInvInit == ASSUME MembersAssumption, BoardInit PROVE BoardInv
<1>1. room \subseteq Members /\ synced = room /\ \A q \in Members : up[q] = <<>> /\ down[q] = <<>> /\ strokes[q] = <<>>
  BY DEF BoardInit, MembersAssumption
<1>2. \A q \in Members : Range(up[q]) = {} /\ Range(down[q]) = {} /\ Range(strokes[q]) = {}
  BY <1>1, EmptyRange
<1>3. ~InFlight({"stroke"}) /\ AllSynced
  BY <1>1, <1>2 DEF InFlight, AllSynced
<1>4. \A q \in Members : Board(q) = {} /\ StrokesIn(up[q]) = {}
  BY <1>2 DEF Board, StrokesIn, ClearIn, FullBoards
<1> QED BY <1>1, <1>3, <1>4 DEF BoardInv, Common

\* The page of one who has caught up has no board on its way.
LEMMA NoBoard == ASSUME OnceInv, NEW p \in Members, p \in synced PROVE FullBoards(p) = {}
BY DEF OnceInv, FullBoards

\* While a stroke or a clearing flies everybody has caught up.
LEMMA AllThere ==
    ASSUME BoardOK, OnceInv, BoardInv, ~crossed, InFlight({"stroke", "clear"}), NEW q \in room
    PROVE  q \in synced /\ Soon(q) /\ q \in Members /\ FullBoards(q) = {}
<1>1. q \in synced /\ q \in Members
  BY DEF BoardInv, AllSynced, BoardOK
<1> QED BY <1>1, NoBoard DEF Soon

\* A step that changes no board of those who have caught up.
LEMMA BoardSame ==
    ASSUME BoardInv, crossed' \in BOOLEAN, crossed \in BOOLEAN, crossed => crossed', room' \subseteq room,
           ~AllSynced' => ~AllSynced,
           \A q \in Members : \A x : x \in Range(up'[q]) \/ x \in Range(down'[q]) =>
               x.kind \notin {"stroke", "clear"} \/ \E r \in Members : x \in Range(up[r]) \/ x \in Range(down[r]),
           \A q \in room' : Soon(q)' /\ ~crossed' => /\ Soon(q) /\ Board(q)' = Board(q)
                                         /\ StrokesIn(up'[q]) = StrokesIn(up[q]) /\ (ClearIn(up'[q]) <=> ClearIn(up[q]))
    PROVE  BoardInv'
<1> SUFFICES ASSUME ~crossed'
             PROVE  /\ ~AllSynced' => ~InFlight({"stroke", "clear"})'
                    /\ ~(InFlight({"stroke"})' /\ InFlight({"clear"})')
                    /\ \A p, q \in room' : Soon(p)' /\ Soon(q)' /\ ~ClearIn(up[p])' /\ ~ClearIn(up[q])' => Common(p)' = Common(q)'
                    /\ \A p \in room' : Soon(p)' => StrokesIn(up[p])' \subseteq Board(p)' /\ (ClearIn(up[p])' => Board(p)' = {})
  BY DEF BoardInv
<1>1. ~crossed
  OBVIOUS
<1>2. (InFlight({"stroke", "clear"})' => InFlight({"stroke", "clear"})) /\ (InFlight({"stroke"})' => InFlight({"stroke"}))
      /\ (InFlight({"clear"})' => InFlight({"clear"}))
  BY StillFlying
<1>3. ASSUME NEW p \in room', NEW q \in room', Soon(p)', Soon(q)', ~ClearIn(up[p])', ~ClearIn(up[q])' PROVE Common(p)' = Common(q)'
  <2>1. Common(p) = Common(q)
    BY <1>1, <1>3 DEF BoardInv
  <2>2. Common(p)' = Common(p) /\ Common(q)' = Common(q)
    BY <1>3 DEF Common
  <2> QED BY <2>1, <2>2
<1>4. ASSUME NEW p \in room', Soon(p)' PROVE StrokesIn(up[p])' \subseteq Board(p)' /\ (ClearIn(up[p])' => Board(p)' = {})
  BY <1>1, <1>4 DEF BoardInv
<1> QED BY <1>1, <1>2, <1>3, <1>4 DEF BoardInv

\* What matters to a board.
Matters(m) == IsStroke(m) \/ m.kind = "clear" \/ (IsBoard(m) /\ m.data.synced)

LEMMA BoardEqual ==
    ASSUME NEW q \in Members, strokes'[q] = strokes[q], \A x : Matters(x) => (x \in Range(down'[q]) <=> x \in Range(down[q]))
    PROVE  Board(q)' = Board(q)
<1>1. FullBoards(q)' = FullBoards(q)
  BY DEF FullBoards, Matters
<1>2. {n \in Range(down'[q]) : IsStroke(n)} = {n \in Range(down[q]) : IsStroke(n)}
  BY DEF Matters
<1>3. StrokesIn(down'[q]) = StrokesIn(down[q])
  BY <1>2 DEF StrokesIn
<1>4. ClearIn(down'[q]) <=> ClearIn(down[q])
  BY DEF ClearIn, Matters
<1> QED BY <1>1, <1>3, <1>4 DEF Board

LEMMA UpEqual ==
    ASSUME NEW s, NEW t, \A x : IsStroke(x) \/ x.kind = "clear" => (x \in Range(t) <=> x \in Range(s))
    PROVE  StrokesIn(t) = StrokesIn(s) /\ (ClearIn(t) <=> ClearIn(s))
<1>1. {n \in Range(t) : IsStroke(n)} = {n \in Range(s) : IsStroke(n)}
  OBVIOUS
<1> QED BY <1>1 DEF StrokesIn, ClearIn

LEMMA BoardInvJoin == ASSUME BoardOK, OnceInv, BoardInv, NEW p \in Members, JoinBoard(p) PROVE BoardInv'
<1> DEFINE w == Msg("welcome", 0, p, room)
<1>1. Welcomed(p)
  BY HasJoined
<1>2. w.kind = "welcome" /\ w.data = room /\ ~IsBoard(w)
  BY DEF Msg, IsBoard
<1>3. Range(down'[p]) = {w} /\ Range(down[p]) = {} /\ p \notin room /\ Range(up[p]) = {} /\ tab[p] = "none"
  BY <1>1, EmptyRange DEF Welcomed, BoardOK
<1>4. /\ room' = room \cup {p} /\ room \subseteq Members /\ UNCHANGED <<up, strokes, synced>>
      /\ crossed' = (crossed \/ InFlight({"stroke", "clear"}))
      /\ \A q \in Members \ {p} : down'[q] = down[q]
  BY DEF JoinBoard, BoardOK, canvasVars
<1> HIDE DEF w
<1> SUFFICES ASSUME ~crossed' PROVE BoardInv'
  BY DEF BoardInv
<1>5. ~crossed /\ ~InFlight({"stroke", "clear"})
  BY <1>4
<1>6. \A q \in Members : \A x : x \in Range(up'[q]) \/ x \in Range(down'[q]) =>
               x.kind \notin {"stroke", "clear"} \/ \E r \in Members : x \in Range(up[r]) \/ x \in Range(down[r])
  <2>1. ASSUME NEW q \in Members, NEW x, x \in Range(up'[q]) \/ x \in Range(down'[q])
        PROVE  x.kind \notin {"stroke", "clear"} \/ x \in Range(up[q]) \/ x \in Range(down[q])
    <3>1. CASE q = p
      BY <1>2, <1>3, <1>4, <2>1, <3>1
    <3>2. CASE q # p
      BY <1>4, <2>1, <3>2
    <3> QED BY <3>1, <3>2
  <2> QED BY <2>1
<1>7. ~InFlight({"stroke", "clear"})'
  BY <1>5, <1>6, StillFlying
<1>8. ~InFlight({"stroke"})'
  BY <1>7 DEF InFlight
<1>9. p \notin synced
  BY <1>3 DEF OnceInv
<1>10. \A q \in room' : Soon(q)' => (q # p /\ q \in room /\ q \in Members /\ Soon(q)) \/ (q = p /\ room' = {p})
  <2>1. ASSUME NEW q \in room', Soon(q)' PROVE (q # p /\ q \in room /\ q \in Members /\ Soon(q)) \/ (q = p /\ room' = {p})
    <3>1. CASE q = p
      <4>1. q \in synced' \/ \E m \in Range(down'[q]) : Completes(m)
        BY <2>1 DEF Soon
      <4>2. Completes(w)
        BY <1>3, <1>4, <1>9, <3>1, <4>1
      <4>3. room = {}
        BY <1>2, <4>2 DEF Completes
      <4> QED BY <1>4, <3>1, <4>3
    <3>2. CASE q # p
      <4>1. q \in room /\ q \in Members /\ down'[q] = down[q]
        BY <1>4, <3>2
      <4> QED BY <1>4, <2>1, <3>2, <4>1 DEF Soon
    <3> QED BY <3>1, <3>2
  <2> QED BY <2>1
<1>11. \A q \in room \ {p} : Board(q)' = Board(q) /\ Common(q)' = Common(q) /\ up'[q] = up[q]
  <2>1. ASSUME NEW q \in room \ {p} PROVE Board(q)' = Board(q) /\ Common(q)' = Common(q) /\ up'[q] = up[q]
    <3>1. q \in Members /\ down'[q] = down[q] /\ strokes'[q] = strokes[q] /\ up'[q] = up[q]
      BY <1>4
    <3>2. Board(q)' = Board(q)
      BY <3>1, BoardEqual
    <3> QED BY <3>1, <3>2 DEF Common
  <2> QED BY <2>1
<1>12. ASSUME NEW a \in room', NEW b \in room', Soon(a)', Soon(b)', ~ClearIn(up'[a]), ~ClearIn(up'[b])
       PROVE  Common(a)' = Common(b)'
  <2>1. CASE a = p \/ b = p
    <3>1. a = b
      BY <1>10, <1>12, <2>1
    <3> QED BY <3>1
  <2>2. CASE a # p /\ b # p
    <3>1. a \in room \ {p} /\ b \in room \ {p} /\ Soon(a) /\ Soon(b)
      BY <1>10, <1>12, <2>2
    <3>2. Common(a) = Common(b)
      BY <1>4, <1>5, <1>12, <3>1 DEF BoardInv
    <3> QED BY <1>11, <3>1, <3>2
  <2> QED BY <2>1, <2>2
<1>13. ASSUME NEW a \in room', Soon(a)' PROVE StrokesIn(up'[a]) \subseteq Board(a)' /\ (ClearIn(up'[a]) => Board(a)' = {})
  <2>1. CASE a = p
    BY <1>3, <1>4, <2>1 DEF StrokesIn, ClearIn
  <2>2. CASE a # p
    <3>1. a \in room \ {p} /\ Soon(a)
      BY <1>10, <1>13, <2>2
    <3> QED BY <1>5, <1>11, <3>1 DEF BoardInv
  <2> QED BY <2>1, <2>2
<1> QED BY <1>7, <1>8, <1>12, <1>13 DEF BoardInv

LEMMA BoardInvLeave == ASSUME BoardOK, BoardInv, NEW p \in Members, LeaveBoard(p) PROVE BoardInv'
<1>1. room' = room \ {p} /\ room \subseteq Members /\ UNCHANGED <<strokes, synced, crossed>> /\ crossed \in BOOLEAN
  BY DEF LeaveBoard, BoardOK, canvasVars
<1>2. \A q \in Members : LET b == Msg("peer-left", p, q, {}) IN ~Matters(b) /\ b.kind = "peer-left"
  BY DEF Msg, Matters, IsStroke, IsBoard
<1>3. \A q \in Members : \A x \in Range(down'[q]) : x \in Range(down[q]) \/ x = Msg("peer-left", p, q, {})
  BY LeftDown
<1>4. \A q \in Members : \A x \in Range(down[q]) : q = p \/ x \in Range(down'[q])
  BY LeftDown
<1>5. \A q \in Members : q = p => Range(up'[q]) = {}
  BY LeftDown
<1>6. \A q \in Members : q # p => up'[q] = up[q]
  BY LeftDown
<1>7. \A q \in room' : Soon(q)' => Soon(q)
  BY SoonLeave
<1>8. ASSUME NEW q \in room' PROVE Board(q)' = Board(q) /\ up'[q] = up[q]
  <2>1. q \in Members /\ q # p
    BY <1>1
  <2>2. \A x : Matters(x) => (x \in Range(down'[q]) <=> x \in Range(down[q]))
    BY <1>2, <1>3, <1>4, <2>1
  <2> QED BY <1>1, <1>6, <2>1, <2>2, BoardEqual
<1>9. ASSUME NEW q \in Members, NEW x, x \in Range(up'[q]) \/ x \in Range(down'[q])
      PROVE  x.kind \notin {"stroke", "clear"} \/ \E r \in Members : x \in Range(up[r]) \/ x \in Range(down[r])
  <2>1. CASE x \in Range(up'[q])
    BY <1>5, <1>6, <2>1
  <2>2. CASE x \in Range(down'[q])
    BY <1>2, <1>3, <2>2
  <2> QED BY <1>9, <2>1, <2>2
<1>10. ~AllSynced' => ~AllSynced
  BY <1>1 DEF AllSynced
<1> QED BY <1>1, <1>7, <1>8, <1>9, <1>10, BoardSame

\* A page reads a message, and sends no strokes, clearing or whole board.
LEMMA BoardInvReads ==
    ASSUME BoardOK, OnceInv, BoardInv, NEW p \in Members, NEW h \in Messages, NEW sent, Delivers(p, h, sent),
           UNCHANGED <<room, up, crossed>>, \A m \in sent : ~Matters(m) /\ ~Completes(m),
           \A q \in Members \ {p} : strokes'[q] = strokes[q] /\ (q \in synced' <=> q \in synced),
           ~AllSynced' => ~AllSynced,
           p \in synced' => p \in synced \/ Completes(h),
           ~crossed /\ Soon(p)' => Board(p)' = Board(p)
    PROVE  BoardInv'
<1>1. Passes(down, down', p, {h}, sent) /\ down' \in [Members -> Seq(Messages)] /\ h \in Range(down[p]) /\ p \in room
  BY DEF Delivers
<1>2. \A q \in Members : \A x \in Range(down'[q]) : x \in Messages /\ (x \in Range(down[q]) \/ x \in sent)
  BY <1>1, Passed
<1>3. \A q \in Members : \A x \in Range(down[q]) : x \in Messages /\ (x \in Range(down'[q]) \/ (q = p /\ x \in {h}))
  BY <1>1, Passed
<1>4. \A q \in Members : Soon(q)' => Soon(q)
  <2>1. \A q \in Members : q \in synced' => q \in synced \/ (q = p /\ \E g \in {h} : Completes(g))
    BY DEF BoardOK
  <2> QED BY <1>1, <2>1, SoonKept
<1>5. ASSUME NEW q \in room, Soon(q)', ~crossed' PROVE Board(q)' = Board(q)
  <2>1. CASE q = p
    BY <1>5, <2>1
  <2>2. CASE q # p
    <3>1. q \in Members
      BY DEF BoardOK
    <3>2. \A x : Matters(x) => (x \in Range(down'[q]) <=> x \in Range(down[q]))
      BY <1>2, <1>3, <2>2, <3>1
    <3> QED BY <2>2, <3>1, <3>2, BoardEqual
  <2> QED BY <2>1, <2>2
<1>6. ASSUME NEW q \in Members, NEW x, x \in Range(up'[q]) \/ x \in Range(down'[q])
      PROVE  x.kind \notin {"stroke", "clear"} \/ \E r \in Members : x \in Range(up[r]) \/ x \in Range(down[r])
  <2>1. CASE x \in Range(up'[q])
    BY <2>1
  <2>2. CASE x \in Range(down'[q])
    BY <1>2, <2>2 DEF Matters, IsStroke
  <2> QED BY <1>6, <2>1, <2>2
<1>7. crossed \in BOOLEAN /\ crossed' \in BOOLEAN /\ (crossed => crossed') /\ room' \subseteq room /\ room \subseteq Members
  BY DEF BoardOK
<1>8. \A q \in room' : Soon(q)' /\ ~crossed' => /\ Soon(q) /\ Board(q)' = Board(q)
                                         /\ StrokesIn(up'[q]) = StrokesIn(up[q]) /\ (ClearIn(up'[q]) <=> ClearIn(up[q]))
  BY <1>4, <1>5, <1>7
<1> QED BY <1>6, <1>7, <1>8, BoardSame

LEMMA BoardReadsStroke ==
    ASSUME BoardOK, OnceInv, BoardInv, ~crossed, NEW p \in Members, NEW h \in Messages, Delivers(p, h, {}),
           h.kind = "stroke", Draw(p, Append(strokes[p], h.data))
    PROVE  Board(p)' = Board(p)
<1>1. Passes(down, down', p, {h}, {}) /\ down' \in [Members -> Seq(Messages)] /\ h \in Range(down[p]) /\ p \in room
  BY DEF Delivers
<1>2. \A x \in Range(down'[p]) : x \in Messages /\ x \in Range(down[p])
  BY <1>1, Passed
<1>3. \A x \in Range(down[p]) : x \in Messages /\ (x \in Range(down'[p]) \/ x = h)
  BY <1>1, Passed
<1>4. InFlight({"stroke", "clear"}) /\ InFlight({"stroke"})
  BY <1>1, Flying
<1>5. ~ClearIn(down[p]) /\ ~ClearIn(down'[p])
  <2>1. ~InFlight({"clear"})
    BY <1>4 DEF BoardInv
  <2>2. ~ClearIn(down[p])
    BY <2>1, Flying DEF ClearIn
  <2> QED BY <1>2, <2>2 DEF ClearIn
<1>6. FullBoards(p) = {} /\ FullBoards(p)' = {}
  <2>1. FullBoards(p) = {}
    BY <1>1, <1>4, AllThere
  <2> QED BY <1>2, <2>1 DEF FullBoards
<1>7. h.data \in Strokes /\ IsStroke(h) /\ strokes \in [Members -> Seq(Strokes)]
  BY DEF Messages, Sound, IsStroke, BoardOK
<1>8. Range(strokes'[p]) = Range(strokes[p]) \cup {h.data}
  <2>1. strokes'[p] = Append(strokes[p], h.data)
    BY <1>7 DEF Draw
  <2> QED BY <1>7, <2>1, StrokeAdded
<1>9. StrokesIn(down'[p]) \cup {h.data} = StrokesIn(down[p])
  <2>1. StrokesIn(down'[p]) \cup {h.data} \subseteq StrokesIn(down[p])
    BY <1>1, <1>2, <1>7 DEF StrokesIn
  <2>2. StrokesIn(down[p]) \subseteq StrokesIn(down'[p]) \cup {h.data}
    BY <1>3 DEF StrokesIn
  <2> QED BY <2>1, <2>2
<1>10. Board(p) = Range(strokes[p]) \cup StrokesIn(down[p])
  BY <1>5, <1>6 DEF Board
<1>11. Board(p)' = Range(strokes'[p]) \cup StrokesIn(down'[p])
  BY <1>5, <1>6 DEF Board
<1> QED BY <1>8, <1>9, <1>10, <1>11

LEMMA BoardReadsClear ==
    ASSUME BoardOK, OnceInv, BoardInv, ~crossed, NEW p \in Members, NEW h \in Messages, Delivers(p, h, {}),
           h.kind = "clear", Draw(p, <<>>)
    PROVE  Board(p)' = Board(p)
<1>1. Passes(down, down', p, {h}, {}) /\ down' \in [Members -> Seq(Messages)] /\ h \in Range(down[p]) /\ p \in room
  BY DEF Delivers
<1>2. \A x \in Range(down'[p]) : x \in Messages /\ x \in Range(down[p])
  BY <1>1, Passed
<1>3. InFlight({"stroke", "clear"}) /\ InFlight({"clear"})
  BY <1>1, Flying
<1>4. FullBoards(p)' = {}
  <2>1. FullBoards(p) = {}
    BY <1>1, <1>3, AllThere
  <2> QED BY <1>2, <2>1 DEF FullBoards
<1>5. StrokesIn(down'[p]) = {}
  <2>1. ~InFlight({"stroke"})
    BY <1>3 DEF BoardInv
  <2>2. \A x \in Range(down[p]) : ~IsStroke(x)
    BY <2>1, Flying DEF IsStroke
  <2> QED BY <1>2, <2>2 DEF StrokesIn
<1>6. Range(strokes'[p]) = {}
  <2>1. strokes'[p] = <<>>
    BY DEF Draw, BoardOK
  <2> QED BY <2>1, EmptyRange
<1>7. Board(p)' = {}
  BY <1>4, <1>5, <1>6 DEF Board
<1>8. Board(p) = {}
  BY <1>1 DEF Board, ClearIn
<1> QED BY <1>7, <1>8

LEMMA BoardCatchesUp ==
    ASSUME BoardOK, OnceInv, BoardInv, ~crossed, NEW p \in Members, NEW h \in Messages, Delivers(p, h, {}),
           IsBoard(h), h.data.synced, SyncState(p, h.data)
    PROVE  Board(p)' = Board(p)
<1>1. Passes(down, down', p, {h}, {}) /\ down' \in [Members -> Seq(Messages)] /\ h \in Range(down[p]) /\ p \in room
  BY DEF Delivers
<1>2. \A x \in Range(down'[p]) : x \in Messages /\ x \in Range(down[p])
  BY <1>1, Passed
<1>3. \A x \in Range(down[p]) : x \in Messages /\ (x \in Range(down'[p]) \/ x = h)
  BY <1>1, Passed
<1>4. \A m \in Range(down'[p]) : ~IsBoard(m)
  BY OnceInvCatchUp
<1>5. p \notin synced
  BY <1>1 DEF OnceInv
<1>6. ~InFlight({"stroke", "clear"})
  BY <1>1, <1>5 DEF BoardInv, AllSynced
<1>7. \A x \in Range(down[p]) : x.kind \notin {"stroke", "clear"}
  BY <1>6, Flying
<1>8. ~ClearIn(down[p]) /\ ~ClearIn(down'[p]) /\ StrokesIn(down'[p]) = {}
  BY <1>2, <1>7 DEF ClearIn, StrokesIn, IsStroke
<1>9. FullBoards(p)' = {}
  BY <1>4 DEF FullBoards
<1>10. FullBoards(p) = {h}
  BY <1>1, <1>3, <1>4 DEF FullBoards
<1>11. Board(p) = Range(h.data.strokes)
  <2>1. UNION {Range(m.data.strokes) : m \in {h}} = Range(h.data.strokes)
    OBVIOUS
  <2> QED BY <1>8, <1>10, <2>1 DEF Board
<1>12. strokes'[p] = h.data.strokes
  BY DEF SyncState, BoardOK
<1>13. Board(p)' = Range(strokes'[p])
  BY <1>8, <1>9 DEF Board
<1> QED BY <1>11, <1>12, <1>13

LEMMA BoardUnmoved ==
    ASSUME BoardOK, NEW p \in Members, NEW h \in Messages, NEW sent, Delivers(p, h, sent),
           ~Matters(h), \A m \in sent : ~Matters(m), strokes' = strokes
    PROVE  Board(p)' = Board(p)
<1>1. Passes(down, down', p, {h}, sent) /\ down' \in [Members -> Seq(Messages)]
  BY DEF Delivers
<1>2. \A x \in Range(down'[p]) : x \in Range(down[p]) \/ x \in sent
  BY <1>1, Passed
<1>3. \A x \in Range(down[p]) : x \in Range(down'[p]) \/ x \in {h}
  BY <1>1, Passed
<1>4. \A x : Matters(x) => (x \in Range(down'[p]) <=> x \in Range(down[p]))
  BY <1>2, <1>3
<1> QED BY <1>4, BoardEqual

\* The newcomer f gets the board of p, who has caught up; nothing flies meanwhile.
LEMMA BoardAnswer ==
    ASSUME BoardOK, OnceInv, BoardInv, NEW p \in Members, NEW h \in Messages, NEW a \in Messages, Delivers(p, h, {a}),
           h.kind = "sync-request", IsBoard(a), a.to = h.from, a.data.synced, p \in synced, a.data.strokes = strokes[p],
           up[p] = <<>>, UNCHANGED <<room, up, tab, strokes, synced, crossed>>
    PROVE  BoardInv'
<1> DEFINE f == h.from
<1>0. room \subseteq Members /\ p \in room /\ crossed \in BOOLEAN
  BY DEF BoardOK, Delivers
<1>1. Passes(down, down', p, {h}, {a}) /\ down' \in [Members -> Seq(Messages)] /\ h \in Range(down[p])
  BY DEF Delivers
<1>2. ~Matters(h) /\ ~Completes(h) /\ ~IsStroke(a) /\ a.kind # "clear"
  BY DEF IsBoard, IsStroke, Completes, Matters
<1>3. \A q \in Members : Gets(q, a) <=> q = f /\ q \in room
  BY DEF IsBoard, Gets, Broadcasts
<1>4. f \in Members /\ (f \in room => f \notin synced /\ \A m \in Range(down[f]) : ~IsBoard(m))
  BY OnceInvAnswer
<1> HIDE DEF f
<1>5. \A q \in Members : \A x \in Range(down'[q]) : x \in Messages /\ (x \in Range(down[q]) \/ (x = a /\ q = f /\ f \in room))
  BY <1>1, <1>3, Passed
<1>6. \A q \in Members : \A x \in Range(down[q]) : x \in Messages /\ (x \in Range(down'[q]) \/ (q = p /\ x \in {h}))
  BY <1>1, Passed
<1>7. f \in room => a \in Range(down'[f])
  BY <1>1, <1>3, <1>4, Passed
<1>8. ASSUME NEW q \in Members, q # f \/ f \notin room PROVE Board(q)' = Board(q) /\ (Soon(q)' => Soon(q))
  <2>1. \A x : Matters(x) => (x \in Range(down'[q]) <=> x \in Range(down[q]))
    BY <1>2, <1>5, <1>6, <1>8
  <2>2. Board(q)' = Board(q)
    BY <2>1, BoardEqual
  <2>3. \A x \in Range(down'[q]) : x \in Range(down[q])
    BY <1>5, <1>8
  <2> QED BY <2>2, <2>3 DEF Soon
<1>9. \A q \in Members : \A x : x \in Range(up'[q]) \/ x \in Range(down'[q]) =>
               x.kind \notin {"stroke", "clear"} \/ \E r \in Members : x \in Range(up[r]) \/ x \in Range(down[r])
  BY <1>2, <1>5 DEF IsStroke
<1>10. CASE f \notin room
  <2>1. \A q \in room' : Soon(q)' /\ ~crossed' => /\ Soon(q) /\ Board(q)' = Board(q)
                                         /\ StrokesIn(up'[q]) = StrokesIn(up[q]) /\ (ClearIn(up'[q]) <=> ClearIn(up[q]))
    BY <1>0, <1>8, <1>10
  <2>2. ~AllSynced' => ~AllSynced
    BY DEF AllSynced
  <2> QED BY <1>0, <1>9, <2>1, <2>2, BoardSame
<1>11. CASE f \in room
  <2> SUFFICES ASSUME ~crossed' PROVE BoardInv'
    BY DEF BoardInv
  <2>0. ~crossed
    OBVIOUS
  <2>1. ~InFlight({"stroke", "clear"})
    BY <1>4, <1>11, <2>0 DEF BoardInv, AllSynced
  <2>2. ~InFlight({"stroke", "clear"})'
    BY <1>9, <2>1, StillFlying
  <2>3. ~InFlight({"stroke"})'
    BY <2>2 DEF InFlight
  <2>4. \A q \in Members : \A x : x \in Range(up'[q]) \/ x \in Range(down'[q]) \/ x \in Range(down[q]) => x.kind \notin {"stroke", "clear"}
    BY <2>1, <2>2, Flying DEF InFlight
  <2>5. \A q \in Members : /\ ~ClearIn(down[q]) /\ ~ClearIn(down'[q]) /\ ~ClearIn(up'[q])
                          /\ StrokesIn(down[q]) = {} /\ StrokesIn(up'[q]) = {} /\ StrokesIn(up[q]) = {}
    BY <2>4 DEF ClearIn, StrokesIn, IsStroke
  <2>6. p # f
    BY <1>4, <1>11
  <2>7. Board(p) = Range(strokes[p])
    BY <2>5, NoBoard DEF Board
  <2>8. Board(f)' = Range(strokes[p])
    <3>1. FullBoards(f)' = {a}
      BY <1>4, <1>5, <1>7, <1>11 DEF FullBoards
    <3>2. UNION {Range(m.data.strokes) : m \in {a}} = Range(a.data.strokes)
      OBVIOUS
    <3> QED BY <1>4, <2>5, <3>1, <3>2 DEF Board
  <2>9. Board(p)' = Board(p) /\ Soon(p)
    BY <1>0, <1>8, <2>6 DEF Soon
  <2>10. \A q \in Members : Common(q)' = Board(q)' /\ Common(q) = Board(q)
    BY <2>5 DEF Common
  <2>11. ASSUME NEW q \in room, Soon(q)' PROVE Board(q)' = Board(p)
    <3>1. CASE q = f
      BY <2>7, <2>8, <3>1
    <3>2. CASE q # f
      <4>1. Board(q)' = Board(q) /\ Soon(q) /\ q \in Members
        BY <1>0, <1>8, <2>11, <3>2
      <4>2. Common(q) = Common(p)
        BY <1>0, <2>0, <2>5, <2>9, <4>1 DEF BoardInv
      <4> QED BY <2>10, <4>1, <4>2
    <3> QED BY <3>1, <3>2
  <2>12. ASSUME NEW b \in room', NEW c \in room', Soon(b)', Soon(c)' PROVE Common(b)' = Common(c)'
    BY <1>0, <2>10, <2>11, <2>12
  <2>13. \A b \in room' : StrokesIn(up'[b]) \subseteq Board(b)' /\ (ClearIn(up'[b]) => Board(b)' = {})
    BY <1>0, <2>5
  <2> QED BY <2>2, <2>3, <2>12, <2>13 DEF BoardInv
<1> QED BY <1>10, <1>11

LEMMA BoardInvReceive == ASSUME BoardOK, OnceInv, BoardInv, NEW p \in Members, Receive(p) PROVE BoardInv'
<1>1. PICK h \in Messages, sent \in SUBSET Messages : Delivers(p, h, sent) /\ Reads(p, h, sent)
  BY Received
<1>2. UNCHANGED <<room, up>> /\ strokes \in [Members -> Seq(Strokes)] /\ h \in Range(down[p]) /\ p \in room
  BY <1>1 DEF Receive, BoardOK, Delivers
<1>3. ASSUME strokes' = strokes, crossed' = crossed, ~Matters(h), \A m \in sent : ~Matters(m) /\ ~Completes(m),
             synced' = synced \/ (synced' = synced \cup {p} /\ Completes(h))
      PROVE  BoardInv'
  <2>1. Board(p)' = Board(p)
    BY <1>1, <1>3, BoardUnmoved
  <2>2. ~AllSynced' => ~AllSynced
    BY <1>2, <1>3 DEF AllSynced
  <2> QED BY <1>1, <1>2, <1>3, <2>1, <2>2, BoardInvReads
<1>4. ASSUME sent = {}, crossed' = crossed, \A q \in Members \ {p} : strokes'[q] = strokes[q],
             synced' = synced \/ (synced' = synced \cup {p} /\ Completes(h)),
             ~crossed /\ Soon(p)' => Board(p)' = Board(p)
      PROVE  BoardInv'
  <2>1. ~AllSynced' => ~AllSynced
    BY <1>2, <1>4 DEF AllSynced
  <2> QED BY <1>1, <1>2, <1>4, <2>1, BoardInvReads
<1>5. CASE h.kind = "welcome" /\ Start(p, h.data)
           /\ sent = {Broadcast(p, "hello", {})} \cup {Msg("sync-request", p, to, {}) : to \in {Min(s) : s \in {h.data} \ {{}}}}
  <2>1. \A m \in sent : ~Matters(m) /\ ~Completes(m)
    BY <1>5 DEF Broadcast, Msg, Matters, Completes, IsStroke, IsBoard
  <2>2. strokes' = strokes /\ crossed' = crossed /\ ~Matters(h)
    BY <1>5 DEF Start, canvasVars, Matters, IsStroke, IsBoard
  <2>3. synced' = synced \/ (synced' = synced \cup {p} /\ Completes(h))
    BY <1>5 DEF Start, Completes
  <2> QED BY <1>3, <2>1, <2>2, <2>3
<1>6. CASE h.kind = "hello" /\ Hello(p, h.from) /\ sent = {Msg("hi", p, h.from, {})}
  <2>1. \A m \in sent : ~Matters(m) /\ ~Completes(m)
    BY <1>6 DEF Msg, Matters, Completes, IsStroke, IsBoard
  <2> QED BY <1>3, <1>6, <2>1 DEF Hello, Matters, IsStroke, IsBoard
<1>7. CASE sent = {} /\ ~Matters(h) /\ UNCHANGED <<strokes, synced, crossed>>
  BY <1>3, <1>7
<1>8. CASE h.kind = "stroke" /\ Draw(p, Append(strokes[p], h.data)) /\ sent = {}
  <2>1. ~crossed => Board(p)' = Board(p)
    BY <1>1, <1>8, BoardReadsStroke
  <2> QED BY <1>2, <1>4, <1>8, <2>1 DEF Draw
<1>9. CASE h.kind = "clear" /\ Draw(p, <<>>) /\ sent = {}
  <2>1. ~crossed => Board(p)' = Board(p)
    BY <1>1, <1>9, BoardReadsClear
  <2> QED BY <1>2, <1>4, <1>9, <2>1 DEF Draw
<1>10. CASE h.kind = "sync-state" /\ SyncState(p, h.data) /\ sent = {}
  <2>1. IsBoard(h) /\ (\A q \in Members \ {p} : strokes'[q] = strokes[q]) /\ crossed' = crossed
    BY <1>2, <1>10 DEF IsBoard, SyncState
  <2>2. CASE h.data.synced
    <3>1. ~crossed => Board(p)' = Board(p)
      BY <1>1, <1>10, <2>1, <2>2, BoardCatchesUp
    <3>2. synced' = synced \cup {p} /\ Completes(h)
      BY <1>10, <2>1, <2>2 DEF SyncState, Completes
    <3> QED BY <1>4, <1>10, <2>1, <3>1, <3>2
  <2>3. CASE ~h.data.synced
    <3>1. synced' = synced /\ p \notin synced
      BY <1>2, <1>10, <2>1, <2>3 DEF SyncState, OnceInv
    <3>2. \A m \in Range(down'[p]) : ~Completes(m)
      BY <1>1, <1>10, <2>1, OnceInvCatchUp DEF Completes
    <3>3. ~Soon(p)'
      BY <3>1, <3>2 DEF Soon
    <3> QED BY <1>4, <1>10, <2>1, <3>1, <3>3
  <2> QED BY <2>2, <2>3
<1>11. CASE h.kind = "sync-request" /\ SyncRequest(p, h.from)
            /\ sent = {Msg("sync-state", p, h.from, [strokes |-> strokes[p], doc |-> doc[p], synced |-> p \in synced])}
  <2> DEFINE a == Msg("sync-state", p, h.from, [strokes |-> strokes[p], doc |-> doc[p], synced |-> p \in synced])
  <2>1. IsBoard(a) /\ a.to = h.from /\ (a.data.synced <=> p \in synced) /\ a.data.strokes = strokes[p]
    BY DEF Msg, IsBoard
  <2>2. up[p] = <<>> /\ UNCHANGED <<room, up, tab, strokes, synced, crossed>> /\ Delivers(p, h, {a}) /\ a \in Messages /\ sent = {a}
    BY <1>1, <1>2, <1>11 DEF SyncRequest, Reply, canvasVars
  <2> HIDE DEF a
  <2>3. CASE p \in synced
    BY <1>11, <2>1, <2>2, <2>3, BoardAnswer
  <2>4. CASE p \notin synced
    <3>1. ~Matters(a) /\ ~Completes(a) /\ ~Matters(h)
      BY <1>11, <2>1, <2>4 DEF Matters, Completes, IsBoard, IsStroke
    <3> QED BY <1>3, <2>2, <3>1
  <2> QED BY <2>3, <2>4
<1> QED BY <1>1, <1>5, <1>6, <1>7, <1>8, <1>9, <1>10, <1>11 DEF Reads, Hi, Write, Point, PeerLeft, Matters, IsStroke, IsBoard

\* A page without a board or a clearing on its way shows its canvas and the strokes on their way.
LEMMA BoardPlain == ASSUME NEW q \in Members, FullBoards(q) = {}, ~ClearIn(down[q])
                    PROVE  Board(q) = Range(strokes[q]) \cup StrokesIn(down[q])
BY DEF Board

LEMMA StrokesAre == ASSUME NEW s, NEW x PROVE x \in StrokesIn(s) <=> \E m \in Range(s) : IsStroke(m) /\ m.data = x
BY DEF StrokesIn

\* p's member draws.
LEMMA BoardInvAddStroke ==
    ASSUME BoardOK, StrokeInv, OnceInv, BoardInv, NEW p \in Members, NEW s \in Strokes, AddStroke(p, s) PROVE BoardInv'
<1> DEFINE o == Broadcast(p, "stroke", s)
<1>1. Speaks(p, o) /\ IsStroke(o) /\ o.data = s /\ o.kind = "stroke"
  BY StrokeSpoken DEF Broadcast, Msg, IsStroke
<1>2. UNCHANGED <<down, room, synced>> /\ s \notin drawn /\ crossed' = (crossed \/ InFlight({"clear"}) \/ ~AllSynced)
      /\ room \subseteq Members /\ p \in room
  BY <1>1 DEF AddStroke, Speaks, BoardOK
<1>3. strokes'[p] = Append(strokes[p], s) /\ (\A q \in Members \ {p} : strokes'[q] = strokes[q]) /\ strokes[p] \in Seq(Strokes)
  BY DEF AddStroke, BoardOK
<1>4. Range(strokes'[p]) = Range(strokes[p]) \cup {s}
  BY <1>3, StrokeAdded
<1>5. Goes(up[p], up'[p], {}, {o}) /\ \A q \in Members \ {p} : up'[q] = up[q]
  BY <1>1 DEF Speaks
<1> HIDE DEF o
<1>6. (\A x \in Range(up'[p]) : x \in Range(up[p]) \/ x = o) /\ (\A x \in Range(up[p]) : x \in Range(up'[p])) /\ o \in Range(up'[p])
  BY <1>5 DEF Goes
<1> SUFFICES ASSUME ~crossed' PROVE BoardInv'
  BY DEF BoardInv
<1>7. ~crossed /\ ~InFlight({"clear"}) /\ AllSynced /\ AllSynced'
  BY <1>2 DEF AllSynced
<1>8. \A q \in room : q \in Members /\ q \in synced /\ Soon(q) /\ FullBoards(q) = {} /\ FullBoards(q)' = {}
  <2>1. ASSUME NEW q \in room PROVE q \in Members /\ q \in synced /\ Soon(q) /\ FullBoards(q) = {} /\ FullBoards(q)' = {}
    <3>1. q \in Members /\ q \in synced
      BY <1>2, <1>7 DEF AllSynced
    <3>2. FullBoards(q) = {}
      BY <3>1, NoBoard
    <3> QED BY <1>2, <3>1, <3>2 DEF FullBoards, Soon
  <2> QED BY <2>1
<1>9. \A q \in Members : \A x : x \in Range(up[q]) \/ x \in Range(down[q]) => x.kind # "clear"
  BY <1>7, Flying
<1>10. \A q \in Members : \A x : x \in Range(up'[q]) \/ x \in Range(down'[q]) => x.kind # "clear"
  BY <1>1, <1>2, <1>5, <1>6, <1>9
<1>11. ~InFlight({"clear"})'
  BY <1>10 DEF InFlight
<1>12. \A q \in Members : ~ClearIn(up'[q]) /\ ~ClearIn(down'[q]) /\ ~ClearIn(up[q]) /\ ~ClearIn(down[q])
  BY <1>9, <1>10 DEF ClearIn
<1>13. Board(p) = Range(strokes[p]) \cup StrokesIn(down[p]) /\ Board(p)' = Range(strokes'[p]) \cup StrokesIn(down'[p])
  BY <1>2, <1>8, <1>12 DEF Board
<1>14. Board(p)' = Board(p) \cup {s}
  BY <1>2, <1>4, <1>13
<1>15. s \notin Board(p)
  <2>1. \A x \in StrokesIn(down[p]) : x \in drawn
    BY StrokesAre DEF StrokeInv
  <2>2. Range(strokes[p]) \subseteq drawn
    BY DEF StrokeInv
  <2> QED BY <1>2, <1>13, <2>1, <2>2
<1>16. StrokesIn(up'[p]) = StrokesIn(up[p]) \cup {s}
  <2>1. ASSUME NEW x \in StrokesIn(up'[p]) PROVE x \in StrokesIn(up[p]) \cup {s}
    BY <1>1, <1>6, StrokesAre
  <2>2. ASSUME NEW x \in StrokesIn(up[p]) \cup {s} PROVE x \in StrokesIn(up'[p])
    BY <1>1, <1>6, StrokesAre
  <2> QED BY <2>1, <2>2
<1>17. StrokesIn(up[p]) \subseteq Board(p)
  BY <1>2, <1>7, <1>8 DEF BoardInv
<1>18. Common(p)' = Common(p)
  BY <1>14, <1>15, <1>16 DEF Common
<1>19. \A q \in room \ {p} : Board(q)' = Board(q) /\ up'[q] = up[q] /\ Common(q)' = Common(q)
  <2>1. ASSUME NEW q \in room \ {p} PROVE Board(q)' = Board(q) /\ up'[q] = up[q] /\ Common(q)' = Common(q)
    <3>1. q \in Members /\ up'[q] = up[q] /\ strokes'[q] = strokes[q] /\ down'[q] = down[q]
      BY <1>2, <1>3, <1>5
    <3>2. Board(q)' = Board(q)
      BY <3>1, BoardEqual
    <3> QED BY <3>1, <3>2 DEF Common
  <2> QED BY <2>1
<1>20. \A q \in room : Common(q)' = Common(q)
  BY <1>18, <1>19
<1>21. ASSUME NEW a \in room', NEW b \in room' PROVE Common(a)' = Common(b)'
  <2>1. Common(a) = Common(b)
    BY <1>2, <1>7, <1>8, <1>12 DEF BoardInv
  <2> QED BY <1>2, <1>20, <2>1
<1>22. ASSUME NEW a \in room' PROVE StrokesIn(up'[a]) \subseteq Board(a)' /\ (ClearIn(up'[a]) => Board(a)' = {})
  <2>1. CASE a = p
    BY <1>12, <1>14, <1>16, <1>17, <2>1
  <2>2. CASE a # p
    <3>1. StrokesIn(up[a]) \subseteq Board(a) /\ a \in room
      BY <1>2, <1>7, <1>8 DEF BoardInv
    <3> QED BY <1>2, <1>8, <1>12, <1>19, <2>2, <3>1
  <2> QED BY <2>1, <2>2
<1> QED BY <1>7, <1>11, <1>21, <1>22 DEF BoardInv

\* p's member clears the board.
LEMMA BoardInvClear == ASSUME BoardOK, OnceInv, BoardInv, NEW p \in Members, Clear(p) PROVE BoardInv'
<1> DEFINE o == Broadcast(p, "clear", {})
<1>1. Speaks(p, o) /\ ~IsStroke(o) /\ o.kind = "clear"
  BY ClearSpoken DEF Broadcast, Msg, IsStroke
<1>2. UNCHANGED <<down, room, synced>> /\ crossed' = (crossed \/ InFlight({"stroke"}) \/ ~AllSynced)
      /\ room \subseteq Members /\ p \in room
  BY <1>1 DEF Clear, Speaks, BoardOK
<1>3. strokes'[p] = <<>> /\ \A q \in Members \ {p} : strokes'[q] = strokes[q]
  BY DEF Clear, BoardOK
<1>5. Goes(up[p], up'[p], {}, {o}) /\ \A q \in Members \ {p} : up'[q] = up[q]
  BY <1>1 DEF Speaks
<1> HIDE DEF o
<1>6. (\A x \in Range(up'[p]) : x \in Range(up[p]) \/ x = o) /\ o \in Range(up'[p])
  BY <1>5 DEF Goes
<1> SUFFICES ASSUME ~crossed' PROVE BoardInv'
  BY DEF BoardInv
<1>7. ~crossed /\ ~InFlight({"stroke"}) /\ AllSynced /\ AllSynced'
  BY <1>2 DEF AllSynced
<1>8. \A q \in room : q \in Members /\ q \in synced /\ Soon(q) /\ FullBoards(q) = {}
  <2>1. ASSUME NEW q \in room PROVE q \in Members /\ q \in synced /\ Soon(q) /\ FullBoards(q) = {}
    <3>1. q \in Members /\ q \in synced
      BY <1>2, <1>7 DEF AllSynced
    <3> QED BY <3>1, NoBoard DEF Soon
  <2> QED BY <2>1
<1>9. \A q \in Members : \A x : x \in Range(up[q]) \/ x \in Range(down[q]) => ~IsStroke(x)
  BY <1>7, Flying DEF IsStroke
<1>10. \A q \in Members : \A x : x \in Range(up'[q]) \/ x \in Range(down'[q]) => ~IsStroke(x)
  BY <1>1, <1>2, <1>5, <1>6, <1>9
<1>11. ~InFlight({"stroke"})'
  BY <1>10 DEF InFlight, IsStroke
<1>12. \A q \in Members : StrokesIn(up'[q]) = {} /\ StrokesIn(down'[q]) = {}
  BY <1>10 DEF StrokesIn
<1>13. ClearIn(up'[p])
  BY <1>1, <1>6 DEF ClearIn
<1>14. Board(p)' = {}
  <2>1. FullBoards(p)' = {}
    BY <1>2, <1>8 DEF FullBoards
  <2>2. Range(strokes'[p]) = {}
    BY <1>3, EmptyRange
  <2> QED BY <1>12, <2>1, <2>2 DEF Board
<1>15. \A q \in room \ {p} : Board(q)' = Board(q) /\ up'[q] = up[q] /\ Common(q)' = Common(q)
  <2>1. ASSUME NEW q \in room \ {p} PROVE Board(q)' = Board(q) /\ up'[q] = up[q] /\ Common(q)' = Common(q)
    <3>1. q \in Members /\ up'[q] = up[q] /\ strokes'[q] = strokes[q] /\ down'[q] = down[q]
      BY <1>2, <1>3, <1>5
    <3>2. Board(q)' = Board(q)
      BY <3>1, BoardEqual
    <3> QED BY <3>1, <3>2 DEF Common
  <2> QED BY <2>1
<1>16. ASSUME NEW a \in room', NEW b \in room', ~ClearIn(up'[a]), ~ClearIn(up'[b]) PROVE Common(a)' = Common(b)'
  <2>1. a \in room \ {p} /\ b \in room \ {p}
    BY <1>2, <1>13, <1>16
  <2>2. ~ClearIn(up[a]) /\ ~ClearIn(up[b])
    BY <1>15, <1>16, <2>1
  <2>3. Common(a) = Common(b)
    BY <1>7, <1>8, <2>1, <2>2 DEF BoardInv
  <2> QED BY <1>15, <2>1, <2>3
<1>17. ASSUME NEW a \in room' PROVE StrokesIn(up'[a]) \subseteq Board(a)' /\ (ClearIn(up'[a]) => Board(a)' = {})
  <2>1. CASE a = p
    BY <1>2, <1>12, <1>14, <2>1
  <2>2. CASE a # p
    <3>1. a \in room /\ Soon(a) /\ a \in Members
      BY <1>2, <1>8
    <3>2. ClearIn(up[a]) => Board(a) = {}
      BY <1>7, <3>1 DEF BoardInv
    <3> QED BY <1>12, <1>15, <2>2, <3>1, <3>2
  <2> QED BY <2>1, <2>2
<1> QED BY <1>7, <1>11, <1>16, <1>17 DEF BoardInv

\* p's member does what is of no board.
LEMMA BoardInvSpeak ==
    ASSUME BoardOK, BoardInv, NEW p \in Members, NEW o, Speaks(p, o), o.kind \notin {"stroke", "clear"},
           UNCHANGED <<down, room, synced, strokes, crossed>>
    PROVE  BoardInv'
<1>1. Goes(up[p], up'[p], {}, {o}) /\ (\A q \in Members \ {p} : up'[q] = up[q]) /\ room \subseteq Members /\ crossed \in BOOLEAN
  BY DEF Speaks, BoardOK
<1>2. \A q \in Members : \A x \in Range(up'[q]) : x \in Range(up[q]) \/ x = o
  BY <1>1 DEF Goes
<1>3. \A q \in Members : \A x \in Range(up[q]) : x \in Range(up'[q])
  <2>1. ASSUME NEW q \in Members, NEW x \in Range(up[q]) PROVE x \in Range(up'[q])
    <3>1. CASE q = p
      BY <1>1, <2>1, <3>1 DEF Goes
    <3>2. CASE q # p
      BY <1>1, <2>1, <3>2
    <3> QED BY <3>1, <3>2
  <2> QED BY <2>1
<1>4. ASSUME NEW q \in Members PROVE StrokesIn(up'[q]) = StrokesIn(up[q]) /\ (ClearIn(up'[q]) <=> ClearIn(up[q]))
  <2>1. \A x : IsStroke(x) \/ x.kind = "clear" => (x \in Range(up'[q]) <=> x \in Range(up[q]))
    BY <1>2, <1>3 DEF IsStroke
  <2> QED BY <2>1, UpEqual
<1>5. ASSUME NEW q \in Members PROVE Board(q)' = Board(q) /\ (Soon(q)' <=> Soon(q))
  <2>1. Board(q)' = Board(q)
    BY BoardEqual
  <2> QED BY <2>1 DEF Soon
<1>6. ASSUME NEW q \in Members, NEW x, x \in Range(up'[q]) \/ x \in Range(down'[q])
      PROVE  x.kind \notin {"stroke", "clear"} \/ \E r \in Members : x \in Range(up[r]) \/ x \in Range(down[r])
  BY <1>2, <1>6
<1>7. ~AllSynced' => ~AllSynced
  BY DEF AllSynced
<1>8. \A q \in room' : Soon(q)' /\ ~crossed' => /\ Soon(q) /\ Board(q)' = Board(q)
                                         /\ StrokesIn(up'[q]) = StrokesIn(up[q]) /\ (ClearIn(up'[q]) <=> ClearIn(up[q]))
  BY <1>1, <1>4, <1>5
<1>9. crossed' \in BOOLEAN /\ (crossed => crossed') /\ room' \subseteq room
  BY <1>1
<1> QED BY <1>1, <1>6, <1>7, <1>8, <1>9, BoardSame

LEMMA BoardInvRelay == ASSUME BoardOK, StrokeInv, OnceInv, BoardInv, NEW p \in Members, Relay(p) PROVE BoardInv'
<1>0. PICK o : Relays(p, o)
  BY HasRelayed
<1>1. /\ Passes(down, down', p, {}, {o}) /\ down' \in [Members -> Seq(Messages)] /\ o \in Messages /\ o \in Range(up[p]) /\ p \in room
      /\ o.kind \in {"stroke", "clear", "doc", "cursor"} /\ o.from = p
  BY <1>0 DEF Relays, BoardOK
<1>2. UNCHANGED <<room, strokes, synced, crossed>> /\ room \subseteq Members /\ crossed \in BOOLEAN /\ (AllSynced' <=> AllSynced)
  BY DEF Relay, canvasVars, historyVars, BoardOK, AllSynced
<1>3. \A q \in room : Gets(q, o) <=> q # p
  BY <1>1 DEF Gets, Broadcasts
<1>4. Goes(up[p], up'[p], {o}, {}) /\ \A q \in Members \ {p} : up'[q] = up[q]
  BY <1>0 DEF Relays
<1>5. \A q \in Members : \A x \in Range(up'[q]) : x \in Range(up[q])
  BY <1>4 DEF Goes
<1>6. \A q \in Members : \A x \in Range(up[q]) : x \in Range(up'[q]) \/ (q = p /\ x = o)
  BY <1>4 DEF Goes
<1>7. \A q \in room : \A x \in Range(down'[q]) : x \in Range(down[q]) \/ (x = o /\ q # p)
  BY <1>1, <1>2, <1>3, Passed
<1>8. \A q \in room : \A x \in Range(down[q]) : x \in Range(down'[q])
  BY <1>1, <1>2, Passed
<1>9. \A q \in room : q # p => o \in Range(down'[q])
  BY <1>1, <1>2, <1>3, Passed
<1>10. ASSUME NEW q \in Members, NEW x, x \in Range(up'[q]) \/ x \in Range(down'[q])
       PROVE  \E r \in Members : x \in Range(up[r]) \/ x \in Range(down[r])
  <2>1. CASE x \in Range(up'[q])
    BY <1>5, <2>1
  <2>2. CASE x \in Range(down'[q])
    <3>1. x \in Range(down[q]) \/ x = o
      BY <1>1, <2>2, Passed
    <3> QED BY <1>1, <3>1
  <2> QED BY <1>10, <2>1, <2>2
<1>11. \A kinds \in SUBSET {"stroke", "clear"} : InFlight(kinds)' => InFlight(kinds)
  BY <1>10, StillFlying
<1>12. CASE o.kind \in {"doc", "cursor"}
  <2>1. ~IsStroke(o) /\ ~IsBoard(o) /\ ~Matters(o) /\ ~Completes(o)
    BY <1>12 DEF IsStroke, IsBoard, Matters, Completes
  <2>2. ASSUME NEW q \in room, Soon(q)' PROVE Soon(q)
    BY <1>2, <1>7, <2>1, <2>2 DEF Soon
  <2>3. ASSUME NEW q \in room PROVE Board(q)' = Board(q)
    <3>1. \A x : Matters(x) => (x \in Range(down'[q]) <=> x \in Range(down[q]))
      BY <1>7, <1>8, <2>1
    <3> QED BY <1>2, <3>1, BoardEqual
  <2>4. ASSUME NEW q \in room PROVE StrokesIn(up'[q]) = StrokesIn(up[q]) /\ (ClearIn(up'[q]) <=> ClearIn(up[q]))
    <3>1. \A x : IsStroke(x) \/ x.kind = "clear" => (x \in Range(up'[q]) <=> x \in Range(up[q]))
      BY <1>2, <1>5, <1>6, <1>12 DEF IsStroke
    <3> QED BY <3>1, UpEqual
  <2>5. \A q \in Members : \A x : x \in Range(up'[q]) \/ x \in Range(down'[q]) =>
               x.kind \notin {"stroke", "clear"} \/ \E r \in Members : x \in Range(up[r]) \/ x \in Range(down[r])
    BY <1>10
  <2>6. \A q \in room' : Soon(q)' /\ ~crossed' => /\ Soon(q) /\ Board(q)' = Board(q)
                                         /\ StrokesIn(up'[q]) = StrokesIn(up[q]) /\ (ClearIn(up'[q]) <=> ClearIn(up[q]))
    BY <1>2, <2>2, <2>3, <2>4
  <2>7. crossed' \in BOOLEAN /\ (crossed => crossed') /\ room' \subseteq room /\ (~AllSynced' => ~AllSynced)
    BY <1>2
  <2> QED BY <1>2, <2>5, <2>6, <2>7, BoardSame
<1>13. CASE o.kind \in {"stroke", "clear"}
  <2> SUFFICES ASSUME ~crossed' PROVE BoardInv'
    BY DEF BoardInv
  <2>1. ~crossed /\ InFlight({"stroke", "clear"}) /\ AllSynced'
    <3>1. ~crossed
      BY <1>2
    <3>2. InFlight({"stroke", "clear"})
      BY <1>1, <1>13, Flying
    <3>3. AllSynced
      BY <3>1, <3>2 DEF BoardInv
    <3> QED BY <1>2, <3>1, <3>2, <3>3
  <2>2. \A q \in room : q \in synced /\ Soon(q) /\ q \in Members /\ FullBoards(q) = {}
    BY <2>1, AllThere
  <2>3. ~IsBoard(o) /\ \A q \in room : FullBoards(q)' = {}
    <3>1. ~IsBoard(o)
      BY <1>13 DEF IsBoard
    <3>2. ASSUME NEW q \in room PROVE FullBoards(q)' = {}
      BY <1>7, <2>2, <3>1 DEF FullBoards
    <3> QED BY <3>1, <3>2
  <2>4. ~(InFlight({"stroke"})' /\ InFlight({"clear"})')
    BY <1>11, <2>1 DEF BoardInv
  <2>5. CASE o.kind = "stroke"
    <3>1. InFlight({"stroke"}) /\ ~InFlight({"clear"})
      <4>1. InFlight({"stroke"})
        BY <1>1, <2>5, Flying
      <4> QED BY <2>1, <4>1 DEF BoardInv
    <3>2. \A q \in Members : ~ClearIn(up[q]) /\ ~ClearIn(down[q]) /\ ~ClearIn(up'[q]) /\ ~ClearIn(down'[q])
      <4>1. ~InFlight({"clear"})'
        BY <1>11, <3>1
      <4>2. \A q \in Members : \A x : x \in Range(up'[q]) \/ x \in Range(down'[q]) => x.kind # "clear"
        BY <4>1 DEF InFlight
      <4>3. \A q \in Members : \A x : x \in Range(up[q]) \/ x \in Range(down[q]) => x.kind # "clear"
        BY <3>1, Flying
      <4> QED BY <4>2, <4>3 DEF ClearIn
    <3>3. IsStroke(o)
      BY <2>5 DEF IsStroke
    <3> DEFINE s == o.data
    <3>4. \A q \in room : Board(q) = Range(strokes[q]) \cup StrokesIn(down[q]) /\ Board(q)' = Range(strokes[q]) \cup StrokesIn(down'[q])
      <4>1. ASSUME NEW q \in room
            PROVE  Board(q) = Range(strokes[q]) \cup StrokesIn(down[q]) /\ Board(q)' = Range(strokes[q]) \cup StrokesIn(down'[q])
        <5>1. Board(q)' = Range(strokes'[q]) \cup StrokesIn(down'[q])
          BY <2>2, <2>3, <3>2 DEF Board
        <5> QED BY <1>2, <2>2, <3>2, <5>1 DEF Board
      <4> QED BY <4>1
    <3>5. ASSUME NEW q \in room, q # p
          PROVE  Board(q)' = Board(q) \cup {s} /\ StrokesIn(up'[q]) = StrokesIn(up[q]) /\ s \notin StrokesIn(up[q])
      <4>1. ASSUME NEW x \in StrokesIn(down'[q]) PROVE x \in StrokesIn(down[q]) \cup {s}
        <5>1. PICK m \in Range(down'[q]) : IsStroke(m) /\ m.data = x
          BY <4>1, StrokesAre
        <5> QED BY <1>7, <5>1, StrokesAre
      <4>2. ASSUME NEW x \in StrokesIn(down[q]) PROVE x \in StrokesIn(down'[q])
        BY <1>8, <4>2, StrokesAre
      <4>3. s \in StrokesIn(down'[q])
        BY <1>9, <3>3, <3>5, StrokesAre
      <4>4. StrokesIn(down'[q]) = StrokesIn(down[q]) \cup {s}
        BY <4>1, <4>2, <4>3
      <4>5. q \in Members /\ up'[q] = up[q]
        BY <1>2, <1>4, <3>5
      <4>6. \A n \in Range(up[q]) : IsStroke(n) => n.data # s
        BY <1>1, <3>3, <3>5, <4>5 DEF StrokeInv
      <4>7. s \notin StrokesIn(up[q])
        BY <4>6, StrokesAre
      <4> QED BY <3>4, <4>4, <4>5, <4>7
    <3>6. Board(p)' = Board(p)
      <4>1. \A x : Matters(x) => (x \in Range(down'[p]) <=> x \in Range(down[p]))
        BY <1>1, <1>7, <1>8
      <4> QED BY <1>2, <4>1, BoardEqual
    <3>7. StrokesIn(up[p]) = StrokesIn(up'[p]) \cup {s} /\ s \notin StrokesIn(up'[p])
      <4>1. ASSUME NEW x \in StrokesIn(up[p]) PROVE x \in StrokesIn(up'[p]) \cup {s}
        <5>1. PICK m \in Range(up[p]) : IsStroke(m) /\ m.data = x
          BY <4>1, StrokesAre
        <5> QED BY <1>6, <5>1, StrokesAre
      <4>2. ASSUME NEW x \in StrokesIn(up'[p]) PROVE x \in StrokesIn(up[p])
        BY <1>5, <4>2, StrokesAre
      <4>3. s \in StrokesIn(up[p])
        BY <1>1, <3>3, StrokesAre
      <4>4. ASSUME NEW m \in Range(up'[p]), IsStroke(m) PROVE m.data # s
        <5>1. m \in Messages
          BY <1>5, <4>4, RangeIn DEF BoardOK
        <5>2. Before(up[p], o, m)
          BY <1>4, <4>4 DEF Goes
        <5> QED BY <1>1, <3>3, <4>4, <5>1, <5>2 DEF StrokeInv
      <4>5. s \notin StrokesIn(up'[p])
        BY <4>4, StrokesAre
      <4> QED BY <4>1, <4>2, <4>3, <4>5
    <3>8. \A q \in room : StrokesIn(up[q]) \subseteq Board(q)
      BY <2>1, <2>2 DEF BoardInv
    <3> HIDE DEF s
    <3>9. ASSUME NEW q \in room PROVE Common(q)' = Common(q) \cup {s} /\ StrokesIn(up'[q]) \subseteq Board(q)'
      <4>1. Common(q) = Board(q) \ StrokesIn(up[q]) /\ Common(q)' = Board(q)' \ StrokesIn(up'[q])
        BY DEF Common
      <4>2. CASE q = p
        <5>1. Board(p)' = Board(p) /\ StrokesIn(up[p]) = StrokesIn(up'[p]) \cup {s} /\ s \notin StrokesIn(up'[p]) /\ StrokesIn(up[p]) \subseteq Board(p)
          BY <1>1, <3>6, <3>7, <3>8
        <5> QED BY <4>1, <4>2, <5>1
      <4>3. CASE q # p
        BY <3>5, <3>8, <4>1, <4>3
      <4> QED BY <4>2, <4>3
    <3>10. ASSUME NEW a \in room', NEW b \in room' PROVE Common(a)' = Common(b)'
      <4>1. Common(a) = Common(b)
        BY <1>2, <2>1, <2>2, <3>2 DEF BoardInv
      <4> QED BY <1>2, <3>9, <4>1
    <3>11. \A a \in room' : StrokesIn(up'[a]) \subseteq Board(a)' /\ (ClearIn(up'[a]) => Board(a)' = {})
      BY <1>2, <3>2, <3>9
    <3> QED BY <2>1, <2>4, <3>10, <3>11 DEF BoardInv
  <2>6. CASE o.kind = "clear"
    <3>1. InFlight({"clear"}) /\ ~InFlight({"stroke"})
      <4>1. InFlight({"clear"})
        BY <1>1, <2>6, Flying
      <4> QED BY <2>1, <4>1 DEF BoardInv
    <3>2. \A q \in Members : StrokesIn(up'[q]) = {} /\ StrokesIn(down'[q]) = {} /\ StrokesIn(down[q]) = {}
      <4>1. ~InFlight({"stroke"})'
        BY <1>11, <3>1
      <4>2. \A q \in Members : \A x : x \in Range(up'[q]) \/ x \in Range(down'[q]) => ~IsStroke(x)
        BY <4>1 DEF InFlight, IsStroke
      <4>3. \A q \in Members : \A x : x \in Range(up[q]) \/ x \in Range(down[q]) => ~IsStroke(x)
        BY <3>1, Flying DEF IsStroke
      <4> QED BY <4>2, <4>3 DEF StrokesIn
    <3>3. Board(p)' = {}
      <4>1. ClearIn(up[p])
        BY <1>1, <2>6 DEF ClearIn
      <4>2. Board(p) = {}
        BY <1>1, <2>1, <2>2, <4>1 DEF BoardInv
      <4>3. \A x : Matters(x) => (x \in Range(down'[p]) <=> x \in Range(down[p]))
        BY <1>1, <1>7, <1>8
      <4> QED BY <1>2, <4>2, <4>3, BoardEqual
    <3>4. ASSUME NEW q \in room, q # p PROVE Board(q)' = {}
      <4>1. ClearIn(down'[q])
        BY <1>9, <2>6, <3>4 DEF ClearIn
      <4> QED BY <4>1 DEF Board
    <3>5. \A q \in room : Board(q)' = {} /\ Common(q)' = {}
      BY <3>3, <3>4 DEF Common
    <3>6. ASSUME NEW a \in room', NEW b \in room' PROVE Common(a)' = Common(b)'
      BY <1>2, <3>5
    <3>7. \A a \in room' : StrokesIn(up'[a]) \subseteq Board(a)' /\ (ClearIn(up'[a]) => Board(a)' = {})
      BY <1>2, <3>2, <3>5
    <3> QED BY <2>1, <2>4, <3>6, <3>7 DEF BoardInv
  <2> QED BY <1>13, <2>5, <2>6
<1> QED BY <1>1, <1>12, <1>13

LEMMA BoardInvStep == ASSUME BoardOK, StrokeInv, OnceInv, BoardInv, [BoardNext]_boardVars PROVE BoardInv'
<1>1. CASE UNCHANGED boardVars
  <2>1. UNCHANGED <<room, up, down, strokes, synced, crossed>>
    BY <1>1 DEF boardVars, canvasVars, historyVars
  <2>2. (AllSynced' <=> AllSynced) /\ \A kinds : InFlight(kinds)' <=> InFlight(kinds)
    BY <2>1 DEF AllSynced, InFlight
  <2>3. \A q : (Soon(q)' <=> Soon(q)) /\ FullBoards(q)' = FullBoards(q)
    BY <2>1 DEF Soon, FullBoards
  <2>4. \A q : Board(q)' = Board(q) /\ Common(q)' = Common(q)
    BY <2>1, <2>3 DEF Board, Common
  <2> QED BY <2>1, <2>2, <2>3, <2>4 DEF BoardInv
<1>2. ASSUME NEW p \in Members, SetDoc(p) PROVE BoardInv'
  <2>1. PICK d \in Texts : Speaks(p, Broadcast(p, "doc", d))
    BY <1>2, DocSpoken
  <2>2. Broadcast(p, "doc", d).kind \notin {"stroke", "clear"}
    BY DEF Broadcast, Msg
  <2> QED BY <1>2, <2>1, <2>2, BoardInvSpeak DEF SetDoc
<1>3. ASSUME NEW p \in Members, MoveCursor(p) PROVE BoardInv'
  <2>1. Speaks(p, Broadcast(p, "cursor", {})) /\ Broadcast(p, "cursor", {}).kind \notin {"stroke", "clear"}
    BY <1>3, CursorSpoken DEF Broadcast, Msg
  <2> QED BY <1>3, <2>1, BoardInvSpeak DEF MoveCursor, canvasVars
<1>4. CASE BoardNext
  BY <1>2, <1>3, <1>4, BoardInvJoin, BoardInvLeave, BoardInvReceive, BoardInvRelay, BoardInvClear, BoardInvAddStroke DEF BoardNext
<1> QED BY <1>1, <1>4

\* Once all is quiet nothing of it is to come: the boards shown are the boards there will be.
LEMMA QuietBoards == ASSUME BoardOK, DocInv, BoardInv PROVE BoardsAgree
<1> SUFFICES ASSUME Quiet, NEW p \in room \cap synced, NEW q \in room \cap synced
             PROVE  doc[p].version = doc[q].version /\ (crossed \/ Range(strokes[p]) = Range(strokes[q]))
  BY DEF BoardsAgree
<1>1. p \in Members /\ q \in Members /\ p \in room /\ q \in room /\ Soon(p) /\ Soon(q)
  BY DEF BoardOK, Soon
<1>2. \A r \in Members : Range(up[r]) = {} /\ Range(down[r]) = {}
  BY EmptyRange DEF Quiet
<1>3. Reaches(p, doc[q].version) /\ Reaches(q, doc[p].version)
  BY <1>1, <1>2 DEF DocInv
<1>4. doc[p].version >= doc[q].version /\ doc[q].version >= doc[p].version
  BY <1>1, <1>2, <1>3 DEF Reaches
<1>5. doc[p].version = doc[q].version
  BY <1>1, <1>4, DocNat
<1>6. ASSUME ~crossed PROVE Range(strokes[p]) = Range(strokes[q])
  <2>1. \A r \in Members : ~ClearIn(up[r]) /\ ~ClearIn(down[r]) /\ FullBoards(r) = {} /\ StrokesIn(up[r]) = {} /\ StrokesIn(down[r]) = {}
    BY <1>2 DEF ClearIn, FullBoards, StrokesIn
  <2>2. Common(p) = Common(q)
    BY <1>1, <1>6, <2>1 DEF BoardInv
  <2>3. \A r \in Members : Common(r) = Range(strokes[r])
    BY <2>1 DEF Common, Board
  <2> QED BY <1>1, <2>2, <2>3
<1>7. crossed \in BOOLEAN
  BY DEF BoardOK
<1> QED BY <1>5, <1>6, <1>7

\* Who catches up misses no notes, and boards differ by no more than what is to be sent,
\* until a stroke crosses a clearing or a catching-up (the engine's onMessage and onSignal).
THEOREM BoardInvariance == BoardSpec => [](BoardOK /\ StrokeInv /\ OnceInv /\ DocInv /\ BoardInv)
<1> DEFINE I == BoardOK /\ StrokeInv /\ OnceInv /\ DocInv /\ BoardInv
<1>1. BoardInit => I
  BY MembersAssumption, BoardOKInit, StrokeInvInit, OnceInvInit, DocInvInit, BoardInvInit
<1>2. I /\ [BoardNext]_boardVars => I'
  BY BoardOKStep, StrokeInvStep, OnceInvStep, DocInvStep, BoardInvStep
<1> QED BY <1>1, <1>2, PTL DEF BoardSpec

\* Once all messages have arrived, members who have caught up have notes of the same version,
\* and the same strokes unless a stroke crossed a clearing or a catching-up.
THEOREM BoardsSettle == BoardSpec => []BoardsAgree
<1>1. BoardOK /\ StrokeInv /\ OnceInv /\ DocInv /\ BoardInv => BoardsAgree
  BY QuietBoards
<1> QED BY <1>1, BoardInvariance, PTL
=============================================================================

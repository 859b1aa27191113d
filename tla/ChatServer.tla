----------------------------- MODULE ChatServer -----------------------------
(***************************************************************************)
(* The life of the chat backend's process (backend/src/index.js, start and *)
(* stop of backend/src/server.js) over the message store and the accounts: *)
(* requests come while the port is open, and a stop goes through the       *)
(* server's parts in order, whatever start() is doing meanwhile.           *)
(***************************************************************************)
EXTENDS MessageStore, Accounts

CONSTANT Workloads  \* bound: what the requests are

\* A message goes to one conversation, a broadcast to its list and the members' DMs.
ASSUME WorkloadAssumption ==
    Requests \subseteq Nat /\ \A w \in Workloads : DOMAIN w \subseteq Requests /\ \A r \in DOMAIN w :
        w[r] \in Names \/ w[r] \in Seq(Convs) \ {<<>>}

VARIABLES
    start,  \* how far start() is
    stop,   \* how far stop() is, or that it was not asked for
    port,   \* the HTTP server's
    wants,  \* wants[r]: what request r posts to in turn, or the name it registers
    req,    \* req[r]: its connection, the versions its messages made so far, and
            \* whether it is writing a conversation's document or a member's list
    told,   \* history: the version of a conversation a sender was answered
    awaits, \* the requests whose writes the other stores' close() waits for
    cut,    \* history: the process left while messages were being flushed
    raced   \* history: the port was opened after stop() had closed it

processVars == <<start, stop, port, awaits, cut, raced>>
serverVars == <<vars, accountVars, processVars, wants, req, told>>

\* What is awaited in turn; "parts" is the cluster, the SFU and the signaling.
Starting == <<"stores", "parts", "listen", "up">>
Stopping == <<"no", "parts", "http", "stores", "exited">>

ServerTypeOK ==
    /\ TypeOK /\ AccountsTypeOK
    /\ start \in 1..Len(Starting) /\ stop \in 1..Len(Stopping)
    /\ port \in {"closed", "open", "shut"}
    /\ told \in [Convs -> Versions]
    /\ awaits \subseteq Requests

Stage == Stopping[stop]
Alive == Stage # "exited"
NoRequest == [conn |-> "none", made |-> <<>>, writes |-> FALSE]
Over == [conn |-> "done", made |-> <<>>, writes |-> FALSE]

ServerInit ==
    /\ Init /\ AccountsInit
    /\ start = 1 /\ stop = 1 /\ port = "closed"
    /\ wants \in Workloads
    /\ req = [r \in Requests |-> NoRequest]
    /\ told = [c \in Convs |-> 0]
    /\ awaits = {} /\ cut = FALSE /\ raced = FALSE

(***************************************************************************)
(* Requests.                                                               *)
(***************************************************************************)
\* A client posts a message, or registers.
Arrive(r) ==
    /\ port = "open" /\ r \in DOMAIN wants /\ req[r].conn = "none"
    /\ \A q \in Requests : q < r => req[q].conn # "none"
    /\ req' = [req EXCEPT ![r].conn = "open"]
    /\ IF wants[r] \in Names THEN Register(r, wants[r]) ELSE UNCHANGED accountVars
    /\ UNCHANGED <<vars, processVars, told>>

\* It goes on without its client.
HandlerRuns(r) == req[r].conn \in {"open", "gone"}

More(r) == wants[r] \notin Names /\ Len(req[r].made) < Len(wants[r])

\* send: the next message is built and appended, and its conversation is touched.
\* A broadcast goes to one conversation after another.
Post(r) ==
    /\ HandlerRuns(r) /\ More(r) /\ ~req[r].writes
    /\ LET c == wants[r][Len(req[r].made) + 1] IN
         /\ Change(c)
         /\ req' = [req EXCEPT ![r].made = Append(@, mem'[c]), ![r].writes = TRUE]
    /\ UNCHANGED <<accountVars, processVars, told>>

\* A document is written.  A broadcast may have to make the next conversation, and
\* then goes on to write its document and its members' lists.
Written(r) ==
    /\ HandlerRuns(r) /\ req[r].writes
    /\ \E again \in BOOLEAN : (again => More(r)) /\ req' = [req EXCEPT ![r].writes = again]
    /\ awaits' = awaits \ {r}
    /\ UNCHANGED <<vars, accountVars, start, stop, port, told, cut, raced>>

\* What close() waits for of r rejects, is logged, and the process leaves.
Rejects(r) ==
    /\ stop' = IF r \in awaits THEN stop + 1 ELSE stop
    /\ cut' = (cut \/ (r \in awaits /\ phase = "closing"))

\* The conversation cannot be touched, or the next one not be had: the sender gets
\* an error, though what was appended stays.
PostFails(r) ==
    /\ HandlerRuns(r) /\ req[r].made # <<>> /\ (req[r].writes \/ More(r))
    /\ faults < MaxFaults /\ faults' = faults + 1
    /\ req' = [req EXCEPT ![r] = Over]
    /\ Rejects(r)
    /\ UNCHANGED <<mem, disk, dirty, timer, phase, job, snap, late, refused, crashes>>
    /\ UNCHANGED <<accountVars, start, port, told, awaits, raced>>

\* The handler is through.
Answer(r) ==
    /\ req[r].conn = "open"
    /\ reg[r].pc \in {"made", "refused", "failed"} \/ (wants[r] \notin Names /\ ~More(r) /\ ~req[r].writes)
    /\ req' = [req EXCEPT ![r] = Over]
    /\ told' = [c \in Convs |-> Max({told[c]} \cup {req[r].made[i] : i \in {j \in DOMAIN req[r].made : wants[r][j] = c}})]
    /\ UNCHANGED <<vars, accountVars, processVars>>

\* The client breaks the connection.  Bound: one of them does.
HangUp(r) ==
    /\ req[r].conn = "open" /\ \A q \in Requests : req[q].conn # "gone"
    /\ req' = [req EXCEPT ![r].conn = "gone"]
    /\ UNCHANGED <<vars, accountVars, processVars, told>>

(***************************************************************************)
(* start() and stop() take turns.                                          *)
(***************************************************************************)
Started ==
    /\ start < Len(Starting)
    /\ start' = start + 1
    /\ IF Starting[start] = "listen"
       THEN port' = "open" /\ raced' = (Stage \in {"http", "stores"})
       ELSE UNCHANGED <<port, raced>>
    /\ UNCHANGED <<vars, accountVars, stop, req, told, awaits, cut>>

\* SIGINT or SIGTERM; another one is ignored.
Signal ==
    /\ Stage = "no"
    /\ stop' = stop + 1
    /\ UNCHANGED <<vars, accountVars, start, port, req, told, awaits, cut, raced>>

\* Each of the parts may fail, and is done with.  Then the port is closed, if it
\* is open yet.
Stopped ==
    /\ Stage = "parts"
    /\ stop' = stop + 1
    /\ port' = IF port = "open" THEN "shut" ELSE port
    /\ UNCHANGED <<vars, accountVars, start, req, told, awaits, cut, raced>>

\* What the queues of the users and of the conversations have in flight.
Inflight == {r \in Requests : req[r].writes \/ reg[r].pc \in {"filing", "spinning", "writing"}}

\* Mutant: the port's connections are not waited for.
HttpClosedAtOnce ==
    /\ Stage = "http"
    /\ stop' = stop + 1
    /\ Close
    /\ awaits' = Inflight
    /\ UNCHANGED <<accountVars, start, port, req, told, cut, raced>>

\* httpServer.close() waits for open connections, and for nothing if the server
\* does not listen yet.  Then the stores are closed.
HttpClosed ==
    /\ Stage = "http"
    /\ port = "shut" => \A r \in Requests : req[r].conn # "open"
    /\ stop' = stop + 1
    /\ Close
    /\ awaits' = Inflight
    /\ UNCHANGED <<accountVars, start, port, req, told, cut, raced>>

\* All stores are closed: exit(0).
StoresClosed ==
    /\ Stage = "stores" /\ phase = "closed" /\ awaits = {}
    /\ stop' = stop + 1
    /\ UNCHANGED <<vars, accountVars, start, port, req, told, awaits, cut, raced>>

(***************************************************************************)
(* The accounts.                                                           *)
(***************************************************************************)
\* A task of the user store is done, or fails.
AccountStep(r) ==
    /\ Create(r) \/ FileWritten(r) \/ IndexWritten(r)
    /\ awaits' = awaits \ {r}
    /\ UNCHANGED <<vars, start, stop, port, req, told, cut, raced>>

TakeTurn ==
    /\ \E i \in DOMAIN line : Turn(i)
    /\ UNCHANGED <<vars, processVars, req, told>>

AccountFails(r) ==
    /\ faults < MaxFaults /\ faults' = faults + 1
    /\ RegisterFails(r)
    /\ Rejects(r)
    /\ UNCHANGED <<mem, disk, dirty, timer, phase, job, snap, late, refused, crashes>>
    /\ UNCHANGED <<start, port, req, told, awaits, raced>>

(***************************************************************************)
(* The specification.                                                      *)
(***************************************************************************)
\* The process is killed, throws, or is still stopping after 10 s; or it has left.
\* The next one starts.
Again ==
    /\ Restart /\ Reload
    /\ start' = 1 /\ stop' = 1 /\ port' = "closed"
    /\ req' = [r \in Requests |-> IF req[r].conn = "none" THEN req[r] ELSE Over]
    /\ told' = [c \in Convs |-> IF told[c] > disk[c] THEN disk[c] ELSE told[c]]
    /\ awaits' = {} /\ cut' = FALSE /\ raced' = FALSE

StoreStep ==
    \/ \E f \in Flushes, c \in Convs :
          Open(f, c) \/ Serialise(f, c) \/ Rename(f, c) \/ WriteFails(f, c)
    \/ TimerFires \/ Reschedule \/ CloseDone
Storage == StoreStep /\ UNCHANGED <<accountVars, processVars, req, told>>

Runs ==
    \/ \E r \in Requests :
          \/ Arrive(r) \/ Post(r) \/ Written(r) \/ PostFails(r) \/ Answer(r) \/ HangUp(r)
          \/ AccountStep(r) \/ AccountFails(r)
    \/ TakeTurn \/ Started \/ Signal \/ Stopped \/ HttpClosed \/ StoresClosed
    \/ Storage

ServerNext ==
    \/ Alive /\ Runs /\ UNCHANGED wants
    \/ Again /\ UNCHANGED wants
    \/ ~Alive /\ UNCHANGED serverVars

\* Timers fire and the disk answers.
ServerFairness ==
    /\ \A f \in Flushes, c \in Convs :
          WF_serverVars(Alive /\ (Open(f, c) \/ Serialise(f, c) \/ Rename(f, c)) /\ Storage /\ UNCHANGED wants)
    /\ WF_serverVars(Alive /\ TimerFires /\ Storage /\ UNCHANGED wants)
    /\ WF_serverVars(Alive /\ Reschedule /\ Storage /\ UNCHANGED wants)

ServerSpec == ServerInit /\ [][ServerNext]_serverVars /\ ServerFairness
----------------------------------------------------------------------------
\* A process that was told to stop and left in order has saved every message that
\* a sender was answered: requests end before the stores close.  Except what the
\* disk refused, when the write of an account, a conversation's document or a list
\* (of a request whose client had hung up) failed under the flush, or when the port
\* was opened after it had been closed.
StopsClean ==
    ~Alive => \A c \in Convs : disk[c] >= told[c] \/ c \in refused \/ cut \/ raced
=============================================================================

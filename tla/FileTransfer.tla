---------------------------- MODULE FileTransfer ----------------------------
(***************************************************************************)
(* Sending a file to Me: straight to the page when it is online, through a *)
(* room of the two made for it (backend/src/services/transferService.js,   *)
(* frontend sendMedia of contexts/chat-context.tsx and                     *)
(* features/transfer/infrastructure/p2p-transfer.ts), else over HTTP.      *)
(*                                                                         *)
(* The message that names the file is posted before the transfer starts,   *)
(* and nothing falls back to HTTP after that.  What the data channel does  *)
(* is rtcforge's: bytes flow, end, or stop coming.                         *)
(***************************************************************************)
EXTENDS Presence

CONSTANT Sender

ASSUME SenderAssumption == Sender \in Others

VARIABLES
    sends,   \* what Sender sends: a file to the DM with Me, one over the 200 MB its page
             \* receives ("big"), a file to a group, or nothing
    snd,     \* how far Sender's page is
    rcv,     \* how far Me's page is with the transfer
    sent,    \* whether every byte is on the channel
    message, \* what Me reads: that a file comes straight, or is on the server
    blob,    \* whether Me's page has the bytes
    wrong    \* history: the ring or a join was lost, an end of the transfer failed or
             \* was refused, or a timer was faster

transferVars == <<sends, snd, rcv, sent, message, blob, wrong>>
allVars == <<inboxVars, presenceVars, transferVars>>

SenderStates == {"idle", "asking", "granted", "offered", "uploading", "joining", "waiting", "sending",
                 "complete", "failed", "over"}
ReceiverStates == {"idle", "joining", "waiting", "receiving", "complete", "failed", "over"}

TransferTypeOK ==
    /\ PresenceTypeOK
    /\ snd \in SenderStates /\ rcv \in ReceiverStates
    /\ message \in {"none", "p2p", "http"}
    /\ sent => snd \in {"sending", "complete", "failed", "over"}
    /\ blob => sent
    /\ rcv = "receiving" => snd \in {"sending", "complete", "failed", "over"}

\* Either the others come and go or a file is sent: a bound, as the two share the
\* connection only.
TransferInit ==
    /\ sends \in {"dm", "big", "group", "nothing"}
    /\ InboxInit
    /\ handlers = <<>> /\ queue = <<>> /\ asks = <<>>
    /\ met = FALSE
    /\ shown = [u \in Others |-> "unknown"]
    /\ since = [u \in Others |-> 0] /\ heard = since /\ lost = since /\ belated = {}
    /\ IF sends = "nothing" THEN moves = 0 /\ opens = 0 ELSE moves = MaxMoves /\ opens = MaxOpens
    /\ snd = "idle" /\ rcv = "idle" /\ message = "none"
    /\ sent = FALSE /\ blob = FALSE /\ wrong = FALSE

InRoom(state) == state \in {"waiting", "sending", "receiving", "complete", "failed"}

(***************************************************************************)
(* sendMedia and the offer.                                                *)
(***************************************************************************)
\* The page asks for an offer in a DM only, of whatever size.
Send ==
    /\ snd = "idle" /\ sends # "nothing"
    /\ snd' = IF sends \in {"dm", "big"} THEN "asking" ELSE "uploading"
    /\ UNCHANGED <<sends, rcv, sent, message, blob, wrong>>

\* offer(): is the other online?  Then the two users' records are awaited,
Offer ==
    /\ snd = "asking"
    /\ snd' = IF isOnline(Me) THEN "granted" ELSE "uploading"
    /\ UNCHANGED <<sends, rcv, sent, message, blob, wrong>>

\* ... and the other is told, if it is still there.
Ring ==
    /\ snd = "granted" /\ snd' = "offered"
    /\ IF Reaches THEN queue' = Append(queue, [type |-> "p2p-incoming"]) /\ UNCHANGED wrong
                  ELSE wrong' = TRUE /\ UNCHANGED queue
    /\ UNCHANGED <<sends, rcv, sent, message, blob>>

\* The message is posted, then the transfer begins.
PostMessage ==
    /\ snd \in {"offered", "uploading"}
    /\ IF snd = "offered" THEN message' = "p2p" /\ snd' = "joining"
                          ELSE message' = "http" /\ snd' = "over"
    /\ UNCHANGED <<sends, rcv, sent, blob, wrong>>

\* The request fails: the user is told, and there is no message.
MessageFails ==
    /\ snd \in {"asking", "offered", "uploading"}
    /\ snd' = "over" /\ wrong' = TRUE
    /\ UNCHANGED <<sends, rcv, sent, message, blob>>

(***************************************************************************)
(* sendFileP2P                                                             *)
(***************************************************************************)
\* Mutant: the sender waits for a peer-joined, also if the peer is there.
SenderJoinsBlind ==
    /\ snd = "joining"
    /\ snd' = "waiting"
    /\ UNCHANGED <<sends, rcv, sent, message, blob, wrong>>

\* joinRoom; trySend() at once if the recipient is there already.
SenderJoins ==
    /\ snd = "joining"
    /\ snd' = IF InRoom(rcv) THEN "sending" ELSE "waiting"
    /\ UNCHANGED <<sends, rcv, sent, message, blob, wrong>>

\* SEND_WAIT_MS: nobody came.
NobodyCame ==
    /\ snd = "waiting"
    /\ snd' = "over" /\ wrong' = (wrong \/ ~InRoom(rcv))
    /\ UNCHANGED <<sends, rcv, sent, message, blob>>

AllSent ==
    /\ snd = "sending" /\ rcv = "receiving" /\ ~sent
    /\ sent' = TRUE
    /\ UNCHANGED <<sends, snd, rcv, message, blob, wrong>>

\* Complete; or Error or an exception, the receiver being there or gone.  A resumable
\* transfer may also wait.
SendEnds ==
    /\ snd = "sending"
    /\ \/ sent /\ snd' = "complete" /\ UNCHANGED wrong
       \/ snd' = "failed" /\ wrong' = (wrong \/ InRoom(rcv))
    /\ UNCHANGED <<sends, rcv, sent, message, blob>>

\* 1.5 s later.
SenderLeaves ==
    /\ snd \in {"complete", "failed"}
    /\ snd' = "over"
    /\ UNCHANGED <<sends, rcv, sent, message, blob, wrong>>

(***************************************************************************)
(* receiveFileP2P                                                          *)
(***************************************************************************)
Incoming ==
    /\ queue # <<>> /\ Head(queue).type = "p2p-incoming"
    /\ queue' = Tail(queue)
    /\ rcv' = "joining"
    /\ UNCHANGED <<sends, snd, sent, message, blob, wrong>>

\* joinRoom; the sender, if it waits, hears peer-joined and sends.
ReceiverJoins ==
    /\ rcv = "joining"
    /\ rcv' = "waiting"
    /\ snd' = IF snd = "waiting" THEN "sending" ELSE snd
    /\ UNCHANGED <<sends, sent, message, blob, wrong>>

\* Either one's token is too old, or the server refuses: the client leaves.
JoinRefused ==
    /\ \/ snd = "joining" /\ snd' = "over" /\ UNCHANGED rcv
       \/ rcv = "joining" /\ rcv' = "over" /\ UNCHANGED snd
    /\ wrong' = TRUE
    /\ UNCHANGED <<sends, sent, message, blob>>

\* IncomingOffer: accept.  There is none of a file over maxFileSize: the manager refuses
\* it, and the page waits for its timer.
Accept ==
    /\ rcv = "waiting" /\ snd = "sending"
    /\ IF sends = "big" THEN wrong' = TRUE /\ UNCHANGED rcv ELSE rcv' = "receiving" /\ UNCHANGED wrong
    /\ UNCHANGED <<sends, snd, sent, message, blob>>

\* Complete, the digest being right; or Error: the digest is not, or the channel or the
\* sender is gone before the last bytes were through.
ReceiveEnds ==
    /\ rcv = "receiving"
    /\ \/ sent /\ rcv' = "complete" /\ blob' = TRUE /\ UNCHANGED wrong
       \/ rcv' = "failed" /\ wrong' = TRUE /\ UNCHANGED blob
    /\ UNCHANGED <<sends, snd, sent, message>>

\* RECV_WAIT_MS after the join, whatever the transfer does: it comes too early, or
\* the sender has left.
TimesOut ==
    /\ rcv \in {"waiting", "receiving"}
    /\ rcv' = "over" /\ wrong' = (wrong \/ rcv = "receiving" \/ snd # "over")
    /\ UNCHANGED <<sends, snd, sent, message, blob>>

ReceiverLeaves ==
    /\ rcv \in {"complete", "failed"}
    /\ rcv' = "over"
    /\ UNCHANGED <<sends, snd, sent, message, blob, wrong>>

(***************************************************************************)
(* The specification.                                                      *)
(***************************************************************************)
\* A socket that goes takes the ring with it.
Rung == \E i \in DOMAIN queue : queue[i].type = "p2p-incoming"
Connects ==
    /\ Connection
    /\ wrong' = (wrong \/ (Rung /\ ~wire'))
    /\ UNCHANGED <<sends, snd, rcv, sent, message, blob>>

Brokers == Send \/ Offer \/ PostMessage \/ MessageFails
Streams ==
    \/ SenderJoins \/ NobodyCame \/ AllSent \/ SendEnds \/ SenderLeaves
    \/ ReceiverJoins \/ JoinRefused \/ Accept \/ ReceiveEnds \/ TimesOut \/ ReceiverLeaves

TransferNext ==
    \/ (Brokers \/ Streams) /\ UNCHANGED <<inboxVars, presenceVars>>
    \/ (Ring \/ Incoming) /\ UNCHANGED <<inboxVars, handlers, asks, met, toldVars, moves, opens, since, lost>>
    \/ Connects
    \/ PresenceChanges /\ UNCHANGED transferVars

\* The server notices a dead socket and closes what it was asked to.
TransferFairness == WF_allVars(Connects /\ (Reap \/ StaleJoin \/ StaleFails))

TransferSpec == TransferInit /\ [][TransferNext]_allVars /\ TransferFairness
----------------------------------------------------------------------------
\* A file that a message announces arrives, whoever is first in the room.  Named
\* exceptions (`wrong`): the ring or a join was lost; either end of the transfer failed with
\* an error, the other one still being there; the file is over the 200 MB that a receiver
\* takes and a sender does not look at; a timer came first, or the sender left too soon.
FileArrives ==
    message = "p2p" /\ snd = "over" /\ rcv \in {"idle", "over"} /\ ~Rung => blob \/ wrong
=============================================================================

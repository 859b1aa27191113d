--------------------------- MODULE ChatPageProofs ---------------------------
(***************************************************************************)
(* The chat page for any messages, conversations, users and faults.  Its   *)
(* messages become the server's once everything has arrived; and its       *)
(* composer, which shares no state with them, sends what is written in a   *)
(* conversation there, and shows when its microphone is on.                *)
(***************************************************************************)
EXTENDS ChatSync, Composer, Integers, SequenceTheorems, TLAPS

(***************************************************************************)
(* The messages: the inductive invariant                                   *)
(*                                                                         *)
(* An event carries a whole record, of which the page takes some fields.   *)
(* A record follows the server when each field is either the server's, or  *)
(* will be set by an event that is still in the inbox.  What a deleted      *)
(* message replied to is nobody's any more: the page may keep showing it.  *)
(***************************************************************************)
Fields == {"text", "deleted", "likes", "preview"}
Kinds == {"message", "edited", "deleted", "reaction"}
\* The fields that Applied takes from an event of this kind.
Patched(kind) ==
    IF kind = "edited" THEN {"text"} ELSE IF kind = "reaction" THEN {"likes"}
    ELSE IF kind = "deleted" THEN Fields \ {"preview"} ELSE Fields

\* The event in place i of the inbox is about m, and sets m's field F.
About(i, m) == i \in 1..Len(inbox) /\ inbox[i].msg = m
Sets(i, m, F) == About(i, m) /\ F \in Patched(inbox[i].kind)

\* m is in the store; its push is over, with or without success.
Born(m) == sending[m] \notin {"unsent", "posted"}
Told(m) == sending[m] \in {"pushed", "failed"}

\* A record that the page does not take for an absent one (and so patches).
Visible(r) == r.text > 0 \/ r.deleted

\* Field F of the record r of m is right.
Right(m, r, F) == r[F] = store[m][F] \/ (F = "preview" /\ store[m].deleted)

\* With the events after change n that are still to come, the page's record r of m
\* becomes the server's: a field that none of them sets is right already, and r can be
\* patched unless the message itself is to come, or no history has it any more.
Follows(m, r, n) ==
    Told(m) =>
        /\ (\A i : About(i, m) /\ inbox[i].at > n => inbox[i].kind # "message") =>
              Visible(r) \/ (r = Absent /\ Passed(m))
        /\ \A F \in Fields :
              Visible(r) /\ (\A i : Sets(i, m, F) => ~(inbox[i].at > n)) => Right(m, r, F)

Events == [kind: Kinds, msg: Messages, at: Nat \ {0}, data: Record]

SyncTypeOK ==
    /\ store \in [Messages -> Record] /\ shown \in [Messages -> Record]
    /\ sending \in [Messages -> {"unsent", "posted", "stored", "pushed", "failed"}]
    /\ pushes \in [Convs -> Nat] /\ seen \in [Convs -> Nat]
    /\ stored \in [Convs -> Nat] /\ place \in [Messages -> Nat]
    /\ link \in {"new", "up", "deaf", "down"} /\ (link # "up" => inbox = <<>>)
    /\ inbox \in Seq(Events)
    /\ loaded \in SUBSET Convs /\ active \in Convs \cup {NoConv}
    /\ missed \in SUBSET Convs /\ overtaken \in SUBSET Convs
    /\ ops \in 0..MaxOps /\ faults \in 0..MaxFaults
    /\ reply \in [Messages -> [at: Nat, data: Record]]
    /\ fetch = [i \in Slots |-> fetch[i]]
    /\ \A i \in Slots : fetch[i].state \in {"idle", "asked", "answered"}
    /\ \A i \in Slots : fetch[i].state # "idle" => fetch[i].conv \in Convs
    /\ \A i \in Slots : fetch[i].state = "answered" =>
         fetch[i].at \in Nat /\ fetch[i].data \in [Of(fetch[i].conv) -> Record]
    /\ \A m \in Messages : store[m].text <= ops + 1

\* Nothing is numbered ahead of the changes of its conversation.
Numbered ==
    /\ \A c \in Convs : seen[c] <= pushes[c]
    /\ \A i \in DOMAIN inbox : inbox[i].at <= pushes[Conv[inbox[i].msg]]
    /\ \A i \in Slots : fetch[i].state = "answered" => fetch[i].at <= pushes[fetch[i].conv]
    /\ \A m \in Messages : reply[m].at <= pushes[Conv[m]]
    /\ \A m \in Messages : place[m] <= stored[Conv[m]]

\* Nothing is anywhere of a message that is not in the store yet.
Unborn(m) ==
    /\ store[m] = Absent /\ shown[m] = Absent /\ reply[m] = NoReply
    /\ \A i \in DOMAIN inbox : inbox[i].msg # m
    /\ \A i \in Slots : fetch[i].state = "answered" /\ fetch[i].conv = Conv[m] => fetch[i].data[m] = Absent
Births == \A m \in Messages : IF Born(m) THEN Visible(store[m]) ELSE Unborn(m)

\* The last event that sets a field carries the right value of it.
EventInv(i) ==
    /\ inbox[i].kind = "message" => Visible(inbox[i].data)
    /\ inbox[i].kind = "edited" => inbox[i].data.text > 0
    /\ inbox[i].kind = "deleted" => inbox[i].data = Gone
    /\ \A F \in Patched(inbox[i].kind) :
          (\A j \in 1..Len(inbox) :
              inbox[j].msg = inbox[i].msg /\ F \in Patched(inbox[j].kind) => j <= i) =>
            Right(inbox[i].msg, inbox[i].data, F)
EventsInv == \A i \in DOMAIN inbox : EventInv(i)

\* An answer that nothing newer has overtaken follows the server, and so does the page.
FetchInv ==
    \A i \in Slots : fetch[i].state = "answered" /\ fetch[i].at >= seen[fetch[i].conv] =>
        \A m \in Of(fetch[i].conv) : Follows(m, fetch[i].data[m], fetch[i].at)
ReplyInv ==
    \A m \in Messages : reply[m] # NoReply =>
       Told(m) /\ (reply[m].at >= seen[Conv[m]] => Follows(m, reply[m].data, reply[m].at))
PageInv ==
    \A m \in Messages : Conv[m] \in loaded \ (missed \cup overtaken) => Follows(m, shown[m], 0)

SyncInv ==
    SyncTypeOK /\ Numbered /\ Births /\ EventsInv /\ FetchInv /\ ReplyInv /\ PageInv


LEMMA RecordFacts ==
    /\ Absent \in Record /\ Gone \in Record /\ Visible(Gone) /\ ~Visible(Absent)
    /\ \A p \in BOOLEAN : Fresh(p) \in Record /\ Visible(Fresh(p)) /\ Fresh(p).text = 1
    /\ \A r, s \in Record : (\A F \in Fields : r[F] = s[F]) => r = s
    /\ \A r \in Record : Visible(r) => r # Absent
<1>1. MaxOps + 1 \in Nat /\ 0 \in 0..MaxOps + 1 /\ 1 \in 0..MaxOps + 1
  BY MessagesAssumption
<1>2. Absent \in Record /\ Gone \in Record /\ \A p \in BOOLEAN : Fresh(p) \in Record
  BY <1>1 DEF Absent, Fresh, Gone, Record
<1>3. /\ Visible(Gone) /\ ~Visible(Absent)
      /\ \A p \in BOOLEAN : Visible(Fresh(p)) /\ Fresh(p).text = 1
  BY DEF Absent, Fresh, Gone, Visible
<1>4. \A r, s \in Record : (\A F \in Fields : r[F] = s[F]) => r = s
  <2> SUFFICES ASSUME NEW r \in Record, NEW s \in Record, \A F \in Fields : r[F] = s[F] PROVE r = s
    OBVIOUS
  <2>1. r.text = s.text /\ r.deleted = s.deleted /\ r.likes = s.likes /\ r.preview = s.preview
    BY DEF Fields
  <2> QED BY <2>1 DEF Record
<1>5. \A r \in Record : Visible(r) => r # Absent
  BY <1>3
<1> QED BY <1>2, <1>3, <1>4, <1>5

LEMMA KindFacts ==
    /\ Patched("message") = Fields /\ Patched("deleted") = Fields \ {"preview"}
    /\ Patched("edited") = {"text"} /\ Patched("reaction") = {"likes"}
    /\ \A k : Patched(k) \subseteq Fields
BY DEF Patched, Fields

\* The inbox after a push ...
LEMMA Pushed ==
    ASSUME inbox \in Seq(Events), NEW e \in Events, inbox' = Append(inbox, e)
    PROVE  /\ inbox' \in Seq(Events) /\ Len(inbox) \in Nat /\ Len(inbox') = Len(inbox) + 1
           /\ \A i \in 1..Len(inbox) : inbox'[i] = inbox[i]
           /\ inbox'[Len(inbox) + 1] = e
           /\ DOMAIN inbox' = 1..Len(inbox) + 1 /\ DOMAIN inbox = 1..Len(inbox)
           /\ \A i, m : About(i, m)' <=> About(i, m) \/ (i = Len(inbox) + 1 /\ e.msg = m)
           /\ \A i, m, F : Sets(i, m, F)' <=>
                 Sets(i, m, F) \/ (i = Len(inbox) + 1 /\ e.msg = m /\ F \in Patched(e.kind))
<1>1. /\ inbox' \in Seq(Events) /\ Len(inbox) \in Nat /\ Len(inbox') = Len(inbox) + 1
      /\ \A i \in 1..Len(inbox) : inbox'[i] = inbox[i]
      /\ inbox'[Len(inbox) + 1] = e
      /\ DOMAIN inbox' = 1..Len(inbox) + 1 /\ DOMAIN inbox = 1..Len(inbox)
  OBVIOUS
<1>2. \A i, m : About(i, m)' <=> About(i, m) \/ (i = Len(inbox) + 1 /\ e.msg = m)
  BY <1>1 DEF About
<1>3. \A i, m, F : Sets(i, m, F)' <=>
          Sets(i, m, F) \/ (i = Len(inbox) + 1 /\ e.msg = m /\ F \in Patched(e.kind))
  BY <1>1 DEF Sets, About, Patched
<1> QED BY <1>1, <1>2, <1>3

\* ... and after its first event has been taken.
LEMMA Taken ==
    ASSUME inbox \in Seq(Events), inbox # <<>>, inbox' = Tail(inbox)
    PROVE  /\ inbox' \in Seq(Events) /\ Len(inbox) \in Nat /\ Len(inbox') = Len(inbox) - 1
           /\ Head(inbox) = inbox[1] /\ inbox[1] \in Events /\ 1 \in DOMAIN inbox
           /\ \A i \in 1..Len(inbox) - 1 : inbox'[i] = inbox[i + 1]
           /\ DOMAIN inbox' = 1..Len(inbox) - 1 /\ DOMAIN inbox = 1..Len(inbox)
           /\ \A i \in Nat : \A m : About(i, m)' <=> i > 0 /\ About(i + 1, m)
           /\ \A i \in Nat : \A m, F : Sets(i, m, F)' <=> i > 0 /\ Sets(i + 1, m, F)
<1>1. /\ inbox' \in Seq(Events) /\ Len(inbox) \in Nat /\ Len(inbox') = Len(inbox) - 1
      /\ Len(inbox) > 0
      /\ Head(inbox) = inbox[1] /\ inbox[1] \in Events /\ 1 \in DOMAIN inbox
      /\ \A i \in 1..Len(inbox) - 1 : inbox'[i] = inbox[i + 1]
      /\ DOMAIN inbox' = 1..Len(inbox) - 1 /\ DOMAIN inbox = 1..Len(inbox)
  OBVIOUS
<1>2. \A i \in Nat : \A m : About(i, m)' <=> i > 0 /\ About(i + 1, m)
  BY <1>1 DEF About
<1>3. \A i \in Nat : \A m, F : Sets(i, m, F)' <=> i > 0 /\ Sets(i + 1, m, F)
  BY <1>1, <1>2 DEF Sets, About, Patched
<1> QED BY <1>1, <1>2, <1>3

(***************************************************************************)
(* What r needs to follow m's events                                       *)
(***************************************************************************)
LEMMA FollowsSame ==
    ASSUME NEW m, NEW r, NEW n, Follows(m, r, n), store'[m] = store[m], Told(m)' => Told(m),
           Passed(m) => Passed(m)', inbox' = inbox
    PROVE  Follows(m, r, n)'
BY DEF Follows, Right, Sets, About

LEMMA FollowsStore ==
    ASSUME NEW m, NEW r, NEW n, r = store'[m], Visible(r) PROVE Follows(m, r, n)'
BY DEF Follows, Right

LEMMA FollowsPushed ==
    ASSUME NEW m, NEW r, NEW n, Follows(m, r, n), inbox \in Seq(Events), NEW e \in Events,
           inbox' = Append(inbox, e), e.at > n,
           \A F \in Fields : \/ (e.msg = m /\ F \in Patched(e.kind)) \/ store'[m][F] = store[m][F]
                             \/ (F = "preview" /\ store'[m].deleted),
           store[m].deleted => store'[m].deleted, Passed(m) => Passed(m)',
           Told(m)' => Told(m) \/ (e.msg = m /\ e.kind = "message")
    PROVE  Follows(m, r, n)'
<1> SUFFICES ASSUME Told(m)'
             PROVE  /\ (\A i : About(i, m)' /\ inbox'[i].at > n => inbox'[i].kind # "message") =>
                          Visible(r) \/ (r = Absent /\ Passed(m)')
                    /\ \A F \in Fields :
                          Visible(r) /\ (\A i : Sets(i, m, F)' => ~(inbox'[i].at > n)) => Right(m, r, F)'
  BY DEF Follows
<1>1. CASE e.msg = m /\ e.kind = "message"
  BY <1>1, Pushed, KindFacts
<1>2. CASE ~(e.msg = m /\ e.kind = "message")
  <2>1. Told(m)
    BY <1>2
  <2>2. (\A i : About(i, m)' /\ inbox'[i].at > n => inbox'[i].kind # "message") =>
            Visible(r) \/ (r = Absent /\ Passed(m)')
    <3> SUFFICES ASSUME \A i : About(i, m)' /\ inbox'[i].at > n => inbox'[i].kind # "message"
                 PROVE  Visible(r) \/ (r = Absent /\ Passed(m)')
      OBVIOUS
    <3>1. ASSUME NEW i, About(i, m), inbox[i].at > n PROVE inbox[i].kind # "message"
      <4>1. inbox'[i] = inbox[i] /\ About(i, m)'
        BY <3>1, Pushed DEF About
      <4> QED BY <3>1, <4>1
    <3> QED BY <2>1, <3>1 DEF Follows
  <2>3. ASSUME NEW F \in Fields, Visible(r), \A i : Sets(i, m, F)' => ~(inbox'[i].at > n)
        PROVE  Right(m, r, F)'
    <3>1. ~(e.msg = m /\ F \in Patched(e.kind))
      BY <2>3, Pushed
    <3>2. ASSUME NEW i, Sets(i, m, F) PROVE ~(inbox[i].at > n)
      <4>1. inbox'[i] = inbox[i] /\ Sets(i, m, F)'
        BY <3>2, Pushed DEF Sets, About
      <4> QED BY <2>3, <4>1
    <3>3. Right(m, r, F)
      BY <2>1, <2>3, <3>2 DEF Follows
    <3> QED BY <3>1, <3>3 DEF Right
  <2> QED BY <2>2, <2>3
<1> QED BY <1>1, <1>2

\* The event that was pushed is about another message.
LEMMA FollowsOther ==
    ASSUME NEW m, NEW r, NEW n, Follows(m, r, n), inbox \in Seq(Events), NEW e \in Events,
           inbox' = Append(inbox, e), e.msg # m, store'[m] = store[m], Told(m)' => Told(m),
           Passed(m) => Passed(m)'
    PROVE  Follows(m, r, n)'
<1>1. \A i : About(i, m) => About(i, m)' /\ inbox'[i] = inbox[i]
  BY Pushed DEF About
<1>2. \A i, F : Sets(i, m, F) => Sets(i, m, F)' /\ inbox'[i] = inbox[i]
  BY <1>1, Pushed DEF Sets
<1> QED BY <1>1, <1>2 DEF Follows, Right

\* The event that was taken came before n, or is about another message.
LEMMA FollowsTaken ==
    ASSUME NEW m, NEW r, NEW n, Follows(m, r, n), inbox \in Seq(Events), inbox # <<>>,
           inbox' = Tail(inbox), store'[m] = store[m], Told(m)' => Told(m), Passed(m) => Passed(m)',
           inbox[1].msg = m => ~(inbox[1].at > n)
    PROVE  Follows(m, r, n)'
<1> SUFFICES ASSUME Told(m)'
             PROVE  /\ (\A i : About(i, m)' /\ inbox'[i].at > n => inbox'[i].kind # "message") =>
                          Visible(r) \/ (r = Absent /\ Passed(m)')
                    /\ \A F \in Fields :
                          Visible(r) /\ (\A i : Sets(i, m, F)' => ~(inbox'[i].at > n)) => Right(m, r, F)'
  BY DEF Follows
<1>1. ASSUME NEW i, About(i, m), i # 1 PROVE i - 1 \in Nat /\ About(i - 1, m)' /\ inbox'[i - 1] = inbox[i]
  <2>1. i - 1 \in 1..Len(inbox) - 1 /\ (i - 1) + 1 = i
    BY <1>1, Taken DEF About
  <2> QED BY <1>1, <2>1, Taken
<1>2. (\A i : About(i, m)' /\ inbox'[i].at > n => inbox'[i].kind # "message") =>
          Visible(r) \/ (r = Absent /\ Passed(m)')
  <2> SUFFICES ASSUME \A i : About(i, m)' /\ inbox'[i].at > n => inbox'[i].kind # "message"
               PROVE  Visible(r) \/ (r = Absent /\ Passed(m)')
    OBVIOUS
  <2>1. ASSUME NEW i, About(i, m), inbox[i].at > n PROVE inbox[i].kind # "message"
    <3>1. i # 1
      BY <2>1 DEF About
    <3> QED BY <1>1, <2>1, <3>1
  <2> QED BY <2>1 DEF Follows
<1>3. ASSUME NEW F \in Fields, Visible(r), \A i : Sets(i, m, F)' => ~(inbox'[i].at > n)
      PROVE  Right(m, r, F)'
  <2>1. ASSUME NEW i, Sets(i, m, F) PROVE ~(inbox[i].at > n)
    <3>1. CASE i = 1
      BY <2>1, <3>1 DEF Sets, About
    <3>2. CASE i # 1
      <4>1. i - 1 \in Nat /\ About(i - 1, m)' /\ inbox'[i - 1] = inbox[i]
        BY <1>1, <2>1, <3>2 DEF Sets
      <4>2. Sets(i - 1, m, F)'
        BY <2>1, <4>1 DEF Sets, Patched
      <4> QED BY <1>3, <4>1, <4>2
    <3> QED BY <3>1, <3>2
  <2> QED BY <1>3, <2>1 DEF Follows, Right
<1> QED BY <1>2, <1>3

\* There is nothing to wait for.
LEMMA FollowsDone ==
    ASSUME NEW m, NEW r, NEW n, NEW k, Follows(m, r, n), store'[m] = store[m], Told(m)' => Told(m),
           Passed(m) => Passed(m)', \A i : About(i, m) => ~(inbox[i].at > n)
    PROVE  Follows(m, r, k)'
BY DEF Follows, Right, Sets

LEMMA FollowsWeaker ==
    ASSUME NEW m, NEW r, NEW n \in Nat, Follows(m, r, n), inbox \in Seq(Events), inbox' = inbox,
           store'[m] = store[m], Told(m)' => Told(m), Passed(m) => Passed(m)'
    PROVE  Follows(m, r, 0)'
<1>1. \A i : About(i, m) /\ inbox[i].at > n => inbox[i].at > 0
  <2> SUFFICES ASSUME NEW i, About(i, m) PROVE inbox[i].at > 0
    OBVIOUS
  <2>1. inbox[i] \in Events
    BY DEF About
  <2> QED BY <2>1 DEF Events
<1>2. \A i, F : Sets(i, m, F) /\ inbox[i].at > n => inbox[i].at > 0
  BY <1>1 DEF Sets
<1>3. Follows(m, r, 0)
  BY <1>1, <1>2 DEF Follows
<1> QED BY <1>3, FollowsSame

(***************************************************************************)
(* Steps that change neither messages nor events                           *)
(***************************************************************************)
\* What a step may do to the requests for histories.
FetchStep ==
    /\ fetch' = [i \in Slots |-> fetch'[i]]
    /\ \A i \in Slots : fetch'[i] = fetch[i] \/ fetch'[i] = Idle \/ \E c \in Convs : fetch'[i] = Asked(c)

LEMMA RequestStep == ASSUME SyncInv, NEW c \in Convs, Request(c) PROVE FetchStep
<1> PICK f : f = fetch
  OBVIOUS
<1>1. PICK i \in Slots : fetch' = [f EXCEPT ![i] = Asked(c)]
  BY DEF Request
<1>2. f = [j \in Slots |-> f[j]]
  BY DEF SyncInv, SyncTypeOK
<1>3. fetch' = [j \in Slots |-> IF j = i THEN Asked(c) ELSE f[j]]
  BY <1>1, <1>2
<1> HIDE DEF Asked
<1> QED BY <1>3 DEF FetchStep

LEMMA SlotFacts ==
    /\ Idle.state = "idle" /\ \A c : Asked(c).state = "asked" /\ Asked(c).conv = c
    /\ NoReply \in [at: Nat, data: Record] /\ NoReply.at = 0
BY RecordFacts DEF Idle, Asked, NoReply

LEMMA PageMoves ==
    ASSUME SyncInv, UNCHANGED <<store, stored, place, pushes, inbox, shown, loaded, reply, historyVars, ops>>,
           sending' \in [Messages -> {"unsent", "posted", "stored", "pushed", "failed"}],
           \A m \in Messages : sending'[m] = sending[m] \/ (sending[m] = "unsent" /\ sending'[m] = "posted"),
           FetchStep, link' \in {"new", "up", "deaf", "down"}, link' # "up" => inbox = <<>>,
           active' \in Convs \cup {NoConv}, faults' \in 0..MaxFaults
    PROVE  SyncInv'
<1>1. \A i \in Slots : fetch'[i].state = "answered" => fetch'[i] = fetch[i]
  BY SlotFacts DEF FetchStep
<1>2. SyncTypeOK'
  <2>1. \A i \in Slots : /\ fetch'[i].state \in {"idle", "asked", "answered"}
                         /\ fetch'[i].state # "idle" => fetch'[i].conv \in Convs
    <3> SUFFICES ASSUME NEW i \in Slots
                 PROVE  /\ fetch'[i].state \in {"idle", "asked", "answered"}
                        /\ fetch'[i].state # "idle" => fetch'[i].conv \in Convs
      OBVIOUS
    <3>1. CASE fetch'[i] = fetch[i]
      BY <3>1 DEF SyncInv, SyncTypeOK
    <3>2. CASE fetch'[i] # fetch[i]
      BY <3>2, SlotFacts DEF FetchStep
    <3> QED BY <3>1, <3>2
  <2>2. \A i \in Slots : fetch'[i].state = "answered" =>
           fetch'[i].at \in Nat /\ fetch'[i].data \in [Of(fetch'[i].conv) -> Record]
    BY <1>1 DEF SyncInv, SyncTypeOK
  <2>3. fetch' = [i \in Slots |-> fetch'[i]]
    BY DEF FetchStep
  <2> QED BY <2>1, <2>2, <2>3 DEF SyncInv, SyncTypeOK, historyVars, Of
<1>3. Numbered'
  BY <1>1 DEF SyncInv, Numbered, historyVars
<1>4. \A m \in Messages : (Born(m)' <=> Born(m)) /\ (Told(m)' <=> Told(m))
  BY DEF Born, Told
<1>5. Births'
  BY <1>1, <1>4 DEF SyncInv, Births, Unborn
<1>6. EventsInv'
  BY DEF SyncInv, EventsInv, EventInv, Right, Sets, About
<1>7. \A m \in Messages : \A r, n : Follows(m, r, n) => Follows(m, r, n)'
  BY <1>4, FollowsSame DEF Passed
<1>8. FetchInv'
  BY <1>1, <1>7 DEF SyncInv, FetchInv, historyVars, Of
<1>9. ReplyInv'
  BY <1>4, <1>7 DEF SyncInv, ReplyInv, historyVars
<1>10. PageInv'
  BY <1>7 DEF SyncInv, PageInv, historyVars
<1> QED BY <1>2, <1>3, <1>5, <1>6, <1>8, <1>9, <1>10 DEF SyncInv

LEMMA OpenRight == ASSUME SyncInv, NEW c \in Convs, Open(c) PROVE SyncInv'
<1>1. FetchStep
  <2>1. CASE c \in loaded
    BY <2>1 DEF Open, SyncInv, SyncTypeOK, FetchStep
  <2>2. CASE c \notin loaded
    BY <2>2, RequestStep DEF Open
  <2> QED BY <2>1, <2>2
<1>2. /\ UNCHANGED <<store, stored, place, pushes, inbox, shown, loaded, reply, historyVars, ops, sending, link, faults>>
      /\ active' = c
  BY DEF Open, serverVars
<1>3. /\ sending' \in [Messages -> {"unsent", "posted", "stored", "pushed", "failed"}]
      /\ link' \in {"new", "up", "deaf", "down"} /\ (link' # "up" => inbox = <<>>)
      /\ active' \in Convs \cup {NoConv} /\ faults' \in 0..MaxFaults
  BY <1>2 DEF SyncInv, SyncTypeOK
<1> QED BY <1>1, <1>2, <1>3, PageMoves

LEMMA CloseRight == ASSUME SyncInv, CloseActive PROVE SyncInv'
<1>1. /\ UNCHANGED <<store, stored, place, pushes, inbox, shown, loaded, reply, historyVars, ops, sending, link, faults, fetch>>
      /\ active' = NoConv
  BY DEF CloseActive, serverVars
<1>2. /\ sending' \in [Messages -> {"unsent", "posted", "stored", "pushed", "failed"}]
      /\ link' \in {"new", "up", "deaf", "down"} /\ (link' # "up" => inbox = <<>>)
      /\ active' \in Convs \cup {NoConv} /\ faults' \in 0..MaxFaults /\ FetchStep
  BY <1>1 DEF SyncInv, SyncTypeOK, FetchStep
<1> QED BY <1>1, <1>2, PageMoves

LEMMA SendTextRight == ASSUME SyncInv, NEW m \in Messages, SendText(m) PROVE SyncInv'
<1>1. /\ UNCHANGED <<store, stored, place, pushes, inbox, shown, loaded, reply, historyVars, ops, link, faults, fetch, active>>
      /\ sending[m] = "unsent" /\ sending' = [sending EXCEPT ![m] = "posted"]
  BY DEF SendText, pageVars
<1>2. /\ sending' \in [Messages -> {"unsent", "posted", "stored", "pushed", "failed"}]
      /\ \A x \in Messages : sending'[x] = IF x = m THEN "posted" ELSE sending[x]
      /\ link' \in {"new", "up", "deaf", "down"} /\ (link' # "up" => inbox = <<>>)
      /\ active' \in Convs \cup {NoConv} /\ faults' \in 0..MaxFaults /\ FetchStep
  BY <1>1 DEF SyncInv, SyncTypeOK, FetchStep
<1> QED BY <1>1, <1>2, PageMoves

LEMMA FetchFailsRight == ASSUME SyncInv, NEW i \in Slots, FetchFails(i) PROVE SyncInv'
<1>1. /\ UNCHANGED <<store, stored, place, pushes, inbox, shown, loaded, reply, historyVars, ops, link, sending, active>>
      /\ fetch' = [fetch EXCEPT ![i] = Idle] /\ faults < MaxFaults /\ faults' = faults + 1
  BY DEF FetchFails, pageVars, serverVars
<1>2. FetchStep
  <2>1. fetch' = [j \in Slots |-> IF j = i THEN Idle ELSE fetch[j]]
    BY <1>1 DEF SyncInv, SyncTypeOK
  <2> QED BY <2>1 DEF FetchStep
<1>3. /\ sending' \in [Messages -> {"unsent", "posted", "stored", "pushed", "failed"}]
      /\ link' \in {"new", "up", "deaf", "down"} /\ (link' # "up" => inbox = <<>>)
      /\ active' \in Convs \cup {NoConv} /\ faults' \in 0..MaxFaults
  BY <1>1, MessagesAssumption DEF SyncInv, SyncTypeOK
<1> QED BY <1>1, <1>2, <1>3, PageMoves

LEMMA JoinedRight == ASSUME SyncInv, Joined PROVE SyncInv'
<1>1. /\ UNCHANGED <<store, stored, place, pushes, inbox, shown, loaded, reply, historyVars, ops, sending, active, faults, fetch>>
      /\ link = "new" /\ link' \in {"up", "deaf"}
  BY DEF Joined, pageVars, serverVars
<1>2. /\ sending' \in [Messages -> {"unsent", "posted", "stored", "pushed", "failed"}]
      /\ link' \in {"new", "up", "deaf", "down"} /\ inbox = <<>>
      /\ active' \in Convs \cup {NoConv} /\ faults' \in 0..MaxFaults /\ FetchStep
  BY <1>1 DEF SyncInv, SyncTypeOK, FetchStep
<1> QED BY <1>1, <1>2, PageMoves

LEMMA ReconnectRight == ASSUME SyncInv, Reconnect PROVE SyncInv'
<1>1. /\ UNCHANGED <<store, stored, place, pushes, inbox, shown, loaded, reply, historyVars, ops, sending, active, faults>>
      /\ link = "down" /\ link' \in {"up", "deaf"}
  BY DEF Reconnect, pageVars, serverVars
<1>2. FetchStep
  <2>1. CASE active = NoConv
    BY <2>1 DEF Reconnect, SyncInv, SyncTypeOK, FetchStep
  <2>2. CASE active # NoConv
    BY <2>2, RequestStep DEF Reconnect, SyncInv, SyncTypeOK
  <2> QED BY <2>1, <2>2
<1>3. /\ sending' \in [Messages -> {"unsent", "posted", "stored", "pushed", "failed"}]
      /\ link' \in {"new", "up", "deaf", "down"} /\ inbox = <<>>
      /\ active' \in Convs \cup {NoConv} /\ faults' \in 0..MaxFaults
  BY <1>1 DEF SyncInv, SyncTypeOK
<1> QED BY <1>1, <1>2, <1>3, PageMoves

\* The types that the steps need.
LEMMA SyncTypes ==
    ASSUME SyncInv
    PROVE  /\ inbox \in Seq(Events)
           /\ \A i \in DOMAIN inbox : /\ inbox[i] \in Events /\ inbox[i].msg \in Messages
                                      /\ inbox[i].at \in Nat /\ inbox[i].data \in Record
                                      /\ inbox[i].kind \in Kinds /\ Conv[inbox[i].msg] \in Convs
           /\ \A m \in Messages : /\ Conv[m] \in Convs /\ store[m] \in Record /\ shown[m] \in Record
                                  /\ reply[m].at \in Nat /\ reply[m].data \in Record
                                  /\ stored[Conv[m]] \in Nat /\ place[m] \in Nat
                                  /\ place[m] <= stored[Conv[m]]
           /\ \A c \in Convs : pushes[c] \in Nat /\ seen[c] \in Nat /\ seen[c] <= pushes[c]
           /\ \A i \in Slots : fetch[i].state = "answered" =>
                 /\ fetch[i].conv \in Convs /\ fetch[i].at \in Nat
                 /\ fetch[i].at <= pushes[fetch[i].conv]
           /\ ops \in Nat /\ MaxOps \in Nat
<1>1. inbox \in Seq(Events)
  BY DEF SyncInv, SyncTypeOK
<1>2. \A e \in Events : /\ e.msg \in Messages /\ e.at \in Nat /\ e.data \in Record /\ e.kind \in Kinds
                        /\ Conv[e.msg] \in Convs
  BY MessagesAssumption DEF Events
<1>3. \A i \in DOMAIN inbox : inbox[i] \in Events
  BY <1>1
<1>4. /\ store \in [Messages -> Record] /\ shown \in [Messages -> Record]
      /\ reply \in [Messages -> [at: Nat, data: Record]]
      /\ pushes \in [Convs -> Nat] /\ seen \in [Convs -> Nat]
      /\ stored \in [Convs -> Nat] /\ place \in [Messages -> Nat]
      /\ ops \in 0..MaxOps
  BY DEF SyncInv, SyncTypeOK
<1>5. \A m \in Messages : /\ reply[m].at \in Nat /\ reply[m].data \in Record
                          /\ stored[Conv[m]] \in Nat /\ place[m] \in Nat
                          /\ place[m] <= stored[Conv[m]]
  BY <1>4, MessagesAssumption DEF SyncInv, Numbered
<1>6. \A c \in Convs : seen[c] <= pushes[c]
  BY DEF SyncInv, Numbered
<1>7. \A i \in Slots : fetch[i].state = "answered" =>
                 /\ fetch[i].conv \in Convs /\ fetch[i].at \in Nat
                 /\ fetch[i].at <= pushes[fetch[i].conv]
  BY DEF SyncInv, SyncTypeOK, Numbered
<1> QED BY <1>1, <1>2, <1>3, <1>4, <1>5, <1>6, <1>7, MessagesAssumption

(***************************************************************************)
(* The message service                                                     *)
(***************************************************************************)
LEMMA StoreRight == ASSUME SyncInv, NEW m \in Messages, Store(m) PROVE SyncInv'
<1>1. /\ UNCHANGED <<pushes, link, inbox, shown, loaded, active, fetch, reply, historyVars, ops, faults>>
      /\ sending[m] \in {"posted", "unsent"}
      /\ \A x \in Messages : sending'[x] = IF x = m THEN "stored" ELSE sending[x]
      /\ sending' \in [Messages -> {"unsent", "posted", "stored", "pushed", "failed"}]
  BY DEF Store, SyncInv, SyncTypeOK, pageVars
<1> PICK p \in BOOLEAN : store' = [store EXCEPT ![m] = Fresh(p)]
  BY DEF Store
<1> PICK c \in Convs : c = Conv[m]
  BY SyncTypes
<1>12. /\ \A x \in Messages : store'[x] = IF x = m THEN Fresh(p) ELSE store[x]
       /\ store' \in [Messages -> Record] /\ Fresh(p).text = 1 /\ Visible(Fresh(p))
  BY RecordFacts DEF SyncInv, SyncTypeOK
<1>13. /\ stored' \in [Convs -> Nat] /\ place' \in [Messages -> Nat]
       /\ \A d \in Convs : stored'[d] = IF d = c THEN stored[c] + 1 ELSE stored[d]
       /\ \A x \in Messages : place'[x] = IF x = m THEN stored[c] + 1 ELSE place[x]
  BY DEF Store, SyncInv, SyncTypeOK
<1>14. \A x \in Messages : stored'[Conv[x]] >= stored[Conv[x]] /\ place'[x] <= stored'[Conv[x]]
  BY <1>13, SyncTypes
<1>15. \A x \in Messages : x # m /\ Passed(x) => Passed(x)'
  BY <1>13, <1>14, SyncTypes, MessagesAssumption DEF Passed
<1>2. /\ \A x \in Messages : Born(x)' <=> Born(x) \/ x = m
      /\ \A x \in Messages : (Told(x)' <=> Told(x)) /\ (Told(x) => x # m)
  BY <1>1 DEF Born, Told
<1>3. Unborn(m)
  BY <1>1 DEF SyncInv, Births, Born
<1>4. SyncTypeOK'
  <2>1. \A x \in Messages : store'[x].text <= ops + 1
    <3>1. \A x \in Messages : store[x].text <= ops + 1
      BY DEF SyncInv, SyncTypeOK
    <3> QED BY <1>1, <1>12, <3>1, SyncTypes
  <2> QED BY <1>1, <1>12, <1>13, <2>1 DEF SyncInv, SyncTypeOK, Of, historyVars
<1>5. Numbered'
  BY <1>1, <1>14 DEF SyncInv, Numbered, historyVars
<1>6. Births'
  <2> SUFFICES ASSUME NEW x \in Messages PROVE IF Born(x)' THEN Visible(store[x])' ELSE Unborn(x)'
    BY DEF Births
  <2>1. CASE x = m
    BY <1>12, <1>2, <2>1
  <2>2. CASE x # m
    BY <1>1, <1>12, <1>2, <2>2 DEF SyncInv, Births, Unborn
  <2> QED BY <2>1, <2>2
<1>7. EventsInv'
  <2>1. \A i \in DOMAIN inbox : inbox[i].msg \in Messages /\ inbox[i].msg # m
    BY <1>3, SyncTypes DEF Unborn
  <2> QED BY <1>1, <1>12, <2>1 DEF SyncInv, EventsInv, EventInv, Right, Sets, About
<1>8. \A x \in Messages : \A r, n : Follows(x, r, n) => Follows(x, r, n)'
  <2> SUFFICES ASSUME NEW x \in Messages, NEW r, NEW n, Follows(x, r, n) PROVE Follows(x, r, n)'
    OBVIOUS
  <2>1. CASE x = m
    BY <1>2, <2>1 DEF Follows
  <2>2. CASE x # m
    BY <1>1, <1>12, <1>15, <1>2, <2>2, FollowsSame
  <2> QED BY <2>1, <2>2
<1>9. FetchInv'
  BY <1>1, <1>8 DEF SyncInv, FetchInv, historyVars, Of
<1>10. ReplyInv'
  BY <1>1, <1>2, <1>8 DEF SyncInv, ReplyInv, historyVars
<1>11. PageInv'
  BY <1>1, <1>8 DEF SyncInv, PageInv, historyVars
<1> QED BY <1>4, <1>5, <1>6, <1>7, <1>9, <1>10, <1>11 DEF SyncInv

\* A change of m, to data, is pushed; of a new message the sender may get the answer too.
LEMMA PushRight ==
    ASSUME SyncInv, NEW m \in Messages, NEW kind \in Kinds, NEW data \in Record, Push(kind, m, data),
           Born(m), Visible(data),
           kind = "edited" => data.text > 0, kind = "deleted" => data = Gone,
           \A F \in Fields \ Patched(kind) : data[F] = store[m][F] \/ (F = "preview" /\ data.deleted),
           store[m].deleted => data.deleted,
           UNCHANGED <<stored, place, link, shown, loaded, active, fetch, faults>>,
           store' \in [Messages -> Record], \A x \in Messages : store'[x] = IF x = m THEN data ELSE store[x],
           ops' \in 0..MaxOps, \A x \in Messages : store'[x].text <= ops' + 1,
           sending' \in [Messages -> {"unsent", "posted", "stored", "pushed", "failed"}],
           \A x \in Messages : sending'[x] = sending[x]
                                \/ (x = m /\ sending'[m] = "pushed" /\ kind = "message"),
           reply' = reply \/ (Told(m)' /\ reply' = [reply EXCEPT ![m] = [at |-> pushes[Conv[m]] + 1,
                                                                         data |-> data]])
    PROVE  SyncInv'
<1> PICK c \in Convs : c = Conv[m]
  BY MessagesAssumption
<1> PICK e : e = [kind |-> kind, msg |-> m, at |-> pushes[c] + 1, data |-> data]
  OBVIOUS
<1> PICK answer : answer = [at |-> pushes[c] + 1, data |-> data]
  OBVIOUS
<1>1. /\ \A x \in Convs : pushes'[x] = IF x = c THEN pushes[c] + 1 ELSE pushes[x]
      /\ pushes' \in [Convs -> Nat] /\ pushes[c] \in Nat /\ overtaken' = overtaken
      /\ e \in Events /\ e.msg = m /\ e.kind = kind /\ e.at = pushes[c] + 1 /\ e.data = data
  <2>1. pushes \in [Convs -> Nat] /\ pushes[c] \in Nat /\ store[m] \in Record
    BY DEF SyncInv, SyncTypeOK
  <2>2. pushes' = [pushes EXCEPT ![c] = @ + 1] /\ overtaken' = overtaken
    BY DEF Push
  <2>3. data \in Record
    OBVIOUS
  <2>4. \A x \in Convs : pushes'[x] = IF x = c THEN pushes[c] + 1 ELSE pushes[x]
    BY <2>1, <2>2
  <2>5. pushes' \in [Convs -> Nat]
    BY <2>1, <2>2
  <2>6. e \in Events
    BY <2>1, <2>3 DEF Events
  <2>7. e.msg = m /\ e.kind = kind /\ e.at = pushes[c] + 1 /\ e.data = data
    OBVIOUS
  <2> QED BY <2>1, <2>2, <2>4, <2>5, <2>6, <2>7
<1>2. \/ link = "up" /\ inbox' = Append(inbox, e) /\ UNCHANGED <<seen, missed>>
      \/ /\ link # "up" /\ inbox = <<>> /\ inbox' = inbox /\ missed' = missed \cup {c}
         /\ \A x \in Convs : seen'[x] = IF x = c THEN pushes[c] + 1 ELSE seen[x]
         /\ seen' \in [Convs -> Nat]
  <2>1. CASE link = "up"
    BY <2>1 DEF Push
  <2>2. CASE link # "up"
    <3>1. inbox = <<>> /\ seen \in [Convs -> Nat]
      BY <2>2 DEF SyncInv, SyncTypeOK
    <3>2. seen' = [seen EXCEPT ![c] = pushes[c] + 1] /\ missed' = missed \cup {c} /\ inbox' = inbox
      BY <2>2 DEF Push
    <3>3. pushes[c] + 1 \in Nat
      BY <1>1
    <3>4. /\ \A x \in Convs : seen'[x] = IF x = c THEN pushes[c] + 1 ELSE seen[x]
          /\ seen' \in [Convs -> Nat]
      BY <3>1, <3>2, <3>3
    <3> QED BY <2>2, <3>1, <3>2, <3>4
  <2> QED BY <2>1, <2>2
<1>3. /\ answer \in [at: Nat, data: Record] /\ answer.at = pushes[c] + 1 /\ answer.data = data
      /\ answer # NoReply
      /\ reply' \in [Messages -> [at: Nat, data: Record]]
      /\ \A x \in Messages : reply'[x] = reply[x] \/ (x = m /\ Told(m)' /\ reply'[m] = answer)
  <2>1. /\ answer \in [at: Nat, data: Record] /\ answer.at = pushes[c] + 1 /\ answer.data = data
        /\ answer # NoReply
    BY <1>1 DEF NoReply
  <2>2. reply \in [Messages -> [at: Nat, data: Record]]
    BY DEF SyncInv, SyncTypeOK
  <2>3. reply' = reply \/ (Told(m)' /\ reply' = [reply EXCEPT ![m] = answer])
    OBVIOUS
  <2> QED BY <2>1, <2>2, <2>3
<1>4. SyncTypeOK'
  <2>1. inbox' \in Seq(Events) /\ seen' \in [Convs -> Nat] /\ missed' \subseteq Convs
        /\ (link # "up" => inbox' = <<>>)
    <3>1. CASE inbox' = Append(inbox, e)
      BY <1>1, <1>2, <3>1, Pushed, SyncTypes DEF SyncInv, SyncTypeOK
    <3>2. CASE inbox' = inbox
      BY <1>1, <1>2, <3>2, SyncTypes DEF SyncInv, SyncTypeOK
    <3> QED BY <1>2, <3>1, <3>2
  <2>2. ops' \in 0..MaxOps /\ faults' \in 0..MaxFaults /\ link' \in {"new", "up", "deaf", "down"}
        /\ active' \in Convs \cup {NoConv} /\ loaded' \subseteq Convs /\ overtaken' \subseteq Convs
        /\ shown' \in [Messages -> Record] /\ stored' \in [Convs -> Nat] /\ place' \in [Messages -> Nat]
    BY <1>1 DEF SyncInv, SyncTypeOK
  <2>3. /\ fetch' = [i \in Slots |-> fetch'[i]]
        /\ \A i \in Slots : fetch'[i].state \in {"idle", "asked", "answered"}
        /\ \A i \in Slots : fetch'[i].state # "idle" => fetch'[i].conv \in Convs
        /\ \A i \in Slots : fetch'[i].state = "answered" =>
             fetch'[i].at \in Nat /\ fetch'[i].data \in [Of(fetch'[i].conv) -> Record]
    BY DEF SyncInv, SyncTypeOK
  <2> QED BY <1>1, <1>3, <2>1, <2>2, <2>3 DEF SyncTypeOK, Of
<1>5. Numbered'
  <2>1. \A x \in Convs : seen'[x] <= pushes'[x] /\ pushes[x] <= pushes'[x] /\ pushes'[x] \in Nat
    BY <1>1, <1>2, SyncTypes, SMTT(30)
  <2>2. \A i \in DOMAIN inbox' : inbox'[i].at <= pushes'[Conv[inbox'[i].msg]]
    <3>1. \A i \in DOMAIN inbox : inbox[i].at <= pushes'[Conv[inbox[i].msg]]
      <4> SUFFICES ASSUME NEW i \in DOMAIN inbox PROVE inbox[i].at <= pushes'[Conv[inbox[i].msg]]
        OBVIOUS
      <4>1. inbox[i].msg \in Messages /\ Conv[inbox[i].msg] \in Convs /\ inbox[i].at \in Nat
        BY SyncTypes
      <4>2. inbox[i].at <= pushes[Conv[inbox[i].msg]]
        BY DEF SyncInv, Numbered
      <4> QED BY <1>1, <2>1, <4>1, <4>2, SyncTypes
    <3>2. CASE inbox' = Append(inbox, e)
      <4>1. /\ DOMAIN inbox' = 1..Len(inbox) + 1 /\ DOMAIN inbox = 1..Len(inbox) /\ Len(inbox) \in Nat
            /\ \A i \in 1..Len(inbox) : inbox'[i] = inbox[i]
            /\ inbox'[Len(inbox) + 1] = e
        BY <1>1, <3>2, Pushed DEF SyncInv, SyncTypeOK
      <4> QED BY <1>1, <3>1, <4>1
    <3> QED BY <1>2, <3>1, <3>2
  <2>3. \A i \in Slots : fetch'[i].state = "answered" => fetch'[i].at <= pushes'[fetch'[i].conv]
    BY <2>1, SyncTypes
  <2>4. \A x \in Messages : reply'[x].at <= pushes'[Conv[x]]
    <3> SUFFICES ASSUME NEW x \in Messages PROVE reply'[x].at <= pushes'[Conv[x]]
      OBVIOUS
    <3>1. CASE reply'[x] = reply[x]
      BY <2>1, <3>1, SyncTypes DEF SyncInv, Numbered
    <3>2. CASE reply'[x] # reply[x]
      BY <1>1, <1>3, <3>2
    <3> QED BY <3>1, <3>2
  <2>5. \A x \in Messages : place[x] <= stored[Conv[x]]
    BY SyncTypes
  <2> QED BY <2>1, <2>2, <2>3, <2>4, <2>5 DEF Numbered
<1>6. \A x \in Messages : /\ Born(x)' <=> Born(x)
                          /\ Told(x) => Told(x)'
                          /\ Told(x)' => Told(x) \/ (x = m /\ kind = "message")
  BY DEF Born, Told
<1>7. Births'
  <2> SUFFICES ASSUME NEW x \in Messages PROVE IF Born(x)' THEN Visible(store[x])' ELSE Unborn(x)'
    BY DEF Births
  <2>1. CASE Born(x)
    BY <1>6, <2>1 DEF SyncInv, Births
  <2>2. CASE ~Born(x)
    <3>1. x # m /\ Unborn(x)
      BY <2>2 DEF SyncInv, Births
    <3>2. \A i \in DOMAIN inbox' : inbox'[i].msg # x
      <4>1. CASE inbox' = Append(inbox, e)
        <5>1. ASSUME NEW i \in DOMAIN inbox', inbox'[i].msg = x PROVE FALSE
          <6>1. /\ \A j \in 1..Len(inbox) : inbox'[j] = inbox[j]
                /\ inbox'[Len(inbox) + 1] = e /\ Len(inbox) \in Nat
                /\ DOMAIN inbox' = 1..Len(inbox) + 1 /\ DOMAIN inbox = 1..Len(inbox)
            BY <1>1, <4>1, Pushed, SyncTypes
          <6> QED BY <1>1, <3>1, <5>1, <6>1 DEF Unborn
        <5> QED BY <5>1
      <4>2. CASE inbox' = inbox
        BY <3>1, <4>2 DEF Unborn
      <4> QED BY <1>2, <4>1, <4>2
    <3> QED BY <1>3, <1>6, <2>2, <3>1, <3>2 DEF Unborn
  <2> QED BY <2>1, <2>2
<1>8. EventsInv'
  <2>1. CASE inbox = <<>> /\ inbox' = inbox
    BY <2>1 DEF EventsInv
  <2>2. CASE inbox' = Append(inbox, e)
    <3> SUFFICES ASSUME NEW i \in DOMAIN inbox' PROVE EventInv(i)'
      BY DEF EventsInv
    <3>1. CASE i = Len(inbox) + 1
      <4>1. inbox'[i] = e /\ store'[m] = data
        BY <1>1, <2>2, <3>1, Pushed, SyncTypes
      <4> QED BY <1>1, <4>1 DEF EventInv, Right
    <3>2. CASE i \in 1..Len(inbox)
      <4>1. inbox'[i] = inbox[i] /\ EventInv(i) /\ inbox[i].msg \in Messages
        <5>1. inbox'[i] = inbox[i] /\ i \in DOMAIN inbox
          BY <1>1, <2>2, <3>2, Pushed, SyncTypes
        <5> QED BY <5>1, SyncTypes DEF SyncInv, EventsInv
      <4> PICK x : x = inbox[i].msg
        OBVIOUS
      <4>2. ASSUME NEW F \in Patched(inbox[i].kind), \A j : Sets(j, x, F)' => j <= i
            PROVE  Right(x, inbox[i].data, F)'
        <5>1. /\ Len(inbox) \in Nat
              /\ \A j : Sets(j, x, F)' <=>
                    Sets(j, x, F) \/ (j = Len(inbox) + 1 /\ e.msg = x /\ F \in Patched(e.kind))
          BY <1>1, <2>2, Pushed, SyncTypes
        <5>2. ~(m = x /\ F \in Patched(kind))
          <6> SUFFICES ASSUME m = x, F \in Patched(kind) PROVE FALSE
            OBVIOUS
          <6> PICK n : n = Len(inbox) + 1
            OBVIOUS
          <6>1. Sets(n, x, F)'
            BY <1>1, <5>1
          <6>2. n <= i
            BY <4>2, <6>1
          <6> QED BY <3>2, <5>1, <6>2
        <5>3. F \in Fields
          BY KindFacts
        <5>4. \A j : Sets(j, x, F) => j <= i
          BY <4>2, <5>1
        <5>5. Right(x, inbox[i].data, F)
          BY <4>1, <5>4 DEF EventInv, Sets, About
        <5>6. \/ store'[x][F] = store[x][F]
              \/ F = "preview" /\ store'[x].deleted
          BY <4>1, <5>2, <5>3
        <5>7. store[x].deleted => store'[x].deleted
          BY <4>1
        <5> PICK d : d = inbox[i].data
          OBVIOUS
        <5>8. Right(x, d, F)'
          BY <5>5, <5>6, <5>7 DEF Right
        <5> QED BY <4>1, <5>8 DEF Right
      <4>3. inbox'[i].msg = x /\ inbox'[i].kind = inbox[i].kind /\ inbox'[i].data = inbox[i].data
        BY <4>1
      <4>4. ASSUME NEW F \in Patched(inbox'[i].kind),
                   \A j \in 1..Len(inbox') :
                      inbox'[j].msg = inbox'[i].msg /\ F \in Patched(inbox'[j].kind) => j <= i
            PROVE  Right(x, inbox[i].data, F)'
        <5>1. \A j : Sets(j, x, F)' => j <= i
          BY <4>3, <4>4 DEF Sets, About, Patched
        <5> QED BY <4>2, <4>3, <5>1
      <4>5. /\ inbox'[i].kind = "message" => Visible(inbox'[i].data)
            /\ inbox'[i].kind = "edited" => inbox'[i].data.text > 0
            /\ inbox'[i].kind = "deleted" => inbox'[i].data = Gone
        BY <4>1, <4>3 DEF EventInv
      <4> QED BY <4>3, <4>4, <4>5 DEF EventInv
    <3> QED BY <1>1, <2>2, <3>1, <3>2, Pushed, SyncTypes
  <2> QED BY <1>2, <2>1, <2>2
<1>9. ASSUME NEW x \in Messages, NEW r, NEW n \in Nat, Follows(x, r, n), n <= pushes[c],
             x = m => link = "up"
      PROVE  Follows(x, r, n)'
  <2>1. /\ \A F \in Fields : \/ (e.msg = x /\ F \in Patched(e.kind)) \/ store'[x][F] = store[x][F]
                              \/ (F = "preview" /\ store'[x].deleted)
        /\ store[x].deleted => store'[x].deleted
        /\ Passed(x) => Passed(x)'
    BY <1>1 DEF Passed
  <2>2. Told(x)' => Told(x) \/ (e.msg = x /\ e.kind = "message")
    BY <1>1, <1>6
  <2>3. e.at > n
    BY <1>1, <1>9
  <2>4. CASE inbox' = Append(inbox, e)
    BY <1>1, <1>9, <2>1, <2>2, <2>4, <2>3, FollowsPushed, SyncTypes
  <2>5. CASE inbox' = inbox /\ link # "up"
    BY <1>6, <1>9, <2>1, <2>5, FollowsSame
  <2> QED BY <1>2, <2>4, <2>5
<1>10. ASSUME NEW x \in Messages, x # m, NEW r, NEW n, Follows(x, r, n) PROVE Follows(x, r, n)'
  <2>1. CASE inbox' = Append(inbox, e)
    BY <1>1, <1>6, <1>10, <2>1, FollowsOther, SyncTypes DEF Passed
  <2>2. CASE inbox' = inbox
    BY <1>6, <1>10, <2>2, FollowsSame DEF Passed
  <2> QED BY <1>2, <2>1, <2>2
<1>11. ASSUME NEW r, r = data PROVE Follows(m, r, answer.at)'
  BY <1>11, FollowsStore
<1>12. FetchInv'
  <2> SUFFICES ASSUME NEW i \in Slots, fetch[i].state = "answered", fetch[i].at >= seen'[fetch[i].conv],
                      NEW x \in Of(fetch[i].conv)
               PROVE  Follows(x, fetch[i].data[x], fetch[i].at)'
    BY DEF FetchInv, Of
  <2> PICK d : d = fetch[i].conv
    OBVIOUS
  <2> PICK n : n = fetch[i].at
    OBVIOUS
  <2> PICK r : r = fetch[i].data[x]
    OBVIOUS
  <2>1. d \in Convs /\ n \in Nat /\ n <= pushes[d] /\ x \in Messages /\ Conv[x] = d
    BY SyncTypes DEF Of
  <2>2. n >= seen[d] /\ (d = c => link = "up")
    <3>1. n >= seen'[d]
      OBVIOUS
    <3>2. CASE UNCHANGED seen /\ link = "up"
      BY <3>1, <3>2
    <3>3. CASE /\ link # "up"
               /\ \A y \in Convs : seen'[y] = IF y = c THEN pushes[c] + 1 ELSE seen[y]
      BY <1>1, <2>1, <3>1, <3>3
    <3> QED BY <1>2, <3>2, <3>3
  <2>3. Follows(x, r, n)
    BY <2>2 DEF SyncInv, FetchInv
  <2>4. Follows(x, r, n)'
    <3>1. CASE d = c
      BY <1>9, <2>1, <2>2, <2>3, <3>1
    <3>2. CASE d # c
      <4>1. x # m
        BY <2>1, <3>2
      <4> QED BY <1>10, <2>1, <2>3, <4>1
    <3> QED BY <3>1, <3>2
  <2> QED BY <2>4 DEF Follows
<1>13. ReplyInv'
  <2> SUFFICES ASSUME NEW x \in Messages, reply'[x] # NoReply
               PROVE  Told(x)' /\ (reply'[x].at >= seen'[Conv[x]] => Follows(x, reply[x].data, reply[x].at)')
    BY DEF ReplyInv
  <2> PICK r : r = reply'[x]
    OBVIOUS
  <2>1. CASE r = reply[x]
    <3>1. Told(x)' /\ (r.at >= seen[Conv[x]] => Follows(x, r.data, r.at))
      BY <1>6, <2>1 DEF SyncInv, ReplyInv
    <3>2. r.at \in Nat /\ r.at <= pushes[Conv[x]] /\ Conv[x] \in Convs
      BY <2>1, SyncTypes DEF SyncInv, Numbered
    <3>3. r.at >= seen'[Conv[x]] => r.at >= seen[Conv[x]] /\ (x = m => link = "up")
      <4>1. CASE UNCHANGED seen /\ link = "up"
        BY <4>1
      <4>2. CASE /\ link # "up"
                 /\ \A y \in Convs : seen'[y] = IF y = c THEN pushes[c] + 1 ELSE seen[y]
        BY <1>1, <3>2, <4>2, SyncTypes, SMTT(30)
      <4> QED BY <1>2, <4>1, <4>2
    <3>4. r.at >= seen'[Conv[x]] => Follows(x, r.data, r.at)'
      <4> SUFFICES ASSUME r.at >= seen'[Conv[x]] PROVE Follows(x, r.data, r.at)'
        OBVIOUS
      <4> PICK n : n = r.at
        OBVIOUS
      <4> PICK d : d = r.data
        OBVIOUS
      <4>1. Follows(x, d, n)
        BY <3>1, <3>3
      <4>2. CASE x = m
        BY <1>9, <3>2, <3>3, <4>1, <4>2
      <4>3. CASE x # m
        BY <1>10, <4>1, <4>3
      <4> QED BY <4>2, <4>3
    <3> QED BY <3>1, <3>4 DEF Follows
  <2>2. CASE r # reply[x]
    <3>1. x = m /\ Told(m)' /\ r = answer
      BY <1>3, <2>2
    <3>2. Follows(m, data, answer.at)'
      BY <1>11
    <3> QED BY <1>3, <3>1, <3>2 DEF Follows
  <2> QED BY <2>1, <2>2
<1>14. PageInv'
  <2> SUFFICES ASSUME NEW x \in Messages, Conv[x] \in loaded \ (missed' \cup overtaken)
               PROVE  Follows(x, shown[x], 0)'
    BY <1>1 DEF PageInv
  <2> PICK r : r = shown[x]
    OBVIOUS
  <2>1. Conv[x] \in loaded \ (missed \cup overtaken) /\ (x = m => link = "up")
    BY <1>2
  <2>2. Follows(x, r, 0)
    BY <2>1 DEF SyncInv, PageInv
  <2>3. Follows(x, r, 0)'
    <3>1. CASE x = m
      BY <1>1, <1>9, <2>1, <2>2, <3>1
    <3>2. CASE x # m
      BY <1>10, <2>2, <3>2
    <3> QED BY <3>1, <3>2
  <2> QED BY <2>3 DEF Follows
<1> QED BY <1>4, <1>5, <1>7, <1>8, <1>12, <1>13, <1>14 DEF SyncInv

LEMMA DeliverRight == ASSUME SyncInv, NEW m \in Messages, Deliver(m) PROVE SyncInv'
<1> PICK data : data = store[m]
  OBVIOUS
<1>1. /\ sending[m] = "stored" /\ Push("message", m, data)
      /\ UNCHANGED <<store, stored, place, link, shown, loaded, active, fetch, ops, faults>>
      /\ reply' = reply \/ reply' = [reply EXCEPT ![m] = [at |-> pushes[Conv[m]] + 1, data |-> data]]
  BY DEF Deliver, pageVars
<1>2. /\ sending' \in [Messages -> {"unsent", "posted", "stored", "pushed", "failed"}]
      /\ \A x \in Messages : sending'[x] = IF x = m THEN "pushed" ELSE sending[x]
  BY DEF Deliver, SyncInv, SyncTypeOK
<1>3. Told(m)' /\ Born(m)
  BY <1>1, <1>2 DEF Told, Born
<1>4. data \in Record /\ Visible(data)
  BY <1>3, SyncTypes DEF SyncInv, Births
<1>5. store' \in [Messages -> Record] /\ ops' \in 0..MaxOps /\ \A x \in Messages : store'[x].text <= ops' + 1
  BY <1>1 DEF SyncInv, SyncTypeOK
<1>6. "message" \in Kinds /\ Fields \ Patched("message") = {}
  BY KindFacts DEF Kinds
<1> QED BY <1>1, <1>2, <1>3, <1>4, <1>5, <1>6, PushRight

\* A change of a message that is in the store.
LEMMA ChangeRight ==
    ASSUME SyncInv, NEW m \in Messages, NEW r \in Record, NEW kind \in Kinds, Change(m, r, kind),
           Visible(r), kind = "edited" => r.text > 0, kind = "deleted" => r = Gone,
           r.text <= ops + 2, store[m].deleted => r.deleted,
           \A F \in Fields \ Patched(kind) : r[F] = store[m][F] \/ (F = "preview" /\ r.deleted)
    PROVE  SyncInv'
<1>1. /\ store[m] # Absent /\ ops < MaxOps /\ ops' = ops + 1 /\ Push(kind, m, r)
      /\ UNCHANGED <<stored, place, sending, link, shown, loaded, active, fetch, reply, faults>>
  BY DEF Change, pageVars
<1>2. /\ store' \in [Messages -> Record] /\ \A x \in Messages : store'[x] = IF x = m THEN r ELSE store[x]
      /\ sending' \in [Messages -> {"unsent", "posted", "stored", "pushed", "failed"}]
  BY <1>1 DEF Change, SyncInv, SyncTypeOK
<1>3. ops' \in 0..MaxOps
  BY <1>1, SyncTypes
<1>4. \A x \in Messages : store'[x].text <= ops' + 1
  <2> SUFFICES ASSUME NEW x \in Messages PROVE store'[x].text <= ops' + 1
    OBVIOUS
  <2>1. store[x].text <= ops + 1 /\ ops \in Nat /\ store[x].text \in Nat
    BY SyncTypes DEF SyncInv, SyncTypeOK, Record
  <2> QED BY <1>1, <1>2, <2>1
<1>5. Born(m)
  BY <1>1 DEF SyncInv, Births, Unborn
<1> QED BY <1>1, <1>2, <1>3, <1>4, <1>5, PushRight

LEMMA StoredText ==
    ASSUME SyncInv, NEW m \in Messages
    PROVE  /\ store[m].text \in Nat /\ store[m].text <= ops + 1 /\ ops \in Nat /\ MaxOps \in Nat
           /\ \A n \in 0..MaxOps + 1 : [store[m] EXCEPT !.text = n] \in Record
           /\ \A u \in SUBSET Users : [store[m] EXCEPT !.likes = u] \in Record
           /\ store[m].likes \subseteq Users
<1>1. store[m] \in Record /\ store[m].text <= ops + 1 /\ ops \in Nat /\ MaxOps \in Nat
  BY SyncTypes DEF SyncInv, SyncTypeOK
<1> QED BY <1>1 DEF Record

LEMMA EditRight == ASSUME SyncInv, NEW m \in Messages, Edit(m) PROVE SyncInv'
<1> PICK old : old = store[m]
  OBVIOUS
<1> PICK r : r = [old EXCEPT !.text = old.text + 1]
  OBVIOUS
<1>1. Change(m, r, "edited") /\ ops < MaxOps
  BY DEF Edit, Change
<1>2. old \in Record /\ old.text \in Nat /\ old.text <= ops + 1 /\ ops \in Nat /\ MaxOps \in Nat
  BY SyncTypes, StoredText
<1>3. old.text + 1 \in 0..MaxOps + 1
  BY <1>1, <1>2
<1>4. r \in Record /\ r.text = old.text + 1 /\ r.deleted = old.deleted /\ r.likes = old.likes
      /\ r.preview = old.preview
  <2>1. r = [text |-> old.text + 1, deleted |-> old.deleted, likes |-> old.likes, preview |-> old.preview]
    BY <1>2 DEF Record
  <2> QED BY <1>2, <1>3, <2>1 DEF Record
<1>5. Visible(r)
  BY <1>2, <1>4 DEF Visible
<1>6. \A F \in Fields \ Patched("edited") : r[F] = old[F]
  <2>1. r["deleted"] = old["deleted"] /\ r["likes"] = old["likes"] /\ r["preview"] = old["preview"]
    BY <1>4
  <2> QED BY <2>1, KindFacts DEF Fields
<1>7. "edited" \in Kinds
  BY DEF Kinds
<1>8. "edited" # "deleted" /\ r.text > 0 /\ r.text <= ops + 2
  BY <1>2, <1>4
<1> QED BY <1>1, <1>4, <1>5, <1>6, <1>7, <1>8, ChangeRight

LEMMA DeleteRight == ASSUME SyncInv, NEW m \in Messages, Delete(m) PROVE SyncInv'
<1>1. Change(m, Gone, "deleted") /\ "deleted" \in Kinds
      /\ \A F \in Fields \ Patched("deleted") : F = "preview"
  BY KindFacts DEF Delete, Kinds
<1>2. Gone \in Record /\ Visible(Gone) /\ Gone.text = 0 /\ Gone.deleted /\ ops \in Nat
  BY RecordFacts, SyncTypes DEF Gone, Absent
<1> QED BY <1>1, <1>2, ChangeRight

LEMMA ReactRight == ASSUME SyncInv, NEW u \in Users, NEW m \in Messages, React(u, m) PROVE SyncInv'
<1> PICK old : old = store[m]
  OBVIOUS
<1> PICK likes : likes = IF u \in old.likes THEN old.likes \ {u} ELSE old.likes \cup {u}
  OBVIOUS
<1> PICK r : r = [old EXCEPT !.likes = likes]
  OBVIOUS
<1>1. Change(m, r, "reaction") /\ old # Absent /\ ~old.deleted
  BY DEF React, Change
<1>2. old \in Record /\ old.text \in Nat /\ old.text <= ops + 1 /\ ops \in Nat /\ likes \subseteq Users
  BY SyncTypes, StoredText
<1>3. r \in Record /\ r.text = old.text /\ r.deleted = old.deleted /\ r.preview = old.preview
  BY <1>2 DEF Record
<1>4. Visible(old)
  BY <1>1 DEF SyncInv, Births, Unborn
<1>5. Visible(r)
  BY <1>2, <1>3, <1>4 DEF Visible
<1>6. \A F \in Fields \ Patched("reaction") : r[F] = old[F]
  <2>1. r["deleted"] = old["deleted"] /\ r["text"] = old["text"] /\ r["preview"] = old["preview"]
    BY <1>3
  <2> QED BY <2>1, KindFacts DEF Fields
<1>7. "reaction" \in Kinds
  BY DEF Kinds
<1>8. "reaction" # "edited" /\ "reaction" # "deleted" /\ r.text <= ops + 2
  BY <1>2, <1>3
<1>9. \A F \in Fields \ Patched("reaction") : r[F] = store[m][F]
  BY <1>6
<1>10. r \in Record /\ Change(m, r, "reaction")
  BY <1>1, <1>3
<1> QED BY <1>1, <1>5, <1>7, <1>8, <1>9, <1>10, ChangeRight

LEMMA DeliverFailsRight == ASSUME SyncInv, NEW m \in Messages, DeliverFails(m) PROVE SyncInv'
<1> PICK c \in Convs : c = Conv[m]
  BY SyncTypes
<1>1. /\ sending[m] = "stored" /\ faults < MaxFaults /\ faults' = faults + 1 /\ missed' = missed \cup {c}
      /\ UNCHANGED <<store, stored, place, link, inbox, shown, loaded, active, fetch, reply, overtaken, ops>>
      /\ \A x \in Messages : sending'[x] = IF x = m THEN "failed" ELSE sending[x]
      /\ \A d \in Convs : /\ pushes'[d] = IF d = c THEN pushes[c] + 1 ELSE pushes[d]
                          /\ seen'[d] = IF d = c THEN pushes[c] + 1 ELSE seen[d]
      /\ sending' \in [Messages -> {"unsent", "posted", "stored", "pushed", "failed"}]
      /\ pushes' \in [Convs -> Nat] /\ seen' \in [Convs -> Nat]
  BY DEF DeliverFails, SyncInv, SyncTypeOK, pageVars
<1>2. \A d \in Convs : /\ seen'[d] <= pushes'[d] /\ pushes[d] <= pushes'[d] /\ seen[d] <= seen'[d]
                       /\ pushes'[d] \in Nat /\ seen'[d] \in Nat
  <2>1. \A d \in Convs : pushes[d] \in Nat /\ seen[d] \in Nat /\ seen[d] <= pushes[d]
    BY SyncTypes
  <2> QED BY <1>1, <2>1
<1>3. SyncTypeOK'
  <2>1. faults' \in 0..MaxFaults /\ missed' \subseteq Convs
    BY <1>1, MessagesAssumption DEF SyncInv, SyncTypeOK
  <2> QED BY <1>1, <2>1 DEF SyncInv, SyncTypeOK, Of
<1>4. Numbered'
  <2>1. \A i \in DOMAIN inbox : inbox[i].at <= pushes'[Conv[inbox[i].msg]]
    BY <1>2, SyncTypes DEF SyncInv, Numbered
  <2>2. \A i \in Slots : fetch[i].state = "answered" => fetch[i].at <= pushes'[fetch[i].conv]
    BY <1>2, SyncTypes
  <2>3. \A x \in Messages : reply[x].at <= pushes'[Conv[x]]
    BY <1>2, SyncTypes DEF SyncInv, Numbered
  <2>4. \A x \in Messages : place[x] <= stored[Conv[x]]
    BY SyncTypes
  <2> QED BY <1>1, <1>2, <2>1, <2>2, <2>3, <2>4 DEF Numbered
<1>5. \A x \in Messages : /\ Born(x)' <=> Born(x)
                          /\ Told(x) => Told(x)'
                          /\ x # m => (Told(x)' => Told(x))
  BY <1>1 DEF Born, Told
<1>6. Births'
  BY <1>1, <1>5 DEF SyncInv, Births, Unborn, Visible
<1>7. EventsInv'
  BY <1>1 DEF SyncInv, EventsInv, EventInv, Right, Visible
<1>8. \A x \in Messages : \A r, n : x # m /\ Follows(x, r, n) => Follows(x, r, n)'
  BY <1>1, <1>5, FollowsSame DEF Passed
<1>9. FetchInv'
  <2> SUFFICES ASSUME NEW i \in Slots, fetch[i].state = "answered", fetch[i].at >= seen'[fetch[i].conv],
                      NEW x \in Of(fetch[i].conv)
               PROVE  Follows(x, fetch[i].data[x], fetch[i].at)'
    BY <1>1 DEF FetchInv, Of
  <2> PICK d \in Convs : d = fetch[i].conv
    BY SyncTypes
  <2>1. fetch[i].at \in Nat /\ fetch[i].at <= pushes[d] /\ fetch[i].at >= seen'[d]
    BY SyncTypes
  <2>2. d # c /\ fetch[i].at >= seen[d]
    BY <1>1, <2>1, SyncTypes, SMTT(30)
  <2>3. x \in Messages /\ x # m /\ Follows(x, fetch[i].data[x], fetch[i].at)
    BY <2>2 DEF SyncInv, FetchInv, Of
  <2>4. PICK r, n : r = fetch[i].data[x] /\ n = fetch[i].at
    OBVIOUS
  <2>5. Follows(x, r, n)'
    BY <1>8, <2>3, <2>4
  <2> QED BY <1>1, <2>4, <2>5 DEF Follows
<1>10. ReplyInv'
  <2> SUFFICES ASSUME NEW x \in Messages, reply[x] # NoReply
               PROVE  Told(x)' /\ (reply[x].at >= seen'[Conv[x]] => Follows(x, reply[x].data, reply[x].at)')
    BY <1>1 DEF ReplyInv
  <2> PICK r, n : r = reply[x].data /\ n = reply[x].at
    OBVIOUS
  <2>1. Told(x)' /\ n \in Nat /\ n <= pushes[Conv[x]] /\ Conv[x] \in Convs
        /\ (n >= seen[Conv[x]] => Follows(x, r, n))
    BY <1>5, SyncTypes DEF SyncInv, ReplyInv, Numbered
  <2>2. n >= seen'[Conv[x]] => x # m /\ n >= seen[Conv[x]]
    BY <1>1, <1>2, <2>1, SyncTypes
  <2>3. n >= seen'[Conv[x]] => Follows(x, r, n)'
    BY <1>8, <2>1, <2>2
  <2> QED BY <1>1, <2>1, <2>3 DEF Follows
<1>11. PageInv'
  BY <1>1, <1>8 DEF SyncInv, PageInv
<1> QED BY <1>3, <1>4, <1>6, <1>7, <1>9, <1>10, <1>11 DEF SyncInv

(***************************************************************************)
(* The page                                                                *)
(***************************************************************************)
LEMMA SentRight == ASSUME SyncInv, NEW m \in Messages, Sent(m) PROVE SyncInv'
<1> PICK c \in Convs : c = Conv[m]
  BY SyncTypes
<1> PICK a : a = reply[m]
  OBVIOUS
<1>1. /\ a # NoReply /\ UNCHANGED <<store, stored, place, sending, pushes, link, inbox, loaded, active, fetch, seen, missed, ops, faults>>
      /\ overtaken' = IF a.at < seen[c] THEN overtaken \cup {c} ELSE overtaken
      /\ \A x \in Messages : /\ shown'[x] = IF x = m THEN a.data ELSE shown[x]
                             /\ reply'[x] = IF x = m THEN NoReply ELSE reply[x]
      /\ shown' \in [Messages -> Record] /\ reply' \in [Messages -> [at: Nat, data: Record]]
  BY SlotFacts, SyncTypes DEF Sent, SyncInv, SyncTypeOK, serverVars
<1>2. Told(m) /\ Born(m) /\ (a.at >= seen[c] => Follows(m, a.data, a.at)) /\ a.at \in Nat
  BY <1>1, SyncTypes DEF SyncInv, ReplyInv, Told, Born
<1>3. SyncTypeOK'
  BY <1>1 DEF SyncInv, SyncTypeOK, Of
<1>4. Numbered'
  BY <1>1, SlotFacts, SyncTypes DEF SyncInv, Numbered
<1>5. \A x \in Messages : (Born(x)' <=> Born(x)) /\ (Told(x)' <=> Told(x))
  BY <1>1 DEF Born, Told
<1>6. Births'
  BY <1>1, <1>2, <1>5 DEF SyncInv, Births, Unborn, Visible
<1>7. EventsInv'
  BY <1>1 DEF SyncInv, EventsInv, EventInv, Right, Visible
<1>8. \A x \in Messages : \A r, n : Follows(x, r, n) => Follows(x, r, n)'
  BY <1>1, <1>5, FollowsSame DEF Passed
<1>9. FetchInv'
  BY <1>1, <1>8 DEF SyncInv, FetchInv, Of
<1>10. ReplyInv'
  <2> SUFFICES ASSUME NEW x \in Messages, x # m, reply[x] # NoReply
               PROVE  Told(x)' /\ (reply[x].at >= seen[Conv[x]] => Follows(x, reply[x].data, reply[x].at)')
    BY <1>1 DEF ReplyInv
  <2>1. /\ Told(x)' /\ reply'[x] = reply[x]
        /\ reply[x].at >= seen[Conv[x]] => Follows(x, reply[x].data, reply[x].at)
    BY <1>1, <1>5 DEF SyncInv, ReplyInv
  <2> PICK r, n : r = reply[x].data /\ n = reply[x].at
    OBVIOUS
  <2>2. n >= seen[Conv[x]] => Follows(x, r, n)'
    BY <1>8, <2>1
  <2> QED BY <2>1, <2>2 DEF Follows
<1>11. PageInv'
  <2> SUFFICES ASSUME NEW x \in Messages, Conv[x] \in loaded \ (missed \cup overtaken')
               PROVE  Follows(x, shown[x], 0)'
    BY <1>1 DEF PageInv
  <2> PICK r : r = shown'[x]
    OBVIOUS
  <2>1. CASE x = m
    <3>1. a.at >= seen[c] /\ r = a.data
      BY <1>1, <1>2, <2>1, SyncTypes
    <3>2. Follows(x, r, 0)'
      BY <1>1, <1>2, <1>5, <2>1, <3>1, FollowsWeaker, SyncTypes DEF Passed
    <3> QED BY <3>2 DEF Follows
  <2>2. CASE x # m
    <3>1. r = shown[x] /\ Follows(x, r, 0)
      BY <1>1, <2>2 DEF SyncInv, PageInv
    <3>2. Follows(x, r, 0)'
      BY <1>8, <3>1
    <3> QED BY <3>2 DEF Follows
  <2> QED BY <2>1, <2>2
<1> QED BY <1>3, <1>4, <1>6, <1>7, <1>9, <1>10, <1>11 DEF SyncInv

LEMMA HistoryRight == ASSUME SyncInv, NEW i \in Slots, History(i) PROVE SyncInv'
<1> PICK c \in Convs : c = fetch[i].conv
  BY DEF History, SyncInv, SyncTypeOK
<1> PICK f : f = [state |-> "answered", conv |-> c, at |-> pushes[c],
              data |-> [m \in Of(c) |-> IF Passed(m) THEN Absent ELSE store[m]]]
  OBVIOUS
<1>1. /\ UNCHANGED <<store, stored, place, sending, pushes, link, inbox, shown, loaded, active, reply, historyVars, ops, faults>>
      /\ fetch' = [j \in Slots |-> IF j = i THEN f ELSE fetch[j]]
  BY DEF History, SyncInv, SyncTypeOK, serverVars, pageVars
<1>2. /\ f.state = "answered" /\ f.conv = c /\ f.at = pushes[c] /\ pushes[c] \in Nat
      /\ \A m \in Of(c) : f.data[m] = IF Passed(m) THEN Absent ELSE store[m]
      /\ f.data \in [Of(c) -> Record]
      /\ \A j \in Slots : fetch'[j] = IF j = i THEN f ELSE fetch[j]
  BY <1>1, SyncTypes, RecordFacts DEF Of
<1>3. SyncTypeOK'
  <2>1. \A j \in Slots : /\ fetch'[j].state \in {"idle", "asked", "answered"}
                         /\ fetch'[j].state # "idle" => fetch'[j].conv \in Convs
                         /\ fetch'[j].state = "answered" =>
                               fetch'[j].at \in Nat /\ fetch'[j].data \in [Of(fetch'[j].conv) -> Record]
    <3> SUFFICES ASSUME NEW j \in Slots
                 PROVE  /\ fetch'[j].state \in {"idle", "asked", "answered"}
                        /\ fetch'[j].state # "idle" => fetch'[j].conv \in Convs
                        /\ fetch'[j].state = "answered" =>
                              fetch'[j].at \in Nat /\ fetch'[j].data \in [Of(fetch'[j].conv) -> Record]
      OBVIOUS
    <3>1. CASE j = i
      BY <1>2, <3>1
    <3>2. CASE j # i
      BY <1>2, <3>2 DEF SyncInv, SyncTypeOK
    <3> QED BY <3>1, <3>2
  <2>2. fetch' = [j \in Slots |-> fetch'[j]]
    BY <1>1
  <2> QED BY <1>1, <2>1, <2>2 DEF SyncInv, SyncTypeOK, Of, historyVars
<1>4. Numbered'
  BY <1>1, <1>2 DEF SyncInv, Numbered, historyVars
<1>5. \A x \in Messages : (Born(x)' <=> Born(x)) /\ (Told(x)' <=> Told(x))
  BY <1>1 DEF Born, Told
<1>6. Births'
  <2> SUFFICES ASSUME NEW x \in Messages, ~Born(x) PROVE Unborn(x)'
    BY <1>1, <1>5 DEF SyncInv, Births, Visible
  <2>1. Unborn(x)
    BY DEF SyncInv, Births
  <2>2. ASSUME NEW j \in Slots, fetch'[j].state = "answered", fetch'[j].conv = Conv[x]
        PROVE  fetch'[j].data[x] = Absent
    BY <1>2, <2>1, <2>2 DEF Unborn, Of
  <2> QED BY <1>1, <2>1, <2>2 DEF Unborn
<1>7. EventsInv'
  BY <1>1 DEF SyncInv, EventsInv, EventInv, Right, Visible
<1>8. \A x \in Messages : \A r, n : Follows(x, r, n) => Follows(x, r, n)'
  BY <1>1, <1>5, FollowsSame DEF Passed
<1>9. FetchInv'
  <2> SUFFICES ASSUME NEW j \in Slots, fetch'[j].state = "answered", fetch'[j].at >= seen[fetch'[j].conv],
                      NEW x \in Of(fetch'[j].conv)
               PROVE  Follows(x, fetch[j].data[x], fetch[j].at)'
    BY <1>1 DEF FetchInv, Of, historyVars
  <2> PICK r, n : r = fetch'[j].data[x] /\ n = fetch'[j].at
    OBVIOUS
  <2>1. CASE j = i
    <3>1. r = (IF Passed(x) THEN Absent ELSE store[x]) /\ store' = store /\ x \in Messages
          /\ (Passed(x) => Passed(x)')
      BY <1>1, <1>2, <2>1 DEF Of, Passed
    <3>2. CASE Told(x) /\ ~Passed(x)
      <4>1. Visible(store[x])
        BY <3>1, <3>2 DEF SyncInv, Births, Told, Born
      <4>2. r = store'[x] /\ Visible(r)
        BY <3>1, <3>2, <4>1
      <4>3. Follows(x, r, n)'
        BY <4>2, FollowsStore
      <4> QED BY <4>3 DEF Follows
    <3>3. CASE ~Told(x)
      BY <1>5, <3>1, <3>3 DEF Follows
    <3>4. CASE Passed(x)
      <4>1. Follows(x, r, n)'
        BY <3>1, <3>4, RecordFacts DEF Follows
      <4> QED BY <4>1 DEF Follows
    <3> QED BY <3>2, <3>3, <3>4
  <2>2. CASE j # i
    <3>1. Follows(x, r, n) /\ x \in Messages
      BY <1>2, <2>2 DEF SyncInv, FetchInv, Of
    <3>2. Follows(x, r, n)'
      BY <1>8, <3>1
    <3> QED BY <3>2 DEF Follows
  <2> QED BY <2>1, <2>2
<1>10. ReplyInv'
  BY <1>1, <1>5, <1>8 DEF SyncInv, ReplyInv, historyVars
<1>11. PageInv'
  BY <1>1, <1>8 DEF SyncInv, PageInv, historyVars
<1> QED BY <1>3, <1>4, <1>6, <1>7, <1>9, <1>10, <1>11 DEF SyncInv

LEMMA FetchedRight == ASSUME SyncInv, NEW i \in Slots, Fetched(i) PROVE SyncInv'
<1> PICK f : f = fetch[i]
  OBVIOUS
<1> PICK c \in Convs : c = f.conv
  BY SyncTypes DEF Fetched
<1>1. /\ f.state = "answered"
      /\ UNCHANGED <<store, stored, place, sending, pushes, link, inbox, active, reply, seen, ops, faults>>
      /\ shown' = [x \in Messages |-> IF x \in Of(c) THEN f.data[x] ELSE shown[x]]
      /\ loaded' = loaded \cup {c}
      /\ overtaken' = IF f.at < seen[c] THEN overtaken \cup {c} ELSE overtaken \ {c}
      /\ missed' = IF f.at < seen[c] THEN missed ELSE missed \ {c}
      /\ fetch' = [j \in Slots |-> IF j = i THEN Idle ELSE fetch[j]]
  BY DEF Fetched, SyncInv, SyncTypeOK, serverVars
<1>2. /\ f.at \in Nat /\ f.data \in [Of(c) -> Record]
      /\ \A x \in Messages : shown'[x] = IF x \in Of(c) THEN f.data[x] ELSE shown[x]
      /\ \A j \in Slots : fetch'[j] = IF j = i THEN Idle ELSE fetch[j]
  BY <1>1 DEF SyncInv, SyncTypeOK
<1>3. SyncTypeOK'
  <2>1. shown' \in [Messages -> Record]
    BY <1>1, <1>2, SyncTypes
  <2>2. missed' \subseteq Convs /\ overtaken' \subseteq Convs /\ loaded' \subseteq Convs
    BY <1>1 DEF SyncInv, SyncTypeOK
  <2>3. \A j \in Slots : /\ fetch'[j].state \in {"idle", "asked", "answered"}
                         /\ fetch'[j].state # "idle" => fetch'[j].conv \in Convs
                         /\ fetch'[j].state = "answered" =>
                               fetch'[j].at \in Nat /\ fetch'[j].data \in [Of(fetch'[j].conv) -> Record]
    BY <1>2, SlotFacts DEF SyncInv, SyncTypeOK
  <2>4. fetch' = [j \in Slots |-> fetch'[j]]
    BY <1>1
  <2> QED BY <1>1, <2>1, <2>2, <2>3, <2>4 DEF SyncInv, SyncTypeOK, Of
<1>4. Numbered'
  BY <1>1, <1>2, SlotFacts DEF SyncInv, Numbered
<1>5. \A x \in Messages : (Born(x)' <=> Born(x)) /\ (Told(x)' <=> Told(x))
  BY <1>1 DEF Born, Told
<1>6. Births'
  <2> SUFFICES ASSUME NEW x \in Messages, ~Born(x) PROVE Unborn(x)'
    BY <1>1, <1>5 DEF SyncInv, Births, Visible
  <2>1. Unborn(x)
    BY DEF SyncInv, Births
  <2>2. shown'[x] = Absent
    BY <1>1, <1>2, <2>1 DEF Unborn, Of
  <2>3. ASSUME NEW j \in Slots, fetch'[j].state = "answered", fetch'[j].conv = Conv[x]
        PROVE  fetch'[j].data[x] = Absent
    BY <1>2, <2>1, <2>3, SlotFacts DEF Unborn
  <2> QED BY <1>1, <2>1, <2>2, <2>3 DEF Unborn
<1>7. EventsInv'
  BY <1>1 DEF SyncInv, EventsInv, EventInv, Right, Visible
<1>8. \A x \in Messages : \A r, n : Follows(x, r, n) => Follows(x, r, n)'
  BY <1>1, <1>5, FollowsSame DEF Passed
<1>9. FetchInv'
  <2> SUFFICES ASSUME NEW j \in Slots, j # i, fetch[j].state = "answered", fetch[j].at >= seen[fetch[j].conv],
                      NEW x \in Of(fetch[j].conv)
               PROVE  Follows(x, fetch[j].data[x], fetch[j].at)'
    BY <1>1, <1>2, SlotFacts DEF FetchInv, Of
  <2> PICK r, n : r = fetch[j].data[x] /\ n = fetch[j].at
    OBVIOUS
  <2>1. Follows(x, r, n) /\ x \in Messages
    BY DEF SyncInv, FetchInv, Of
  <2>2. Follows(x, r, n)'
    BY <1>8, <2>1
  <2>3. fetch'[j] = fetch[j]
    BY <1>2
  <2> QED BY <2>2, <2>3 DEF Follows
<1>10. ReplyInv'
  BY <1>1, <1>5, <1>8 DEF SyncInv, ReplyInv
<1>11. PageInv'
  <2> SUFFICES ASSUME NEW x \in Messages, Conv[x] \in loaded' \ (missed' \cup overtaken')
               PROVE  Follows(x, shown[x], 0)'
    BY DEF PageInv
  <2> PICK r : r = shown'[x]
    OBVIOUS
  <2>1. CASE Conv[x] = c
    <3>1. r = f.data[x] /\ x \in Of(c)
      BY <1>2, <2>1 DEF Of
    <3>2. f.at >= seen[c]
      BY <1>1, <1>2, <2>1, SyncTypes
    <3>3. Follows(x, r, f.at)
      BY <1>1, <3>1, <3>2 DEF SyncInv, FetchInv
    <3>4. Follows(x, r, 0)'
      BY <1>1, <1>2, <1>5, <3>3, FollowsWeaker, SyncTypes DEF Passed
    <3> QED BY <3>4 DEF Follows
  <2>2. CASE Conv[x] # c
    <3>1. r = shown[x] /\ Conv[x] \in loaded \ (missed \cup overtaken)
      BY <1>1, <1>2, <2>2 DEF Of
    <3>2. Follows(x, r, 0)'
      BY <1>8, <3>1 DEF SyncInv, PageInv
    <3> QED BY <3>2 DEF Follows
  <2> QED BY <2>1, <2>2
<1> QED BY <1>3, <1>4, <1>6, <1>7, <1>9, <1>10, <1>11 DEF SyncInv

\* What the reducer makes of an event.
LEMMA AppliedFacts ==
    ASSUME SyncInv, NEW i \in DOMAIN inbox, NEW e, e = inbox[i], NEW old, old = shown[e.msg]
    PROVE  /\ Applied(e) \in Record
           /\ e.kind = "message" => Applied(e) = e.data
           /\ e.kind # "message" /\ old = Absent => Applied(e) = Absent
           /\ e.kind # "message" /\ Visible(old) =>
                 Visible(Applied(e)) /\ \A F \in Patched(e.kind) : Applied(e)[F] = e.data[F]
           /\ \A F \in Fields \ Patched(e.kind) : Applied(e)[F] = old[F]
<1>1. e \in Events /\ e.kind \in Kinds /\ e.data \in Record /\ old \in Record /\ EventInv(i)
  BY SyncTypes DEF SyncInv, EventsInv
<1>2. /\ e.kind = "edited" => e.data.text > 0
      /\ e.kind = "deleted" => e.data = Gone
  BY <1>1 DEF EventInv
<1> PICK a : a = Applied(e)
  OBVIOUS
<1>3. CASE e.kind = "message"
  <2>1. a = e.data
    BY <1>3 DEF Applied
  <2> QED BY <1>1, <1>3, <2>1, KindFacts
<1>4. CASE e.kind # "message" /\ old = Absent
  <2>1. a = Absent
    BY <1>4 DEF Applied
  <2> QED BY <1>4, <2>1, RecordFacts
<1>5. CASE e.kind = "edited" /\ old # Absent
  <2>1. a = [old EXCEPT !.text = e.data.text]
    BY <1>5 DEF Applied
  <2>2. a = [text |-> e.data.text, deleted |-> old.deleted, likes |-> old.likes, preview |-> old.preview]
    BY <1>1, <2>1 DEF Record
  <2>3. a["text"] = e.data["text"] /\ a["deleted"] = old["deleted"] /\ a["likes"] = old["likes"]
        /\ a["preview"] = old["preview"]
    BY <2>2
  <2>4. a \in Record
    BY <1>1, <2>2 DEF Record
  <2>5. \A F \in Fields \ Patched("edited") : a[F] = old[F]
    BY <2>3, KindFacts DEF Fields
  <2>6. Visible(a) /\ \A F \in Patched("edited") : a[F] = e.data[F]
    BY <1>2, <1>5, <2>3, KindFacts DEF Visible
  <2> QED BY <1>5, <2>4, <2>5, <2>6
<1>6. CASE e.kind = "deleted" /\ old # Absent
  <2>1. a = [Gone EXCEPT !.preview = old.preview]
    BY <1>6 DEF Applied
  <2>2. /\ a.text = Gone.text /\ a.deleted = Gone.deleted /\ a.likes = Gone.likes
        /\ a.preview = old.preview /\ Gone.deleted
    BY <2>1 DEF Gone, Absent
  <2>3. a \in Record
    <3>1. a = [text |-> 0, deleted |-> TRUE, likes |-> {}, preview |-> old.preview]
      BY <2>1 DEF Gone, Absent
    <3>2. old.preview \in BOOLEAN
      BY <1>1 DEF Record
    <3> QED BY <3>1, <3>2, MessagesAssumption DEF Record
  <2>4. \A F \in Patched("deleted") : a[F] = Gone[F]
    BY <2>2, KindFacts DEF Fields
  <2>5. \A F \in Fields \ Patched("deleted") : a[F] = old[F]
    BY <2>2, KindFacts DEF Fields
  <2> QED BY <1>2, <1>6, <2>2, <2>3, <2>4, <2>5 DEF Visible
<1>7. CASE e.kind = "reaction" /\ old # Absent
  <2>1. a = [old EXCEPT !.likes = e.data.likes]
    BY <1>7 DEF Applied
  <2>2. a = [text |-> old.text, deleted |-> old.deleted, likes |-> e.data.likes, preview |-> old.preview]
    BY <1>1, <2>1 DEF Record
  <2>3. a["text"] = old["text"] /\ a["deleted"] = old["deleted"] /\ a["likes"] = e.data["likes"]
        /\ a["preview"] = old["preview"]
    BY <2>2
  <2>4. a \in Record
    BY <1>1, <2>2 DEF Record
  <2>5. \A F \in Fields \ Patched("reaction") : a[F] = old[F]
    BY <2>3, KindFacts DEF Fields
  <2>6. /\ Visible(old) => Visible(a)
        /\ \A F \in Patched("reaction") : a[F] = e.data[F]
    BY <2>3, KindFacts DEF Visible
  <2> QED BY <1>7, <2>4, <2>5, <2>6
<1> QED BY <1>1, <1>3, <1>4, <1>5, <1>6, <1>7 DEF Kinds

LEMMA ReceiveRight == ASSUME SyncInv, Receive PROVE SyncInv'
<1> PICK e : e = inbox[1]
  OBVIOUS
<1> PICK len : len = Len(inbox)
  OBVIOUS
<1>1. /\ inbox # <<>> /\ inbox \in Seq(Events) /\ inbox' = Tail(inbox)
      /\ UNCHANGED <<store, stored, place, sending, pushes, link, loaded, active, fetch, reply, missed, overtaken, ops, faults>>
  BY SyncTypes DEF Receive, serverVars
<1>2. /\ inbox' \in Seq(Events) /\ len \in Nat /\ Head(inbox) = e /\ 1 \in DOMAIN inbox
      /\ DOMAIN inbox = 1..len /\ DOMAIN inbox' = 1..len - 1
      /\ \A i \in 1..len - 1 : inbox'[i] = inbox[i + 1]
  BY <1>1, Taken
<1> PICK m \in Messages : m = e.msg
  BY <1>2, SyncTypes
<1> PICK c \in Convs : c = Conv[m]
  BY SyncTypes
<1>3. e.at \in Nat /\ e.at <= pushes[c] /\ e.data \in Record /\ e.kind \in Kinds
  BY <1>2, SyncTypes DEF SyncInv, Numbered
<1>4. /\ \A x \in Messages : shown'[x] = IF x = m THEN Applied(e) ELSE shown[x]
      /\ \A d \in Convs : seen'[d] = IF d = c /\ e.at > seen[c] THEN e.at ELSE seen[d]
      /\ shown' \in [Messages -> Record] /\ seen' \in [Convs -> Nat]
  <2>1. Applied(e) \in Record
    BY <1>2, AppliedFacts
  <2>2. /\ shown' = [shown EXCEPT ![m] = Applied(e)]
        /\ seen' = [seen EXCEPT ![c] = IF e.at > seen[c] THEN e.at ELSE seen[c]]
    BY <1>2 DEF Receive, SyncInv, SyncTypeOK
  <2>3. shown \in [Messages -> Record] /\ seen \in [Convs -> Nat]
    BY DEF SyncInv, SyncTypeOK
  <2> QED BY <1>3, <2>1, <2>2, <2>3
<1>5. SyncTypeOK'
  <2>1. link # "up" => inbox' = <<>>
    BY <1>1 DEF SyncInv, SyncTypeOK
  <2> QED BY <1>1, <1>2, <1>4, <2>1 DEF SyncInv, SyncTypeOK, Of
<1>6. Numbered'
  <2>1. \A d \in Convs : seen'[d] <= pushes[d]
    BY <1>3, <1>4, SyncTypes
  <2>2. \A i \in DOMAIN inbox' : inbox'[i].at <= pushes[Conv[inbox'[i].msg]]
    <3> SUFFICES ASSUME NEW i \in DOMAIN inbox' PROVE inbox'[i].at <= pushes[Conv[inbox'[i].msg]]
      OBVIOUS
    <3>1. i + 1 \in DOMAIN inbox /\ inbox'[i] = inbox[i + 1]
      BY <1>2
    <3> QED BY <3>1 DEF SyncInv, Numbered
  <2> QED BY <1>1, <2>1, <2>2 DEF SyncInv, Numbered
<1>7. \A x \in Messages : (Born(x)' <=> Born(x)) /\ (Told(x)' <=> Told(x))
  BY <1>1 DEF Born, Told
<1>8. Births'
  <2> SUFFICES ASSUME NEW x \in Messages, ~Born(x) PROVE Unborn(x)'
    BY <1>1, <1>7 DEF SyncInv, Births, Visible
  <2>1. Unborn(x) /\ x # m
    BY <1>2 DEF SyncInv, Births, Unborn
  <2>2. ASSUME NEW i \in DOMAIN inbox' PROVE inbox'[i].msg # x
    <3>1. i + 1 \in DOMAIN inbox /\ inbox'[i] = inbox[i + 1]
      BY <1>2
    <3> QED BY <2>1, <3>1 DEF Unborn
  <2> QED BY <1>1, <1>4, <2>1, <2>2 DEF Unborn
<1>9. EventsInv'
  <2> SUFFICES ASSUME NEW i \in DOMAIN inbox' PROVE EventInv(i)'
    BY DEF EventsInv
  <2>1. i + 1 \in DOMAIN inbox /\ inbox'[i] = inbox[i + 1] /\ i \in Nat
    BY <1>2
  <2>2. EventInv(i + 1)
    BY <2>1 DEF SyncInv, EventsInv
  <2>3. ASSUME NEW F \in Patched(inbox'[i].kind),
               \A j \in 1..Len(inbox') :
                  inbox'[j].msg = inbox'[i].msg /\ F \in Patched(inbox'[j].kind) => j <= i
        PROVE  Right(inbox'[i].msg, inbox'[i].data, F)
    <3>1. ASSUME NEW j \in 1..Len(inbox), inbox[j].msg = inbox[i + 1].msg, F \in Patched(inbox[j].kind)
          PROVE  j <= i + 1
      <4>1. CASE j = 1
        BY <2>1, <4>1
      <4>2. CASE j # 1
        <5>1. j - 1 \in 1..Len(inbox') /\ inbox'[j - 1] = inbox[j] /\ j \in Nat
          <6>1. j - 1 \in DOMAIN inbox' /\ (j - 1) + 1 = j
            BY <1>2, <4>2
          <6> QED BY <1>2, <6>1
        <5>2. j - 1 <= i
          BY <2>1, <2>3, <3>1, <5>1
        <5> QED BY <2>1, <5>1, <5>2
      <4> QED BY <4>1, <4>2
    <3> QED BY <2>1, <2>2, <3>1 DEF EventInv
  <2> QED BY <1>1, <2>1, <2>2, <2>3 DEF EventInv, Right, Visible, Patched
<1>10. ASSUME NEW x \in Messages, NEW r, NEW n, Follows(x, r, n), x = m => ~(e.at > n)
       PROVE  Follows(x, r, n)'
  BY <1>1, <1>7, <1>10, FollowsTaken DEF Passed
<1>11. ASSUME NEW d \in Convs, NEW n \in Nat, n >= seen'[d]
       PROVE  n >= seen[d] /\ (d = c => ~(e.at > n))
  BY <1>3, <1>4, <1>11, SyncTypes
<1>12. FetchInv'
  <2> SUFFICES ASSUME NEW i \in Slots, fetch[i].state = "answered", fetch[i].at >= seen'[fetch[i].conv],
                      NEW x \in Of(fetch[i].conv)
               PROVE  Follows(x, fetch[i].data[x], fetch[i].at)'
    BY <1>1 DEF FetchInv, Of
  <2> PICK r, n, d : r = fetch[i].data[x] /\ n = fetch[i].at /\ d = fetch[i].conv
    OBVIOUS
  <2>1. d \in Convs /\ n \in Nat /\ n >= seen'[d] /\ x \in Messages /\ Conv[x] = d
    BY SyncTypes DEF Of
  <2>2. Follows(x, r, n) /\ (x = m => ~(e.at > n))
    BY <1>11, <2>1 DEF SyncInv, FetchInv
  <2>3. Follows(x, r, n)'
    BY <1>10, <2>1, <2>2
  <2> QED BY <1>1, <2>3 DEF Follows
<1>13. ReplyInv'
  <2> SUFFICES ASSUME NEW x \in Messages, reply[x] # NoReply
               PROVE  Told(x)' /\ (reply[x].at >= seen'[Conv[x]] => Follows(x, reply[x].data, reply[x].at)')
    BY <1>1 DEF ReplyInv
  <2> PICK r, n : r = reply[x].data /\ n = reply[x].at
    OBVIOUS
  <2>1. Told(x)' /\ n \in Nat /\ Conv[x] \in Convs /\ (n >= seen[Conv[x]] => Follows(x, r, n))
    BY <1>7, SyncTypes DEF SyncInv, ReplyInv
  <2>2. n >= seen'[Conv[x]] => Follows(x, r, n)'
    <3> SUFFICES ASSUME n >= seen'[Conv[x]] PROVE Follows(x, r, n)'
      OBVIOUS
    <3>1. n >= seen[Conv[x]] /\ (Conv[x] = c => ~(e.at > n))
      BY <1>11, <2>1
    <3>2. Follows(x, r, n) /\ (x = m => ~(e.at > n))
      BY <2>1, <3>1
    <3> QED BY <1>10, <3>2
  <2> QED BY <1>1, <2>1, <2>2 DEF Follows
<1>14. ASSUME Follows(m, shown[m], 0) PROVE Follows(m, shown[m], 0)'
  <2> PICK old, new : old = shown[m] /\ new = shown'[m]
    OBVIOUS
  <2>1. /\ new = Applied(e)
        /\ e.kind = "message" => new = e.data
        /\ e.kind # "message" /\ old = Absent => new = Absent
        /\ e.kind # "message" /\ Visible(old) =>
              Visible(new) /\ \A F \in Patched(e.kind) : new[F] = e.data[F]
        /\ \A F \in Fields \ Patched(e.kind) : new[F] = old[F]
    <3>1. 1 \in DOMAIN inbox /\ old = shown[e.msg]
      BY <1>2
    <3>2. new = Applied(e)
      BY <1>4
    <3>3. /\ e.kind = "message" => Applied(e) = e.data
          /\ e.kind # "message" /\ old = Absent => Applied(e) = Absent
          /\ e.kind # "message" /\ Visible(old) =>
                Visible(Applied(e)) /\ \A F \in Patched(e.kind) : Applied(e)[F] = e.data[F]
          /\ \A F \in Fields \ Patched(e.kind) : Applied(e)[F] = old[F]
      BY <3>1, AppliedFacts
    <3> QED BY <3>2, <3>3
  <2> SUFFICES ASSUME Told(m)'
               PROVE  /\ (\A i : About(i, m)' /\ inbox'[i].at > 0 => inbox'[i].kind # "message") =>
                            Visible(new) \/ (new = Absent /\ Passed(m))
                      /\ \A F \in Fields :
                            Visible(new) /\ (\A i : Sets(i, m, F)' => ~(inbox'[i].at > 0)) => Right(m, new, F)
    BY <1>1 DEF Follows, Passed, Right
  <2>2. ASSUME NEW i, About(i, m)
        PROVE  i = 1 \/ (i - 1 \in 1..len - 1 /\ About(i - 1, m)' /\ inbox'[i - 1] = inbox[i])
    <3>1. CASE i # 1
      <4>1. i - 1 \in 1..len - 1 /\ (i - 1) + 1 = i /\ i - 1 \in Nat
        BY <1>2, <2>2, <3>1 DEF About
      <4> QED BY <1>1, <1>2, <2>2, <4>1, Taken
    <3> QED BY <3>1
  <2>3. \A i : About(i, m) => inbox[i].at > 0
    <3> SUFFICES ASSUME NEW i, About(i, m) PROVE inbox[i].at > 0
      OBVIOUS
    <3>1. inbox[i] \in Events
      BY SyncTypes DEF About
    <3> QED BY <3>1 DEF Events
  <2>4. ASSUME \A i : About(i, m)' /\ inbox'[i].at > 0 => inbox'[i].kind # "message"
        PROVE  e.kind # "message" => Visible(old) \/ (old = Absent /\ Passed(m))
    <3>1. ASSUME e.kind # "message", NEW i, About(i, m) PROVE inbox[i].kind # "message"
      BY <2>2, <2>3, <2>4, <3>1
    <3> QED BY <1>7, <1>14, <3>1 DEF Follows
  <2>5. ASSUME \A i : About(i, m)' /\ inbox'[i].at > 0 => inbox'[i].kind # "message"
        PROVE  Visible(new) \/ (new = Absent /\ Passed(m))
    <3>1. CASE e.kind = "message"
      BY <1>2, <2>1, <3>1 DEF SyncInv, EventsInv, EventInv
    <3>2. CASE e.kind # "message"
      BY <2>1, <2>4, <2>5, <3>2
    <3> QED BY <3>1, <3>2
  <2>6. ASSUME NEW F \in Fields, Visible(new), \A i : Sets(i, m, F)' => ~(inbox'[i].at > 0)
        PROVE  Right(m, new, F)
    <3>1. ASSUME NEW i, Sets(i, m, F) PROVE i = 1
      <4> SUFFICES ASSUME i # 1 PROVE FALSE
        OBVIOUS
      <4>1. /\ About(i, m) /\ F \in Patched(inbox[i].kind)
            /\ About(i - 1, m)' /\ inbox'[i - 1] = inbox[i]
        BY <2>2, <3>1 DEF Sets
      <4> PICK k : k = i - 1
        OBVIOUS
      <4>2. Sets(k, m, F)' /\ inbox'[k].at > 0
        BY <2>3, <4>1 DEF Sets, Patched, About
      <4> QED BY <2>6, <4>2
    <3>2. e.kind # "message" => Visible(old)
      <4> SUFFICES ASSUME e.kind # "message" PROVE Visible(old)
        OBVIOUS
      <4>1. ASSUME NEW i, About(i, m)', inbox'[i].at > 0 PROVE inbox'[i].kind # "message"
        <5>1. CASE inbox'[i].kind = "message"
          <6>1. Sets(i, m, F)'
            BY <4>1, <5>1, KindFacts DEF Sets, Patched
          <6> QED BY <2>6, <4>1, <6>1
        <5> QED BY <5>1
      <4>2. Visible(old) \/ old = Absent
        BY <2>4, <4>1
      <4> QED BY <2>1, <2>6, <4>2, RecordFacts
    <3>3. CASE F \in Patched(e.kind)
      <4>1. Right(m, e.data, F)
        <5>1. \A j \in 1..Len(inbox) : inbox[j].msg = inbox[1].msg /\ F \in Patched(inbox[j].kind) => j <= 1
          BY <3>1 DEF Sets, About
        <5> QED BY <1>2, <3>3, <5>1 DEF SyncInv, EventsInv, EventInv
      <4>2. new[F] = e.data[F]
        BY <2>1, <3>2, <3>3
      <4> QED BY <4>1, <4>2 DEF Right
    <3>4. CASE F \notin Patched(e.kind)
      <4>1. \A i : ~Sets(i, m, F)
        BY <3>1, <3>4 DEF Sets
      <4>2. Visible(old)
        BY <3>2, <3>4, KindFacts
      <4>3. Right(m, old, F)
        BY <1>7, <1>14, <4>1, <4>2 DEF Follows
      <4> QED BY <2>1, <3>4, <4>3 DEF Right
    <3> QED BY <3>3, <3>4
  <2> QED BY <1>1, <2>5, <2>6
<1>15. PageInv'
  <2> SUFFICES ASSUME NEW x \in Messages, Conv[x] \in loaded \ (missed \cup overtaken)
               PROVE  Follows(x, shown[x], 0)'
    BY <1>1 DEF PageInv
  <2>1. Follows(x, shown[x], 0)
    BY DEF SyncInv, PageInv
  <2>2. CASE x = m
    BY <1>14, <2>1, <2>2
  <2>3. CASE x # m
    <3> PICK r : r = shown[x]
      OBVIOUS
    <3>1. Follows(x, r, 0)'
      BY <1>10, <2>1, <2>3
    <3>2. shown'[x] = r
      BY <1>4, <2>3
    <3> QED BY <3>1, <3>2 DEF Follows
  <2> QED BY <2>2, <2>3
<1> QED BY <1>5, <1>6, <1>8, <1>9, <1>12, <1>13, <1>15 DEF SyncInv

LEMMA DropRight == ASSUME SyncInv, Drop PROVE SyncInv'
<1> PICK gone : gone = {Conv[e.msg] : e \in Range(inbox)}
  OBVIOUS
<1>1. /\ faults < MaxFaults /\ faults' = faults + 1 /\ link' = "down" /\ inbox' = <<>>
      /\ missed' = missed \cup gone
      /\ seen' = [c \in Convs |-> IF c \in gone THEN pushes[c] ELSE seen[c]]
      /\ UNCHANGED <<store, stored, place, sending, pushes, shown, loaded, active, fetch, reply, overtaken, ops>>
  BY DEF Drop, serverVars, pageVars
<1>2. /\ gone \subseteq Convs
      /\ \A i \in DOMAIN inbox : Conv[inbox[i].msg] \in gone
  BY SyncTypes DEF Range
<1>3. /\ seen' \in [Convs -> Nat]
      /\ \A d \in Convs : seen'[d] = IF d \in gone THEN pushes[d] ELSE seen[d]
  BY <1>1, SyncTypes
<1>4. SyncTypeOK'
  <2>1. faults' \in 0..MaxFaults /\ missed' \subseteq Convs /\ inbox' \in Seq(Events)
    BY <1>1, <1>2, MessagesAssumption DEF SyncInv, SyncTypeOK
  <2> QED BY <1>1, <1>3, <2>1 DEF SyncInv, SyncTypeOK, Of
<1>5. Numbered'
  <2>1. \A d \in Convs : seen'[d] <= pushes[d]
    BY <1>3, SyncTypes
  <2> QED BY <1>1, <2>1 DEF SyncInv, Numbered
<1>6. \A x \in Messages : (Born(x)' <=> Born(x)) /\ (Told(x)' <=> Told(x))
  BY <1>1 DEF Born, Told
<1>7. Births'
  BY <1>1, <1>6 DEF SyncInv, Births, Unborn, Visible
<1>8. EventsInv'
  BY <1>1 DEF EventsInv
<1>9. ASSUME NEW x \in Messages, NEW r, NEW n \in Nat, Follows(x, r, n),
             Conv[x] \in gone => n >= pushes[Conv[x]]
      PROVE  Follows(x, r, n)'
  <2>1. ASSUME NEW i, About(i, x) PROVE ~(inbox[i].at > n)
    <3>1. i \in DOMAIN inbox /\ inbox[i].msg = x
      BY <2>1, SyncTypes DEF About
    <3>2. n >= pushes[Conv[x]] /\ inbox[i].at <= pushes[Conv[x]]
      BY <1>2, <1>9, <3>1 DEF SyncInv, Numbered
    <3> QED BY <3>1, <3>2, SyncTypes
  <2>2. Passed(x) => Passed(x)'
    BY <1>1 DEF Passed
  <2> QED BY <1>1, <1>6, <1>9, <2>1, <2>2, FollowsDone
<1>10. FetchInv'
  <2> SUFFICES ASSUME NEW i \in Slots, fetch[i].state = "answered", fetch[i].at >= seen'[fetch[i].conv],
                      NEW x \in Of(fetch[i].conv)
               PROVE  Follows(x, fetch[i].data[x], fetch[i].at)'
    BY <1>1 DEF FetchInv, Of
  <2> PICK r, n, d : r = fetch[i].data[x] /\ n = fetch[i].at /\ d = fetch[i].conv
    OBVIOUS
  <2>1. d \in Convs /\ n \in Nat /\ n >= seen'[d] /\ x \in Messages /\ Conv[x] = d
    BY SyncTypes DEF Of
  <2>2. n >= seen[d] /\ (d \in gone => n >= pushes[d])
    BY <1>3, <2>1, SyncTypes
  <2>3. Follows(x, r, n)'
    BY <1>9, <2>1, <2>2 DEF SyncInv, FetchInv
  <2> QED BY <1>1, <2>3 DEF Follows
<1>11. ReplyInv'
  <2> SUFFICES ASSUME NEW x \in Messages, reply[x] # NoReply
               PROVE  Told(x)' /\ (reply[x].at >= seen'[Conv[x]] => Follows(x, reply[x].data, reply[x].at)')
    BY <1>1 DEF ReplyInv
  <2> PICK r, n : r = reply[x].data /\ n = reply[x].at
    OBVIOUS
  <2>1. Told(x)' /\ n \in Nat /\ Conv[x] \in Convs /\ (n >= seen[Conv[x]] => Follows(x, r, n))
    BY <1>6, SyncTypes DEF SyncInv, ReplyInv
  <2>2. n >= seen'[Conv[x]] => n >= seen[Conv[x]] /\ (Conv[x] \in gone => n >= pushes[Conv[x]])
    BY <1>3, <2>1, SyncTypes
  <2>3. n >= seen'[Conv[x]] => Follows(x, r, n)'
    BY <1>9, <2>1, <2>2
  <2> QED BY <1>1, <2>1, <2>3 DEF Follows
<1>12. PageInv'
  <2> SUFFICES ASSUME NEW x \in Messages, Conv[x] \in loaded \ (missed' \cup overtaken)
               PROVE  Follows(x, shown[x], 0)'
    BY <1>1 DEF PageInv
  <2> PICK r : r = shown[x]
    OBVIOUS
  <2>1. Follows(x, r, 0) /\ Conv[x] \notin gone
    BY <1>1 DEF SyncInv, PageInv
  <2>2. Follows(x, r, 0)'
    BY <1>9, <2>1
  <2> QED BY <1>1, <2>2 DEF Follows
<1> QED BY <1>4, <1>5, <1>7, <1>8, <1>10, <1>11, <1>12 DEF SyncInv

(***************************************************************************)
(* The invariant, and what follows from it                                 *)
(***************************************************************************)
LEMMA SyncInitRight == Init => SyncInv
<1> SUFFICES ASSUME Init PROVE SyncInv
  OBVIOUS
<1>1. /\ store = [m \in Messages |-> Absent] /\ shown = [m \in Messages |-> Absent]
      /\ sending = [m \in Messages |-> "unsent"] /\ reply = [m \in Messages |-> NoReply]
      /\ pushes = [c \in Convs |-> 0] /\ seen = [c \in Convs |-> 0]
      /\ stored = [c \in Convs |-> 0] /\ place = [m \in Messages |-> 0]
      /\ link = "new" /\ inbox = <<>> /\ loaded = {} /\ active = NoConv
      /\ fetch = [i \in Slots |-> Idle] /\ missed = {} /\ overtaken = {} /\ ops = 0 /\ faults = 0
  BY DEF Init
<1>2. SyncTypeOK
  <2>1. /\ store \in [Messages -> Record] /\ shown \in [Messages -> Record]
        /\ reply \in [Messages -> [at: Nat, data: Record]]
    BY <1>1, RecordFacts, SlotFacts
  <2>2. \A m \in Messages : store[m].text <= ops + 1
    BY <1>1 DEF Absent
  <2>3. \A i \in Slots : fetch[i].state = "idle"
    BY <1>1, SlotFacts
  <2>4. inbox \in Seq(Events)
    BY <1>1
  <2> QED BY <1>1, <2>1, <2>2, <2>3, <2>4, MessagesAssumption DEF SyncTypeOK
<1>3. Numbered
  BY <1>1, SlotFacts, MessagesAssumption DEF Numbered
<1>4. Births
  BY <1>1, SlotFacts DEF Births, Born, Unborn
<1>5. EventsInv /\ FetchInv /\ ReplyInv /\ PageInv
  BY <1>1, SlotFacts DEF EventsInv, FetchInv, ReplyInv, PageInv
<1> QED BY <1>2, <1>3, <1>4, <1>5 DEF SyncInv

LEMMA SyncNextRight == ASSUME SyncInv, [Next]_vars PROVE SyncInv'
<1>1. ASSUME NEW m \in Messages, Store(m) PROVE SyncInv'
  BY <1>1, StoreRight
<1>2. ASSUME NEW m \in Messages, Deliver(m) PROVE SyncInv'
  BY <1>2, DeliverRight
<1>3. ASSUME NEW m \in Messages, DeliverFails(m) PROVE SyncInv'
  BY <1>3, DeliverFailsRight
<1>4. ASSUME NEW m \in Messages, Edit(m) PROVE SyncInv'
  BY <1>4, EditRight
<1>5. ASSUME NEW m \in Messages, Delete(m) PROVE SyncInv'
  BY <1>5, DeleteRight
<1>6. ASSUME NEW m \in Messages, SendText(m) PROVE SyncInv'
  BY <1>6, SendTextRight
<1>7. ASSUME NEW m \in Messages, Sent(m) PROVE SyncInv'
  BY <1>7, SentRight
<1>8. ASSUME NEW m \in Messages, NEW u \in Users, React(u, m) PROVE SyncInv'
  BY <1>8, ReactRight
<1>9. ASSUME NEW c \in Convs, Open(c) PROVE SyncInv'
  BY <1>9, OpenRight
<1>10. ASSUME NEW i \in Slots, History(i) PROVE SyncInv'
  BY <1>10, HistoryRight
<1>11. ASSUME NEW i \in Slots, Fetched(i) PROVE SyncInv'
  BY <1>11, FetchedRight
<1>12. ASSUME NEW i \in Slots, FetchFails(i) PROVE SyncInv'
  BY <1>12, FetchFailsRight
<1>13. CASE CloseActive
  BY <1>13, CloseRight
<1>14. CASE Receive
  BY <1>14, ReceiveRight
<1>15. CASE Drop
  BY <1>15, DropRight
<1>16. CASE Reconnect
  BY <1>16, ReconnectRight
<1>18. CASE Joined
  BY <1>18, JoinedRight
<1>17. CASE UNCHANGED vars
  <2>1. /\ UNCHANGED <<store, stored, place, pushes, inbox, shown, loaded, reply, historyVars, ops>>
        /\ UNCHANGED <<sending, fetch, link, active, faults>>
    BY <1>17 DEF vars, serverVars, pageVars
  <2>2. /\ sending' \in [Messages -> {"unsent", "posted", "stored", "pushed", "failed"}]
        /\ FetchStep /\ link' \in {"new", "up", "deaf", "down"} /\ (link' # "up" => inbox = <<>>)
        /\ active' \in Convs \cup {NoConv} /\ faults' \in 0..MaxFaults
    BY <2>1 DEF SyncInv, SyncTypeOK, FetchStep
  <2> QED BY <2>1, <2>2, PageMoves
<1> QED BY <1>1, <1>2, <1>3, <1>4, <1>5, <1>6, <1>7, <1>8, <1>9, <1>10, <1>11, <1>12, <1>13, <1>14,
           <1>15, <1>16, <1>17, <1>18 DEF Next

\* SyncInv is an invariant of the page and the server, for any messages, conversations and faults.
THEOREM SyncInvariance == Spec => []SyncInv
<1> QED BY SyncInitRight, SyncNextRight, PTL DEF Spec

\* Each variable of the page's messages keeps its type.
THEOREM SyncTypeCorrect == Spec => []TypeOK
<1>1. SyncInv => TypeOK
  <2> SUFFICES ASSUME SyncInv PROVE TypeOK
    OBVIOUS
  <2>1. \A c \in Convs : seen[c] \in 0..pushes[c]
    BY SyncTypes
  <2>2. \A e \in Range(inbox) : e.kind \in {"message", "edited", "deleted", "reaction"}
    BY SyncTypes DEF Range, Kinds
  <2>3. \A m \in Messages : reply[m].data \in Record
    BY SyncTypes
  <2>4. \A m \in Messages : place[m] \in 0..stored[Conv[m]]
    <3> SUFFICES ASSUME NEW m \in Messages PROVE place[m] \in 0..stored[Conv[m]]
      OBVIOUS
    <3>1. place[m] \in Nat /\ stored[Conv[m]] \in Nat /\ place[m] <= stored[Conv[m]]
      BY SyncTypes DEF SyncInv, SyncTypeOK, Numbered
    <3> QED BY <3>1
  <2> QED BY <2>1, <2>2, <2>3, <2>4 DEF SyncInv, SyncTypeOK, TypeOK
<1> QED BY <1>1, SyncInvariance, PTL

\* Once everything has arrived a page shows what the server has, or no more what no history
\* has any more, for any window, messages, conversations, users and faults.
THEOREM PageShowsTheStore == Spec => []PageConverges
<1>1. ASSUME SyncInv PROVE PageConverges
  <2> SUFFICES ASSUME Quiet, NEW m \in Messages, Conv[m] \in loaded \ (missed \cup overtaken)
               PROVE  Same(m) \/ (shown[m] = Absent /\ Passed(m))
    BY DEF PageConverges, Of
  <2>1. CASE Born(m) /\ Visible(shown[m])
    <3>1. Told(m) /\ \A i, F : ~Sets(i, m, F)
      BY <1>1, <2>1 DEF Quiet, Told, Born, Sets, About, SyncInv, SyncTypeOK
    <3>2. \A F \in Fields : Right(m, shown[m], F)
      BY <1>1, <2>1, <3>1 DEF SyncInv, PageInv, Follows
    <3>3. /\ shown[m].text = store[m].text /\ shown[m].deleted = store[m].deleted
          /\ shown[m].likes = store[m].likes
          /\ shown[m].preview = store[m].preview \/ store[m].deleted
      BY <3>2 DEF Right, Fields
    <3> PICK a, b : a = shown[m] /\ b = store[m]
      OBVIOUS
    <3>4. a \in Record /\ b \in Record
      BY <1>1, SyncTypes
    <3>5. a = [b EXCEPT !.preview = a.preview]
      BY <3>3, <3>4 DEF Record
    <3>6. a.preview = b.preview => a = b
      BY <3>4, <3>5 DEF Record
    <3> QED BY <3>3, <3>5, <3>6 DEF Same
  <2>2. CASE Born(m) /\ ~Visible(shown[m])
    <3>1. Told(m) /\ \A i : ~About(i, m)
      BY <1>1, <2>2 DEF Quiet, Told, Born, About, SyncInv, SyncTypeOK
    <3> QED BY <1>1, <2>2, <3>1 DEF SyncInv, PageInv, Follows
  <2>3. CASE ~Born(m)
    BY <1>1, <2>3 DEF SyncInv, Births, Unborn, Same
  <2> QED BY <2>1, <2>2, <2>3
<1> QED BY <1>1, SyncInvariance, PTL

(***************************************************************************)
(* The composer: the inductive invariant                                   *)
(***************************************************************************)
Stages == {"none", "asking", "on", "stopping", "lost"}
NotesTypeOK ==
    /\ note \in [Notes -> Stages] /\ noteFor = [n \in Notes |-> noteFor[n]]
    /\ recorder \subseteq Notes /\ recording \in BOOLEAN /\ opened \in Opt
    /\ \A u \in uploads : u.what \in Things

\* Nothing in hand, and nothing that was sent, is of another conversation.
AtHome ==
    /\ \A c \in {text, replying, editing, menu} : c \in {NoChat, opened}
    /\ \A n \in OnItsWay : noteFor[n][2] \in {NoChat, noteFor[n][1]}
    /\ \A u \in uploads : "draft" \notin Strays(u)
DraftAtHome == "draft" \notin carried => AtHome

\* A note is recorded in the open conversation.
NoteAtHome ==
    "note" \notin carried =>
        /\ \A n \in OnItsWay : noteFor[n][1] = opened
        /\ \A u \in uploads : "note" \notin Strays(u)

\* One recorder runs, or is about to deliver, at a time.
Captures(n) == note[n] \in {"on", "stopping"}
OneAtATime == ~twice => \A m, n \in Notes : Captures(m) /\ Captures(n) => m = n

ComposerInv ==
    NotesTypeOK /\ DraftAtHome /\ NoteAtHome /\ OneAtATime /\ SentWhereWritten /\ MicShown

LEMMA ComposerInitRight == ComposerInit => ComposerInv
<1> SUFFICES ASSUME ComposerInit PROVE ComposerInv
  OBVIOUS
<1> USE DEF ComposerInit
<1>1. OnItsWay = {}
  BY DEF OnItsWay
<1>2. NotesTypeOK
  BY DEF NotesTypeOK, Stages, Opt
<1>3. DraftAtHome /\ NoteAtHome
  BY <1>1 DEF DraftAtHome, AtHome, NoteAtHome
<1>4. OneAtATime /\ SentWhereWritten /\ MicShown
  BY DEF OneAtATime, Captures, SentWhereWritten, MicShown
<1> QED BY <1>2, <1>3, <1>4 DEF ComposerInv

(***************************************************************************)
(* Opening a conversation                                                  *)
(***************************************************************************)
\* With nothing in hand there is no text, no message and no note.
LEMMA EmptyHands ==
    /\ "draft" \notin InHand => text = NoChat /\ replying = NoChat /\ editing = NoChat /\ menu = NoChat
    /\ "note" \notin InHand => OnItsWay = {}
BY DEF InHand

LEMMA SwitchRight == ASSUME ComposerInv, NEW c \in Chats, open(c) PROVE ComposerInv'
<1> USE DEF ComposerInv, open
<1>1. UNCHANGED <<note, noteFor, recorder, recording, twice, uploads, astray, replying, editing>>
  BY DEF noteVars, sendVars
<1>2. OnItsWay' = OnItsWay
  BY <1>1 DEF OnItsWay
<1>3. NotesTypeOK'
  BY <1>1 DEF NotesTypeOK, Opt
<1>4. DraftAtHome'
  <2> SUFFICES ASSUME "draft" \notin carried' PROVE AtHome'
    BY DEF DraftAtHome
  <2>1. text' = NoChat /\ menu' = NoChat /\ replying' = NoChat /\ editing' = NoChat
    BY <1>1, EmptyHands
  <2>2. \A u \in uploads' : "draft" \notin Strays(u)
    BY <1>1 DEF DraftAtHome, AtHome
  <2>3. \A n \in OnItsWay' : noteFor'[n][2] \in {NoChat, noteFor'[n][1]}
    BY <1>1, <1>2 DEF DraftAtHome, AtHome
  <2> QED BY <2>1, <2>2, <2>3 DEF AtHome, Strays
<1>5. NoteAtHome'
  BY <1>1, <1>2, EmptyHands DEF NoteAtHome, Strays
<1>6. OneAtATime' /\ SentWhereWritten' /\ MicShown'
  BY <1>1 DEF OneAtATime, Captures, SentWhereWritten, MicShown
<1> QED BY <1>3, <1>4, <1>5, <1>6

LEMMA RemovedRight == ASSUME ComposerInv, removed PROVE ComposerInv'
<1> USE DEF ComposerInv, removed
<1>1. UNCHANGED <<replying, editing, menu, twice, uploads, astray>>
  BY DEF sendVars
<1>2. note' \in [Notes -> Stages] /\ noteFor' = [m \in Notes |-> noteFor'[m]]
  <2>1. \A n \in Notes : note[n] \in Stages
    BY DEF NotesTypeOK
  <2> QED BY <2>1 DEF Stages
<1>3. NotesTypeOK'
  BY <1>1, <1>2 DEF NotesTypeOK, Opt
<1>4. \A n \in Notes : note'[n] \in {"on", "stopping", "asking"} => note'[n] = "stopping" /\ note[n] = "stopping"
                                                                /\ noteFor'[n] = noteFor[n]
  BY <1>2 DEF NotesTypeOK, Stages
<1>5. OnItsWay' \subseteq OnItsWay /\ \A n \in OnItsWay' : noteFor'[n] = noteFor[n]
  BY <1>2, <1>4 DEF OnItsWay, NotesTypeOK, Stages
<1>6. DraftAtHome'
  <2> SUFFICES ASSUME "draft" \notin carried' PROVE AtHome'
    BY DEF DraftAtHome
  <2>1. text' = NoChat /\ menu' = NoChat /\ replying' = NoChat /\ editing' = NoChat
    BY <1>1, EmptyHands
  <2>2. \A u \in uploads' : "draft" \notin Strays(u)
    BY <1>1 DEF DraftAtHome, AtHome
  <2>3. \A n \in OnItsWay' : noteFor'[n][2] \in {NoChat, noteFor'[n][1]}
    BY <1>5 DEF DraftAtHome, AtHome
  <2> QED BY <2>1, <2>2, <2>3 DEF AtHome, Strays
<1>7. NoteAtHome'
  BY <1>1, <1>5, EmptyHands DEF NoteAtHome, Strays
<1>8. OneAtATime' /\ SentWhereWritten' /\ MicShown'
  BY <1>1, <1>4 DEF OneAtATime, Captures, SentWhereWritten, MicShown
<1> QED BY <1>3, <1>6, <1>7, <1>8

(***************************************************************************)
(* Text, replies, edits and files                                          *)
(***************************************************************************)
\* Whatever leaves the notes and the open conversation alone, sends nothing stray and
\* keeps what is in hand at home.
LEMMA HandRight ==
    ASSUME ComposerInv,
           UNCHANGED <<opened, noteVars, carried>>, astray' = {},
           "draft" \notin carried => \A c \in {text', replying', editing', menu'} : c \in {NoChat, opened},
           \A u \in uploads' \ uploads : /\ u.what \in Things
                                         /\ "draft" \notin carried => "draft" \notin Strays(u)
                                         /\ "note" \notin carried => "note" \notin Strays(u)
    PROVE  ComposerInv'
<1> USE DEF ComposerInv, noteVars
<1>1. OnItsWay' = OnItsWay
  BY DEF OnItsWay
<1>2. NotesTypeOK' /\ OneAtATime' /\ MicShown' /\ SentWhereWritten'
  BY DEF NotesTypeOK, OneAtATime, Captures, MicShown, SentWhereWritten
<1>3. DraftAtHome'
  BY <1>1 DEF DraftAtHome, AtHome, Strays
<1>4. NoteAtHome'
  BY <1>1 DEF NoteAtHome, Strays
<1> QED BY <1>2, <1>3, <1>4

\* What is sent from a hand at home does not stray, and else it was carried.
LEMMA HelpersRight ==
    ASSUME DraftAtHome, NEW e, NEW r, Helpers(e, r),
           "draft" \notin carried => e \in {NoChat, opened} /\ r \in {NoChat, opened}
    PROVE  "draft" \notin carried => \A c \in {text', replying', editing'} : c \in {NoChat, opened}
BY DEF DraftAtHome, AtHome, Helpers

LEMMA WritingRight ==
    ASSUME ComposerInv, Type \/ onOpenMenu \/ close \/ Chooses \/ onCancel
    PROVE  ComposerInv'
<1> USE DEF ComposerInv, sendVars, SentWhereWritten
<1>1. CASE Type \/ onOpenMenu \/ close
  BY <1>1, HandRight DEF Type, onOpenMenu, close, DraftAtHome, AtHome
<1>2. CASE Chooses
  <2>1. UNCHANGED <<opened, noteVars, carried, uploads>> /\ menu' = NoChat
    BY <1>2 DEF Chooses
  <2>2. "draft" \notin carried => menu \in {NoChat, opened}
    BY DEF DraftAtHome, AtHome
  <2>3. astray' = {}
    BY <1>2, <2>2 DEF Chooses
  <2>4. "draft" \notin carried => \A c \in {text', replying', editing'} : c \in {NoChat, opened}
    BY <1>2, <2>2, HelpersRight DEF Chooses, DraftAtHome, AtHome
  <2> QED BY <2>1, <2>3, <2>4, HandRight
<1>3. CASE onCancel
  <2>1. UNCHANGED <<opened, menu, noteVars, carried, uploads, astray>>
    BY <1>3 DEF onCancel
  <2>2. "draft" \notin carried => \A c \in {text', replying', editing'} : c \in {NoChat, opened}
    BY <1>3, HelpersRight DEF onCancel, DraftAtHome, AtHome
  <2>3. "draft" \notin carried => menu' \in {NoChat, opened}
    BY <2>1 DEF DraftAtHome, AtHome
  <2> QED BY <2>1, <2>2, <2>3, HandRight
<1> QED BY <1>1, <1>2, <1>3

LEMMA SendingRight == ASSUME ComposerInv, handleSend \/ pickFile PROVE ComposerInv'
<1> USE DEF ComposerInv, SentWhereWritten
<1>1. CASE handleSend
  <2>1. UNCHANGED <<opened, menu, noteVars, carried, uploads>>
    BY <1>1 DEF handleSend
  <2>2. "draft" \notin carried => \A c \in {text, replying, editing, menu} : c \in {NoChat, opened}
    BY DEF DraftAtHome, AtHome
  <2>3. astray' = {}
    BY <1>1, <2>2 DEF handleSend, Strays
  <2> QED BY <1>1, <2>1, <2>2, <2>3, HandRight DEF handleSend
<1>2. CASE pickFile
  <2>1. UNCHANGED <<opened, text, replying, editing, menu, noteVars, carried, astray>>
    BY <1>2 DEF pickFile, handVars
  <2>2. "draft" \notin carried => \A c \in {text, replying, editing, menu} : c \in {NoChat, opened}
    BY DEF DraftAtHome, AtHome
  <2>3. \A u \in uploads' \ uploads :
           u = [what |-> "draft", to |-> opened, of |-> opened, about |-> replying]
    BY <1>2 DEF pickFile, Sends
  <2>4. \A u \in uploads' \ uploads :
           u.what \in Things /\ "note" \notin Strays(u) /\ ("draft" \notin carried => "draft" \notin Strays(u))
    BY <2>2, <2>3 DEF Strays, Things
  <2> QED BY <2>1, <2>2, <2>4, HandRight
<1> QED BY <1>1, <1>2

LEMMA UploadedRight ==
    ASSUME ComposerInv, NEW u \in uploads, SendDone(u) \/ SendFails(u)
    PROVE  ComposerInv'
<1> USE DEF ComposerInv, SentWhereWritten
<1>1. /\ UNCHANGED <<opened, text, replying, editing, menu, noteVars, carried>>
      /\ uploads' = uploads \ {u}
  BY DEF SendDone, SendFails, handVars
<1>2. Strays(u) \subseteq carried
  <2>1. Strays(u) \subseteq {"draft", "note"}
    BY DEF Strays, NotesTypeOK, Things
  <2>2. "draft" \notin carried => "draft" \notin Strays(u)
    BY DEF DraftAtHome, AtHome
  <2>3. "note" \notin carried => "note" \notin Strays(u)
    BY DEF NoteAtHome
  <2> QED BY <2>1, <2>2, <2>3
<1>3. astray' = {}
  BY <1>2 DEF SendDone, SendFails
<1> QED BY <1>1, <1>3, HandRight DEF DraftAtHome, AtHome

(***************************************************************************)
(* Voice notes                                                             *)
(***************************************************************************)
LEMMA RecordRight == ASSUME ComposerInv, NEW n \in Notes, toggleRecord(n) PROVE ComposerInv'
<1> USE DEF ComposerInv, toggleRecord, Moves
<1>1. UNCHANGED <<opened, text, replying, editing, menu, recorder, recording, twice, uploads, astray, carried>>
  BY DEF handVars, sendVars
<1>2. CASE n \in recorder /\ Moves(n, "on", "stopping") /\ UNCHANGED noteFor
  <2>1. /\ note' \in [Notes -> Stages] /\ note[n] = "on" /\ note'[n] = "stopping"
        /\ \A m \in Notes \ {n} : note'[m] = note[m]
    BY <1>2 DEF NotesTypeOK, Stages
  <2>2. OnItsWay' = OnItsWay
    BY <2>1 DEF OnItsWay
  <2>3. NotesTypeOK' /\ DraftAtHome' /\ NoteAtHome'
    BY <1>1, <1>2, <2>1, <2>2 DEF NotesTypeOK, DraftAtHome, AtHome, NoteAtHome, Strays
  <2>4. \A m \in Notes : Captures(m)' <=> Captures(m)
    BY <2>1 DEF Captures
  <2>5. OneAtATime'
    BY <1>1, <2>4 DEF OneAtATime
  <2>6. MicShown'
    BY <1>1, <2>1 DEF MicShown, NotesTypeOK
  <2> QED BY <1>1, <2>3, <2>5, <2>6 DEF SentWhereWritten
<1>3. CASE /\ Moves(n, "none", "asking")
           /\ noteFor' = [noteFor EXCEPT ![n] = <<opened, replying>>]
  <2>1. /\ note' \in [Notes -> Stages] /\ note[n] = "none" /\ note'[n] = "asking"
        /\ noteFor'[n][1] = opened /\ noteFor'[n][2] = replying
        /\ noteFor' = [m \in Notes |-> noteFor'[m]]
        /\ \A m \in Notes \ {n} : note'[m] = note[m] /\ noteFor'[m] = noteFor[m]
    BY <1>3 DEF NotesTypeOK, Stages
  <2>2. OnItsWay' = OnItsWay \cup {n}
    BY <2>1 DEF OnItsWay
  <2>3. NotesTypeOK'
    BY <1>1, <1>3, <2>1 DEF NotesTypeOK
  <2>4. /\ DraftAtHome'
        /\ NoteAtHome'
    <3>1. \A m \in OnItsWay' : m = n \/ (m \in OnItsWay /\ noteFor'[m] = noteFor[m])
      BY <2>1, <2>2 DEF OnItsWay
    <3>2. "draft" \notin carried => replying \in {NoChat, opened}
      BY DEF DraftAtHome, AtHome
    <3>3. "draft" \notin carried => \A m \in OnItsWay' : noteFor'[m][2] \in {NoChat, noteFor'[m][1]}
      BY <2>1, <3>1, <3>2 DEF DraftAtHome, AtHome
    <3>4. "note" \notin carried => \A m \in OnItsWay' : noteFor'[m][1] = opened
      BY <2>1, <3>1 DEF NoteAtHome
    <3> QED BY <1>1, <3>3, <3>4 DEF DraftAtHome, AtHome, NoteAtHome, Strays
  <2>5. \A m \in Notes : Captures(m)' <=> Captures(m)
    BY <2>1 DEF Captures
  <2>6. OneAtATime'
    BY <1>1, <2>5 DEF OneAtATime
  <2>7. MicShown'
    BY <1>1, <2>1 DEF MicShown, NotesTypeOK
  <2> QED BY <1>1, <2>3, <2>4, <2>6, <2>7 DEF SentWhereWritten
<1> QED BY <1>2, <1>3

LEMMA GrantedRight == ASSUME ComposerInv, NEW n \in Notes, Granted(n) PROVE ComposerInv'
<1> USE DEF ComposerInv, Granted, Moves
<1>1. UNCHANGED <<opened, text, replying, editing, menu, noteFor, uploads, astray, carried>>
  BY DEF handVars, sendVars
<1>2. /\ note' \in [Notes -> Stages] /\ note[n] = "asking" /\ note'[n] = "on"
      /\ \A m \in Notes \ {n} : note'[m] = note[m]
  BY DEF NotesTypeOK, Stages
<1>3. OnItsWay' = OnItsWay
  BY <1>2 DEF OnItsWay
<1>4. NotesTypeOK' /\ DraftAtHome' /\ NoteAtHome'
  BY <1>1, <1>2, <1>3 DEF NotesTypeOK, DraftAtHome, AtHome, NoteAtHome, Strays
<1>5. ~twice' => ~twice /\ \A m \in Notes : ~Captures(m)
  BY DEF Captures
<1>6. OneAtATime' /\ MicShown'
  BY <1>2, <1>5 DEF OneAtATime, Captures, MicShown
<1> QED BY <1>1, <1>4, <1>6 DEF SentWhereWritten

LEMMA DeniedRight == ASSUME ComposerInv, NEW n \in Notes, Denied(n) PROVE ComposerInv'
<1> USE DEF ComposerInv, Denied, Moves
<1>1. UNCHANGED <<opened, text, replying, editing, menu, recorder, recording, twice, uploads, astray, carried>>
  BY DEF handVars, sendVars
<1>2. /\ note' \in [Notes -> Stages] /\ note[n] = "asking" /\ note'[n] = "none"
      /\ \A m \in Notes \ {n} : note'[m] = note[m] /\ noteFor'[m] = noteFor[m]
      /\ noteFor' = [m \in Notes |-> noteFor'[m]]
  BY DEF NotesTypeOK, Stages, Opt
<1>3. OnItsWay' = OnItsWay \ {n}
  BY <1>2 DEF OnItsWay
<1>4. NotesTypeOK' /\ DraftAtHome' /\ NoteAtHome'
  BY <1>1, <1>2, <1>3 DEF NotesTypeOK, DraftAtHome, AtHome, NoteAtHome, Strays
<1>5. OneAtATime' /\ MicShown'
  BY <1>1, <1>2 DEF OneAtATime, Captures, MicShown
<1> QED BY <1>1, <1>4, <1>5 DEF SentWhereWritten

LEMMA StoppedRight == ASSUME ComposerInv, NEW n \in Notes, onstop(n) PROVE ComposerInv'
<1> USE DEF ComposerInv, onstop, Moves
<1>1. UNCHANGED <<opened, text, replying, editing, menu, recorder, twice, astray, carried>>
  BY DEF handVars
<1>2. /\ note' \in [Notes -> Stages] /\ note[n] = "stopping" /\ note'[n] = "none"
      /\ \A m \in Notes \ {n} : note'[m] = note[m] /\ noteFor'[m] = noteFor[m]
      /\ noteFor' = [m \in Notes |-> noteFor'[m]] /\ recording' \in BOOLEAN
  BY DEF NotesTypeOK, Stages, Opt
<1>3. OnItsWay' = OnItsWay \ {n} /\ n \in OnItsWay
  BY <1>2 DEF OnItsWay
<1>4. \A u \in uploads' \ uploads :
         u = [what |-> "note", to |-> opened, of |-> noteFor[n][1], about |-> noteFor[n][2]]
  BY DEF Sends
<1>5. ASSUME NEW u \in uploads' \ uploads
      PROVE  /\ u.what = "note"
             /\ "draft" \notin carried => "draft" \notin Strays(u)
             /\ "note" \notin carried => "note" \notin Strays(u)
  <2>1. u.what = "note" /\ u.to = opened /\ u.of = noteFor[n][1] /\ u.about = noteFor[n][2]
    BY <1>4
  <2>2. "draft" \notin carried => u.about \in {u.of, NoChat}
    BY <1>3, <2>1 DEF DraftAtHome, AtHome
  <2>3. "note" \notin carried => u.of = u.to
    BY <1>3, <2>1 DEF NoteAtHome
  <2> QED BY <2>1, <2>2, <2>3 DEF Strays
<1>6. NotesTypeOK'
  BY <1>1, <1>2, <1>5 DEF NotesTypeOK, Things
<1>7. DraftAtHome' /\ NoteAtHome'
  BY <1>1, <1>2, <1>3, <1>5 DEF DraftAtHome, AtHome, NoteAtHome, Strays
<1>8. OneAtATime'
  BY <1>1, <1>2 DEF OneAtATime, Captures
<1>9. MicShown'
  <2>1. ~twice => \A m \in Notes \ {n} : note[m] \notin {"on", "stopping"}
    BY <1>2 DEF OneAtATime, Captures
  <2>2. ~twice => \A m \in Notes : note'[m] # "on"
    BY <1>2, <2>1
  <2>3. recording' => recording /\ n \notin recorder
    BY DEF NotesTypeOK
  <2>4. ~twice /\ recording => n \in recorder
    BY <2>1 DEF MicShown, NotesTypeOK
  <2> QED BY <1>1, <2>2, <2>3, <2>4 DEF MicShown
<1> QED BY <1>1, <1>6, <1>7, <1>8, <1>9 DEF SentWhereWritten

\* The inductive invariant holds in every state the composer can be in.
THEOREM ComposerInvariance == ComposerSpec => []ComposerInv
<1>1. ComposerInit => ComposerInv
  BY ComposerInitRight
<1>2. ComposerInv /\ [ComposerNext]_composerVars => ComposerInv'
  <2> SUFFICES ASSUME ComposerInv, [ComposerNext]_composerVars PROVE ComposerInv'
    OBVIOUS
  <2>1. CASE ComposerNext
    BY <2>1, SwitchRight, RemovedRight, WritingRight, SendingRight, UploadedRight, RecordRight,
       GrantedRight, DeniedRight, StoppedRight DEF ComposerNext, Composes
  <2>2. CASE UNCHANGED composerVars
    <3>1. UNCHANGED <<opened, noteVars, carried>> /\ uploads' = uploads /\ astray' = astray
          /\ UNCHANGED <<text, replying, editing, menu>>
      BY <2>2 DEF composerVars, handVars, sendVars
    <3>2. "draft" \notin carried => \A c \in {text, replying, editing, menu} : c \in {NoChat, opened}
      BY DEF ComposerInv, DraftAtHome, AtHome
    <3> QED BY <3>1, <3>2, HandRight DEF ComposerInv, SentWhereWritten
  <2> QED BY <2>1, <2>2
<1> QED BY <1>1, <1>2, PTL DEF ComposerSpec

\* What is written in a conversation is sent to it (onSend, sendMedia and the recorder's
\* onstop), unless another one was opened with it in hand.
THEOREM NothingStrays == ComposerSpec => []SentWhereWritten
<1>1. ComposerInv => SentWhereWritten
  BY DEF ComposerInv
<1> QED BY <1>1, ComposerInvariance, PTL

\* The composer shows that it records exactly while its microphone is captured (toggleRecord
\* of composer-bar.tsx), unless a second recording was begun before the first was over.
THEOREM MicIsShown == ComposerSpec => []MicShown
<1>1. ComposerInv => MicShown
  BY DEF ComposerInv
<1> QED BY <1>1, ComposerInvariance, PTL
=============================================================================

----------------------------- MODULE CallProofs -----------------------------
(***************************************************************************)
(* Calls, for any users, conversations, calls and joins, in three parts:   *)
(* the call service; its pages, which CallClients puts on top of it; and   *)
(* what a page captures and sends (CallMedia, whose proof stands by        *)
(* itself: it shares no name with the others).                             *)
(***************************************************************************)
EXTENDS CallClients, CallMedia, Integers, SequenceTheorems, FunctionTheorems, FiniteSetTheorems, TLAPS

(***************************************************************************)
(* The call service                                                        *)
(*                                                                         *)
(* The safety properties are not inductive.  What carries them from step   *)
(* to step is the bookkeeping below: where everybody a call was rung for   *)
(* is at each moment, and which calls the suspended accepts, the events    *)
(* and the tokens may be about.                                            *)
(***************************************************************************)
\* A call that was not placed is unknown to everything else.
UnplacedIsUnknown ==
    \A c \in CallIds : call[c].status = "unplaced" =>
        /\ call[c] = Unplaced
        /\ c \notin calls
        /\ \A e \in sent : e.call # c
        /\ \A t \in tokens : t.call # c

\* While a call exists, everybody it concerns is on its roster or left it.
RosterComplete ==
    \A c \in calls, u \in Users : Rung(c, u) \/ u = call[c].from =>
        u \in call[c].callees \cup call[c].joined \/ <<c, u>> \in left

\* The callees were rung, are not in the call yet, and do not include the
\* caller; only the caller is in a call that nobody answered.
RosterSound ==
    \A c \in CallIds :
        /\ \A u \in call[c].callees : Rung(c, u)
        /\ call[c].callees \cap call[c].joined = {}
        /\ call[c].from \notin call[c].callees
        /\ call[c].status # "unplaced" => call[c].from \in Users
        /\ c \in calls /\ call[c].status = "ringing" => call[c].joined = {call[c].from}

\* accept() suspends only for someone rung, in a call that is answered by it.
AcceptingSound ==
    \A c \in CallIds, u \in Users : <<c, u>> \in accepting =>
        Rung(c, u) /\ call[c].status = "active"

IInv ==
    /\ TypeOK
    /\ UnplacedIsUnknown
    /\ RosterComplete
    /\ RosterSound
    /\ AcceptingSound
    /\ EveryoneTold
    /\ NoEarlyEnd
    /\ LiveCallHasParticipants
    /\ TimerGuardsRinging
    /\ MissedMeansUnanswered
    /\ TokensOnlyForInvited

USE DEF Over, Placed

\* What hub.pushToUsers adds: an event for each user of the set, nothing else.
LEMMA PushFacts ==
  ASSUME NEW S, NEW type, NEW c
  PROVE  /\ \A e \in Push(S, type, c) : e.to \in S /\ e.type = type /\ e.call = c
         /\ \A x \in S : \E e \in Push(S, type, c) : e.to = x /\ e.type = type /\ e.call = c
<1> DEFINE event(x) == [to |-> x, type |-> type, call |-> c]
<1>1. \A x : event(x).to = x /\ event(x).type = type /\ event(x).call = c
  OBVIOUS
<1>2. Push(S, type, c) = {event(x) : x \in S}
  BY DEF Push
<1> HIDE DEF event
<1> QED BY <1>1, <1>2

\* The fields of a call object after each way the handlers change one.
LEMMA JoinFields ==
  ASSUME NEW r \in Call, NEW u \in Users
  PROVE  /\ Join(r, u) \in Call
         /\ Join(r, u).mode = r.mode /\ Join(r, u).from = r.from
         /\ Join(r, u).status = "active" /\ Join(r, u).timer = FALSE
         /\ Join(r, u).callees = r.callees \ {u}
         /\ Join(r, u).joined = r.joined \cup {u}
  BY DEF Join, Call

LEMMA LeaveFields ==
  ASSUME NEW r \in Call, NEW u \in Users
  PROVE  /\ Leave(r, u) \in Call
         /\ Leave(r, u).mode = r.mode /\ Leave(r, u).from = r.from
         /\ Leave(r, u).status = r.status /\ Leave(r, u).timer = r.timer
         /\ Leave(r, u).callees = r.callees \ {u}
         /\ Leave(r, u).joined = r.joined \ {u}
  BY DEF Leave, Call

LEMMA DisarmFields ==
  ASSUME NEW r \in Call
  PROVE  /\ Disarm(r) \in Call
         /\ Disarm(r).mode = r.mode /\ Disarm(r).from = r.from
         /\ Disarm(r).status = r.status /\ Disarm(r).timer = FALSE
         /\ Disarm(r).callees = r.callees /\ Disarm(r).joined = r.joined
  BY DEF Disarm, Call

----------------------------------------------------------------------------
(***************************************************************************)
(* Init and the steps one by one.                                          *)
(***************************************************************************)

\* The invariant holds of the empty map a process starts with.
LEMMA InitIInv == Init => IInv
<1> SUFFICES ASSUME Init PROVE IInv
  OBVIOUS
<1> USE DEF Init
<1>1. TypeOK
  BY DEF TypeOK, Unplaced, Call
<1>2. UnplacedIsUnknown /\ RosterComplete /\ AcceptingSound
  BY DEF UnplacedIsUnknown, RosterComplete, AcceptingSound
<1>3. RosterSound
  BY ConvAssumption DEF RosterSound, Unplaced
<1>4. EveryoneTold /\ NoEarlyEnd /\ LiveCallHasParticipants
  BY DEF EveryoneTold, NoEarlyEnd, LiveCallHasParticipants, ToldOver, Unplaced
<1>5. TimerGuardsRinging /\ MissedMeansUnanswered /\ TokensOnlyForInvited
  BY DEF TimerGuardsRinging, MissedMeansUnanswered, TokensOnlyForInvited, Unplaced
<1> QED BY <1>1, <1>2, <1>3, <1>4, <1>5 DEF IInv

\* place() brings a fresh call into the map with everybody on its roster.
LEMMA PlaceIInv ==
  ASSUME IInv, NEW u \in Users, NEW v \in Convs, NEW c \in CallIds, Place(u, v, c)
  PROVE  IInv'
<1> DEFINE ring == Push(Invitees(v, u), "call-incoming", c)
<1> USE DEF IInv, Place
<1>0. /\ Invitees(v, u) \in SUBSET Users
      /\ u \notin Invitees(v, u)
      /\ Mode[v] \in {"call", "broadcast"}
  BY ConvAssumption DEF Invitees, IsMember
<1>1. /\ call'[c] = [mode |-> Mode[v], from |-> u, callees |-> Invitees(v, u),
                     joined |-> {u}, status |-> "ringing", timer |-> TRUE]
      /\ \A d \in CallIds : d # c => call'[d] = call[d]
  BY DEF TypeOK
<1>2. /\ c \notin calls
      /\ \A e \in sent : e.call # c
      /\ \A t \in tokens : t.call # c
  BY DEF UnplacedIsUnknown
<1>3. /\ \A d \in CallIds, x \in Users :
            Rung(d, x)' <=> Rung(d, x) \/ (d = c /\ x \in Invitees(v, u))
      /\ \A d \in CallIds, x \in Users : ToldOver(d, x)' <=> ToldOver(d, x)
      /\ \A x \in Users : ~Rung(c, x) /\ ~ToldOver(c, x)
  <2>1. sent' = sent \cup ring
    OBVIOUS
  <2>2. /\ \A e \in ring : e.to \in Invitees(v, u) /\ e.type = "call-incoming" /\ e.call = c
        /\ \A x \in Invitees(v, u) : \E e \in ring :
              e.to = x /\ e.type = "call-incoming" /\ e.call = c
    BY PushFacts
  <2> HIDE DEF ring
  <2> QED BY <2>1, <2>2, <1>2 DEF Rung, ToldOver
<1>4. TypeOK'
  BY <1>0 DEF TypeOK, Call, Event, EventTypes, Token, Push
<1>5. UnplacedIsUnknown'
  BY <1>1, <1>2 DEF UnplacedIsUnknown, Push
<1>6. RosterComplete'
  BY <1>1, <1>2, <1>3 DEF RosterComplete, TypeOK
<1>7. RosterSound'
  BY <1>0, <1>1, <1>3 DEF RosterSound, TypeOK, Call
<1>8. AcceptingSound'
  BY <1>1, <1>3 DEF AcceptingSound
<1>9. EveryoneTold' /\ NoEarlyEnd'
  BY <1>1, <1>3 DEF EveryoneTold, NoEarlyEnd, TypeOK
<1>10. LiveCallHasParticipants' /\ TimerGuardsRinging'
  BY <1>1, <1>2 DEF LiveCallHasParticipants, TimerGuardsRinging, TypeOK
<1>11. MissedMeansUnanswered'
  <2> SUFFICES ASSUME NEW e \in sent', e.type = "missed"
      PROVE  /\ call'[e.call].status = "ringing"
             /\ \A x \in Users : <<e.call, x>> \notin accepting
    BY DEF MissedMeansUnanswered
  <2>1. e \in sent
    BY DEF Push
  <2> QED BY <2>1, <1>1, <1>2 DEF MissedMeansUnanswered, TypeOK, Event
<1>12. TokensOnlyForInvited'
  <2> SUFFICES ASSUME NEW t \in tokens'
      PROVE  \/ t.user = call'[t.call].from
             \/ Rung(t.call, t.user)' /\ (call'[t.call].mode = "broadcast" => t.role = "viewer")
    BY DEF TokensOnlyForInvited
  <2>1. CASE t \in tokens
    BY <2>1, <1>1, <1>2, <1>3 DEF TokensOnlyForInvited, TypeOK, Token
  <2>2. CASE t \notin tokens
    BY <2>2, <1>1
  <2> QED BY <2>1, <2>2
<1> QED BY <1>4, <1>5, <1>6, <1>7, <1>8, <1>9, <1>10, <1>11, <1>12

\* accept() up to its await moves one callee into the call and disarms the timer.
LEMMA AcceptIInv ==
  ASSUME IInv, NEW u \in Users, NEW c \in CallIds, Accept(u, c)
  PROVE  IInv'
<1> USE DEF IInv, Accept
<1>1. /\ call[c] \in Call
      /\ call'[c] = Join(call[c], u)
      /\ \A d \in CallIds : d # c => call'[d] = call[d]
  BY DEF TypeOK
<1>2. /\ call'[c].mode = call[c].mode /\ call'[c].from = call[c].from
      /\ call'[c].status = "active" /\ call'[c].timer = FALSE
      /\ call'[c].callees = call[c].callees \ {u}
      /\ call'[c].joined = call[c].joined \cup {u}
      /\ call'[c] \in Call
  <2>1. call[c] \in Call
    BY <1>1
  <2> DEFINE r == Join(call[c], u)
  <2>2. /\ r.mode = call[c].mode /\ r.from = call[c].from
        /\ r.status = "active" /\ r.timer = FALSE
        /\ r.callees = call[c].callees \ {u}
        /\ r.joined = call[c].joined \cup {u}
        /\ r \in Call
    BY <2>1, JoinFields
  <2> HIDE DEF r
  <2> QED BY <2>2, <1>1 DEF r
<1>3. /\ Rung(c, u) /\ u # call[c].from /\ u \notin call[c].joined
      /\ call[c].status # "unplaced" /\ call[c].from \in Users
  BY DEF RosterSound, UnplacedIsUnknown
<1>4. /\ \A d \in CallIds, x \in Users : Rung(d, x)' <=> Rung(d, x)
      /\ \A d \in CallIds, x \in Users : ToldOver(d, x)' <=> ToldOver(d, x)
  BY DEF Rung, ToldOver
<1>5. \A d \in CallIds : call'[d].from = call[d].from /\ call'[d].mode = call[d].mode
  BY <1>1, <1>2
<1>6. TypeOK'
  BY <1>1, <1>2 DEF TypeOK
<1>7. UnplacedIsUnknown'
  BY <1>1, <1>2 DEF UnplacedIsUnknown
<1>8. RosterComplete'
  BY <1>1, <1>2, <1>4 DEF RosterComplete, TypeOK
<1>9. RosterSound'
  <2> SUFFICES ASSUME NEW d \in CallIds
      PROVE  /\ \A x \in call'[d].callees : Rung(d, x)'
             /\ call'[d].callees \cap call'[d].joined = {}
             /\ call'[d].from \notin call'[d].callees
             /\ call'[d].status # "unplaced" => call'[d].from \in Users
             /\ d \in calls /\ call'[d].status = "ringing" => call'[d].joined = {call'[d].from}
    BY DEF RosterSound
  <2>1. CASE d = c
    BY <2>1, <1>1, <1>2, <1>3, <1>4 DEF RosterSound, Call
  <2>2. CASE d # c
    BY <2>2, <1>1, <1>4 DEF RosterSound, TypeOK, Call
  <2> QED BY <2>1, <2>2
<1>10. AcceptingSound'
  BY <1>1, <1>2, <1>3, <1>4 DEF AcceptingSound
<1>11. EveryoneTold' /\ NoEarlyEnd'
  BY <1>1, <1>4 DEF EveryoneTold, NoEarlyEnd, TypeOK
<1>12. LiveCallHasParticipants'
  <2>1. call[c].status = "ringing" => ~AtMostOne(call'[c].joined)
    BY <1>2, <1>3 DEF RosterSound, AtMostOne
  <2>2. call[c].status = "active" /\ call[c].mode = "call" => ~AtMostOne(call'[c].joined)
    BY <1>2 DEF LiveCallHasParticipants, AtMostOne
  <2>3. call[c].status = "ringing" \/ call[c].status = "active"
    BY <1>1, <1>3 DEF Call
  <2>4. call[c].mode = "broadcast" => call[c].from \in call[c].joined
    BY DEF LiveCallHasParticipants
  <2> QED BY <2>1, <2>2, <2>3, <2>4, <1>1, <1>2 DEF LiveCallHasParticipants, TypeOK
<1>13. TimerGuardsRinging'
  BY <1>1, <1>2 DEF TimerGuardsRinging
<1>14. MissedMeansUnanswered'
  <2> SUFFICES ASSUME NEW e \in sent, e.type = "missed"
      PROVE  /\ call'[e.call].status = "ringing"
             /\ \A x \in Users : <<e.call, x>> \notin accepting'
    BY DEF MissedMeansUnanswered
  <2>1. e.call # c /\ e.call \in CallIds
    BY DEF NoEarlyEnd, ToldOver, TypeOK, Event
  <2> QED BY <2>1, <1>1 DEF MissedMeansUnanswered
<1>15. TokensOnlyForInvited'
  BY <1>4, <1>5 DEF TokensOnlyForInvited, TypeOK, Token
<1> QED BY <1>6, <1>7, <1>8, <1>9, <1>10, <1>11, <1>12, <1>13, <1>14, <1>15

\* The rest of accept() tells the others in the call and mints a token; the
\* roster is untouched, so it can run after the call is gone.
LEMMA AcceptResumeIInv ==
  ASSUME IInv, NEW u \in Users, NEW c \in CallIds, AcceptResume(u, c)
  PROVE  IInv'
<1> DEFINE news == Push(call[c].joined \ {u}, "call-accepted", c)
<1> USE DEF IInv, AcceptResume
<1>1. /\ sent' = sent \cup news
      /\ \A e \in news : e.to \in call[c].joined /\ e.type = "call-accepted" /\ e.call = c
      /\ news \subseteq Event
  <2>1. call[c].joined \subseteq Users
    BY DEF TypeOK, Call
  <2>2. \A e \in news : e.to \in call[c].joined \ {u} /\ e.type = "call-accepted" /\ e.call = c
    BY PushFacts
  <2>3. news \subseteq Event
    BY <2>1 DEF Push, Event, EventTypes
  <2> QED BY <2>2, <2>3
<1>2. Rung(c, u) /\ call[c].status = "active"
  BY DEF AcceptingSound
<1> HIDE DEF news
<1>3. /\ \A d \in CallIds, x \in Users : Rung(d, x)' <=> Rung(d, x)
      /\ \A d \in CallIds, x \in Users : ToldOver(d, x)' <=> ToldOver(d, x)
  BY <1>1 DEF Rung, ToldOver
<1> DEFINE token == [user |-> u, call |-> c, role |->
                     IF call[c].mode = "broadcast" THEN "viewer" ELSE "member"]
<1>a. tokens' = tokens \cup {token} /\ token \in Token /\ token.call = c
  BY DEF Token
<1> HIDE DEF token
<1>4. TypeOK'
  BY <1>1, <1>a DEF TypeOK
<1>5. UnplacedIsUnknown'
  BY <1>1, <1>2, <1>a DEF UnplacedIsUnknown
<1>6. RosterComplete' /\ RosterSound' /\ AcceptingSound'
  BY <1>3 DEF RosterComplete, RosterSound, AcceptingSound, TypeOK, Call
<1>7. EveryoneTold' /\ NoEarlyEnd' /\ LiveCallHasParticipants' /\ TimerGuardsRinging'
  BY <1>3 DEF EveryoneTold, NoEarlyEnd, LiveCallHasParticipants, TimerGuardsRinging, TypeOK
<1>8. MissedMeansUnanswered'
  BY <1>1 DEF MissedMeansUnanswered
<1>9. TokensOnlyForInvited'
  <2> SUFFICES ASSUME NEW t \in tokens'
      PROVE  \/ t.user = call[t.call].from
             \/ Rung(t.call, t.user)' /\ (call[t.call].mode = "broadcast" => t.role = "viewer")
    BY DEF TokensOnlyForInvited
  <2>1. CASE t \in tokens
    BY <2>1, <1>3 DEF TokensOnlyForInvited, TypeOK, Token
  <2>2. CASE t \notin tokens
    BY <2>2, <1>2, <1>3
  <2> QED BY <2>1, <2>2
<1> QED BY <1>4, <1>5, <1>6, <1>7, <1>8, <1>9

\* A failed accept() only drops the suspended handler.
LEMMA AcceptFailIInv ==
  ASSUME IInv, NEW u \in Users, NEW c \in CallIds, AcceptFail(u, c)
  PROVE  IInv'
<1> USE DEF IInv, AcceptFail
<1>1. /\ \A d, x : Rung(d, x)' <=> Rung(d, x)
      /\ \A d, x : ToldOver(d, x)' <=> ToldOver(d, x)
  BY DEF Rung, ToldOver
<1>2. TypeOK' /\ UnplacedIsUnknown' /\ AcceptingSound' /\ MissedMeansUnanswered'
  BY <1>1 DEF TypeOK, UnplacedIsUnknown, AcceptingSound, MissedMeansUnanswered
<1>3. RosterComplete' /\ RosterSound' /\ TokensOnlyForInvited'
  BY <1>1 DEF RosterComplete, RosterSound, TokensOnlyForInvited
<1>4. EveryoneTold' /\ NoEarlyEnd' /\ LiveCallHasParticipants' /\ TimerGuardsRinging'
  BY <1>1 DEF EveryoneTold, NoEarlyEnd, LiveCallHasParticipants, TimerGuardsRinging
<1> QED BY <1>2, <1>3, <1>4

\* The body that end() and the last decline() share: the object r has at most
\* lost the actor from its callees, and at most the decline was pushed so far.
LEMMA EndForIInv ==
  ASSUME IInv, NEW u \in Users, NEW c \in calls, NEW r \in Call, NEW told,
         r.mode = call[c].mode, r.from = call[c].from, r.status = call[c].status,
         r.joined = call[c].joined, r.timer = call[c].timer,
         r.callees \subseteq call[c].callees, call[c].callees \subseteq r.callees \cup {u},
         told \subseteq Push({r.from}, "call-declined", c),
         EndFor(u, c, r, told), UNCHANGED <<accepting, tokens>>
  PROVE  IInv'
<1> USE DEF IInv
<1>0. /\ c \in CallIds /\ call[c] \in Call /\ call[c].from \in Users
      /\ call[c].status # "unplaced"
  BY DEF TypeOK, UnplacedIsUnknown, RosterSound
<1> DEFINE s == Leave(r, u)
           ending == IF s.mode = "broadcast" THEN "broadcaster-left" ELSE "call-ended"
<1>1. /\ s \in Call /\ s.mode = call[c].mode /\ s.from = call[c].from
      /\ s.status = call[c].status /\ s.timer = call[c].timer
      /\ s.callees = call[c].callees \ {u} /\ s.joined = call[c].joined \ {u}
  <2>1. r.callees \ {u} = call[c].callees \ {u}
    OBVIOUS
  <2> QED BY <2>1, LeaveFields
<1>2. /\ \A e \in told : e.to = call[c].from /\ e.type = "call-declined" /\ e.call = c
      /\ told \subseteq Event
  <2>1. \A e \in told : e.to \in {r.from} /\ e.type = "call-declined" /\ e.call = c
    BY PushFacts
  <2>2. told \subseteq Event
    BY <1>0 DEF Push, Event, EventTypes
  <2> QED BY <2>1, <2>2
<1>3. left' = left \cup {<<c, u>>}
  BY DEF EndFor
<1>4. CASE StaysUp(s, u)
  <2>1. call' = [call EXCEPT ![c] = s] /\ sent' = sent \cup told /\ calls' = calls
    BY <1>4 DEF EndFor
  <2> HIDE DEF s
  <2>2. /\ call'[c] = s
        /\ \A d \in CallIds : d # c => call'[d] = call[d]
        /\ \A d \in CallIds : call'[d].from = call[d].from /\ call'[d].mode = call[d].mode
                             /\ call'[d].status = call[d].status
                             /\ call'[d].timer = call[d].timer
                             /\ call'[d].callees \subseteq call[d].callees
    BY <2>1, <1>1 DEF TypeOK
  <2>3. /\ \A d \in CallIds, x \in Users : Rung(d, x)' <=> Rung(d, x)
        /\ \A d \in CallIds, x \in Users : ToldOver(d, x)' <=> ToldOver(d, x)
    BY <2>1, <1>2 DEF Rung, ToldOver
  <2>4. TypeOK'
    BY <2>1, <1>0, <1>1, <1>2, <1>3 DEF TypeOK
  <2>5. UnplacedIsUnknown'
    BY <2>1, <2>2, <1>0, <1>1, <1>2 DEF UnplacedIsUnknown
  <2>6. RosterComplete'
    BY <2>1, <2>2, <2>3, <1>1, <1>3 DEF RosterComplete, TypeOK
  <2>7. RosterSound'
    <3> SUFFICES ASSUME NEW d \in CallIds
        PROVE  /\ \A x \in call'[d].callees : Rung(d, x)'
               /\ call'[d].callees \cap call'[d].joined = {}
               /\ call'[d].from \notin call'[d].callees
               /\ call'[d].status # "unplaced" => call'[d].from \in Users
               /\ d \in calls' /\ call'[d].status = "ringing" => call'[d].joined = {call'[d].from}
      BY DEF RosterSound
    <3>1. CASE d # c
      BY <3>1, <2>1, <2>2, <2>3 DEF RosterSound, TypeOK, Call
    <3>2. CASE d = c
      <4>1. call[c].status = "ringing" => s.joined = {call[c].from}
        <5>1. ASSUME call[c].status = "ringing" PROVE s.joined = {call[c].from} \ {u}
          BY <5>1, <1>0, <1>1 DEF RosterSound
        <5>2. ASSUME call[c].status = "ringing" PROVE u # call[c].from
          BY <5>1, <5>2, <1>1, <1>4 DEF StaysUp, AtMostOne
        <5> QED BY <5>1, <5>2
      <4> QED BY <4>1, <3>2, <2>2, <2>3, <1>0, <1>1 DEF RosterSound, Call
    <3> QED BY <3>1, <3>2
  <2>8. AcceptingSound'
    BY <2>2, <2>3 DEF AcceptingSound
  <2>9. EveryoneTold' /\ NoEarlyEnd'
    BY <2>1, <2>2, <2>3, <1>3 DEF EveryoneTold, NoEarlyEnd, TypeOK
  <2>10. LiveCallHasParticipants'
    BY <2>1, <2>2, <1>1, <1>4 DEF LiveCallHasParticipants, StaysUp, TypeOK
  <2>11. TimerGuardsRinging'
    BY <2>1, <2>2 DEF TimerGuardsRinging
  <2>12. MissedMeansUnanswered'
    BY <2>1, <2>2, <1>2 DEF MissedMeansUnanswered, TypeOK, Event
  <2>13. TokensOnlyForInvited'
    BY <2>2, <2>3 DEF TokensOnlyForInvited, TypeOK, Token
  <2> QED BY <2>4, <2>5, <2>6, <2>7, <2>8, <2>9, <2>10, <2>11, <2>12, <2>13
<1>5. CASE ~StaysUp(s, u)
  <2> DEFINE news == Push(Audience(s, u), ending, c)
             o == Disarm(s)
  <2>1. call' = [call EXCEPT ![c] = o] /\ sent' = sent \cup told \cup news
        /\ calls' = calls \ {c}
    BY <1>5 DEF EndFor
  <2>2. /\ o \in Call /\ o.mode = call[c].mode /\ o.from = call[c].from
        /\ o.status = call[c].status /\ o.timer = FALSE
        /\ o.callees = call[c].callees \ {u} /\ o.joined = call[c].joined \ {u}
    BY <1>1, DisarmFields
  <2>3. Audience(s, u) = ({call[c].from} \cup call[c].joined \cup call[c].callees) \ {u}
    BY <1>1 DEF Audience
  <2>4. /\ \A e \in news : e.type = ending /\ e.call = c
        /\ \A x \in Audience(s, u) : \E e \in news : e.to = x /\ e.type = ending /\ e.call = c
        /\ ending \in {"broadcaster-left", "call-ended"}
        /\ news \subseteq Event
    <3>1. Audience(s, u) \subseteq Users /\ ending \in {"broadcaster-left", "call-ended"}
      BY <2>3, <1>0 DEF Call
    <3>2. news \subseteq Event
      BY <3>1, <1>0 DEF Push, Event, EventTypes
    <3> HIDE DEF ending
    <3> QED BY <3>1, <3>2, PushFacts
  <2> HIDE DEF s, o, ending, news
  <2>5. /\ call'[c] = o
        /\ \A d \in CallIds : d # c => call'[d] = call[d]
        /\ \A d \in CallIds : call'[d].from = call[d].from /\ call'[d].mode = call[d].mode
                             /\ call'[d].status = call[d].status
                             /\ call'[d].callees \subseteq call[d].callees
    BY <2>1, <2>2 DEF TypeOK
  <2>6. /\ \A d \in CallIds, x \in Users : Rung(d, x)' <=> Rung(d, x)
        /\ \A d \in CallIds, x \in Users : d # c => (ToldOver(d, x)' <=> ToldOver(d, x))
        /\ \A x \in Audience(s, u) : ToldOver(c, x)'
    BY <2>1, <2>4, <1>2 DEF Rung, ToldOver
  <2>7. TypeOK'
    BY <2>1, <2>2, <2>4, <1>0, <1>2, <1>3 DEF TypeOK
  <2>8. UnplacedIsUnknown'
    BY <2>1, <2>4, <2>5, <1>0, <1>2 DEF UnplacedIsUnknown
  <2>9. RosterComplete'
    BY <2>1, <2>5, <2>6, <1>3 DEF RosterComplete, TypeOK
  <2>10. RosterSound'
    <3> SUFFICES ASSUME NEW d \in CallIds
        PROVE  /\ \A x \in call'[d].callees : Rung(d, x)'
               /\ call'[d].callees \cap call'[d].joined = {}
               /\ call'[d].from \notin call'[d].callees
               /\ call'[d].status # "unplaced" => call'[d].from \in Users
               /\ d \in calls' /\ call'[d].status = "ringing" => call'[d].joined = {call'[d].from}
      BY DEF RosterSound
    <3>1. CASE d # c
      BY <3>1, <2>1, <2>5, <2>6 DEF RosterSound, TypeOK, Call
    <3>2. CASE d = c
      BY <3>2, <2>1, <2>2, <2>5, <2>6, <1>0 DEF RosterSound, Call
    <3> QED BY <3>1, <3>2
  <2>11. AcceptingSound'
    BY <2>5, <2>6 DEF AcceptingSound
  <2>12. EveryoneTold'
    <3> SUFFICES ASSUME NEW d \in CallIds, call'[d].status # "unplaced", d \notin calls',
                        NEW x \in Users, Rung(d, x)' \/ x = call'[d].from
        PROVE  ToldOver(d, x)' \/ <<d, x>> \in left'
      BY DEF EveryoneTold
    <3>1. CASE d # c
      BY <3>1, <2>1, <2>5, <2>6, <1>3 DEF EveryoneTold
    <3>2. CASE d = c
      <4>1. x \in call[c].callees \cup call[c].joined \/ <<c, x>> \in left
        BY <3>2, <2>5, <2>6 DEF RosterComplete
      <4> QED BY <4>1, <3>2, <2>3, <2>6, <1>3
    <3> QED BY <3>1, <3>2
  <2>13. NoEarlyEnd' /\ LiveCallHasParticipants'
    BY <2>1, <2>5, <2>6 DEF NoEarlyEnd, LiveCallHasParticipants, TypeOK
  <2>14. TimerGuardsRinging'
    BY <2>1, <2>2, <2>5 DEF TimerGuardsRinging
  <2>15. MissedMeansUnanswered'
    BY <2>1, <2>4, <2>5, <1>2 DEF MissedMeansUnanswered, TypeOK, Event
  <2>16. TokensOnlyForInvited'
    BY <2>5, <2>6 DEF TokensOnlyForInvited, TypeOK, Token
  <2> QED BY <2>7, <2>8, <2>9, <2>10, <2>11, <2>12, <2>13, <2>14, <2>15, <2>16
<1> QED BY <1>4, <1>5

LEMMA EndIInv ==
  ASSUME IInv, NEW u \in Users, NEW c \in CallIds, End(u, c)
  PROVE  IInv'
<1>1. call[c] \in Call /\ c \in calls
  BY DEF IInv, TypeOK, End
<1> QED BY <1>1, EndForIInv DEF End

\* decline() takes the actor off the callees, and may go on into end().
LEMMA DeclineIInv ==
  ASSUME IInv, NEW u \in Users, NEW c \in CallIds, Decline(u, c)
  PROVE  IInv'
<1> DEFINE r == [call[c] EXCEPT !.callees = call[c].callees \ {u}]
           told == Push({r.from}, "call-declined", c)
<1> USE DEF IInv
<1>0. c \in calls /\ call[c] \in Call
  BY DEF TypeOK, Decline
<1>1. /\ r \in Call /\ r.mode = call[c].mode /\ r.from = call[c].from
      /\ r.status = call[c].status /\ r.timer = call[c].timer
      /\ r.joined = call[c].joined /\ r.callees = call[c].callees \ {u}
  BY <1>0 DEF Call
<1>2. CASE r.callees = {} /\ AtMostOne(r.joined)
  <2>1. EndFor(u, c, r, told) /\ UNCHANGED <<accepting, tokens>>
    BY <1>2 DEF Decline
  <2> HIDE DEF r
  <2> QED BY <2>1, <1>0, <1>1, EndForIInv
<1>3. CASE ~(r.callees = {} /\ AtMostOne(r.joined))
  <2>1. /\ call' = [call EXCEPT ![c] = r]
        /\ sent' = sent \cup told
        /\ left' = IF u \in r.joined THEN left ELSE left \cup {<<c, u>>}
        /\ calls' = calls
        /\ UNCHANGED <<accepting, tokens>>
    BY <1>3 DEF Decline
  <2> HIDE DEF r
  <2>2. /\ \A e \in told : e.to = call[c].from /\ e.type = "call-declined" /\ e.call = c
        /\ told \subseteq Event
    <3>1. call[c].from \in Users
      BY <1>0 DEF RosterSound, UnplacedIsUnknown
    <3>2. \A e \in told : e.to \in {r.from} /\ e.type = "call-declined" /\ e.call = c
      BY PushFacts
    <3>3. told \subseteq Event
      BY <1>1, <3>1 DEF Push, Event, EventTypes
    <3> QED BY <1>1, <3>2, <3>3
  <2> HIDE DEF told
  <2>3. /\ call'[c] = r
        /\ \A d \in CallIds : d # c => call'[d] = call[d]
        /\ \A d \in CallIds : call'[d].from = call[d].from /\ call'[d].mode = call[d].mode
                             /\ call'[d].status = call[d].status
                             /\ call'[d].timer = call[d].timer
                             /\ call'[d].joined = call[d].joined
                             /\ call'[d].callees \subseteq call[d].callees
    BY <2>1, <1>1 DEF TypeOK
  <2>4. /\ \A d \in CallIds, x \in Users : Rung(d, x)' <=> Rung(d, x)
        /\ \A d \in CallIds, x \in Users : ToldOver(d, x)' <=> ToldOver(d, x)
    BY <2>1, <2>2 DEF Rung, ToldOver
  <2>5. TypeOK'
    BY <2>1, <2>2, <1>0, <1>1 DEF TypeOK
  <2>6. UnplacedIsUnknown'
    BY <2>1, <2>2, <2>3, <1>0 DEF UnplacedIsUnknown
  <2>7. RosterComplete'
    BY <2>1, <2>3, <2>4, <1>1 DEF RosterComplete, TypeOK
  <2>8. RosterSound'
    BY <2>1, <2>3, <2>4 DEF RosterSound, TypeOK, Call
  <2>9. AcceptingSound' /\ EveryoneTold' /\ NoEarlyEnd'
    BY <2>1, <2>3, <2>4 DEF AcceptingSound, EveryoneTold, NoEarlyEnd, TypeOK
  <2>10. LiveCallHasParticipants' /\ TimerGuardsRinging'
    BY <2>1, <2>3 DEF LiveCallHasParticipants, TimerGuardsRinging, TypeOK
  <2>11. MissedMeansUnanswered'
    BY <2>1, <2>2, <2>3 DEF MissedMeansUnanswered, TypeOK, Event
  <2>12. TokensOnlyForInvited'
    BY <2>1, <2>3, <2>4 DEF TokensOnlyForInvited, TypeOK, Token
  <2> QED BY <2>5, <2>6, <2>7, <2>8, <2>9, <2>10, <2>11, <2>12
<1> QED BY <1>2, <1>3

\* The ring timer removes a call that only its caller is in.
LEMMA ExpireIInv ==
  ASSUME IInv, NEW c \in CallIds, Expire(c)
  PROVE  IInv'
<1> DEFINE o == Disarm(call[c])
           news == Push({call[c].from} \cup call[c].callees, "missed", c)
<1> USE DEF IInv
<1>0. /\ call[c] \in Call /\ c \in calls /\ call[c].status = "ringing"
      /\ call[c].from \in Users /\ call[c].joined = {call[c].from}
  BY DEF Expire, TimerGuardsRinging, RosterSound, TypeOK
<1>1. /\ call' = [call EXCEPT ![c] = o] /\ sent' = sent \cup news /\ calls' = calls \ {c}
      /\ UNCHANGED <<accepting, tokens, left>>
  BY <1>0 DEF Expire
<1>2. /\ o \in Call /\ o.mode = call[c].mode /\ o.from = call[c].from
      /\ o.status = call[c].status /\ o.timer = FALSE
      /\ o.callees = call[c].callees /\ o.joined = call[c].joined
  BY <1>0, DisarmFields
<1>3. /\ \A e \in news : e.type = "missed" /\ e.call = c
      /\ \A x \in {call[c].from} \cup call[c].callees :
            \E e \in news : e.to = x /\ e.type = "missed" /\ e.call = c
      /\ news \subseteq Event
  <2>1. news \subseteq Event
    BY <1>0 DEF Push, Event, EventTypes, Call
  <2>2. \A e \in news : e.type = "missed" /\ e.call = c
    BY PushFacts
  <2>3. \A x \in {call[c].from} \cup call[c].callees :
            \E e \in news : e.to = x /\ e.type = "missed" /\ e.call = c
    BY PushFacts
  <2> HIDE DEF news
  <2> QED BY <2>1, <2>2, <2>3
<1> HIDE DEF o, news
<1>4. /\ call'[c] = o
      /\ \A d \in CallIds : d # c => call'[d] = call[d]
      /\ \A d \in CallIds : call'[d].from = call[d].from /\ call'[d].mode = call[d].mode
                           /\ call'[d].status = call[d].status
                           /\ call'[d].joined = call[d].joined
                           /\ call'[d].callees = call[d].callees
  BY <1>1, <1>2 DEF TypeOK
<1>5. /\ \A d \in CallIds, x \in Users : Rung(d, x)' <=> Rung(d, x)
      /\ \A d \in CallIds, x \in Users : d # c => (ToldOver(d, x)' <=> ToldOver(d, x))
      /\ \A x \in {call[c].from} \cup call[c].callees : ToldOver(c, x)'
  BY <1>1, <1>3 DEF Rung, ToldOver
<1>6. TypeOK'
  BY <1>1, <1>2, <1>3 DEF TypeOK
<1>7. UnplacedIsUnknown'
  BY <1>0, <1>1, <1>3, <1>4 DEF UnplacedIsUnknown
<1>8. RosterComplete' /\ AcceptingSound'
  BY <1>1, <1>4, <1>5 DEF RosterComplete, AcceptingSound, TypeOK
<1>9. RosterSound'
  BY <1>1, <1>4, <1>5 DEF RosterSound, TypeOK, Call
<1>10. EveryoneTold'
  <2> SUFFICES ASSUME NEW d \in CallIds, call'[d].status # "unplaced", d \notin calls',
                      NEW x \in Users, Rung(d, x)' \/ x = call'[d].from
      PROVE  ToldOver(d, x)' \/ <<d, x>> \in left'
    BY DEF EveryoneTold
  <2>1. CASE d # c
    BY <2>1, <1>1, <1>4, <1>5 DEF EveryoneTold
  <2>2. CASE d = c
    BY <2>2, <1>0, <1>1, <1>4, <1>5 DEF RosterComplete
  <2> QED BY <2>1, <2>2
<1>11. NoEarlyEnd' /\ LiveCallHasParticipants'
  BY <1>1, <1>4, <1>5 DEF NoEarlyEnd, LiveCallHasParticipants, TypeOK
<1>12. TimerGuardsRinging'
  BY <1>1, <1>2, <1>4 DEF TimerGuardsRinging
<1>13. MissedMeansUnanswered'
  BY <1>0, <1>1, <1>3, <1>4 DEF MissedMeansUnanswered, AcceptingSound, TypeOK, Event
<1>14. TokensOnlyForInvited'
  BY <1>1, <1>4, <1>5 DEF TokensOnlyForInvited, TypeOK, Token
<1> QED BY <1>6, <1>7, <1>8, <1>9, <1>10, <1>11, <1>12, <1>13, <1>14
----------------------------------------------------------------------------
(***************************************************************************)
(* The call service's theorems                                             *)
(***************************************************************************)

\* The inductive invariant holds in every reachable state.
THEOREM Invariance == Spec => []IInv
<1>1. Init => IInv
  BY InitIInv
<1>2. IInv /\ [Next]_vars => IInv'
  <2> SUFFICES ASSUME IInv, [Next]_vars PROVE IInv'
    OBVIOUS
  <2>1. ASSUME NEW u \in Users, NEW v \in Convs, NEW c \in CallIds, Place(u, v, c)
        PROVE  IInv'
    BY <2>1, PlaceIInv
  <2>2. ASSUME NEW u \in Users, NEW c \in CallIds, Accept(u, c) PROVE IInv'
    BY <2>2, AcceptIInv
  <2>3. ASSUME NEW u \in Users, NEW c \in CallIds, AcceptResume(u, c) PROVE IInv'
    BY <2>3, AcceptResumeIInv
  <2>4. ASSUME NEW u \in Users, NEW c \in CallIds, AcceptFail(u, c) PROVE IInv'
    BY <2>4, AcceptFailIInv
  <2>5. ASSUME NEW u \in Users, NEW c \in CallIds, Decline(u, c) PROVE IInv'
    BY <2>5, DeclineIInv
  <2>6. ASSUME NEW u \in Users, NEW c \in CallIds, End(u, c) PROVE IInv'
    BY <2>6, EndIInv
  <2>7. ASSUME NEW c \in CallIds, Expire(c) PROVE IInv'
    BY <2>7, ExpireIInv
  <2>8. CASE UNCHANGED vars
    BY <2>8 DEF vars, IInv, TypeOK, UnplacedIsUnknown, RosterComplete, RosterSound,
       AcceptingSound, EveryoneTold, NoEarlyEnd, LiveCallHasParticipants,
       TimerGuardsRinging, MissedMeansUnanswered, TokensOnlyForInvited, Rung, ToldOver
  <2> QED BY <2>1, <2>2, <2>3, <2>4, <2>5, <2>6, <2>7, <2>8 DEF Next
<1> QED BY <1>1, <1>2, PTL DEF Spec

\* The call map, the call objects and the histories keep their types.
THEOREM TypeCorrect == Spec => []TypeOK
BY Invariance, PTL DEF IInv

\* Whoever a call concerned learns of its end or has left it before: for any
\* number of users, calls and interleaved accepts.
THEOREM NobodyLeftRinging == Spec => []EveryoneTold
BY Invariance, PTL DEF IInv

\* No user is told that a call is over while it still exists.
THEOREM EndsAreTrue == Spec => []NoEarlyEnd
BY Invariance, PTL DEF IInv

\* The ring timer is armed exactly while a call rings.
THEOREM TimerExact == Spec => []TimerGuardsRinging
BY Invariance, PTL DEF IInv

\* A live answered call has two participants, a live broadcast its broadcaster.
THEOREM Participants == Spec => []LiveCallHasParticipants
BY Invariance, PTL DEF IInv

\* A call reported as missed was never answered.
THEOREM MissedCorrect == Spec => []MissedMeansUnanswered
BY Invariance, PTL DEF IInv

\* Tokens go to invited users only, and only its owner may publish a broadcast.
THEOREM TokensCorrect == Spec => []TokensOnlyForInvited
BY Invariance, PTL DEF IInv

(***************************************************************************)
(* The life of a call                                                      *)
(***************************************************************************)
\* Nobody is told that b is over.
Silently(b) == \A u \in Users : ToldOver(b, u)' <=> ToldOver(b, u)
LEMMA SilentlyIf ==
  ASSUME NEW b, sent \subseteq sent', \A e \in sent' \ sent : e.call # b \/ e.type \notin Over
  PROVE  Silently(b)
BY DEF Silently, ToldOver

\* A call that a step does not change, and about whose end nobody is told.
LEMMA Unaffected ==
  ASSUME IInv, NEW b \in CallIds, b \in calls' <=> b \in calls, call'[b] = call[b],
         Silently(b)
  PROVE  Lives!Step(b)
BY DEF Silently, Lives!Step, Placed

\* A call that goes on without p, who may have been in it.
LEMMA GoesOnWithout ==
  ASSUME NEW c \in calls, c \in CallIds, c \in calls', NEW p \in Users, Silently(c),
         call'[c].status = call[c].status, call'[c].callees = call[c].callees \ {p},
         call'[c].joined \in {call[c].joined, call[c].joined \ {p}}
  PROVE  Lives!Step(c)
<1>1. Lives!Withdraw(c, p)
  BY DEF Lives!Withdraw, Silently
<1> QED BY <1>1 DEF Lives!Step

\* A call that ends with p.
LEMMA EndsWith ==
  ASSUME NEW c \in calls, c \in CallIds, c \notin calls', NEW p \in Users, call'[c].status # "unplaced",
         call[c].status = "ringing" \/ (call[c].status = "active" /\ p \in call[c].joined),
         \A q \in (call[c].callees \cup call[c].joined) \ {p} : q \in Users /\ ToldOver(c, q)'
  PROVE  Lives!Step(c)
<1>1. Lives!Finish(c, p)
  BY DEF Lives!Finish, Placed
<1> QED BY <1>1 DEF Lives!Step

\* A call that p, whom it rings, gets into.
LEMMA EntersIn ==
  ASSUME NEW c \in calls, c \in CallIds, c \in calls', NEW p \in Users, Silently(c),
         p \in call[c].callees, call'[c].status = "active",
         call'[c].callees = call[c].callees \ {p}, call'[c].joined = call[c].joined \cup {p}
  PROVE  Lives!Step(c)
<1>1. Lives!Enter(c, p)
  BY DEF Lives!Enter, Silently
<1> QED BY <1>1 DEF Lives!Step

LEMMA PlaceLife ==
  ASSUME IInv, NEW u \in Users, NEW v \in Convs, NEW c \in CallIds, Place(u, v, c) PROVE Lives!Next
<1>1. /\ c \notin calls /\ calls' = calls \cup {c}
      /\ call[c].status = "unplaced" /\ call'[c].status = "ringing"
      /\ call'[c].callees = Invitees(v, u) /\ call'[c].joined = {u}
      /\ \A b \in CallIds : b # c => call'[b] = call[b]
  BY DEF Place, IInv, TypeOK, UnplacedIsUnknown
<1>2. sent \subseteq sent' /\ \A e \in sent' \ sent : e.call = c /\ e.type \notin Over
  BY PushFacts DEF Place
<1>3. Invitees(v, u) \in (SUBSET (Users \ {u})) \ {{}}
  BY ConvAssumption DEF Place, Invitees, IsMember
<1>4. Lives!Begin(c, u)
  BY <1>1, <1>2, <1>3, SilentlyIf DEF Lives!Begin, Silently, Placed
<1>5. \A b \in CallIds : b # c => Lives!Step(b)
  BY <1>1, <1>2, SilentlyIf, Unaffected
<1> QED BY <1>4, <1>5 DEF Lives!Next, Lives!Step

LEMMA AcceptLife ==
  ASSUME IInv, NEW u \in Users, NEW c \in CallIds, Accept(u, c) PROVE Lives!Next
<1>1. /\ c \in calls /\ u \in call[c].callees /\ UNCHANGED <<calls, sent>>
      /\ call'[c] = Join(call[c], u) /\ call[c] \in Call
      /\ \A b \in CallIds : b # c => call'[b] = call[b]
  BY DEF Accept, IInv, TypeOK
<1>2. Silently(c)
  BY <1>1, SilentlyIf
<1>3. PICK r \in Call : /\ r = Join(call[c], u) /\ r.status = "active"
                        /\ r.callees = call[c].callees \ {u} /\ r.joined = call[c].joined \cup {u}
  BY <1>1, JoinFields
<1>4. Lives!Step(c)
  BY <1>1, <1>2, <1>3, EntersIn
<1>5. \A b \in CallIds : b # c => Lives!Step(b)
  BY <1>1, SilentlyIf, Unaffected
<1> QED BY <1>4, <1>5 DEF Lives!Next

\* end() is the leaving of its actor, or the end of the call: of one that was answered
\* only if the actor was in it.
LEMMA EndForLife ==
  ASSUME IInv, NEW u \in Users, NEW c \in calls, NEW r \in Call, NEW news, EndFor(u, c, r, news),
         r.mode = call[c].mode, r.from = call[c].from, r.status = call[c].status,
         r.joined = call[c].joined, r.callees \ {u} = call[c].callees \ {u},
         \A e \in news : e.call = c /\ e.type \notin Over
  PROVE  Lives!Next
<1>0. c \in CallIds /\ call[c].status \in {"ringing", "active"} /\ call \in [CallIds -> Call] /\ r.from \in Users
  BY DEF IInv, TypeOK, UnplacedIsUnknown, RosterSound, Call
<1>1. PICK s \in Call : /\ s = Leave(r, u) /\ s.mode = r.mode /\ s.from = r.from /\ s.status = r.status
                         /\ s.callees = call[c].callees \ {u} /\ s.joined = call[c].joined \ {u}
  BY LeaveFields
<1>2. \A b \in CallIds : b # c => call'[b] = call[b] /\ (b \in calls' <=> b \in calls)
  BY <1>0, <1>1 DEF EndFor
<1>3. CASE StaysUp(s, u)
  <2>1. call'[c] = s /\ calls' = calls /\ sent' = sent \cup news
    BY <1>0, <1>1, <1>3 DEF EndFor
  <2>2. Lives!Step(c)
    BY <1>0, <1>1, <2>1, SilentlyIf, GoesOnWithout
  <2>3. \A b \in CallIds : b # c => Lives!Step(b)
    BY <1>2, <2>1, SilentlyIf, Unaffected
  <2> QED BY <2>2, <2>3 DEF Lives!Next
<1>4. CASE ~StaysUp(s, u)
  <2>1. PICK type \in {"broadcaster-left", "call-ended"} :
          /\ call'[c] = Disarm(s) /\ calls' = calls \ {c}
          /\ sent' = sent \cup news \cup Push(Audience(s, u), type, c)
    BY <1>0, <1>1, <1>4 DEF EndFor
  <2>2. \A p \in (call[c].callees \cup call[c].joined) \ {u} : ToldOver(c, p)'
    <3> SUFFICES ASSUME NEW p \in Audience(s, u) PROVE ToldOver(c, p)'
      BY <1>1 DEF Audience
    <3> QED BY <2>1, PushFacts DEF ToldOver
  <2>3. call[c].status = "active" => u \in call[c].joined
    BY <1>0, <1>1, <1>4 DEF IInv, LiveCallHasParticipants, StaysUp, AtMostOne, Call
  <2>4. call[c].callees \subseteq Users /\ call[c].joined \subseteq Users
    BY <1>0 DEF Call
  <2>5. Lives!Step(c)
    <3>1. c \in CallIds /\ c \notin calls' /\ call'[c].status # "unplaced"
      BY <1>0, <1>1, <2>1, DisarmFields
    <3> QED BY <1>0, <2>2, <2>3, <2>4, <3>1, EndsWith
  <2>6. \A b \in CallIds : b # c => Lives!Step(b)
    BY <1>2, <2>1, PushFacts, SilentlyIf, Unaffected
  <2> QED BY <1>0, <2>5, <2>6 DEF Lives!Next
<1> QED BY <1>3, <1>4

LEMMA DeclineLife ==
  ASSUME IInv, NEW u \in Users, NEW c \in CallIds, Decline(u, c) PROVE Lives!Next
<1>1. PICK r : r = [call[c] EXCEPT !.callees = call[c].callees \ {u}]
  OBVIOUS
<1>2. /\ c \in calls /\ call \in [CallIds -> Call] /\ r \in Call
      /\ r.mode = call[c].mode /\ r.from = call[c].from /\ r.status = call[c].status
      /\ r.joined = call[c].joined /\ r.callees = call[c].callees \ {u}
  BY <1>1 DEF Decline, IInv, TypeOK, Call
<1>3. PICK news : news = Push({r.from}, "call-declined", c) /\ \A e \in news : e.call = c /\ e.type \notin Over
  BY PushFacts
<1>4. CASE EndFor(u, c, r, news)
  BY <1>2, <1>3, <1>4, EndForLife
<1>5. CASE call' = [call EXCEPT ![c] = r] /\ sent' = sent \cup news /\ calls' = calls
  <2>1. Lives!Step(c)
    BY <1>2, <1>3, <1>5, SilentlyIf, GoesOnWithout
  <2>2. \A b \in CallIds : b # c => Lives!Step(b)
    BY <1>2, <1>3, <1>5, SilentlyIf, Unaffected
  <2> QED BY <2>1, <2>2 DEF Lives!Next
<1> QED BY <1>1, <1>3, <1>4, <1>5 DEF Decline

LEMMA ExpireLife ==
  ASSUME IInv, NEW c \in CallIds, Expire(c) PROVE Lives!Next
<1>1. /\ c \in calls /\ call[c].status = "ringing" /\ call \in [CallIds -> Call] /\ call[c] \in Call
      /\ call[c].from \in Users /\ call[c].joined = {call[c].from} /\ call[c].callees \subseteq Users
  BY DEF Expire, IInv, TypeOK, TimerGuardsRinging, RosterSound, Call
<1>2. /\ call'[c] = Disarm(call[c]) /\ calls' = calls \ {c}
      /\ sent' = sent \cup Push({call[c].from} \cup call[c].callees, "missed", c)
      /\ \A b \in CallIds : b # c => call'[b] = call[b]
  BY <1>1 DEF Expire
<1>3. \A p \in call[c].callees \cup call[c].joined : ToldOver(c, p)'
  BY <1>1, <1>2, PushFacts DEF ToldOver
<1>4. Lives!Step(c)
  <2>1. c \notin calls' /\ call'[c].status # "unplaced"
    BY <1>1, <1>2, DisarmFields
  <2> QED BY <1>1, <1>3, <2>1, EndsWith
<1>5. \A b \in CallIds : b # c => Lives!Step(b)
  <2>1. sent \subseteq sent' /\ \A e \in sent' \ sent : e.call = c
    BY <1>2, PushFacts
  <2>2. \A b \in CallIds : b # c => call'[b] = call[b] /\ (b \in calls' <=> b \in calls)
    BY <1>2
  <2> QED BY <2>1, <2>2, SilentlyIf, Unaffected
<1> QED BY <1>1, <1>4, <1>5 DEF Lives!Next

LEMMA LifeStarts == Init => Lives!Init
BY DEF Init, Lives!Init, Unplaced, ToldOver

LEMMA LifeGoesOn == ASSUME IInv, [Next]_vars PROVE Lives!Next
<1>1. ASSUME NEW u \in Users, NEW c \in CallIds, AcceptResume(u, c) \/ AcceptFail(u, c) PROVE Lives!Next
  <2>1. UNCHANGED <<calls, call>> /\ sent \subseteq sent' /\ \A e \in sent' \ sent : e.type \notin Over
    BY <1>1, PushFacts DEF AcceptResume, AcceptFail
  <2> QED BY <2>1, SilentlyIf, Unaffected DEF Lives!Next
<1>2. ASSUME NEW u \in Users, NEW c \in CallIds, End(u, c) PROVE Lives!Next
  BY <1>2, EndForLife DEF End, IInv, TypeOK
<1>3. CASE UNCHANGED vars
  BY <1>3, SilentlyIf, Unaffected DEF vars, Lives!Next
<1> QED BY <1>1, <1>2, <1>3, PlaceLife, AcceptLife, DeclineLife, ExpireLife DEF Next

\* Every call keeps to CallLife, whatever handlers are interleaved: an answered call ends
\* because somebody in it leaves, and that step tells all the others.
THEOREM CallsKeepToLife == Spec => KeepsToCallLife
<1>1. IInv /\ [Next]_vars => [Lives!Next]_(Lives!vars)
  BY LifeGoesOn
<1> QED BY <1>1, LifeStarts, Invariance, PTL DEF Spec, KeepsToCallLife, Lives!Spec

HIDE DEF Over

(***************************************************************************)
(* The pages and the server                                                *)
(*                                                                         *)
(* CallInv says how far a call may be with a page: it rings once, and not  *)
(* any more when the page has answered; what rings may be accepted or its  *)
(* end is behind it in the inbox; and, as long as no join was crossed, who *)
(* is in a call for one side is in it for the other, or what will tell it  *)
(* so is under way.  A step is the server's (Serves says what it does to   *)
(* the calls, Pushes to the inboxes) or one page's (PageActs): each lemma  *)
(* of an action only has to show what is special about it.                 *)
(***************************************************************************)
InCallOf(u, c) == c \in calls /\ u \in call[c].joined
Invited(u, c) == c \in calls /\ u \in call[c].callees

\* The events on their way to u's page: the i-th rings for c, or reports that c is over.
Mails(u) == 1..Len(inbox[u])
RingAt(u, i, c) == inbox[u][i].type = "call-incoming" /\ inbox[u][i].call = c
OverAt(u, i, c) == inbox[u][i].type \in Over /\ inbox[u][i].call = c

\* What is in an inbox was sent to its user.
Mail == \A u \in Users : \A i \in Mails(u) :
    inbox[u][i] \in sent /\ inbox[u][i].to = u /\ inbox[u][i].type \in Matters

\* The page has answered c's ring, or placed it.
Answered(u, c) == \/ joining[u] = c \/ session[u] = c
                  \/ \E r \in requests : r.by = u /\ r.call = c

\* A call rings a page once, and not after the page has answered it; that it does once.
Once(u, c) ==
    /\ pending[u] = c \/ Answered(u, c) \/ <<u, c>> \in notices => Placed(c)
    /\ pending[u] = c \/ joining[u] = c => session[u] # c
    /\ pending[u] = c => joining[u] # c
    /\ \A r \in requests : r.by = u /\ r.call = c => c \notin {pending[u], joining[u], session[u]}
    /\ \A i \in Mails(u) : RingAt(u, i, c) =>
          /\ pending[u] # c /\ ~Answered(u, c)
          /\ \A j \in Mails(u) : RingAt(u, j, c) => i = j

\* What rings may be accepted, or its end is still to come.
Told(u, c) == \E j \in Mails(u) : OverAt(u, j, c)
Rings(u, c) ==
    /\ pending[u] = c => Invited(u, c) \/ Told(u, c)
    /\ \A i \in Mails(u) : RingAt(u, i, c) =>
          Invited(u, c) \/ \E j \in Mails(u) : i < j /\ OverAt(u, j, c)

\* What the page does, it does with one call at a time.
Page(u) ==
    /\ inCall[u] <=> session[u] # NoCall \/ joining[u] # NoCall
    /\ session[u] # NoCall => joining[u] = NoCall
    /\ pending[u] # NoCall => ~inCall[u] /\ ui[u] = "incoming"
    /\ rooms[u] = ({session[u]} \cup IF flow[u] = "loading" THEN {joining[u]} ELSE {}) \ {NoCall}

Hanging(u, c) == [what |-> "end", by |-> u, call |-> c] \in requests

\* Who is in a call for the server is in it for its page, or is hanging up, or has heard
\* that the broadcaster does.
Joiners(u, c) ==
    InCallOf(u, c) => \/ session[u] = c \/ joining[u] = c \/ Hanging(u, c)
                      \/ /\ call[c].mode = "broadcast" /\ call[c].from # u
                         /\ Hanging(call[c].from, c)

\* Who is in a call for the page is in it for the server, or will be told of its end.
Sessions(u, c) ==
    session[u] = c \/ (joining[u] = c /\ flow[u] \in {"accepted", "answered", "loading"}) =>
        InCallOf(u, c) \/ Told(u, c)

\* A notice is for a viewer, of a broadcast that is over or that its owner is ending.
Notice(u, c) ==
    /\ c \in rooms[u] /\ call[c].mode = "broadcast" /\ call[c].from # u
    /\ c \in calls => Hanging(call[c].from, c)

Agreeing ==
    ~crossed => \A u \in Users :
        /\ Page(u)
        /\ \A c \in CallIds : /\ Joiners(u, c) /\ Sessions(u, c)
                              /\ <<u, c>> \in notices => Notice(u, c)

RingInv == \A u \in Users, c \in CallIds : Once(u, c) /\ Rings(u, c)

PagesTypeOK ==
    /\ inbox \in [Users -> Seq(Event)]
    /\ requests \subseteq [what : {"decline", "end"}, by : Users, call : CallIds]
    /\ notices \subseteq Users \X CallIds
    /\ pending \in [Users -> Calls] /\ session \in [Users -> Calls]
    /\ inCall \in [Users -> BOOLEAN] /\ ui \in [Users -> Modes]
    /\ rooms \in [Users -> SUBSET CallIds]
    /\ joining \in [Users -> Calls] /\ flow \in [Users -> Flows]
    /\ crossed \in BOOLEAN
    /\ \A u \in Users : flow[u] = "idle" <=> joining[u] = NoCall

CallInv == IInv /\ PagesTypeOK /\ Mail /\ RingInv /\ Agreeing

(***************************************************************************)
(* What the server does to the calls                                       *)
(***************************************************************************)
NewOver(u, c) == \E e \in sent' \ sent : e.to = u /\ e.call = c /\ e.type \in Over

\* The server acts on call d, for user a if anybody: whoever was invited to a call or in it
\* stays so, or is told that it is over, or is a; no call comes back, or goes to another owner.
Serves(a, d) ==
    /\ IInv' /\ sent \subseteq sent'
    /\ \A c \in CallIds : Placed(c) =>
          Placed(c)' /\ call'[c].mode = call[c].mode /\ call'[c].from = call[c].from /\ (c \in calls' => c \in calls)
    /\ \A u \in Users, c \in CallIds : Invited(u, c) => Invited(u, c)' \/ NewOver(u, c) \/ (u = a /\ c = d)
    /\ \A u \in Users, c \in CallIds : InCallOf(u, c) => InCallOf(u, c)' \/ NewOver(u, c) \/ (u = a /\ c = d)
    /\ \A u \in Users, c \in CallIds : InCallOf(u, c)' => InCallOf(u, c) \/ (u = a /\ c = d)
    /\ \A e \in sent' \ sent : e.call = d /\ (e.type = "call-incoming" => ~Placed(d) /\ Invited(e.to, d)')

\* An end is new when the call was still there.
LEMMA EndIsNew ==
    ASSUME IInv, NEW u \in Users, NEW c \in calls, NEW e \in sent', e.to = u, e.call = c, e.type \in Over
    PROVE  NewOver(u, c)
<1>1. e \notin sent
  BY DEF IInv, NoEarlyEnd, ToldOver
<1> QED BY <1>1 DEF NewOver

LEMMA PlaceServes ==
    ASSUME IInv, NEW u \in Users, NEW v \in Convs, NEW c \in CallIds, Place(u, v, c)
    PROVE  /\ Serves(u, c) /\ ~Placed(c) /\ Placed(c)' /\ InCallOf(u, c)' /\ ~Invited(u, c)'
<1>1. IInv'
  BY PlaceIInv
<1>2. /\ call[c].status = "unplaced" /\ calls' = calls \cup {c} /\ u \notin Invitees(v, u)
      /\ call'[c].status = "ringing" /\ call'[c].joined = {u} /\ call'[c].callees = Invitees(v, u)
      /\ \A b \in CallIds : b # c => call'[b] = call[b]
      /\ sent' = sent \cup Push(Invitees(v, u), "call-incoming", c)
  BY ConvAssumption DEF Place, IInv, TypeOK, Invitees, IsMember
<1>3. \A e \in sent' \ sent : e.call = c /\ e.to \in Invitees(v, u)
  BY <1>2, PushFacts
<1>4. c \notin calls /\ calls \subseteq CallIds
  BY <1>2 DEF IInv, UnplacedIsUnknown, TypeOK
<1> QED BY <1>1, <1>2, <1>3, <1>4 DEF Serves, InCallOf, Invited

LEMMA AcceptServes ==
    ASSUME IInv, NEW u \in Users, NEW c \in CallIds, Accept(u, c)
    PROVE  Serves(u, c) /\ sent' = sent /\ InCallOf(u, c)'
<1>1. IInv'
  BY AcceptIInv
<1>2. c \in calls /\ u \in call[c].callees /\ calls' = calls /\ sent' = sent /\ call[c] \in Call
      /\ call' = [call EXCEPT ![c] = Join(call[c], u)]
  BY DEF Accept, IInv, TypeOK
<1>3. PICK r : r = Join(call[c], u)
  OBVIOUS
<1>4. /\ r.mode = call[c].mode /\ r.from = call[c].from /\ r.status = "active"
      /\ r.callees = call[c].callees \ {u} /\ r.joined = call[c].joined \cup {u}
  BY <1>2, <1>3, JoinFields
<1>5. call'[c] = r /\ \A b \in CallIds : b # c => call'[b] = call[b]
  BY <1>2, <1>3 DEF IInv, TypeOK
<1> QED BY <1>1, <1>2, <1>4, <1>5 DEF Serves, InCallOf, Invited

\* The rest of an accept changes no call.
LEMMA ResumeServes ==
    ASSUME IInv, NEW u \in Users, NEW c \in CallIds, AcceptResume(u, c) \/ AcceptFail(u, c)
    PROVE  Serves(u, c) /\ UNCHANGED <<calls, call>> /\ \A e \in sent' \ sent : e.type = "call-accepted"
<1>1. IInv'
  BY AcceptResumeIInv, AcceptFailIInv
<1>2. UNCHANGED <<calls, call>> /\ sent \subseteq sent'
      /\ \A e \in sent' \ sent : e.call = c /\ e.type = "call-accepted"
  BY PushFacts DEF AcceptResume, AcceptFail
<1> QED BY <1>1, <1>2 DEF Serves, InCallOf, Invited

LEMMA ExpireServes ==
    ASSUME IInv, NEW c \in CallIds, Expire(c)
    PROVE  Serves(NoUser, c)
<1>1. IInv'
  BY ExpireIInv
<1>2. /\ call[c] \in Call /\ c \in calls /\ call[c].joined = {call[c].from} /\ calls \subseteq CallIds
  BY DEF Expire, IInv, TimerGuardsRinging, RosterSound, TypeOK
<1>3. /\ call' = [call EXCEPT ![c] = Disarm(call[c])] /\ calls' = calls \ {c}
      /\ sent' = sent \cup Push({call[c].from} \cup call[c].callees, "missed", c)
  BY <1>2 DEF Expire
<1>4. PICK r : r = Disarm(call[c])
  OBVIOUS
<1>5. /\ r.mode = call[c].mode /\ r.from = call[c].from /\ r.status = call[c].status
      /\ call'[c] = r /\ \A b \in CallIds : b # c => call'[b] = call[b]
  BY <1>2, <1>3, <1>4, DisarmFields DEF IInv, TypeOK
<1>6. \A e \in sent' \ sent : e.call = c /\ e.type = "missed"
  BY <1>3, PushFacts
<1>7. ASSUME NEW u \in Users, Invited(u, c) \/ InCallOf(u, c) PROVE NewOver(u, c)
  <2>1. u \in {call[c].from} \cup call[c].callees
    BY <1>2, <1>7 DEF Invited, InCallOf
  <2>2. PICK S : S = {call[c].from} \cup call[c].callees
    OBVIOUS
  <2>3. PICK e \in Push(S, "missed", c) : e.to = u /\ e.type = "missed" /\ e.call = c
    BY <2>1, <2>2, PushFacts
  <2>4. e \in sent' /\ e.type \in Over
    BY <1>3, <2>2, <2>3 DEF Over
  <2> QED BY <1>2, <2>3, <2>4, EndIsNew
<1>8. ASSUME NEW u \in Users, NEW b \in CallIds, b # c
      PROVE  (Invited(u, b) => Invited(u, b)') /\ (InCallOf(u, b) <=> InCallOf(u, b)')
  BY <1>3, <1>5, <1>8 DEF Invited, InCallOf
<1>9. \A u \in Users : ~InCallOf(u, c)'
  BY <1>3 DEF InCallOf
<1>10. \A b \in CallIds : Placed(b) =>
          Placed(b)' /\ call'[b].mode = call[b].mode /\ call'[b].from = call[b].from /\ (b \in calls' => b \in calls)
  BY <1>3, <1>5
<1>11. ASSUME NEW u \in Users, NEW b \in CallIds
       PROVE  /\ Invited(u, b) => Invited(u, b)' \/ NewOver(u, b)
              /\ InCallOf(u, b) => InCallOf(u, b)' \/ NewOver(u, b)
              /\ InCallOf(u, b)' => InCallOf(u, b)
  <2>1. CASE b = c
    BY <1>7, <1>9, <2>1
  <2>2. CASE b # c
    BY <1>8, <2>2
  <2> QED BY <2>1, <2>2
<1>12. sent \subseteq sent' /\ \A e \in sent' \ sent : e.call = c /\ e.type # "call-incoming"
  BY <1>3, <1>6
<1> QED BY <1>1, <1>10, <1>11, <1>12 DEF Serves

\* Nothing changes.
LEMMA NothingServes ==
    ASSUME IInv, UNCHANGED serverVars, NEW a, NEW d
    PROVE  Serves(a, d)
<1>1. UNCHANGED <<calls, call, accepting, sent, tokens, left>>
  BY DEF serverVars
<1>2. IInv'
  BY <1>1 DEF IInv, TypeOK, UnplacedIsUnknown, RosterComplete, RosterSound,
       AcceptingSound, EveryoneTold, NoEarlyEnd, LiveCallHasParticipants,
       TimerGuardsRinging, MissedMeansUnanswered, TokensOnlyForInvited, Rung, ToldOver
<1> QED BY <1>1, <1>2 DEF Serves, InCallOf, Invited

\* The body of end() and of the last decline.
LEMMA EndForServes ==
    ASSUME IInv, IInv', NEW u \in Users, NEW c \in calls, NEW r \in Call, NEW told,
           r.mode = call[c].mode, r.from = call[c].from, r.status = call[c].status, r.joined = call[c].joined,
           call[c].callees \subseteq r.callees \cup {u}, r.callees \subseteq call[c].callees,
           \A e \in told : e.call = c /\ e.type = "call-declined",
           EndFor(u, c, r, told)
    PROVE  Serves(u, c) /\ ~InCallOf(u, c)' /\ (call[c].mode = "broadcast" /\ call[c].from = u => c \notin calls')
<1>1. PICK s : s = Leave(r, u)
  OBVIOUS
<1>2. /\ s \in Call /\ s.mode = call[c].mode /\ s.from = call[c].from /\ s.status = call[c].status
      /\ s.callees = call[c].callees \ {u} /\ s.joined = call[c].joined \ {u}
  <2>1. r.callees \ {u} = call[c].callees \ {u}
    OBVIOUS
  <2> QED BY <1>1, <2>1, LeaveFields
<1>3. call \in [CallIds -> Call] /\ calls \subseteq CallIds
  BY DEF IInv, TypeOK
<1>4. CASE StaysUp(s, u)
  <2>1. call' = [call EXCEPT ![c] = s] /\ sent' = sent \cup told /\ calls' = calls
    BY <1>1, <1>4 DEF EndFor
  <2>2. call'[c] = s /\ \A b \in CallIds : b # c => call'[b] = call[b]
    BY <1>3, <2>1
  <2>3. \A e \in sent' \ sent : e.call = c /\ e.type # "call-incoming"
    BY <2>1
  <2>4. ASSUME NEW w \in Users, NEW b \in CallIds
        PROVE  /\ Invited(w, b) => Invited(w, b)' \/ (w = u /\ b = c)
               /\ InCallOf(w, b) => InCallOf(w, b)' \/ (w = u /\ b = c)
               /\ InCallOf(w, b)' => InCallOf(w, b)
    BY <1>2, <2>1, <2>2 DEF Invited, InCallOf
  <2>5. ~InCallOf(u, c)' /\ ~(call[c].mode = "broadcast" /\ call[c].from = u)
    BY <1>2, <1>4, <2>2 DEF InCallOf, StaysUp
  <2>6. \A b \in CallIds : /\ call'[b].status = call[b].status /\ call'[b].mode = call[b].mode
                           /\ call'[b].from = call[b].from
    BY <1>2, <2>2
  <2> QED BY <2>1, <2>3, <2>4, <2>5, <2>6 DEF Serves
<1>5. CASE ~StaysUp(s, u)
  <2>1. PICK S : S = Audience(s, u)
    OBVIOUS
  <2>2. PICK type \in Over : type = IF s.mode = "broadcast" THEN "broadcaster-left" ELSE "call-ended"
    BY DEF Over
  <2>3. call' = [call EXCEPT ![c] = Disarm(s)] /\ sent' = sent \cup told \cup Push(S, type, c) /\ calls' = calls \ {c}
    BY <1>1, <1>5, <2>1, <2>2 DEF EndFor
  <2>4. PICK o : o = Disarm(s)
    OBVIOUS
  <2>5. o.mode = call[c].mode /\ o.from = call[c].from /\ o.status = call[c].status
    BY <1>2, <2>4, DisarmFields
  <2>6. call'[c] = o /\ \A b \in CallIds : b # c => call'[b] = call[b]
    BY <1>3, <2>3, <2>4
  <2>7. \A e \in sent' \ sent : e.call = c /\ e.type # "call-incoming"
    <3>1. \A e \in Push(S, type, c) : e.call = c /\ e.type = type
      BY PushFacts
    <3> QED BY <2>2, <2>3, <3>1 DEF Over
  <2>8. ASSUME NEW w \in Users, w # u, Invited(w, c) \/ InCallOf(w, c) PROVE NewOver(w, c)
    <3>1. w \in S
      BY <1>2, <2>1, <2>8 DEF Audience, Invited, InCallOf
    <3>2. PICK e \in Push(S, type, c) : e.to = w /\ e.type = type /\ e.call = c
      BY <3>1, PushFacts
    <3>3. e \in sent'
      BY <2>3
    <3> QED BY <2>2, <3>2, <3>3, EndIsNew
  <2>9. ASSUME NEW w \in Users, NEW b \in CallIds
        PROVE  /\ Invited(w, b) => Invited(w, b)' \/ NewOver(w, b) \/ (w = u /\ b = c)
               /\ InCallOf(w, b) => InCallOf(w, b)' \/ NewOver(w, b) \/ (w = u /\ b = c)
               /\ InCallOf(w, b)' => InCallOf(w, b)
    <3>1. CASE b = c
      BY <2>3, <2>8, <3>1 DEF InCallOf
    <3>2. CASE b # c
      BY <2>3, <2>6, <3>2 DEF Invited, InCallOf
    <3> QED BY <3>1, <3>2
  <2>10. \A b \in CallIds : /\ call'[b].status = call[b].status /\ call'[b].mode = call[b].mode
                            /\ call'[b].from = call[b].from /\ (b \in calls' => b \in calls)
    BY <2>3, <2>5, <2>6
  <2>11. ~InCallOf(u, c)' /\ c \notin calls' /\ sent \subseteq sent'
    BY <2>3 DEF InCallOf
  <2> QED BY <2>7, <2>9, <2>10, <2>11 DEF Serves
<1> QED BY <1>4, <1>5

LEMMA EndServes ==
    ASSUME IInv, NEW u \in Users, NEW c \in CallIds, End(u, c)
    PROVE  Serves(u, c) /\ ~InCallOf(u, c)' /\ (call[c].mode = "broadcast" /\ call[c].from = u => c \notin calls')
<1>1. IInv'
  BY EndIInv
<1>2. c \in calls /\ call[c] \in Call /\ EndFor(u, c, call[c], {})
  BY DEF End, IInv, TypeOK
<1> QED BY <1>1, <1>2, EndForServes

LEMMA DeclineServes ==
    ASSUME IInv, NEW u \in Users, NEW c \in CallIds, Decline(u, c)
    PROVE  Serves(u, c) /\ (InCallOf(u, c)' => InCallOf(u, c))
<1>1. IInv'
  BY DeclineIInv
<1>2. PICK r : r = [call[c] EXCEPT !.callees = call[c].callees \ {u}]
  OBVIOUS
<1>3. PICK told : told = Push({r.from}, "call-declined", c)
  OBVIOUS
<1>4. c \in calls /\ call \in [CallIds -> Call] /\ calls \subseteq CallIds
  BY DEF Decline, IInv, TypeOK
<1>5. /\ r \in Call /\ r.mode = call[c].mode /\ r.from = call[c].from /\ r.status = call[c].status
      /\ r.joined = call[c].joined /\ r.callees = call[c].callees \ {u}
  BY <1>2, <1>4 DEF Call
<1>6. \A e \in told : e.call = c /\ e.type = "call-declined"
  BY <1>3, PushFacts
<1>7. CASE r.callees = {} /\ AtMostOne(r.joined)
  <2>1. EndFor(u, c, r, told)
    BY <1>2, <1>3, <1>7 DEF Decline
  <2>2. call[c].callees \subseteq r.callees \cup {u} /\ r.callees \subseteq call[c].callees
    BY <1>5
  <2> QED BY <1>1, <1>4, <1>5, <1>6, <2>1, <2>2, EndForServes
<1>8. CASE ~(r.callees = {} /\ AtMostOne(r.joined))
  <2>1. call' = [call EXCEPT ![c] = r] /\ sent' = sent \cup told /\ calls' = calls
    BY <1>2, <1>3, <1>8 DEF Decline
  <2>2. call'[c] = r /\ \A b \in CallIds : b # c => call'[b] = call[b]
    BY <1>4, <2>1
  <2>3. ASSUME NEW w \in Users, NEW b \in CallIds
        PROVE  /\ Invited(w, b) => Invited(w, b)' \/ (w = u /\ b = c)
               /\ InCallOf(w, b) <=> InCallOf(w, b)'
    BY <1>5, <2>1, <2>2 DEF Invited, InCallOf
  <2>4. \A b \in CallIds : /\ call'[b].status = call[b].status /\ call'[b].mode = call[b].mode
                           /\ call'[b].from = call[b].from
    BY <1>5, <2>2
  <2>5. \A e \in sent' \ sent : e.call = c /\ e.type # "call-incoming"
    BY <1>6, <2>1
  <2> QED BY <1>1, <2>1, <2>3, <2>4, <2>5 DEF Serves
<1> QED BY <1>7, <1>8

(***************************************************************************)
(* What is pushed to the pages                                             *)
(***************************************************************************)
\* What was on its way to u still is, and after it comes what the server has just sent to
\* u, each event once.
Pushes(u) ==
    /\ inbox'[u] \in Seq(Event) /\ Len(inbox[u]) <= Len(inbox'[u])
    /\ \A i \in Mails(u) : inbox'[u][i] = inbox[u][i]
    /\ \A i \in 1..Len(inbox'[u]) : i \notin Mails(u) =>
          /\ Len(inbox[u]) < i /\ inbox'[u][i] \in sent' \ sent
          /\ inbox'[u][i].to = u /\ inbox'[u][i].type \in Matters
          /\ \A j \in 1..Len(inbox'[u]) : j \notin Mails(u) /\ inbox'[u][i] = inbox'[u][j] => i = j
    /\ \A e \in sent' \ sent : e.to = u /\ e.type \in Matters =>
          \E i \in 1..Len(inbox'[u]) : Len(inbox[u]) < i /\ inbox'[u][i] = e

\* SetToSeq lists each member of a finite set once.
LEMMA SetToSeqFacts ==
    ASSUME NEW S, IsFiniteSet(S)
    PROVE  /\ SetToSeq(S) \in Seq(S)
           /\ \A y \in S : \E i \in 1..Len(SetToSeq(S)) : SetToSeq(S)[i] = y
           /\ \A i, j \in 1..Len(SetToSeq(S)) : SetToSeq(S)[i] = SetToSeq(S)[j] => i = j
<1> PICK n \in Nat : n = Cardinality(S)
  BY FS_CardinalityType
<1> PICK f : f = SetToSeq(S)
  OBVIOUS
<1>1. \E g \in [1..n -> S] : IsInjective(g)
  <2>1. PICK g \in Bijection(1..n, S) : TRUE
    BY FS_CardinalityType DEF ExistsBijection
  <2>2. g \in [1..n -> S] /\ \A a, b \in 1..n : g[a] = g[b] => a = b
    BY <2>1, Fun_BijectionProperties
  <2> QED BY <2>2 DEF IsInjective
<1>2. f \in [1..n -> S] /\ IsInjective(f)
  BY <1>1 DEF SetToSeq
<1>3. f \in Injection(1..n, S) /\ \A i, j \in 1..n : f[i] = f[j] => i = j
  BY <1>2 DEF Injection, IsInjective
<1>4. IsFiniteSet(1..n) /\ Cardinality(1..n) = n
  BY FS_Interval
<1>5. f \in Surjection(1..n, S)
  BY <1>3, <1>4, FS_Injection
<1>6. \A y \in S : \E i \in 1..n : f[i] = y
  BY <1>5, Fun_SurjectionProperties
<1>7. f \in Seq(S) /\ Len(f) = n
  BY <1>2
<1> QED BY <1>3, <1>6, <1>7

\* An event is what it says.
LEMMA SameEvent ==
    ASSUME NEW e \in Event, NEW g \in Event, e.to = g.to, e.type = g.type, e.call = g.call
    PROVE  e = g
BY DEF Event

\* The events of one call to one user that matter are finitely many.
LEMMA FewEvents ==
    ASSUME NEW d \in CallIds, NEW u \in Users, NEW M \in SUBSET Event,
           \A e \in M : e.to = u /\ e.call = d /\ e.type \in Matters
    PROVE  IsFiniteSet(M)
<1>1. PICK F : F = [t \in Matters |-> [to |-> u, type |-> t, call |-> d]]
  OBVIOUS
<1>2. IsFiniteSet({"call-incoming", "call-ended", "broadcaster-left", "missed"})
  <2>1. IsFiniteSet({}) /\ IsFiniteSet({"call-incoming"})
    BY FS_EmptySet, FS_Singleton
  <2>2. /\ IsFiniteSet({"call-incoming"} \cup {"call-ended"})
        /\ IsFiniteSet({"broadcaster-left"} \cup {"missed"})
    BY FS_Singleton, FS_Union
  <2>3. IsFiniteSet(({"call-incoming"} \cup {"call-ended"}) \cup ({"broadcaster-left"} \cup {"missed"}))
    BY <2>2, FS_Union
  <2>4. {"call-incoming", "call-ended", "broadcaster-left", "missed"}
        = ({"call-incoming"} \cup {"call-ended"}) \cup ({"broadcaster-left"} \cup {"missed"})
    OBVIOUS
  <2> QED BY <2>3, <2>4
<1>3. IsFiniteSet(Matters)
  <2>1. Matters = {"call-incoming", "call-ended", "broadcaster-left", "missed"}
    BY DEF Matters, Over
  <2> QED BY <1>2, <2>1
<1>4. PICK N : N = {F[t] : t \in Matters}
  OBVIOUS
<1>5. IsFiniteSet(N)
  <2>1. F \in Surjection(Matters, N)
    BY <1>1, <1>4 DEF Surjection
  <2> QED BY <1>3, <2>1, FS_Surjection
<1>6. ASSUME NEW e \in M PROVE e \in N
  <2>1. F[e.type] = [to |-> u, type |-> e.type, call |-> d]
    BY <1>1
  <2>2. [to |-> u, type |-> e.type, call |-> d] \in Event
    BY DEF Event
  <2>3. e = F[e.type]
    BY <2>1, <2>2, SameEvent
  <2> QED BY <1>4, <2>3
<1>7. M \subseteq N
  BY <1>6
<1> QED BY <1>5, <1>7, FS_Subset

\* The server pushes what matters of what it has just sent about one call.
LEMMA PushedPushes ==
    ASSUME PagesTypeOK, NEW d \in CallIds, sent' \subseteq Event, \A e \in sent' \ sent : e.call = d, Pushed,
           NEW u \in Users
    PROVE  Pushes(u)
<1>1. PICK M : M = {e \in sent' \ sent : e.to = u /\ e.type \in Matters}
  OBVIOUS
<1>2. M \in SUBSET Event /\ IsFiniteSet(M)
  BY <1>1, FewEvents
<1>3. PICK s : s = inbox[u]
  OBVIOUS
<1>4. PICK t : t = SetToSeq(M)
  OBVIOUS
<1>5. PICK n \in Nat : n = Len(s)
  BY <1>3, LenProperties DEF PagesTypeOK
<1>6. /\ t \in Seq(M) /\ t \in Seq(Event)
      /\ \A y \in M : \E i \in 1..Len(t) : t[i] = y
      /\ \A i, j \in 1..Len(t) : t[i] = t[j] => i = j
  BY <1>2, <1>4, SetToSeqFacts, SeqMonotonic
<1>7. PICK k \in Nat : k = Len(t)
  BY <1>6, LenProperties
<1>8. PICK v : v = s \o t
  OBVIOUS
<1>9. inbox'[u] = v
  BY <1>1, <1>3, <1>4, <1>8 DEF Pushed
<1>10. s \in Seq(Event)
  BY <1>3 DEF PagesTypeOK
<1>11. /\ v \in Seq(Event) /\ Len(v) = n + k
       /\ \A i \in 1..n + k : v[i] = IF i <= n THEN s[i] ELSE t[i - n]
  BY <1>5, <1>6, <1>7, <1>8, <1>10, ConcatProperties
<1>12. \A i \in 1..k : t[i] \in M
  BY <1>6, <1>7, ElementOfSeq
<1>13. \A i \in 1..n : v[i] = s[i]
  BY <1>11
<1>14. ASSUME NEW i \in 1..n + k, i \notin 1..n
       PROVE  n < i /\ i - n \in 1..k /\ v[i] = t[i - n] /\ v[i] \in M
  <2>1. n < i /\ i - n \in 1..k /\ v[i] = t[i - n]
    BY <1>11, <1>14
  <2> QED BY <1>12, <2>1
<1>15. ASSUME NEW i \in 1..n + k, NEW j \in 1..n + k, i \notin 1..n, j \notin 1..n, v[i] = v[j] PROVE i = j
  <2>1. t[i - n] = t[j - n] /\ i - n \in 1..k /\ j - n \in 1..k
    BY <1>14, <1>15
  <2>2. i - n = j - n
    BY <1>6, <1>7, <2>1
  <2> QED BY <2>2
<1>16. ASSUME NEW y \in M PROVE \E i \in 1..n + k : n < i /\ v[i] = y
  <2>1. PICK j \in 1..k : t[j] = y
    BY <1>6, <1>7
  <2>2. n + j \in 1..n + k /\ n < n + j /\ ~(n + j <= n) /\ (n + j) - n = j
    BY <2>1
  <2> QED BY <1>11, <2>1, <2>2
<1>17. Len(inbox[u]) = n /\ Mails(u) = 1..n /\ Len(inbox'[u]) = n + k /\ n <= n + k
  BY <1>3, <1>5, <1>9, <1>11 DEF Mails
<1>18. \A i \in 1..n : inbox'[u][i] = inbox[u][i]
  BY <1>3, <1>9, <1>13
<1>19. ASSUME NEW i \in 1..n + k, i \notin 1..n
       PROVE  /\ n < i /\ v[i] \in sent' \ sent /\ v[i].to = u /\ v[i].type \in Matters
              /\ \A j \in 1..n + k : j \notin 1..n /\ v[i] = v[j] => i = j
  BY <1>1, <1>14, <1>15, <1>19
<1>20. ASSUME NEW e \in sent' \ sent, e.to = u, e.type \in Matters PROVE \E i \in 1..n + k : n < i /\ v[i] = e
  BY <1>1, <1>16, <1>20
<1> QED BY <1>9, <1>11, <1>17, <1>18, <1>19, <1>20 DEF Pushes

\* Nothing is pushed that does not matter.
LEMMA NothingPushed ==
    ASSUME PagesTypeOK, UNCHANGED inbox, \A e \in sent' \ sent : e.type \notin Matters, NEW u \in Users
    PROVE  Pushes(u)
<1>1. inbox[u] \in Seq(Event) /\ Len(inbox[u]) \in Nat
  BY LenProperties DEF PagesTypeOK
<1> QED BY <1>1 DEF Pushes, Mails

(***************************************************************************)
(* What rings, when the server acts                                        *)
(***************************************************************************)
\* The server acts on d for a, who has answered d or is just placing it.
ServerActs(a, d) ==
    /\ d \in CallIds /\ Serves(a, d) /\ \A u \in Users : Pushes(u)
    /\ UNCHANGED <<notices, pending, session, rooms>> /\ requests' \subseteq requests
    /\ a \in Users => Answered(a, d) \/ ~Placed(d)
    /\ \A u \in Users : \/ joining'[u] = joining[u]
                        \/ /\ u = a /\ joining'[u] = d /\ joining[u] = NoCall
                           /\ ~Placed(d) /\ Placed(d)' /\ ~Invited(u, d)'

\* Whoever is told of an end has it in the inbox, after what was there.
LEMMA EndIsPushed ==
    ASSUME NEW u \in Users, NEW c \in CallIds, Pushes(u), NewOver(u, c)
    PROVE  \E j \in 1..Len(inbox'[u]) : Len(inbox[u]) < j /\ inbox'[u][j].type \in Over /\ inbox'[u][j].call = c
<1>1. PICK e \in sent' \ sent : e.to = u /\ e.call = c /\ e.type \in Over
  BY DEF NewOver
<1>2. e.type \in Matters
  BY <1>1 DEF Matters
<1>3. PICK j \in 1..Len(inbox'[u]) : Len(inbox[u]) < j /\ inbox'[u][j] = e
  BY <1>1, <1>2 DEF Pushes
<1> QED BY <1>1, <1>3

LEMMA ToldStays ==
    ASSUME NEW u \in Users, NEW c \in CallIds, PagesTypeOK, Pushes(u), Told(u, c) \/ NewOver(u, c)
    PROVE  Told(u, c)'
<1>1. Len(inbox[u]) \in Nat /\ Len(inbox'[u]) \in Nat
  BY LenProperties DEF PagesTypeOK, Pushes
<1>2. CASE NewOver(u, c)
  BY <1>2, EndIsPushed DEF Told, OverAt, Mails
<1>3. CASE Told(u, c)
  <2>1. PICK j \in Mails(u) : inbox[u][j].type \in Over /\ inbox[u][j].call = c
    BY <1>3 DEF Told, OverAt
  <2>2. j \in 1..Len(inbox'[u]) /\ inbox'[u][j] = inbox[u][j]
    BY <1>1, <2>1 DEF Mails, Pushes
  <2> QED BY <2>1, <2>2 DEF Told, OverAt, Mails
<1> QED BY <1>2, <1>3

LEMMA ServerRings ==
    ASSUME IInv, PagesTypeOK, Mail, RingInv, NEW a, NEW d, ServerActs(a, d)
    PROVE  Mail' /\ RingInv'
<1>0. d \in CallIds /\ Serves(a, d) /\ sent \subseteq sent' /\ sent' \subseteq Event
  BY DEF ServerActs, Serves, IInv, TypeOK
<1>1. \A u \in Users : Pushes(u) /\ Len(inbox[u]) \in Nat /\ Len(inbox'[u]) \in Nat
  BY LenProperties DEF ServerActs, PagesTypeOK, Pushes
<1>2. Mail'
  <2> SUFFICES ASSUME NEW u \in Users, NEW i \in 1..Len(inbox'[u])
               PROVE  inbox'[u][i] \in sent' /\ inbox'[u][i].to = u /\ inbox'[u][i].type \in Matters
    BY DEF Mail, Mails
  <2>1. CASE i \in Mails(u)
    BY <1>0, <1>1, <2>1 DEF Mail, Pushes
  <2>2. CASE i \notin Mails(u)
    BY <1>1, <2>2 DEF Pushes
  <2> QED BY <2>1, <2>2
<1>3. ASSUME NEW u \in Users, NEW c \in CallIds PROVE Once(u, c)' /\ Rings(u, c)'
  <2>0. Once(u, c) /\ Rings(u, c)
    BY DEF RingInv
  <2>1. /\ pending'[u] = pending[u] /\ session'[u] = session[u] /\ notices' = notices /\ requests' \subseteq requests
        /\ (a \in Users => Answered(a, d) \/ ~Placed(d))
        /\ (Placed(c) => Placed(c)')
    BY <1>0 DEF ServerActs, Serves
  <2>2. \/ joining'[u] = joining[u]
        \/ u = a /\ joining'[u] = d /\ ~Placed(d) /\ Placed(d)' /\ ~Invited(u, d)'
    BY DEF ServerActs
  <2>3. ASSUME ~Placed(c)
        PROVE  pending[u] # c /\ ~Answered(u, c) /\ \A i \in Mails(u) : ~RingAt(u, i, c)
    <3>1. \A e \in sent : e.call # c
      BY <2>3 DEF IInv, UnplacedIsUnknown
    <3> QED BY <2>0, <2>3, <3>1 DEF Once, Mail, RingAt
  <2>4. ASSUME NEW i \in 1..Len(inbox'[u]), RingAt(u, i, c)'
        PROVE  \/ i \in Mails(u) /\ RingAt(u, i, c)
               \/ i \notin Mails(u) /\ c = d /\ ~Placed(d) /\ Invited(u, c)'
    <3>1. CASE i \in Mails(u)
      BY <1>1, <2>4, <3>1 DEF Pushes, RingAt
    <3>2. CASE i \notin Mails(u)
      <4>1. inbox'[u][i] \in sent' \ sent /\ inbox'[u][i].to = u
        BY <1>1, <3>2 DEF Pushes
      <4>2. PICK e \in sent' \ sent : e = inbox'[u][i]
        BY <4>1
      <4>3. e.call = c /\ e.type = "call-incoming" /\ e.to = u
        BY <2>4, <4>1, <4>2 DEF RingAt
      <4>4. e.call = d /\ ~Placed(d) /\ Invited(e.to, d)'
        BY <1>0, <4>3 DEF Serves
      <4> QED BY <3>2, <4>3, <4>4
    <3> QED BY <3>1, <3>2
  <2>5. Answered(u, c)' => Answered(u, c) \/ (u = a /\ c = d /\ ~Placed(d) /\ Placed(d)' /\ ~Invited(u, d)')
    BY <2>1, <2>2 DEF Answered
  <2>6. ASSUME NEW i \in 1..Len(inbox'[u]), RingAt(u, i, c)'
        PROVE  /\ pending'[u] # c /\ ~Answered(u, c)'
               /\ \A j \in 1..Len(inbox'[u]) : RingAt(u, j, c)' => i = j
    <3>1. CASE i \in Mails(u) /\ RingAt(u, i, c)
      <4>1. Placed(c)
        BY <2>3, <3>1
      <4>2. \A j \in 1..Len(inbox'[u]) : RingAt(u, j, c)' => j \in Mails(u) /\ RingAt(u, j, c)
        BY <2>4, <4>1
      <4> QED BY <2>0, <2>1, <2>5, <3>1, <4>1, <4>2 DEF Once
    <3>2. CASE i \notin Mails(u) /\ c = d /\ ~Placed(d) /\ Invited(u, c)'
      <4>1. pending[u] # c /\ ~Answered(u, c) /\ \A j \in Mails(u) : ~RingAt(u, j, c)
        BY <2>3, <3>2
      <4>2. ASSUME NEW j \in 1..Len(inbox'[u]), RingAt(u, j, c)' PROVE i = j
        <5>1. j \notin Mails(u)
          BY <2>4, <4>1, <4>2
        <5>2. inbox'[u][i] \in Event /\ inbox'[u][j] \in Event /\ inbox'[u][i].to = u /\ inbox'[u][j].to = u
          BY <1>0, <1>1, <3>2, <5>1 DEF Pushes
        <5>3. inbox'[u][i] = inbox'[u][j]
          BY <2>6, <4>2, <5>2, SameEvent DEF RingAt
        <5> QED BY <1>1, <3>2, <5>1, <5>3 DEF Pushes
      <4> QED BY <2>1, <2>5, <3>2, <4>1, <4>2
    <3> QED BY <2>4, <2>6, <3>1, <3>2
  <2>7. Once(u, c)'
    <3>1. pending'[u] = c \/ Answered(u, c)' \/ <<u, c>> \in notices' => Placed(c)'
      BY <2>0, <2>1, <2>5 DEF Once
    <3>2. /\ pending'[u] = c \/ joining'[u] = c => session'[u] # c
          /\ pending'[u] = c => joining'[u] # c
      BY <2>0, <2>1, <2>2, <2>3 DEF Once, Answered
    <3>3. \A r \in requests' : r.by = u /\ r.call = c => c \notin {pending'[u], joining'[u], session'[u]}
      <4> TAKE r \in requests'
      <4> HAVE r.by = u /\ r.call = c
      <4>1. r \in requests /\ Placed(c)
        BY <2>0, <2>1 DEF Once, Answered
      <4> QED BY <2>0, <2>1, <2>2, <4>1 DEF Once
    <3> QED BY <2>6, <3>1, <3>2, <3>3 DEF Once, Mails
  <2>8. Invited(u, c) => Invited(u, c)' \/ NewOver(u, c) \/ (u = a /\ c = d)
    BY <1>0 DEF Serves
  <2>9. Invited(u, c) => Placed(c)
    BY DEF Invited, IInv, UnplacedIsUnknown
  <2>10. ASSUME pending'[u] = c PROVE Invited(u, c)' \/ Told(u, c)'
    <3>1. pending[u] = c /\ Placed(c) /\ ~Answered(u, c)
      BY <2>0, <2>1, <2>10 DEF Once, Answered
    <3>2. Invited(u, c) \/ Told(u, c)
      BY <2>0, <3>1 DEF Rings
    <3>3. ~(u = a /\ c = d)
      BY <2>1, <3>1
    <3> QED BY <1>1, <2>8, <3>2, <3>3, ToldStays
  <2>11. ASSUME NEW i \in 1..Len(inbox'[u]), RingAt(u, i, c)'
         PROVE  Invited(u, c)' \/ \E j \in 1..Len(inbox'[u]) : i < j /\ OverAt(u, j, c)'
    <3>1. CASE i \in Mails(u) /\ RingAt(u, i, c)
      <4>1. Invited(u, c) \/ \E j \in Mails(u) : i < j /\ OverAt(u, j, c)
        BY <2>0, <3>1 DEF Rings
      <4>2. ASSUME NEW j \in Mails(u), i < j, OverAt(u, j, c) PROVE j \in 1..Len(inbox'[u]) /\ OverAt(u, j, c)'
        BY <1>1, <4>2 DEF Mails, Pushes, OverAt
      <4>3. ASSUME NewOver(u, c) PROVE \E j \in 1..Len(inbox'[u]) : i < j /\ OverAt(u, j, c)'
        <5>1. PICK j \in 1..Len(inbox'[u]) : Len(inbox[u]) < j /\ inbox'[u][j].type \in Over /\ inbox'[u][j].call = c
          BY <1>1, <4>3, EndIsPushed
        <5>2. i < j
          BY <1>1, <3>1, <5>1 DEF Mails
        <5> QED BY <5>1, <5>2 DEF OverAt
      <4>4. ~(u = a /\ c = d /\ Invited(u, c))
        BY <2>0, <2>1, <2>9, <3>1 DEF Once
      <4> QED BY <2>8, <4>1, <4>2, <4>3, <4>4
    <3>2. CASE Invited(u, c)'
      BY <3>2
    <3> QED BY <2>4, <2>11, <3>1, <3>2
  <2> QED BY <2>7, <2>10, <2>11 DEF Rings, Mails
<1>4. RingInv'
  BY <1>3 DEF RingInv
<1> QED BY <1>2, <1>4

(***************************************************************************)
(* Who is in which call, when the server acts                              *)
(***************************************************************************)
Inside == {"accepted", "answered", "loading"}

\* The request that the server has dealt with was a's about d; an end took a out of d, and
\* ended a broadcast of a.  Who joined d did so by a join of the page.
ServerSettles(a, d) ==
    /\ \A r \in requests : r \notin requests' =>
          /\ r.by = a /\ r.call = d
          /\ r.what = "end" => ~InCallOf(a, d)' /\ (call[d].mode = "broadcast" /\ call[d].from = a => d \notin calls')
    /\ \A u \in Users : u = a =>
          /\ InCallOf(u, d)' => InCallOf(u, d) \/ joining'[u] = d
          /\ (session[u] = d \/ joining[u] = d) /\ InCallOf(u, d) => InCallOf(u, d)'
    /\ \A u \in Users : /\ joining'[u] # NoCall /\ flow'[u] \in Inside
                        /\ ~(joining[u] = joining'[u] /\ flow[u] \in Inside)
                        => u = a /\ joining'[u] = d /\ InCallOf(u, d)'

LEMMA ServerAgrees ==
    ASSUME IInv, PagesTypeOK, RingInv, Agreeing, ~crossed,
           NEW a, NEW d, ServerActs(a, d), ServerSettles(a, d), NEW u \in Users, NEW c \in CallIds
    PROVE  Joiners(u, c)' /\ Sessions(u, c)' /\ (<<u, c>> \in notices' => Notice(u, c)')
<1>0. /\ d \in CallIds /\ Serves(a, d) /\ \A w \in Users : Pushes(w)
      /\ UNCHANGED <<notices, pending, session, rooms>> /\ requests' \subseteq requests
      /\ joining'[u] = joining[u] \/ (u = a /\ joining'[u] = d /\ joining[u] = NoCall)
  BY DEF ServerActs
<1>1. /\ Joiners(u, c) /\ Sessions(u, c) /\ (<<u, c>> \in notices => Notice(u, c)) /\ Once(u, c)
  BY DEF Agreeing, RingInv
<1>2. c # NoCall
  BY NoCallAssumption
<1>3. /\ Placed(c) => Placed(c)' /\ call'[c].mode = call[c].mode /\ call'[c].from = call[c].from
                      /\ (c \in calls' => c \in calls)
      /\ InCallOf(u, c) => InCallOf(u, c)' \/ NewOver(u, c) \/ (u = a /\ c = d)
      /\ InCallOf(u, c)' => InCallOf(u, c) \/ (u = a /\ c = d)
  BY <1>0 DEF Serves
<1>4. InCallOf(u, c) => Placed(c)
  BY DEF InCallOf, IInv, UnplacedIsUnknown
<1>5. ASSUME NEW w, Hanging(w, c), ~Hanging(w, c)'
      PROVE  w = a /\ c = d /\ ~InCallOf(a, d)' /\ (call[d].mode = "broadcast" /\ call[d].from = a => d \notin calls')
  <2>1. PICK r \in requests : r = [what |-> "end", by |-> w, call |-> c] /\ r \notin requests'
    BY <1>5 DEF Hanging
  <2>2. r.what = "end" /\ r.by = w /\ r.call = c
    BY <2>1
  <2> QED BY <2>1, <2>2 DEF ServerSettles
<1>6. Joiners(u, c)'
  <2> SUFFICES ASSUME InCallOf(u, c)'
               PROVE  \/ session'[u] = c \/ joining'[u] = c \/ Hanging(u, c)'
                      \/ call'[c].mode = "broadcast" /\ call'[c].from # u /\ [what |-> "end", by |-> call'[c].from, call |-> c] \in requests'
    BY DEF Joiners, Hanging
  <2>1. CASE InCallOf(u, c)
    <3>1. call'[c].mode = call[c].mode /\ call'[c].from = call[c].from /\ c \in calls'
      BY <1>3, <1>4, <2>1 DEF InCallOf
    <3>2. CASE session[u] = c \/ joining[u] = c
      BY <1>0, <1>2, <3>2
    <3>3. CASE Hanging(u, c)
      BY <1>5, <3>3
    <3>4. CASE call[c].mode = "broadcast" /\ call[c].from # u /\ Hanging(call[c].from, c)
      <4>1. PICK w : w = call[c].from
        OBVIOUS
      <4>2. Hanging(w, c)'
        BY <1>5, <3>1, <3>4, <4>1
      <4> QED BY <3>1, <3>4, <4>1, <4>2 DEF Hanging
    <3> QED BY <1>1, <2>1, <3>2, <3>3, <3>4 DEF Joiners
  <2>2. CASE u = a /\ c = d /\ ~InCallOf(u, c)
    BY <2>2 DEF ServerSettles
  <2> QED BY <1>3, <2>1, <2>2
<1>7. Sessions(u, c)'
  <2> SUFFICES ASSUME session'[u] = c \/ (joining'[u] = c /\ flow'[u] \in Inside)
               PROVE  InCallOf(u, c)' \/ Told(u, c)'
    BY DEF Sessions, Inside
  <2>1. CASE session[u] = c \/ (joining[u] = c /\ flow[u] \in Inside)
    <3>1. InCallOf(u, c) \/ Told(u, c)
      BY <1>1, <2>1 DEF Sessions, Inside
    <3>2. u = a /\ c = d /\ InCallOf(u, c) => InCallOf(u, c)'
      BY <2>1 DEF ServerSettles
    <3> QED BY <1>0, <1>3, <3>1, <3>2, ToldStays
  <2>2. CASE ~(session[u] = c \/ (joining[u] = c /\ flow[u] \in Inside))
    BY <1>0, <1>2, <2>2 DEF ServerSettles
  <2> QED BY <2>1, <2>2
<1>8. ASSUME <<u, c>> \in notices' PROVE Notice(u, c)'
  <2>1. Notice(u, c) /\ Placed(c)
    BY <1>0, <1>1, <1>8 DEF Once
  <2>2. call'[c].mode = call[c].mode /\ call'[c].from = call[c].from /\ (c \in calls' => c \in calls)
    BY <1>3, <2>1
  <2>3. PICK w : w = call[c].from
    OBVIOUS
  <2>4. c \in calls' => Hanging(w, c)'
    BY <1>5, <2>1, <2>2, <2>3 DEF Notice
  <2> QED BY <1>0, <2>1, <2>2, <2>3, <2>4 DEF Notice, Hanging
<1> QED BY <1>6, <1>7, <1>8

\* The pages stay as they are.
LEMMA PageStays ==
    ASSUME NEW u \in Users, Page(u), UNCHANGED <<inCall, ui, pending, session, rooms, joining>>,
           flow'[u] = "loading" <=> flow[u] = "loading"
    PROVE  Page(u)'
BY DEF Page

LEMMA ServerActsInv ==
    ASSUME CallInv, PagesTypeOK', NEW a, NEW d, ServerActs(a, d), ServerSettles(a, d),
           crossed' = crossed, \A u \in Users : ~crossed /\ Page(u) => Page(u)'
    PROVE  CallInv'
<1>1. IInv' /\ Mail' /\ RingInv'
  <2>1. IInv /\ PagesTypeOK /\ Mail /\ RingInv
    BY DEF CallInv
  <2>2. Mail' /\ RingInv'
    BY <2>1, ServerRings
  <2> QED BY <2>2 DEF ServerActs, Serves
<1>2. ASSUME ~crossed, NEW u \in Users, NEW c \in CallIds
      PROVE  Page(u)' /\ Joiners(u, c)' /\ Sessions(u, c)' /\ (<<u, c>> \in notices' => Notice(u, c)')
  <2>1. Page(u)'
    BY <1>2 DEF CallInv, Agreeing
  <2> QED BY <1>2, <2>1, ServerAgrees DEF CallInv
<1>3. ASSUME ~crossed, NEW u \in Users PROVE Page(u)'
  BY <1>3 DEF CallInv, Agreeing
<1>4. Agreeing'
  BY <1>2, <1>3 DEF Agreeing
<1> QED BY <1>1, <1>4 DEF CallInv

\* An inbox keeps its type.
LEMMA InboxType ==
    ASSUME \A u \in Users : Pushes(u), Pushed
    PROVE  inbox' \in [Users -> Seq(Event)]
<1>1. inbox' = [u \in Users |-> inbox'[u]]
  BY DEF Pushed
<1>2. \A u \in Users : inbox'[u] \in Seq(Event)
  BY DEF Pushes
<1> QED BY <1>1, <1>2

LEMMA ServedPushes ==
    ASSUME PagesTypeOK, NEW a, NEW d \in CallIds, Serves(a, d), Pushed
    PROVE  (\A u \in Users : Pushes(u)) /\ inbox' \in [Users -> Seq(Event)]
<1>1. sent' \subseteq Event /\ \A e \in sent' \ sent : e.call = d
  BY DEF Serves, IInv, TypeOK
<1>2. \A u \in Users : Pushes(u)
  BY <1>1, PushedPushes
<1> QED BY <1>2, InboxType

LEMMA PlaceCallInv == ASSUME CallInv, NEW u \in Users, NEW v \in Convs, NEW c \in CallIds, PlaceCall(u, v, c) PROVE CallInv'
<1>0. IInv /\ PagesTypeOK
  BY DEF CallInv
<1>1. /\ Serves(u, c) /\ ~Placed(c) /\ Placed(c)' /\ InCallOf(u, c)' /\ ~Invited(u, c)'
  BY <1>0, PlaceServes DEF PlaceCall
<1>2. /\ ui[u] = "idle" /\ ~inCall[u] /\ flow[u] = "idle" /\ joining[u] = NoCall /\ Pushed
      /\ inCall' = [inCall EXCEPT ![u] = TRUE] /\ joining' = [joining EXCEPT ![u] = c]
      /\ ui' = [ui EXCEPT ![u] = "outgoing"] /\ flow' = [flow EXCEPT ![u] = "answered"]
      /\ UNCHANGED <<requests, notices, pending, session, rooms, crossed>>
  BY <1>0 DEF PlaceCall, Show, Goes, PagesTypeOK
<1>3. /\ inCall' \in [Users -> BOOLEAN] /\ inCall'[u] /\ joining' \in [Users -> Calls] /\ joining'[u] = c
      /\ ui' \in [Users -> Modes] /\ flow' \in [Users -> Flows] /\ flow'[u] = "answered"
      /\ \A w \in Users : w # u => /\ inCall'[w] = inCall[w] /\ joining'[w] = joining[w]
                                   /\ ui'[w] = ui[w] /\ flow'[w] = flow[w]
  BY <1>0, <1>2 DEF PagesTypeOK, Calls, Modes, Flows
<1>4. (\A w \in Users : Pushes(w)) /\ inbox' \in [Users -> Seq(Event)]
  BY <1>0, <1>1, <1>2, ServedPushes
<1>5. c # NoCall
  BY NoCallAssumption
<1>6. PagesTypeOK'
  BY <1>0, <1>2, <1>3, <1>4, <1>5 DEF PagesTypeOK
<1>7. ServerActs(u, c)
  BY <1>1, <1>2, <1>3, <1>4 DEF ServerActs
<1>8. ServerSettles(u, c)
  BY <1>1, <1>2, <1>3 DEF ServerSettles
<1>9. ASSUME NEW w \in Users, Page(w) PROVE Page(w)'
  <2>1. CASE w = u
    BY <1>2, <1>3, <1>5, <1>9, <2>1 DEF Page
  <2>2. CASE w # u
    BY <1>2, <1>3, <1>9, <2>2 DEF Page
  <2> QED BY <2>1, <2>2
<1> QED BY <1>2, <1>6, <1>7, <1>8, <1>9, ServerActsInv

\* The server answers an accept: of the pages only how far the join is changes.
LEMMA JoinMoves ==
    ASSUME CallInv, NEW u \in Users, NEW c \in CallIds, c = joining[u], NEW label \in {"accepted", "refused", "answered"}, Goes(u, label),
           Serves(u, c), \A w \in Users : Pushes(w),
           UNCHANGED <<inbox, requests, notices, pageVars, joining>>,
           flow[u] \in {"accepting", "accepted"}, label = "answered" => flow[u] = "accepted",
           InCallOf(u, c)' \/ UNCHANGED <<calls, call>>, label = "accepted" => InCallOf(u, c)'
    PROVE  CallInv'
<1>0. IInv /\ PagesTypeOK /\ UNCHANGED <<pending, inCall, ui, session, rooms, crossed>>
  BY DEF CallInv, pageVars
<1>2. flow' \in [Users -> Flows] /\ flow'[u] = label /\ \A w \in Users : w # u => flow'[w] = flow[w]
  BY <1>0 DEF Goes, PagesTypeOK, Flows
<1>3. PagesTypeOK'
  <2>1. \A w \in Users : flow'[w] = "idle" <=> joining'[w] = NoCall
    BY <1>0, <1>2 DEF PagesTypeOK
  <2> QED BY <1>0, <1>2, <2>1 DEF PagesTypeOK
<1>4. ServerActs(u, c)
  BY <1>0 DEF ServerActs, Answered
<1>5. ServerSettles(u, c)
  <2>1. InCallOf(u, c) => InCallOf(u, c)'
    BY DEF InCallOf
  <2>2. ASSUME NEW w \in Users, flow'[w] \in Inside, ~(flow[w] \in Inside)
        PROVE  w = u /\ InCallOf(u, c)'
    <3>1. w = u
      BY <1>2, <2>2
    <3>2. flow[u] = "accepting" /\ label = "accepted"
      BY <1>2, <2>2, <3>1 DEF Inside
    <3> QED BY <3>1, <3>2
  <2> QED BY <2>1, <2>2 DEF ServerSettles
<1>6. ASSUME NEW w \in Users, Page(w) PROVE Page(w)'
  <2>1. flow'[w] = "loading" <=> flow[w] = "loading"
    BY <1>2
  <2> QED BY <1>0, <1>6, <2>1, PageStays
<1> QED BY <1>0, <1>3, <1>4, <1>5, <1>6, ServerActsInv

LEMMA ServerAcceptsInv == ASSUME CallInv, NEW u \in Users, ServerAccepts(u) PROVE CallInv'
<1>0. IInv /\ PagesTypeOK
  BY DEF CallInv
<1>1. flow[u] = "accepting" /\ \E c \in CallIds : c = joining[u]
  BY <1>0 DEF ServerAccepts, PagesTypeOK, Calls
<1>5. PICK c \in CallIds : c = joining[u]
  BY <1>1
<1>2. UNCHANGED <<inbox, requests, notices, pageVars, joining>>
  BY DEF ServerAccepts
<1>3. CASE Accept(u, c) /\ Goes(u, "accepted")
  <2>1. Serves(u, c) /\ sent' = sent /\ InCallOf(u, c)'
    BY <1>0, <1>1, <1>3, AcceptServes
  <2>2. \A w \in Users : Pushes(w)
    BY <1>0, <1>2, <2>1, NothingPushed
  <2> QED BY <1>1, <1>2, <1>3, <2>1, <2>2, <1>5, JoinMoves
<1>4. CASE Goes(u, "refused") /\ UNCHANGED serverVars
  <2>1. Serves(u, c) /\ sent' = sent /\ UNCHANGED <<calls, call>>
    BY <1>0, <1>4, NothingServes DEF serverVars
  <2>2. \A w \in Users : Pushes(w)
    BY <1>0, <1>2, <2>1, NothingPushed
  <2> QED BY <1>1, <1>2, <1>4, <2>1, <2>2, <1>5, JoinMoves
<1> QED BY <1>3, <1>4, <1>5 DEF ServerAccepts

LEMMA AcceptedInv == ASSUME CallInv, NEW u \in Users, Accepted(u) PROVE CallInv'
<1>0. IInv /\ PagesTypeOK
  BY DEF CallInv
<1>1. flow[u] = "accepted" /\ \E c \in CallIds : c = joining[u]
  BY <1>0 DEF Accepted, PagesTypeOK, Calls
<1>6. PICK c \in CallIds : c = joining[u]
  BY <1>1
<1>2. UNCHANGED <<inbox, requests, notices, pageVars, joining>>
  BY DEF Accepted
<1>3. Serves(u, c) /\ UNCHANGED <<calls, call>> /\ \A e \in sent' \ sent : e.type = "call-accepted"
  BY <1>0, <1>1, <1>6, ResumeServes DEF Accepted
<1>4. \A w \in Users : Pushes(w)
  BY <1>0, <1>2, <1>3, NothingPushed DEF Matters, Over
<1>5. Goes(u, "answered") \/ Goes(u, "refused")
  BY DEF Accepted
<1> QED BY <1>1, <1>2, <1>3, <1>4, <1>5, <1>6, JoinMoves

\* The server does something about a call, and pushes it; of the pages only requests go.
LEMMA ServesInv ==
    ASSUME CallInv, NEW a, NEW d \in CallIds, Serves(a, d), ServerSettles(a, d), Pushed, requests' \subseteq requests,
           UNCHANGED <<notices, pageVars, flowVars>>, a \in Users => Answered(a, d)
    PROVE  CallInv'
<1>0. PagesTypeOK /\ UNCHANGED <<pending, inCall, ui, session, rooms, crossed, joining, flow>>
  BY DEF CallInv, pageVars, flowVars
<1>1. (\A w \in Users : Pushes(w)) /\ inbox' \in [Users -> Seq(Event)]
  BY <1>0, ServedPushes
<1>2. PagesTypeOK'
  BY <1>0, <1>1 DEF PagesTypeOK
<1>3. ServerActs(a, d)
  BY <1>0, <1>1 DEF ServerActs
<1>4. \A w \in Users : Page(w) => Page(w)'
  BY <1>0, PageStays
<1> QED BY <1>0, <1>2, <1>3, <1>4, ServerActsInv

LEMMA RingTimeoutInv == ASSUME CallInv, NEW c \in CallIds, RingTimeout(c) PROVE CallInv'
<1>1. Serves(NoUser, c)
  BY ExpireServes DEF CallInv, RingTimeout
<1>2. Pushed /\ UNCHANGED <<requests, notices, pageVars, flowVars>> /\ NoUser \notin Users
  BY ConvAssumption DEF RingTimeout
<1>3. ServerSettles(NoUser, c)
  BY <1>2 DEF ServerSettles, flowVars
<1> QED BY <1>1, <1>2, <1>3, ServesInv

LEMMA ServeInv == ASSUME CallInv, NEW r \in requests, Serve(r) PROVE CallInv'
<1>0. IInv /\ PagesTypeOK /\ RingInv
  BY DEF CallInv
<1>1. PICK a \in Users, d \in CallIds : a = r.by /\ d = r.call
  BY <1>0 DEF PagesTypeOK
<1>2. /\ requests' = requests \ {r} /\ Pushed
      /\ UNCHANGED <<notices, pageVars, flowVars>> /\ UNCHANGED <<session, joining, flow>>
  BY DEF Serve, pageVars, flowVars
<1>3. joining[a] # d /\ session[a] # d /\ Answered(a, d)
  BY <1>0, <1>1 DEF RingInv, Once, Answered
<1>4. /\ Serves(a, d) /\ (InCallOf(a, d)' => InCallOf(a, d))
      /\ r.what = "end" => ~InCallOf(a, d)' /\ (call[d].mode = "broadcast" /\ call[d].from = a => d \notin calls')
  <2>1. CASE r.what = "decline" /\ Decline(a, d)
    BY <1>0, <2>1, DeclineServes
  <2>2. CASE r.what = "end" /\ End(a, d)
    BY <1>0, <2>2, EndServes
  <2>3. CASE d \notin calls /\ UNCHANGED serverVars
    BY <1>0, <2>3, NothingServes DEF serverVars, InCallOf
  <2> QED BY <1>1, <2>1, <2>2, <2>3 DEF Serve
<1>5. ServerSettles(a, d)
  BY <1>1, <1>2, <1>3, <1>4 DEF ServerSettles
<1> QED BY <1>2, <1>3, <1>4, <1>5, ServesInv

(***************************************************************************)
(* What a page does                                                        *)
(***************************************************************************)
\* The broadcaster's page leaves the room of c, and w will hear of it.
Leaves(u, w, c) ==
    c = session[u] /\ call[c].mode = "broadcast" /\ call[c].from = u /\ w # u /\ c \in rooms[w]

\* u's page acts, and the server does not: the others' pages stay as they are.
PageActs(u) ==
    /\ UNCHANGED serverVars
    /\ \A w \in Users : w # u =>
          /\ inbox'[w] = inbox[w] /\ pending'[w] = pending[w] /\ session'[w] = session[w]
          /\ joining'[w] = joining[w] /\ flow'[w] = flow[w]
          /\ inCall'[w] = inCall[w] /\ ui'[w] = ui[w] /\ rooms'[w] = rooms[w]
    /\ \A r \in requests' : r \in requests \/ r.by = u
    /\ crossed' \/ (~crossed /\ requests \subseteq requests')
    /\ \A w \in Users, c \in CallIds : <<w, c>> \in notices' => <<w, c>> \in notices \/ Leaves(u, w, c)
    /\ inbox'[u] = inbox[u] \/ (inbox[u] # <<>> /\ inbox'[u] = Tail(inbox[u]))

\* What is left of the inbox is what was there, moved up by k.
Remains(u, k) ==
    /\ Len(inbox'[u]) = Len(inbox[u]) - k
    /\ \A i \in 1..Len(inbox'[u]) : i + k \in Mails(u) /\ inbox'[u][i] = inbox[u][i + k]

LEMMA InboxRemains ==
    ASSUME PagesTypeOK, NEW u \in Users, PageActs(u)
    PROVE  /\ Len(inbox[u]) \in Nat /\ inbox'[u] \in Seq(Event)
           /\ inbox'[u] = inbox[u] => Remains(u, 0)
           /\ inbox'[u] = Tail(inbox[u]) => inbox[u] = <<>> \/ (Remains(u, 1) /\ 1 \in Mails(u))
<1>1. PICK s : s = inbox[u]
  OBVIOUS
<1>2. s \in Seq(Event) /\ Len(s) \in Nat
  BY <1>1, LenProperties DEF PagesTypeOK
<1>3. ASSUME s # <<>>
      PROVE  /\ Tail(s) \in Seq(Event) /\ Len(Tail(s)) = Len(s) - 1 /\ 1 \in 1..Len(s)
             /\ \A i \in 1..Len(s) - 1 : Tail(s)[i] = s[i + 1]
  <2>1. Len(s) # 0
    BY <1>2, <1>3, EmptySeq
  <2>2. 1 \in 1..Len(s)
    BY <1>2, <2>1
  <2> QED BY <1>2, <1>3, <2>2, HeadTailProperties
<1>4. PICK n \in Nat : n = Len(s)
  BY <1>2
<1>5. \A i \in 1..n - 1 : i + 1 \in 1..n
  OBVIOUS
<1>6. ASSUME inbox'[u] = s PROVE Remains(u, 0)
  <2>1. \A i \in 1..n : i + 0 \in 1..n /\ s[i] = s[i + 0]
    OBVIOUS
  <2> QED BY <1>1, <1>4, <1>6, <2>1 DEF Remains, Mails
<1>7. ASSUME s # <<>>, inbox'[u] = Tail(s) PROVE Remains(u, 1) /\ 1 \in Mails(u)
  <2>1. Len(inbox'[u]) = n - 1 /\ Len(inbox[u]) = n /\ 1 \in 1..n /\ \A i \in 1..n - 1 : inbox'[u][i] = s[i + 1]
    BY <1>1, <1>3, <1>4, <1>7
  <2> QED BY <1>1, <1>5, <2>1 DEF Remains, Mails
<1>8. inbox'[u] \in Seq(Event)
  BY <1>1, <1>2, <1>3 DEF PageActs
<1> QED BY <1>1, <1>2, <1>6, <1>7, <1>8

LEMMA MailStays ==
    ASSUME PagesTypeOK, IInv, Mail, NEW u \in Users, PageActs(u)
    PROVE  IInv' /\ Mail'
<1>1. IInv'
  BY NothingServes DEF PageActs, Serves
<1>2. ASSUME NEW w \in Users, NEW i \in 1..Len(inbox'[w])
      PROVE  inbox'[w][i] \in sent /\ inbox'[w][i].to = w /\ inbox'[w][i].type \in Matters
  <2>1. CASE w # u
    BY <1>2, <2>1 DEF PageActs, Mail, Mails
  <2>2. CASE w = u
    <3>1. PICK k : Remains(u, k)
      BY InboxRemains DEF PageActs
    <3> QED BY <1>2, <2>2, <3>1 DEF Remains, Mail
  <2> QED BY <2>1, <2>2
<1> QED BY <1>1, <1>2 DEF Mail, Mails, PageActs, serverVars

\* What a page holds of c stays in one place.
LEMMA OnceStays ==
    ASSUME NEW u \in Users, NEW c \in CallIds, Once(u, c), UNCHANGED serverVars,
           pending'[u] = c => pending[u] = c, joining'[u] = c => joining[u] = c,
           session'[u] = c => session[u] = c,
           \A r \in requests' : r.by = u /\ r.call = c => r \in requests,
           <<u, c>> \in notices' => Placed(c),
           NEW k \in {0, 1}, Len(inbox[u]) \in Nat, Remains(u, k)
    PROVE  Once(u, c)'
<1>1. UNCHANGED <<calls, call>>
  BY DEF serverVars
<1>2. Answered(u, c)' => Answered(u, c)
  BY DEF Answered
<1>3. ASSUME NEW i \in 1..Len(inbox'[u]), RingAt(u, i, c)' PROVE i + k \in Mails(u) /\ RingAt(u, i + k, c)
  BY <1>3 DEF Remains, RingAt
<1>4. ASSUME NEW i \in 1..Len(inbox'[u]), NEW j \in 1..Len(inbox'[u]), RingAt(u, i, c)', RingAt(u, j, c)' PROVE i = j
  <2>1. i + k = j + k
    BY <1>3, <1>4 DEF Once
  <2> QED BY <2>1
<1>5. ASSUME NEW i \in 1..Len(inbox'[u]), RingAt(u, i, c)' PROVE pending'[u] # c /\ ~Answered(u, c)'
  BY <1>2, <1>3, <1>5 DEF Once
<1>6. \A r \in requests' : r.by = u /\ r.call = c => c \notin {pending'[u], joining'[u], session'[u]}
  BY DEF Once
<1> QED BY <1>1, <1>2, <1>4, <1>5, <1>6 DEF Once, Mails

LEMMA ToldRemains ==
    ASSUME NEW u \in Users, NEW c \in CallIds, NEW k \in {0, 1}, Len(inbox[u]) \in Nat, Remains(u, k),
           NEW j \in Mails(u), OverAt(u, j, c), k = 1 => j # 1
    PROVE  j - k \in 1..Len(inbox'[u]) /\ OverAt(u, j - k, c)'
<1>1. j - k \in 1..Len(inbox'[u]) /\ (j - k) + k = j
  BY DEF Remains, Mails
<1> QED BY <1>1 DEF Remains, OverAt

LEMMA RingsStay ==
    ASSUME NEW u \in Users, NEW c \in CallIds, Rings(u, c), UNCHANGED serverVars, NEW k \in {0, 1},
           Len(inbox[u]) \in Nat, Remains(u, k), pending'[u] = c => pending[u] = c,
           k = 1 /\ OverAt(u, 1, c) => pending'[u] # c
    PROVE  Rings(u, c)'
<1>1. Invited(u, c)' <=> Invited(u, c)
  BY DEF serverVars, Invited
<1>2. ASSUME pending'[u] = c PROVE Invited(u, c)' \/ Told(u, c)'
  <2>1. CASE Invited(u, c)
    BY <1>1, <2>1
  <2>2. CASE ~Invited(u, c)
    <3>1. PICK j \in Mails(u) : OverAt(u, j, c)
      BY <1>2, <2>2 DEF Rings, Told
    <3>2. k = 1 => j # 1
      BY <1>2, <3>1
    <3> QED BY <3>1, <3>2, ToldRemains DEF Told, Mails
  <2> QED BY <2>1, <2>2
<1>3. ASSUME NEW i \in 1..Len(inbox'[u]), RingAt(u, i, c)', ~Invited(u, c)
      PROVE  \E j \in 1..Len(inbox'[u]) : i < j /\ OverAt(u, j, c)'
  <2>1. i + k \in Mails(u) /\ RingAt(u, i + k, c)
    BY <1>3 DEF Remains, RingAt
  <2>2. PICK j \in Mails(u) : i + k < j /\ OverAt(u, j, c)
    BY <1>3, <2>1 DEF Rings
  <2>3. i < j - k /\ (k = 1 => j # 1)
    BY <2>2 DEF Mails
  <2>4. j - k \in 1..Len(inbox'[u]) /\ OverAt(u, j - k, c)'
    BY <2>2, <2>3, ToldRemains
  <2> QED BY <2>3, <2>4
<1> QED BY <1>1, <1>2, <1>3 DEF Rings, Mails

LEMMA OthersRing ==
    ASSUME CallInv, NEW u \in Users, PageActs(u), NEW w \in Users, w # u, NEW c \in CallIds
    PROVE  Once(w, c)' /\ Rings(w, c)'
<1>1. Once(w, c) /\ Rings(w, c) /\ IInv /\ PagesTypeOK
  BY DEF CallInv, RingInv
<1>2. Remains(w, 0) /\ Len(inbox[w]) \in Nat
  <2>1. inbox'[w] = inbox[w] /\ Len(inbox[w]) \in Nat
    BY <1>1, LenProperties DEF PageActs, PagesTypeOK
  <2>2. PICK n \in Nat : n = Len(inbox[w])
    BY <2>1
  <2>3. \A i \in 1..n : i + 0 \in 1..n /\ inbox'[w][i] = inbox[w][i + 0]
    BY <2>1
  <2> QED BY <2>1, <2>2, <2>3 DEF Remains, Mails
<1>3. ASSUME <<w, c>> \in notices' PROVE Placed(c)
  <2>1. CASE <<w, c>> \in notices
    BY <1>1, <2>1 DEF Once
  <2>2. CASE Leaves(u, w, c)
    <3>1. Once(u, c)
      BY DEF CallInv, RingInv
    <3> QED BY <2>2, <3>1 DEF Leaves, Once, Answered
  <2> QED BY <1>3, <2>1, <2>2 DEF PageActs
<1>4. \A r \in requests' : r.by = w /\ r.call = c => r \in requests
  BY DEF PageActs
<1>5. pending'[w] = pending[w] /\ joining'[w] = joining[w] /\ session'[w] = session[w] /\ UNCHANGED serverVars
  BY DEF PageActs
<1> QED BY <1>1, <1>2, <1>3, <1>4, <1>5, OnceStays, RingsStay

LEMMA OthersAgree ==
    ASSUME CallInv, NEW u \in Users, PageActs(u), ~crossed', NEW w \in Users, w # u,
           \A c \in calls : Leaves(u, w, c) => notices' = notices \/ Hanging(u, c)'
    PROVE  /\ Page(w)'
           /\ \A c \in CallIds : /\ Joiners(w, c)' /\ Sessions(w, c)'
                                 /\ <<w, c>> \in notices' => Notice(w, c)'
<1>1. /\ inbox'[w] = inbox[w] /\ pending'[w] = pending[w] /\ session'[w] = session[w]
      /\ joining'[w] = joining[w] /\ flow'[w] = flow[w]
      /\ inCall'[w] = inCall[w] /\ ui'[w] = ui[w] /\ rooms'[w] = rooms[w]
      /\ UNCHANGED <<calls, call>> /\ ~crossed /\ requests \subseteq requests'
  BY DEF PageActs, serverVars
<1>2. Page(w)'
  BY <1>1 DEF Page, CallInv, Agreeing
<1>3. ASSUME NEW c \in CallIds
      PROVE  Joiners(w, c)' /\ Sessions(w, c)' /\ (<<w, c>> \in notices' => Notice(w, c)')
  <2>1. Joiners(w, c) /\ Sessions(w, c) /\ (<<w, c>> \in notices => Notice(w, c))
    BY <1>1 DEF CallInv, Agreeing
  <2>2. Joiners(w, c)'
    BY <1>1, <2>1 DEF Joiners, InCallOf, Hanging
  <2>3. Sessions(w, c)'
    BY <1>1, <2>1 DEF Sessions, InCallOf, Told, OverAt, Mails
  <2>4. ASSUME <<w, c>> \in notices' PROVE Notice(w, c)'
    <3>1. CASE <<w, c>> \in notices
      BY <1>1, <2>1, <3>1 DEF Notice, Hanging
    <3>2. CASE Leaves(u, w, c) /\ <<w, c>> \notin notices
      BY <1>1, <2>4, <3>2 DEF Leaves, Notice, Hanging
    <3> QED BY <2>4, <3>1, <3>2 DEF PageActs
  <2> QED BY <2>2, <2>3, <2>4
<1> QED BY <1>2, <1>3

LEMMA PageActsInv ==
    ASSUME CallInv, PagesTypeOK', NEW u \in Users, PageActs(u),
           \A c \in CallIds : Once(u, c)' /\ Rings(u, c)',
           ~crossed' => /\ \A w \in Users, c \in calls : Leaves(u, w, c) => notices' = notices \/ Hanging(u, c)'
                        /\ Page(u)'
                        /\ \A c \in CallIds : /\ Joiners(u, c)' /\ Sessions(u, c)'
                                              /\ <<u, c>> \in notices' => Notice(u, c)'
    PROVE  CallInv'
<1>1. IInv' /\ Mail'
  BY MailStays DEF CallInv
<1>2. RingInv'
  <2>1. \A w \in Users, c \in CallIds : w # u => Once(w, c)' /\ Rings(w, c)'
    BY OthersRing
  <2> QED BY <2>1 DEF RingInv
<1>3. ASSUME ~crossed', NEW w \in Users
      PROVE  /\ Page(w)'
             /\ \A c \in CallIds : /\ Joiners(w, c)' /\ Sessions(w, c)'
                                   /\ <<w, c>> \in notices' => Notice(w, c)'
  <2>1. CASE w = u
    BY <1>3, <2>1
  <2>2. CASE w # u
    <3>1. \A c \in calls : Leaves(u, w, c) => notices' = notices \/ Hanging(u, c)'
      BY <1>3
    <3> QED BY <1>3, <2>2, <3>1, OthersAgree
  <2> QED BY <2>1, <2>2
<1>4. Agreeing'
  BY <1>3 DEF Agreeing
<1> QED BY <1>1, <1>2, <1>4 DEF CallInv

\* cleanup().
LEMMA CleanUpFacts ==
    ASSUME PagesTypeOK, NEW u \in Users, NEW heard, CleanUpOn(u, heard)
    PROVE  /\ pending' \in [Users -> Calls] /\ session' \in [Users -> Calls] /\ inCall' \in [Users -> BOOLEAN]
           /\ ui' \in [Users -> Modes] /\ rooms' \in [Users -> SUBSET CallIds]
           /\ pending'[u] = NoCall /\ session'[u] = NoCall /\ ~inCall'[u] /\ rooms'[u] = rooms[u] \ {session[u]}
           /\ \A w \in Users : w # u =>
                 /\ pending'[w] = pending[w] /\ session'[w] = session[w] /\ inCall'[w] = inCall[w]
                 /\ ui'[w] = ui[w] /\ rooms'[w] = rooms[w]
           /\ notices' \subseteq Users \X CallIds
           /\ \A w \in Users, c \in CallIds : <<w, c>> \in notices' =>
                 \/ <<w, c>> \in notices /\ <<w, c>> \notin heard /\ ~(w = u /\ c = session[u])
                 \/ Leaves(u, w, c)
           /\ crossed' = (crossed \/ flow[u] # "idle")
<1>1. /\ pending' = [pending EXCEPT ![u] = NoCall] /\ inCall' = [inCall EXCEPT ![u] = FALSE]
      /\ ui' = [ui EXCEPT ![u] = "idle"] /\ session' = [session EXCEPT ![u] = NoCall]
      /\ rooms' = [rooms EXCEPT ![u] = rooms[u] \ {session[u]}]
      /\ crossed' = (crossed \/ flow[u] # "idle")
  BY DEF CleanUpOn, Show
<1>2. /\ pending' \in [Users -> Calls] /\ session' \in [Users -> Calls] /\ inCall' \in [Users -> BOOLEAN]
      /\ ui' \in [Users -> Modes] /\ rooms' \in [Users -> SUBSET CallIds]
      /\ pending'[u] = NoCall /\ session'[u] = NoCall /\ ~inCall'[u] /\ rooms'[u] = rooms[u] \ {session[u]}
      /\ \A w \in Users : w # u =>
            /\ pending'[w] = pending[w] /\ session'[w] = session[w] /\ inCall'[w] = inCall[w]
            /\ ui'[w] = ui[w] /\ rooms'[w] = rooms[w]
  BY <1>1 DEF PagesTypeOK, Calls, Modes
<1>3. PICK N : N = {n \in Users \X CallIds :
             /\ n[2] = session[u] /\ call[n[2]].mode = "broadcast" /\ call[n[2]].from = u
             /\ n[1] # u /\ n[2] \in rooms[n[1]]}
  OBVIOUS
<1>4. notices' = (notices \ (heard \cup {<<u, session[u]>>})) \cup N
  BY <1>3 DEF CleanUpOn
<1>5. \A w \in Users, c \in CallIds : <<w, c>> \in N => Leaves(u, w, c)
  BY <1>3 DEF Leaves
<1>6. notices' \subseteq Users \X CallIds
  BY <1>3, <1>4 DEF PagesTypeOK
<1>7. ASSUME NEW w \in Users, NEW c \in CallIds, <<w, c>> \in notices'
      PROVE  \/ <<w, c>> \in notices /\ <<w, c>> \notin heard /\ ~(w = u /\ c = session[u])
             \/ Leaves(u, w, c)
  BY <1>4, <1>5, <1>7
<1> QED BY <1>1, <1>2, <1>6, <1>7

\* A page that hangs up, or whose call is over, is in no call.
LEMMA CleanUpAgrees ==
    ASSUME CallInv, NEW u \in Users, NEW heard, CleanUpOn(u, heard), ~crossed', UNCHANGED <<calls, call, joining, flow>>,
           requests \subseteq requests',
           \A c \in calls : session[u] = c =>
              \/ Hanging(u, c)'
              \/ call[c].mode = "broadcast" /\ call[c].from # u /\ Hanging(call[c].from, c)
    PROVE  /\ \A w \in Users, c \in calls : Leaves(u, w, c) => Hanging(u, c)'
           /\ Page(u)'
           /\ \A c \in CallIds : /\ Joiners(u, c)' /\ Sessions(u, c)'
                                 /\ <<u, c>> \in notices' => Notice(u, c)'
<1>0. PagesTypeOK /\ IInv
  BY DEF CallInv
<1>1. /\ pending'[u] = NoCall /\ session'[u] = NoCall /\ ~inCall'[u] /\ rooms'[u] = rooms[u] \ {session[u]}
      /\ \A c \in CallIds : <<u, c>> \in notices' =>
            \/ <<u, c>> \in notices /\ <<u, c>> \notin heard /\ ~(u = u /\ c = session[u])
            \/ Leaves(u, u, c)
      /\ crossed' = (crossed \/ flow[u] # "idle")
  BY <1>0, CleanUpFacts
<1>2. ~crossed /\ flow[u] = "idle" /\ joining[u] = NoCall /\ joining'[u] = NoCall /\ flow'[u] = "idle"
  BY <1>0, <1>1 DEF PagesTypeOK
<1>3. Page(u) /\ \A c \in CallIds : Joiners(u, c) /\ (<<u, c>> \in notices => Notice(u, c))
  BY <1>2 DEF CallInv, Agreeing
<1>4. rooms[u] \subseteq {session[u]}
  BY <1>2, <1>3 DEF Page
<1>5. Page(u)'
  BY <1>1, <1>2, <1>4 DEF Page
<1>6. ASSUME NEW w \in Users, NEW c \in calls, Leaves(u, w, c) PROVE Hanging(u, c)'
  BY <1>6 DEF Leaves
<1>7. ASSUME NEW c \in CallIds
      PROVE  Joiners(u, c)' /\ Sessions(u, c)' /\ (<<u, c>> \in notices' => Notice(u, c)')
  <2>1. c # NoCall
    BY NoCallAssumption
  <2>2. Sessions(u, c)'
    BY <1>1, <1>2, <2>1 DEF Sessions
  <2>3. Joiners(u, c)'
    <3>1. ASSUME InCallOf(u, c)
          PROVE  \/ Hanging(u, c)'
                 \/ call[c].mode = "broadcast" /\ call[c].from # u /\ Hanging(call[c].from, c)
      <4>1. c \in calls
        BY <3>1 DEF InCallOf
      <4>2. Hanging(u, c) => Hanging(u, c)'
        BY DEF Hanging
      <4> QED BY <1>2, <1>3, <2>1, <3>1, <4>1, <4>2 DEF Joiners
    <3> QED BY <3>1 DEF Joiners, InCallOf, Hanging
  <2>4. <<u, c>> \notin notices'
    BY <1>1, <1>3, <1>4 DEF Notice, Leaves
  <2> QED BY <2>2, <2>3, <2>4
<1> QED BY <1>5, <1>6, <1>7

(***************************************************************************)
(* The pages' actions one by one                                           *)
(***************************************************************************)
\* The page holds c in one place, and nothing rings for it any more.
LEMMA OnlyOnce ==
    ASSUME NEW u \in Users, NEW c \in CallIds, Placed(c)', \A i \in 1..Len(inbox'[u]) : ~RingAt(u, i, c)',
           \/ pending'[u] # c /\ session'[u] # c /\ \A r \in requests' : ~(r.by = u /\ r.call = c)
           \/ pending'[u] # c /\ joining'[u] # c /\ \A r \in requests' : ~(r.by = u /\ r.call = c)
           \/ pending'[u] # c /\ joining'[u] # c /\ session'[u] # c
           \/ joining'[u] # c /\ session'[u] # c /\ \A r \in requests' : ~(r.by = u /\ r.call = c)
    PROVE  Once(u, c)'
BY DEF Once, Mails

LEMMA AcceptCallInv == ASSUME CallInv, NEW u \in Users, AcceptCall(u) PROVE CallInv'
<1>0. PagesTypeOK /\ IInv
  BY DEF CallInv
<1>1. /\ pending[u] # NoCall /\ flow[u] = "idle" /\ joining[u] = NoCall
      /\ joining' = [joining EXCEPT ![u] = pending[u]] /\ flow' = [flow EXCEPT ![u] = "accepting"]
      /\ pending' = [pending EXCEPT ![u] = NoCall] /\ inCall' = [inCall EXCEPT ![u] = TRUE]
      /\ ui' = [ui EXCEPT ![u] = "connecting"]
      /\ UNCHANGED <<inbox, requests, notices, session, rooms, crossed>> /\ UNCHANGED serverVars
  BY <1>0 DEF AcceptCall, Goes, Show, PagesTypeOK
<1>2. /\ joining' \in [Users -> Calls] /\ flow' \in [Users -> Flows] /\ pending' \in [Users -> Calls]
      /\ inCall' \in [Users -> BOOLEAN] /\ ui' \in [Users -> Modes]
      /\ joining'[u] = pending[u] /\ flow'[u] = "accepting" /\ pending'[u] = NoCall /\ inCall'[u]
      /\ \A w \in Users : w # u => /\ joining'[w] = joining[w] /\ flow'[w] = flow[w] /\ pending'[w] = pending[w]
                                   /\ inCall'[w] = inCall[w] /\ ui'[w] = ui[w]
  BY <1>0, <1>1 DEF PagesTypeOK, Calls, Flows, Modes
<1>3. PagesTypeOK'
  <2>1. \A w \in Users : flow'[w] = "idle" <=> joining'[w] = NoCall
    BY <1>0, <1>1, <1>2 DEF PagesTypeOK
  <2> QED BY <1>0, <1>1, <1>2, <2>1 DEF PagesTypeOK
<1>4. PageActs(u)
  BY <1>1, <1>2 DEF PageActs
<1>5. Remains(u, 0) /\ Len(inbox[u]) \in Nat
  BY <1>0, <1>1, <1>4, InboxRemains
<1>6. ASSUME NEW c \in CallIds PROVE Once(u, c)' /\ Rings(u, c)'
  <2>1. Once(u, c) /\ Rings(u, c) /\ c # NoCall
    BY NoCallAssumption DEF CallInv, RingInv
  <2>2. Rings(u, c)'
    BY <1>1, <1>2, <1>5, <2>1, RingsStay
  <2>3. CASE c = pending[u]
    <3>1. Placed(c)' /\ \A i \in 1..Len(inbox'[u]) : ~RingAt(u, i, c)'
      BY <1>1, <2>1, <2>3 DEF Once, RingAt, Mails, serverVars
    <3>2. /\ session'[u] # c /\ pending'[u] # c
          /\ \A r \in requests' : ~(r.by = u /\ r.call = c)
      BY <1>1, <1>2, <2>1, <2>3 DEF Once
    <3> QED BY <2>2, <3>1, <3>2, OnlyOnce
  <2>4. CASE c # pending[u]
    <3>1. /\ pending'[u] # c /\ joining'[u] # c /\ session'[u] = session[u]
          /\ <<u, c>> \in notices' => Placed(c)
      BY <1>1, <1>2, <2>1, <2>4 DEF Once
    <3>2. UNCHANGED serverVars /\ 0 \in {0, 1} /\ \A r \in requests' : r.by = u /\ r.call = c => r \in requests
      BY <1>1
    <3> QED BY <1>5, <2>1, <2>2, <3>1, <3>2, OnceStays
  <2> QED BY <2>2, <2>3, <2>4
<1>7. ASSUME ~crossed'
      PROVE  /\ \A w \in Users, c \in calls : Leaves(u, w, c) => Hanging(u, c)'
             /\ Page(u)'
             /\ \A c \in CallIds : /\ Joiners(u, c)' /\ Sessions(u, c)'
                                   /\ <<u, c>> \in notices' => Notice(u, c)'
  <2>1. Page(u) /\ session[u] = NoCall
    BY <1>1, <1>7 DEF CallInv, Agreeing, Page
  <2>2. Page(u)'
    BY <1>1, <1>2, <2>1 DEF Page
  <2>3. calls \subseteq CallIds /\ NoCall \notin CallIds
    BY <1>0, NoCallAssumption DEF IInv, TypeOK
  <2>4. ASSUME NEW c \in CallIds
        PROVE  Joiners(u, c)' /\ Sessions(u, c)' /\ (<<u, c>> \in notices' => Notice(u, c)')
    <3>1. Joiners(u, c) /\ (<<u, c>> \in notices => Notice(u, c))
      BY <1>1, <1>7 DEF CallInv, Agreeing
    <3>2. Joiners(u, c)'
      BY <1>1, <2>3, <3>1 DEF Joiners, InCallOf, Hanging, serverVars
    <3>3. Sessions(u, c)'
      BY <1>1, <1>2, <2>1, <2>3 DEF Sessions
    <3>4. <<u, c>> \in notices' => Notice(u, c)'
      BY <1>1, <3>1 DEF Notice, Hanging, serverVars
    <3> QED BY <3>2, <3>3, <3>4
  <2> QED BY <2>1, <2>2, <2>3, <2>4 DEF Leaves
<1> QED BY <1>3, <1>4, <1>6, <1>7, PageActsInv

LEMMA JoinRoomInv == ASSUME CallInv, NEW u \in Users, JoinRoom(u) PROVE CallInv'
<1>0. PagesTypeOK /\ IInv
  BY DEF CallInv
<1>1. /\ flow[u] = "answered" /\ joining[u] \in CallIds
      /\ rooms' = [rooms EXCEPT ![u] = rooms[u] \cup {joining[u]}] /\ flow' = [flow EXCEPT ![u] = "loading"]
      /\ UNCHANGED <<inbox, requests, notices, pending, inCall, ui, session, crossed, joining>> /\ UNCHANGED serverVars
  BY <1>0 DEF JoinRoom, Goes, PagesTypeOK, Calls
<1>2. /\ rooms' \in [Users -> SUBSET CallIds] /\ flow' \in [Users -> Flows]
      /\ rooms'[u] = rooms[u] \cup {joining[u]} /\ flow'[u] = "loading"
      /\ \A w \in Users : w # u => rooms'[w] = rooms[w] /\ flow'[w] = flow[w]
  BY <1>0, <1>1 DEF PagesTypeOK, Flows
<1>3. PagesTypeOK'
  <2>1. \A w \in Users : flow'[w] = "idle" <=> joining'[w] = NoCall
    BY <1>0, <1>1, <1>2 DEF PagesTypeOK
  <2> QED BY <1>0, <1>1, <1>2, <2>1 DEF PagesTypeOK
<1>4. PageActs(u)
  BY <1>1, <1>2 DEF PageActs
<1>5. Remains(u, 0) /\ Len(inbox[u]) \in Nat
  BY <1>0, <1>1, <1>4, InboxRemains
<1>6. ASSUME NEW c \in CallIds PROVE Once(u, c)' /\ Rings(u, c)'
  <2>1. Once(u, c) /\ Rings(u, c)
    BY DEF CallInv, RingInv
  <2> QED BY <1>1, <1>5, <2>1, OnceStays, RingsStay DEF Once
<1>7. ASSUME ~crossed'
      PROVE  /\ \A w \in Users, c \in calls : Leaves(u, w, c) => Hanging(u, c)'
             /\ Page(u)'
             /\ \A c \in CallIds : /\ Joiners(u, c)' /\ Sessions(u, c)'
                                   /\ <<u, c>> \in notices' => Notice(u, c)'
  <2>1. Page(u)
    BY <1>1, <1>7 DEF CallInv, Agreeing
  <2>2. calls \subseteq CallIds /\ NoCall \notin CallIds
    BY <1>0, NoCallAssumption DEF IInv, TypeOK
  <2>3. Page(u)' /\ session[u] = NoCall
    BY <1>1, <1>2, <2>1, <2>2 DEF Page
  <2>4. ASSUME NEW c \in CallIds
        PROVE  Joiners(u, c)' /\ Sessions(u, c)' /\ (<<u, c>> \in notices' => Notice(u, c)')
    <3>1. Joiners(u, c) /\ Sessions(u, c) /\ (<<u, c>> \in notices => Notice(u, c))
      BY <1>1, <1>7 DEF CallInv, Agreeing
    <3>2. Joiners(u, c)'
      BY <1>1, <3>1 DEF Joiners, InCallOf, Hanging, serverVars
    <3>3. Sessions(u, c)'
      BY <1>1, <1>2, <3>1 DEF Sessions, InCallOf, Told, OverAt, Mails, serverVars
    <3>4. <<u, c>> \in notices' => Notice(u, c)'
      BY <1>1, <1>2, <3>1 DEF Notice, Hanging, serverVars
    <3> QED BY <3>2, <3>3, <3>4
  <2> QED BY <2>2, <2>3, <2>4 DEF Leaves
<1> QED BY <1>3, <1>4, <1>6, <1>7, PageActsInv

LEMMA JoinedInv == ASSUME CallInv, NEW u \in Users, Joined(u) PROVE CallInv'
<1>0. PagesTypeOK /\ IInv
  BY DEF CallInv
<1>1. /\ flow[u] = "loading" /\ joining[u] \in CallIds
      /\ session' = [session EXCEPT ![u] = joining[u]] /\ flow' = [flow EXCEPT ![u] = "idle"]
      /\ joining' = [joining EXCEPT ![u] = NoCall] /\ ui' = [ui EXCEPT ![u] = "active"]
      /\ UNCHANGED <<inbox, requests, notices, pending, inCall, rooms, crossed>> /\ UNCHANGED serverVars
  BY <1>0 DEF Joined, Idle, Goes, Show, PagesTypeOK, Calls
<1>2. /\ session' \in [Users -> Calls] /\ flow' \in [Users -> Flows] /\ joining' \in [Users -> Calls]
      /\ ui' \in [Users -> Modes]
      /\ session'[u] = joining[u] /\ flow'[u] = "idle" /\ joining'[u] = NoCall
      /\ \A w \in Users : w # u => /\ session'[w] = session[w] /\ flow'[w] = flow[w]
                                   /\ joining'[w] = joining[w] /\ ui'[w] = ui[w]
  BY <1>0, <1>1 DEF PagesTypeOK, Flows, Calls, Modes
<1>3. PagesTypeOK'
  <2>1. \A w \in Users : flow'[w] = "idle" <=> joining'[w] = NoCall
    BY <1>0, <1>2 DEF PagesTypeOK
  <2> QED BY <1>0, <1>1, <1>2, <2>1 DEF PagesTypeOK
<1>4. PageActs(u)
  BY <1>1, <1>2 DEF PageActs
<1>5. Remains(u, 0) /\ Len(inbox[u]) \in Nat
  BY <1>0, <1>1, <1>4, InboxRemains
<1>6. ASSUME NEW c \in CallIds PROVE Once(u, c)' /\ Rings(u, c)'
  <2>1. Once(u, c) /\ Rings(u, c) /\ c # NoCall
    BY NoCallAssumption DEF CallInv, RingInv
  <2>2. Rings(u, c)'
    BY <1>1, <1>5, <2>1, RingsStay
  <2>3. CASE c = joining[u]
    <3>1. Placed(c)' /\ \A i \in 1..Len(inbox'[u]) : ~RingAt(u, i, c)'
      BY <1>1, <2>1, <2>3 DEF Once, Answered, RingAt, Mails, serverVars
    <3>2. /\ joining'[u] # c /\ pending'[u] # c
          /\ \A r \in requests' : ~(r.by = u /\ r.call = c)
      BY <1>1, <1>2, <2>1, <2>3 DEF Once
    <3> QED BY <2>2, <3>1, <3>2, OnlyOnce
  <2>4. CASE c # joining[u]
    <3>1. /\ pending'[u] = pending[u] /\ joining'[u] # c /\ session'[u] # c
          /\ <<u, c>> \in notices' => Placed(c)
      BY <1>1, <1>2, <2>1, <2>4 DEF Once
    <3>2. UNCHANGED serverVars /\ 0 \in {0, 1} /\ \A r \in requests' : r.by = u /\ r.call = c => r \in requests
      BY <1>1
    <3> QED BY <1>5, <2>1, <2>2, <3>1, <3>2, OnceStays
  <2> QED BY <2>2, <2>3, <2>4
<1>7. ASSUME ~crossed'
      PROVE  /\ \A w \in Users, c \in calls : Leaves(u, w, c) => Hanging(u, c)'
             /\ Page(u)'
             /\ \A c \in CallIds : /\ Joiners(u, c)' /\ Sessions(u, c)'
                                   /\ <<u, c>> \in notices' => Notice(u, c)'
  <2>1. Page(u)
    BY <1>1, <1>7 DEF CallInv, Agreeing
  <2>2. calls \subseteq CallIds /\ NoCall \notin CallIds
    BY <1>0, NoCallAssumption DEF IInv, TypeOK
  <2>3. Page(u)' /\ session[u] = NoCall
    BY <1>1, <1>2, <2>1, <2>2 DEF Page
  <2>4. ASSUME NEW c \in CallIds
        PROVE  Joiners(u, c)' /\ Sessions(u, c)' /\ (<<u, c>> \in notices' => Notice(u, c)')
    <3>1. Joiners(u, c) /\ Sessions(u, c) /\ (<<u, c>> \in notices => Notice(u, c)) /\ c # NoCall
      BY <1>1, <1>7, NoCallAssumption DEF CallInv, Agreeing
    <3>2. Joiners(u, c)'
      BY <1>1, <1>2, <2>3, <3>1 DEF Joiners, InCallOf, Hanging, serverVars
    <3>3. Sessions(u, c)'
      BY <1>1, <1>2, <3>1 DEF Sessions, InCallOf, Told, OverAt, Mails, serverVars
    <3>4. <<u, c>> \in notices' => Notice(u, c)'
      BY <1>1, <3>1 DEF Notice, Hanging, serverVars
    <3> QED BY <3>2, <3>3, <3>4
  <2> QED BY <2>2, <2>3, <2>4 DEF Leaves
<1> QED BY <1>3, <1>4, <1>6, <1>7, PageActsInv

\* A join that fails: its call may be over for the page only.
LEMMA JoinFailsInv == ASSUME CallInv, NEW u \in Users, JoinFails(u) PROVE CallInv'
<1>0. PagesTypeOK /\ IInv
  BY DEF CallInv
<1>1. /\ flow[u] # "idle" /\ CleanUpOn(u, {})
      /\ flow' = [flow EXCEPT ![u] = "idle"] /\ joining' = [joining EXCEPT ![u] = NoCall]
      /\ UNCHANGED <<inbox, requests>> /\ UNCHANGED serverVars
  BY DEF JoinFails, CleanUp, Idle, Goes
<1>2. PICK h : h = {}
  OBVIOUS
<1>3. /\ pending' \in [Users -> Calls] /\ session' \in [Users -> Calls] /\ inCall' \in [Users -> BOOLEAN]
      /\ ui' \in [Users -> Modes] /\ rooms' \in [Users -> SUBSET CallIds]
      /\ pending'[u] = NoCall /\ session'[u] = NoCall
      /\ \A w \in Users : w # u =>
            /\ pending'[w] = pending[w] /\ session'[w] = session[w] /\ inCall'[w] = inCall[w]
            /\ ui'[w] = ui[w] /\ rooms'[w] = rooms[w]
      /\ notices' \subseteq Users \X CallIds
      /\ \A w \in Users, c \in CallIds : <<w, c>> \in notices' => <<w, c>> \in notices \/ Leaves(u, w, c)
      /\ crossed' = (crossed \/ flow[u] # "idle")
  BY <1>0, <1>1, CleanUpFacts
<1>4. /\ joining' \in [Users -> Calls] /\ flow' \in [Users -> Flows] /\ joining'[u] = NoCall /\ flow'[u] = "idle"
      /\ \A w \in Users : w # u => joining'[w] = joining[w] /\ flow'[w] = flow[w]
  BY <1>0, <1>1 DEF PagesTypeOK, Calls, Flows
<1>5. PagesTypeOK'
  <2>1. \A w \in Users : flow'[w] = "idle" <=> joining'[w] = NoCall
    BY <1>0, <1>4 DEF PagesTypeOK
  <2>2. crossed' \in BOOLEAN
    BY <1>3
  <2> QED BY <1>0, <1>1, <1>3, <1>4, <2>1, <2>2 DEF PagesTypeOK
<1>6. crossed'
  BY <1>1, <1>3
<1>7. PageActs(u)
  BY <1>1, <1>3, <1>4, <1>6 DEF PageActs
<1>8. Remains(u, 0) /\ Len(inbox[u]) \in Nat
  BY <1>0, <1>1, <1>7, InboxRemains
<1>9. ASSUME NEW c \in CallIds PROVE Once(u, c)' /\ Rings(u, c)'
  <2>1. Once(u, c) /\ Rings(u, c) /\ c # NoCall
    BY NoCallAssumption DEF CallInv, RingInv
  <2>2. /\ pending'[u] # c /\ joining'[u] # c /\ session'[u] # c
        /\ <<u, c>> \in notices' => Placed(c)
    BY <1>3, <1>4, <2>1 DEF Once, Leaves
  <2>3. UNCHANGED serverVars /\ 0 \in {0, 1} /\ \A r \in requests' : r.by = u /\ r.call = c => r \in requests
    BY <1>1
  <2> QED BY <1>8, <2>1, <2>2, <2>3, OnceStays, RingsStay
<1> QED BY <1>5, <1>6, <1>7, <1>9, PageActsInv

\* cleanup() of a page that joins no call: what it takes to keep the invariant.
LEMMA CleanUpInv ==
    ASSUME CallInv, NEW u \in Users, NEW heard, CleanUpOn(u, heard), UNCHANGED serverVars, UNCHANGED <<joining, flow>>,
           inbox' \in [Users -> Seq(Event)], NEW k \in {0, 1}, Remains(u, k), \A w \in Users : w # u => inbox'[w] = inbox[w],
           inbox'[u] = inbox[u] \/ (inbox[u] # <<>> /\ inbox'[u] = Tail(inbox[u])),
           requests \subseteq requests', requests' \subseteq [what : {"decline", "end"}, by : Users, call : CallIds],
           \A r \in requests' : r \in requests \/ (r.by = u /\ r.call \in {pending[u], session[u]}),
           ~crossed' => \A c \in calls : session[u] = c =>
              \/ Hanging(u, c)'
              \/ call[c].mode = "broadcast" /\ call[c].from # u /\ Hanging(call[c].from, c)
    PROVE  CallInv'
<1>0. PagesTypeOK /\ IInv
  BY DEF CallInv
<1>1. /\ pending' \in [Users -> Calls] /\ session' \in [Users -> Calls] /\ inCall' \in [Users -> BOOLEAN]
      /\ ui' \in [Users -> Modes] /\ rooms' \in [Users -> SUBSET CallIds]
      /\ pending'[u] = NoCall /\ session'[u] = NoCall
      /\ \A w \in Users : w # u =>
            /\ pending'[w] = pending[w] /\ session'[w] = session[w] /\ inCall'[w] = inCall[w]
            /\ ui'[w] = ui[w] /\ rooms'[w] = rooms[w]
      /\ notices' \subseteq Users \X CallIds
      /\ \A w \in Users, c \in CallIds : <<w, c>> \in notices' =>
            \/ <<w, c>> \in notices /\ <<w, c>> \notin heard /\ ~(w = u /\ c = session[u])
            \/ Leaves(u, w, c)
      /\ crossed' = (crossed \/ flow[u] # "idle")
  BY <1>0, CleanUpFacts
<1>2. PagesTypeOK'
  BY <1>0, <1>1 DEF PagesTypeOK
<1>3. Len(inbox[u]) \in Nat
  BY <1>0, LenProperties DEF PagesTypeOK
<1>4. PageActs(u)
  BY <1>0, <1>1 DEF PageActs, PagesTypeOK
<1>5. ASSUME NEW c \in CallIds PROVE Once(u, c)' /\ Rings(u, c)'
  <2>1. Once(u, c) /\ Rings(u, c) /\ c # NoCall
    BY NoCallAssumption DEF CallInv, RingInv
  <2>2. pending'[u] # c /\ session'[u] # c /\ joining'[u] = joining[u] /\ (<<u, c>> \in notices' => Placed(c))
    BY <1>1, <2>1 DEF Once, Leaves
  <2>3. Rings(u, c)'
    BY <1>3, <2>1, <2>2, RingsStay
  <2>4. CASE c \in {pending[u], session[u]}
    <3>1. Placed(c)' /\ joining'[u] # c
      BY <2>1, <2>2, <2>4 DEF Once, Answered, serverVars
    <3>2. \A i \in 1..Len(inbox'[u]) : ~RingAt(u, i, c)'
      BY <2>1, <2>4 DEF Once, Answered, Remains, RingAt
    <3> QED BY <2>2, <2>3, <3>1, <3>2, OnlyOnce
  <2>5. CASE c \notin {pending[u], session[u]}
    <3>1. \A r \in requests' : r.by = u /\ r.call = c => r \in requests
      BY <2>5
    <3> QED BY <1>3, <2>1, <2>2, <2>3, <3>1, OnceStays
  <2> QED BY <2>4, <2>5
<1>6. ASSUME ~crossed'
      PROVE  /\ \A w \in Users, c \in calls : Leaves(u, w, c) => Hanging(u, c)'
             /\ Page(u)'
             /\ \A c \in CallIds : /\ Joiners(u, c)' /\ Sessions(u, c)'
                                   /\ <<u, c>> \in notices' => Notice(u, c)'
  <2>1. UNCHANGED <<calls, call, joining, flow>>
    BY DEF serverVars
  <2> QED BY <1>6, <2>1, CleanUpAgrees
<1> QED BY <1>2, <1>4, <1>5, <1>6, PageActsInv

\* The inbox is left alone.
LEMMA InboxSame ==
    ASSUME PagesTypeOK, NEW u \in Users, inbox' = inbox
    PROVE  /\ inbox' \in [Users -> Seq(Event)] /\ Remains(u, 0) /\ 0 \in {0, 1}
           /\ \A w \in Users : w # u => inbox'[w] = inbox[w]
<1>1. Len(inbox[u]) \in Nat
  BY LenProperties DEF PagesTypeOK
<1>2. PICK n \in Nat : n = Len(inbox[u])
  BY <1>1
<1>3. \A i \in 1..n : i + 0 \in 1..n /\ inbox'[u][i] = inbox[u][i + 0]
  OBVIOUS
<1> QED BY <1>2, <1>3 DEF Remains, Mails, PagesTypeOK

LEMMA DeclineCallInv == ASSUME CallInv, NEW u \in Users, DeclineCall(u) PROVE CallInv'
<1>0. PagesTypeOK /\ IInv
  BY DEF CallInv
<1>1. /\ pending[u] # NoCall /\ CleanUpOn(u, {}) /\ UNCHANGED serverVars /\ UNCHANGED <<joining, flow>> /\ inbox' = inbox
      /\ requests' = requests \cup {[what |-> "decline", by |-> u, call |-> pending[u]]}
  BY DEF DeclineCall, CleanUp, Post, flowVars
<1>2. pending[u] \in CallIds
  BY <1>0, <1>1 DEF PagesTypeOK, Calls
<1>3. /\ requests \subseteq requests' /\ requests' \subseteq [what : {"decline", "end"}, by : Users, call : CallIds]
      /\ \A r \in requests' : r \in requests \/ (r.by = u /\ r.call \in {pending[u], session[u]})
  BY <1>0, <1>1, <1>2 DEF PagesTypeOK
<1>4. ASSUME ~crossed' PROVE session[u] = NoCall
  <2>1. ~crossed
    BY <1>1, <1>4 DEF CleanUpOn
  <2> QED BY <1>1, <2>1 DEF CallInv, Agreeing, Page
<1>5. NoCall \notin calls
  BY <1>0, NoCallAssumption DEF IInv, TypeOK
<1>6. inbox' \in [Users -> Seq(Event)] /\ Remains(u, 0) /\ 0 \in {0, 1} /\ \A w \in Users : w # u => inbox'[w] = inbox[w]
  BY <1>0, <1>1, InboxSame
<1>7. ~crossed' => \A c \in calls : session[u] # c
  BY <1>4, <1>5
<1> QED BY <1>1, <1>3, <1>6, <1>7, CleanUpInv

LEMMA EndCallInv == ASSUME CallInv, NEW u \in Users, EndCall(u) PROVE CallInv'
<1>0. PagesTypeOK /\ IInv
  BY DEF CallInv
<1>1. /\ CleanUpOn(u, {}) /\ UNCHANGED serverVars /\ UNCHANGED <<joining, flow>> /\ inbox' = inbox
      /\ IF session[u] # NoCall
         THEN requests' = requests \cup {[what |-> "end", by |-> u, call |-> session[u]]}
         ELSE requests' = requests
  BY DEF EndCall, CleanUp, Post, flowVars
<1>2. session[u] # NoCall => session[u] \in CallIds
  BY <1>0 DEF PagesTypeOK, Calls
<1>3. /\ requests \subseteq requests' /\ requests' \subseteq [what : {"decline", "end"}, by : Users, call : CallIds]
      /\ \A r \in requests' : r \in requests \/ (r.by = u /\ r.call \in {pending[u], session[u]})
  <2>1. CASE session[u] # NoCall
    BY <1>0, <1>1, <1>2, <2>1 DEF PagesTypeOK
  <2>2. CASE session[u] = NoCall
    BY <1>0, <1>1, <2>2 DEF PagesTypeOK
  <2> QED BY <2>1, <2>2
<1>4. NoCall \notin calls
  BY <1>0, NoCallAssumption DEF IInv, TypeOK
<1>5. \A c \in calls : session[u] = c => Hanging(u, c)'
  BY <1>1, <1>4 DEF Hanging
<1>6. inbox' \in [Users -> Seq(Event)] /\ Remains(u, 0) /\ 0 \in {0, 1} /\ \A w \in Users : w # u => inbox'[w] = inbox[w]
  BY <1>0, <1>1, InboxSame
<1> QED BY <1>1, <1>3, <1>5, <1>6, CleanUpInv

LEMMA BroadcasterLeftInv == ASSUME CallInv, NEW u \in Users, NEW c \in CallIds, BroadcasterLeft(u, c) PROVE CallInv'
<1>0. PagesTypeOK /\ IInv
  BY DEF CallInv
<1>1. /\ <<u, c>> \in notices /\ CleanUpOn(u, {<<u, c>>})
      /\ UNCHANGED serverVars /\ UNCHANGED <<joining, flow>> /\ inbox' = inbox /\ requests' = requests
  BY DEF BroadcasterLeft, flowVars
<1>2. ASSUME ~crossed', NEW b \in calls, session[u] = b
      PROVE  call[b].mode = "broadcast" /\ call[b].from # u /\ Hanging(call[b].from, b)
  <2>1. ~crossed /\ flow[u] = "idle"
    BY <1>1, <1>2 DEF CleanUpOn
  <2>2. Page(u) /\ Notice(u, c)
    BY <1>1, <2>1 DEF CallInv, Agreeing
  <2>3. b = c
    BY <1>2, <2>1, <2>2 DEF Page, Notice
  <2> QED BY <1>2, <2>2, <2>3 DEF Notice
<1>3. /\ requests \subseteq requests' /\ requests' \subseteq [what : {"decline", "end"}, by : Users, call : CallIds]
      /\ \A r \in requests' : r \in requests
  BY <1>0, <1>1 DEF PagesTypeOK
<1>4. inbox' \in [Users -> Seq(Event)] /\ Remains(u, 0) /\ 0 \in {0, 1} /\ \A w \in Users : w # u => inbox'[w] = inbox[w]
  BY <1>0, <1>1, InboxSame
<1>5. PICK heard : heard = {<<u, c>>}
  OBVIOUS
<1> QED BY <1>1, <1>2, <1>3, <1>4, <1>5, CleanUpInv

LEMMA LoseRequestInv == ASSUME CallInv, NEW r \in requests, LoseRequest(r) PROVE CallInv'
<1>0. PagesTypeOK /\ IInv
  BY DEF CallInv
<1>1. PICK u \in Users : u = r.by
  BY <1>0 DEF PagesTypeOK
<1>2. /\ requests' = requests \ {r} /\ crossed'
      /\ UNCHANGED <<inbox, notices, pending, inCall, ui, session, rooms, joining, flow>> /\ UNCHANGED serverVars
  BY DEF LoseRequest, flowVars
<1>3. PagesTypeOK'
  BY <1>0, <1>2 DEF PagesTypeOK, LoseRequest
<1>4. PageActs(u)
  BY <1>2 DEF PageActs
<1>5. Remains(u, 0) /\ Len(inbox[u]) \in Nat
  BY <1>0, <1>2, <1>4, InboxRemains
<1>6. ASSUME NEW c \in CallIds PROVE Once(u, c)' /\ Rings(u, c)'
  <2>1. Once(u, c) /\ Rings(u, c)
    BY DEF CallInv, RingInv
  <2>2. \A q \in requests' : q.by = u /\ q.call = c => q \in requests
    BY <1>2
  <2>3. <<u, c>> \in notices' => Placed(c)
    BY <1>2, <2>1 DEF Once
  <2>4. /\ pending'[u] = c => pending[u] = c
        /\ joining'[u] = c => joining[u] = c
        /\ session'[u] = c => session[u] = c
    BY <1>2
  <2>5. 0 \in {0, 1} /\ UNCHANGED serverVars
    BY <1>2
  <2> QED BY <1>5, <2>1, <2>2, <2>3, <2>4, <2>5, OnceStays, RingsStay
<1> QED BY <1>2, <1>3, <1>4, <1>6, PageActsInv

(***************************************************************************)
(* The events of the inbox                                                 *)
(***************************************************************************)
\* The first event goes, and is for the page.
LEMMA HeadGoes ==
    ASSUME CallInv, NEW u \in Users, inbox[u] # <<>>, inbox' = [inbox EXCEPT ![u] = Tail(inbox[u])]
    PROVE  /\ inbox' \in [Users -> Seq(Event)] /\ inbox'[u] = Tail(inbox[u])
           /\ \A w \in Users : w # u => inbox'[w] = inbox[w]
           /\ Remains(u, 1) /\ Len(inbox[u]) \in Nat /\ 1 \in Mails(u)
           /\ Head(inbox[u]) = inbox[u][1] /\ inbox[u][1] \in sent /\ inbox[u][1].to = u
           /\ inbox[u][1].type \in Matters /\ inbox[u][1].call \in CallIds
<1>0. PagesTypeOK /\ IInv /\ Mail
  BY DEF CallInv
<1>1. PICK s : s = inbox[u]
  OBVIOUS
<1>2. s \in Seq(Event) /\ Len(s) \in Nat
  BY <1>0, <1>1, LenProperties DEF PagesTypeOK
<1>3. 1 \in 1..Len(s)
  <2>1. Len(s) # 0
    BY <1>1, <1>2, EmptySeq
  <2> QED BY <1>2, <2>1
<1>4. /\ Tail(s) \in Seq(Event) /\ Len(Tail(s)) = Len(s) - 1 /\ Head(s) = s[1]
      /\ \A i \in 1..Len(s) - 1 : Tail(s)[i] = s[i + 1]
  BY <1>1, <1>2, HeadTailProperties
<1>5. inbox' \in [Users -> Seq(Event)] /\ inbox'[u] = Tail(s) /\ \A w \in Users : w # u => inbox'[w] = inbox[w]
  BY <1>0, <1>1, <1>4 DEF PagesTypeOK
<1>6. Remains(u, 1)
  <2>1. PICK n \in Nat : n = Len(s)
    BY <1>2
  <2>2. \A i \in 1..n - 1 : i + 1 \in 1..n
    OBVIOUS
  <2>3. Len(inbox'[u]) = n - 1 /\ Len(inbox[u]) = n /\ \A i \in 1..n - 1 : inbox'[u][i] = s[i + 1]
    BY <1>1, <1>4, <1>5, <2>1
  <2> QED BY <1>1, <2>2, <2>3 DEF Remains, Mails
<1>7. s[1] \in sent /\ s[1].to = u /\ s[1].type \in Matters
  BY <1>0, <1>1, <1>3 DEF Mail, Mails
<1>8. s[1].call \in CallIds
  BY <1>0, <1>7 DEF IInv, TypeOK, Event
<1> QED BY <1>1, <1>2, <1>3, <1>4, <1>5, <1>6, <1>7, <1>8 DEF Mails

\* What happens to the other things that the page holds, if its first event goes.
LEMMA HeadKeepsOnce ==
    ASSUME CallInv, NEW u \in Users, PageActs(u), Remains(u, 1), Len(inbox[u]) \in Nat,
           pending'[u] = pending[u], session'[u] = session[u], joining'[u] = joining[u],
           notices' = notices, requests' = requests, NEW c \in CallIds, ~(OverAt(u, 1, c) /\ pending[u] = c)
    PROVE  Once(u, c)' /\ Rings(u, c)'
<1>1. Once(u, c) /\ Rings(u, c)
  BY DEF CallInv, RingInv
<1>2. UNCHANGED serverVars /\ 1 \in {0, 1}
  BY DEF PageActs
<1>3. <<u, c>> \in notices' => Placed(c)
  BY <1>1 DEF Once
<1>4. \A r \in requests' : r.by = u /\ r.call = c => r \in requests
  OBVIOUS
<1>5. Once(u, c)'
  BY <1>1, <1>2, <1>3, <1>4, OnceStays
<1>6. Rings(u, c)'
  BY <1>1, <1>2, RingsStay
<1> QED BY <1>5, <1>6

\* A call rings: it is shown, or declined as busy.
LEMMA IncomingOnce ==
    ASSUME CallInv, NEW u \in Users, PageActs(u), Remains(u, 1), Len(inbox[u]) \in Nat, 1 \in Mails(u),
           NEW c \in CallIds, RingAt(u, 1, c), session'[u] = session[u], joining'[u] = joining[u], notices' = notices,
           \/ /\ pending'[u] = pending[u]
              /\ requests' = requests \cup {[what |-> "decline", by |-> u, call |-> c]}
           \/ pending'[u] = c /\ pending[u] = NoCall /\ requests' = requests,
           NEW b \in CallIds
    PROVE  Once(u, b)' /\ Rings(u, b)'
<1>1. Once(u, b) /\ Rings(u, b) /\ b # NoCall
  BY NoCallAssumption DEF CallInv, RingInv
<1>2. UNCHANGED serverVars /\ 1 \in {0, 1}
  BY DEF PageActs
<1>3. ~OverAt(u, 1, b)
  BY DEF RingAt, OverAt, Over
<1>4. CASE b = c
  <2>1. pending[u] # c /\ joining'[u] # c /\ session'[u] # c /\ \A r \in requests : ~(r.by = u /\ r.call = c)
    BY <1>1, <1>4 DEF Once, Answered
  <2>2. \A i \in 1..Len(inbox'[u]) : ~RingAt(u, i, c)'
    <3>1. ASSUME NEW i \in 1..Len(inbox'[u]), RingAt(u, i, c)' PROVE FALSE
      <4>1. i + 1 \in Mails(u) /\ RingAt(u, i + 1, c)
        BY <3>1 DEF Remains, RingAt
      <4>2. i + 1 = 1
        BY <1>1, <1>4, <4>1 DEF Once
      <4> QED BY <4>2
    <3> QED BY <3>1
  <2>3. Placed(c)'
    <3>1. inbox[u][1] \in sent /\ inbox[u][1].call = c
      BY DEF CallInv, Mail, RingAt
    <3> QED BY <1>2, <3>1 DEF CallInv, IInv, UnplacedIsUnknown, serverVars
  <2>4. Once(u, c)'
    <3>1. CASE pending'[u] = pending[u]
      BY <2>1, <2>2, <2>3, <3>1, OnlyOnce
    <3>2. CASE requests' = requests
      BY <2>1, <2>2, <2>3, <3>2, OnlyOnce
    <3> QED BY <3>1, <3>2
  <2>5. Rings(u, c)'
    <3>1. Invited(u, c) \/ \E j \in Mails(u) : 1 < j /\ OverAt(u, j, c)
      BY <1>1, <1>4 DEF Rings
    <3>2. Invited(u, c)' <=> Invited(u, c)
      BY <1>2 DEF Invited, serverVars
    <3>3. ASSUME ~Invited(u, c) PROVE Told(u, c)'
      <4>1. PICK j \in Mails(u) : 1 < j /\ OverAt(u, j, c)
        BY <3>1, <3>3
      <4>2. 1 = 1 => j # 1
        BY <4>1
      <4>3. j - 1 \in 1..Len(inbox'[u]) /\ OverAt(u, j - 1, c)'
        BY <1>2, <4>1, <4>2, ToldRemains
      <4> QED BY <4>3 DEF Told, Mails
    <3> QED BY <2>2, <3>2, <3>3 DEF Rings, Mails
  <2> QED BY <1>4, <2>4, <2>5
<1>5. CASE b # c
  <2>1. pending'[u] = b => pending[u] = b
    BY <1>5
  <2>2. \A r \in requests' : r.by = u /\ r.call = b => r \in requests
    BY <1>5
  <2>3. <<u, b>> \in notices' => Placed(b)
    BY <1>1 DEF Once
  <2>4. Once(u, b)'
    BY <1>1, <1>2, <2>1, <2>2, <2>3, OnceStays
  <2>5. Rings(u, b)'
    BY <1>1, <1>2, <1>3, <2>1, RingsStay
  <2> QED BY <2>4, <2>5
<1> QED BY <1>4, <1>5

\* What rings changes nothing about the calls that the page is in.
LEMMA IncomingAgrees ==
    ASSUME CallInv, NEW u \in Users, PageActs(u), Remains(u, 1), Len(inbox[u]) \in Nat, inbox[u][1].type \notin Over,
           UNCHANGED <<notices, inCall, session, rooms, crossed, joining, flow>>, ~crossed, requests \subseteq requests',
           \/ pending'[u] = pending[u] /\ ui'[u] = ui[u]
           \/ ~inCall[u] /\ ui'[u] = "incoming"
    PROVE  /\ Page(u)'
           /\ \A c \in CallIds : /\ Joiners(u, c)' /\ Sessions(u, c)'
                                 /\ <<u, c>> \in notices' => Notice(u, c)'
<1>0. UNCHANGED <<calls, call>>
  BY DEF PageActs, serverVars
<1>1. Page(u)
  BY DEF CallInv, Agreeing
<1>2. Page(u)'
  <2>1. CASE pending'[u] = pending[u] /\ ui'[u] = ui[u]
    BY <1>1, <2>1 DEF Page
  <2>2. CASE ~inCall[u] /\ ui'[u] = "incoming"
    BY <1>1, <2>2 DEF Page
  <2> QED BY <2>1, <2>2
<1>3. ASSUME NEW c \in CallIds
      PROVE  Joiners(u, c)' /\ Sessions(u, c)' /\ (<<u, c>> \in notices' => Notice(u, c)')
  <2>1. Joiners(u, c) /\ Sessions(u, c) /\ (<<u, c>> \in notices => Notice(u, c))
    BY DEF CallInv, Agreeing
  <2>2. Joiners(u, c)'
    BY <1>0, <2>1 DEF Joiners, InCallOf, Hanging
  <2>3. Told(u, c) => Told(u, c)'
    <3>1. ASSUME NEW j \in Mails(u), OverAt(u, j, c) PROVE Told(u, c)'
      <4>1. 1 \in {0, 1} /\ (1 = 1 => j # 1)
        BY <3>1 DEF OverAt
      <4>2. j - 1 \in 1..Len(inbox'[u]) /\ OverAt(u, j - 1, c)'
        BY <3>1, <4>1, ToldRemains
      <4> QED BY <4>2 DEF Told, Mails
    <3> QED BY <3>1 DEF Told
  <2>4. Sessions(u, c)'
    BY <1>0, <2>1, <2>3 DEF Sessions, InCallOf
  <2>5. <<u, c>> \in notices' => Notice(u, c)'
    BY <1>0, <2>1 DEF Notice, Hanging
  <2> QED BY <2>2, <2>4, <2>5
<1> QED BY <1>2, <1>3

LEMMA IncomingInv ==
    ASSUME CallInv, NEW u \in Users, inbox[u] # <<>>, inbox' = [inbox EXCEPT ![u] = Tail(inbox[u])],
           NEW c \in CallIds, RingAt(u, 1, c), Incoming(u, c), UNCHANGED serverVars, UNCHANGED flowVars
    PROVE  CallInv'
<1>0. PagesTypeOK /\ IInv
  BY DEF CallInv
<1>1. /\ inbox' \in [Users -> Seq(Event)] /\ inbox'[u] = Tail(inbox[u])
      /\ \A w \in Users : w # u => inbox'[w] = inbox[w]
      /\ Remains(u, 1) /\ Len(inbox[u]) \in Nat /\ 1 \in Mails(u)
  BY HeadGoes
<1>2. UNCHANGED <<notices, inCall, session, rooms, crossed, joining, flow>>
  BY DEF Incoming, flowVars
<1>3. /\ pending' \in [Users -> Calls] /\ ui' \in [Users -> Modes] /\ requests \subseteq requests'
      /\ requests' \subseteq [what : {"decline", "end"}, by : Users, call : CallIds]
      /\ \A w \in Users : w # u => pending'[w] = pending[w] /\ ui'[w] = ui[w]
      /\ \/ /\ pending'[u] = pending[u] /\ ui'[u] = ui[u]
            /\ requests' = requests \cup {[what |-> "decline", by |-> u, call |-> c]}
         \/ /\ pending'[u] = c /\ pending[u] = NoCall /\ requests' = requests
            /\ ~inCall[u] /\ ui'[u] = "incoming"
  <2>1. CASE inCall[u] \/ pending[u] # NoCall
    BY <1>0, <2>1 DEF Incoming, Post, PagesTypeOK
  <2>2. CASE ~(inCall[u] \/ pending[u] # NoCall)
    BY <1>0, <2>2 DEF Incoming, Ring, Show, PagesTypeOK, Calls, Modes
  <2> QED BY <2>1, <2>2
<1>4. PagesTypeOK'
  BY <1>0, <1>1, <1>2, <1>3 DEF PagesTypeOK
<1>5. PageActs(u)
  BY <1>0, <1>1, <1>2, <1>3 DEF PageActs, PagesTypeOK
<1>6. \A b \in CallIds : Once(u, b)' /\ Rings(u, b)'
  BY <1>1, <1>2, <1>3, <1>5, IncomingOnce
<1>7. ASSUME ~crossed'
      PROVE  /\ \A w \in Users, b \in calls : Leaves(u, w, b) => notices' = notices \/ Hanging(u, b)'
             /\ Page(u)'
             /\ \A b \in CallIds : /\ Joiners(u, b)' /\ Sessions(u, b)'
                                   /\ <<u, b>> \in notices' => Notice(u, b)'
  <2>1. inbox[u][1].type \notin Over
    BY DEF RingAt, Over
  <2>2. \/ pending'[u] = pending[u] /\ ui'[u] = ui[u]
        \/ ~inCall[u] /\ ui'[u] = "incoming"
    BY <1>3
  <2> QED BY <1>1, <1>2, <1>3, <1>5, <1>7, <2>1, <2>2, IncomingAgrees
<1> QED BY <1>4, <1>5, <1>6, <1>7, PageActsInv

LEMMA HearOverInv ==
    ASSUME CallInv, NEW u \in Users, inbox[u] # <<>>, inbox' = [inbox EXCEPT ![u] = Tail(inbox[u])],
           NEW c \in CallIds, OverAt(u, 1, c), HearOver(u, c), UNCHANGED serverVars, UNCHANGED flowVars
    PROVE  CallInv'
<1>0. PagesTypeOK /\ IInv
  BY DEF CallInv
<1>1. /\ inbox' \in [Users -> Seq(Event)] /\ inbox'[u] = Tail(inbox[u])
      /\ \A w \in Users : w # u => inbox'[w] = inbox[w]
      /\ Remains(u, 1) /\ Len(inbox[u]) \in Nat /\ 1 \in Mails(u)
      /\ inbox[u][1] \in sent /\ inbox[u][1].to = u
  BY HeadGoes
<1>2. UNCHANGED <<requests, joining, flow>>
  BY DEF HearOver, flowVars
<1>3. c \notin calls
  BY <1>0, <1>1 DEF IInv, NoEarlyEnd, ToldOver, OverAt
<1>4. CASE c \in {session[u], pending[u]}
  <2>1. PICK h : h = {}
    OBVIOUS
  <2>2. CleanUpOn(u, h) /\ requests' = requests
    BY <1>4, <2>1 DEF HearOver, CleanUp
  <2>3. ASSUME ~crossed' PROVE \A b \in calls : session[u] # b
    <3>1. Page(u) /\ NoCall \notin calls
      BY <1>0, <2>2, <2>3, NoCallAssumption DEF CallInv, Agreeing, CleanUpOn, IInv, TypeOK
    <3>2. CASE session[u] = c
      BY <1>3, <3>2
    <3>3. CASE pending[u] = c
      BY <3>1, <3>3, NoCallAssumption DEF Page
    <3> QED BY <1>4, <3>2, <3>3
  <2>4. requests \subseteq requests' /\ requests' \subseteq [what : {"decline", "end"}, by : Users, call : CallIds]
        /\ \A r \in requests' : r \in requests
    BY <1>0, <2>2 DEF PagesTypeOK
  <2>5. 1 \in {0, 1} /\ UNCHANGED <<joining, flow>>
    BY <1>2
  <2> QED BY <1>1, <2>2, <2>3, <2>4, <2>5, CleanUpInv
<1>5. CASE c \notin {session[u], pending[u]}
  <2>1. UNCHANGED <<notices, pending, inCall, ui, session, rooms>> /\ crossed' = (crossed \/ joining[u] = c)
    BY <1>5 DEF HearOver
  <2>2. PagesTypeOK'
    BY <1>0, <1>1, <1>2, <2>1 DEF PagesTypeOK
  <2>3. PageActs(u)
    BY <1>0, <1>1, <1>2, <2>1 DEF PageActs, PagesTypeOK
  <2>4. ASSUME NEW b \in CallIds PROVE Once(u, b)' /\ Rings(u, b)'
    <3>1. ~(OverAt(u, 1, b) /\ pending[u] = b)
      BY <1>5 DEF OverAt
    <3> QED BY <1>1, <1>2, <2>1, <2>3, <3>1, HeadKeepsOnce
  <2>5. ASSUME ~crossed'
        PROVE  /\ Page(u)'
               /\ \A b \in CallIds : /\ Joiners(u, b)' /\ Sessions(u, b)'
                                     /\ <<u, b>> \in notices' => Notice(u, b)'
    <3>1. ~crossed /\ joining[u] # c /\ session[u] # c /\ UNCHANGED <<calls, call>>
      BY <1>5, <2>1, <2>5 DEF serverVars
    <3>2. Page(u)'
      BY <1>2, <2>1, <3>1 DEF CallInv, Agreeing, Page
    <3>3. ASSUME NEW b \in CallIds
          PROVE  Joiners(u, b)' /\ Sessions(u, b)' /\ (<<u, b>> \in notices' => Notice(u, b)')
      <4>1. Joiners(u, b) /\ Sessions(u, b) /\ (<<u, b>> \in notices => Notice(u, b))
        BY <3>1 DEF CallInv, Agreeing
      <4>2. Joiners(u, b)'
        BY <1>2, <2>1, <3>1, <4>1 DEF Joiners, InCallOf, Hanging
      <4>3. Sessions(u, b)'
        <5>1. CASE b = c
          BY <1>2, <2>1, <3>1, <5>1 DEF Sessions
        <5>2. ASSUME b # c, NEW j \in Mails(u), OverAt(u, j, b) PROVE Told(u, b)'
          <6>1. 1 \in {0, 1} /\ (1 = 1 => j # 1)
            BY <5>2 DEF OverAt
          <6>2. j - 1 \in 1..Len(inbox'[u]) /\ OverAt(u, j - 1, b)'
            BY <1>1, <5>2, <6>1, ToldRemains
          <6> QED BY <6>2 DEF Told, Mails
        <5>3. b # c /\ Told(u, b) => Told(u, b)'
          BY <5>2 DEF Told
        <5> QED BY <1>2, <2>1, <3>1, <4>1, <5>1, <5>3 DEF Sessions, InCallOf
      <4>4. <<u, b>> \in notices' => Notice(u, b)'
        BY <1>2, <2>1, <3>1, <4>1 DEF Notice, Hanging
      <4> QED BY <4>2, <4>3, <4>4
    <3> QED BY <3>2, <3>3
  <2> QED BY <2>1, <2>2, <2>3, <2>4, <2>5, PageActsInv
<1> QED BY <1>4, <1>5

LEMMA DeliverInv == ASSUME CallInv, NEW u \in Users, Deliver(u) PROVE CallInv'
<1>1. inbox[u] # <<>> /\ inbox' = [inbox EXCEPT ![u] = Tail(inbox[u])] /\ UNCHANGED serverVars /\ UNCHANGED flowVars
  BY DEF Deliver
<1>2. PICK e : e = inbox[u][1]
  OBVIOUS
<1>3. Head(inbox[u]) = e /\ e.type \in Matters /\ e.call \in CallIds
  BY <1>1, <1>2, HeadGoes
<1>4. PICK c \in CallIds : c = e.call
  BY <1>3
<1>5. CASE e.type = "call-incoming"
  <2>1. Incoming(u, c) /\ RingAt(u, 1, c)
    BY <1>2, <1>3, <1>4, <1>5 DEF Deliver, RingAt
  <2> QED BY <1>1, <2>1, IncomingInv
<1>6. CASE e.type # "call-incoming"
  <2>1. HearOver(u, c) /\ OverAt(u, 1, c)
    BY <1>2, <1>3, <1>4, <1>6 DEF Deliver, OverAt, Matters
  <2> QED BY <1>1, <2>1, HearOverInv
<1> QED BY <1>5, <1>6

(***************************************************************************)
(* The theorems                                                            *)
(***************************************************************************)
LEMMA CallInvInit == CallsInit => CallInv
<1> SUFFICES ASSUME CallsInit PROVE CallInv
  OBVIOUS
<1>1. IInv
  BY InitIInv DEF CallsInit
<1>2. /\ calls = {} /\ inbox = [u \in Users |-> <<>>] /\ requests = {} /\ notices = {}
      /\ pending = [u \in Users |-> NoCall] /\ session = pending /\ joining = pending
      /\ inCall = [u \in Users |-> FALSE] /\ ui = [u \in Users |-> "idle"]
      /\ rooms = [u \in Users |-> {}] /\ flow = [u \in Users |-> "idle"] /\ crossed = FALSE
  BY DEF CallsInit, Init
<1>3. <<>> \in Seq(Event) /\ Len(<<>>) = 0 /\ 1..0 = {}
  OBVIOUS
<1>4. \A u \in Users : Mails(u) = {}
  BY <1>2, <1>3 DEF Mails
<1>5. PagesTypeOK
  BY <1>2, <1>3 DEF PagesTypeOK, Calls, Modes, Flows
<1>6. Mail
  BY <1>4 DEF Mail
<1>7. RingInv
  BY <1>2, <1>4, NoCallAssumption DEF RingInv, Once, Rings, Answered
<1>8. Agreeing
  <2>1. \A u \in Users : Page(u)
    BY <1>2 DEF Page
  <2>2. \A u \in Users, c \in CallIds : Joiners(u, c) /\ Sessions(u, c) /\ <<u, c>> \notin notices
    BY <1>2, NoCallAssumption DEF Joiners, Sessions, InCallOf
  <2> QED BY <2>1, <2>2 DEF Agreeing
<1> QED BY <1>1, <1>5, <1>6, <1>7, <1>8 DEF CallInv

LEMMA CallInvSame == ASSUME CallInv, UNCHANGED callsVars PROVE CallInv'
<1>1. /\ UNCHANGED <<inbox, requests, notices, pending, inCall, ui, session, rooms, crossed, joining, flow>>
      /\ UNCHANGED <<calls, call, accepting, sent, tokens, left>> /\ UNCHANGED serverVars
  BY DEF callsVars, pageVars, flowVars, serverVars
<1>2. IInv'
  <2>1. Serves(NoCall, NoCall)
    BY <1>1, NothingServes DEF CallInv
  <2> QED BY <2>1 DEF Serves
<1>3. PagesTypeOK' /\ Mail'
  BY <1>1 DEF CallInv, PagesTypeOK, Mail, Mails
<1>4. ASSUME NEW u \in Users, NEW c \in CallIds PROVE Once(u, c)' /\ Rings(u, c)'
  <2>1. Once(u, c) /\ Rings(u, c)
    BY DEF CallInv, RingInv
  <2>2. Once(u, c)'
    BY <1>1, <2>1 DEF Once, Answered, Mails, RingAt
  <2>3. Rings(u, c)'
    BY <1>1, <2>1 DEF Rings, Told, Mails, RingAt, OverAt, Invited
  <2> QED BY <2>2, <2>3
<1>5. ASSUME ~crossed', NEW u \in Users
      PROVE  /\ Page(u)'
             /\ \A c \in CallIds : /\ Joiners(u, c)' /\ Sessions(u, c)'
                                   /\ <<u, c>> \in notices' => Notice(u, c)'
  <2>1. Page(u)'
    BY <1>1, <1>5 DEF CallInv, Agreeing, Page
  <2>2. ASSUME NEW c \in CallIds
        PROVE  Joiners(u, c)' /\ Sessions(u, c)' /\ (<<u, c>> \in notices' => Notice(u, c)')
    <3>1. Joiners(u, c) /\ Sessions(u, c) /\ (<<u, c>> \in notices => Notice(u, c))
      BY <1>1, <1>5 DEF CallInv, Agreeing
    <3>2. Joiners(u, c)'
      BY <1>1, <3>1 DEF Joiners, InCallOf, Hanging
    <3>3. Sessions(u, c)'
      BY <1>1, <3>1 DEF Sessions, InCallOf, Told, OverAt, Mails
    <3>4. <<u, c>> \in notices' => Notice(u, c)'
      BY <1>1, <3>1 DEF Notice, Hanging
    <3> QED BY <3>2, <3>3, <3>4
  <2> QED BY <2>1, <2>2
<1> QED BY <1>2, <1>3, <1>4, <1>5 DEF CallInv, RingInv, Agreeing

LEMMA CallInvNext == ASSUME CallInv, CallsNext PROVE CallInv'
<1>1. CASE \E u \in Users, v \in Convs, c \in CallIds : PlaceCall(u, v, c)
  BY <1>1, PlaceCallInv
<1>2. ASSUME NEW u \in Users,
             \/ AcceptCall(u) \/ ServerAccepts(u) \/ Accepted(u) \/ JoinRoom(u) \/ Joined(u)
             \/ JoinFails(u) \/ DeclineCall(u) \/ EndCall(u) \/ Deliver(u)
      PROVE  CallInv'
  BY <1>2, AcceptCallInv, ServerAcceptsInv, AcceptedInv, JoinRoomInv, JoinedInv, JoinFailsInv,
     DeclineCallInv, EndCallInv, DeliverInv
<1>3. CASE \E u \in Users, c \in CallIds : BroadcasterLeft(u, c)
  BY <1>3, BroadcasterLeftInv
<1>4. CASE \E r \in requests : Serve(r) \/ LoseRequest(r)
  BY <1>4, ServeInv, LoseRequestInv
<1>5. CASE \E c \in CallIds : RingTimeout(c)
  BY <1>5, RingTimeoutInv
<1> QED BY <1>1, <1>2, <1>3, <1>4, <1>5 DEF CallsNext

\* The inductive invariant of the pages and the server together.
THEOREM CallsInvariance == CallsSpec => []CallInv
<1>1. CallInv /\ [CallsNext]_callsVars => CallInv'
  BY CallInvNext, CallInvSame
<1> QED BY CallInvInit, <1>1, PTL DEF CallsSpec

\* Type correctness of the pages and the server.
THEOREM CallsTypeCorrect == CallsSpec => []CallsTypeOK
<1>1. CallInv => CallsTypeOK
  BY DEF CallInv, IInv, PagesTypeOK, CallsTypeOK
<1> QED BY <1>1, CallsInvariance, PTL

LEMMA NothingIsTold == ASSUME Quiet, NEW u \in Users, NEW c PROVE ~Told(u, c)
<1>1. inbox[u] = <<>> /\ Len(<<>>) = 0 /\ 1..0 = {}
  BY DEF Quiet
<1> QED BY <1>1 DEF Told, Mails

\* No page rings for a call that is over or cannot be accepted by its user, once all that
\* was sent has arrived: call-context.tsx's handlers of the inbox events, whatever is
\* declined as busy, given up, lost, failed or expired in between.
THEOREM RingsAreAlive == CallsSpec => []NobodyRingsDead
<1>1. CallInv => NobodyRingsDead
  <2> SUFFICES ASSUME CallInv, Quiet, NEW u \in Users, pending[u] # NoCall
               PROVE  pending[u] \in calls /\ u \in call[pending[u]].callees
    BY DEF NobodyRingsDead
  <2>1. PICK c \in CallIds : c = pending[u]
    BY DEF CallInv, PagesTypeOK, Calls
  <2>2. Invited(u, c) \/ Told(u, c)
    BY <2>1 DEF CallInv, RingInv, Rings
  <2> QED BY <2>1, <2>2, NothingIsTold DEF Invited
<1> QED BY <1>1, CallsInvariance, PTL

\* The pages and the server agree on who is in which call, and a page is a peer of that
\* call's media room only.
THEOREM PagesAgree == CallsSpec => []Agreement
<1>1. CallInv => Agreement
  <2> SUFFICES ASSUME CallInv, Quiet, ~crossed, NEW u \in Users
               PROVE  /\ \A c \in CallIds : session[u] = c <=> c \in calls /\ u \in call[c].joined
                      /\ rooms[u] = {session[u]} \ {NoCall}
                      /\ inCall[u] <=> session[u] # NoCall
    BY DEF Agreement
  <2>1. flow[u] = "idle" /\ joining[u] = NoCall /\ requests = {}
    BY DEF Quiet, CallInv, PagesTypeOK
  <2>2. Page(u) /\ \A c \in CallIds : Joiners(u, c) /\ Sessions(u, c)
    BY DEF CallInv, Agreeing
  <2>3. ASSUME NEW c \in CallIds PROVE session[u] = c <=> InCallOf(u, c)
    <3>1. InCallOf(u, c) => session[u] = c
      BY <2>1, <2>2, NoCallAssumption DEF Joiners, Hanging
    <3>2. session[u] = c => InCallOf(u, c)
      BY <2>2, NothingIsTold DEF Sessions
    <3> QED BY <3>1, <3>2
  <2>4. rooms[u] = {session[u]} \ {NoCall}
    BY <2>1, <2>2 DEF Page
  <2>5. inCall[u] <=> session[u] # NoCall
    BY <2>1, <2>2 DEF Page
  <2> QED BY <2>3, <2>4, <2>5 DEF InCallOf
<1> QED BY <1>1, CallsInvariance, PTL

\* What the pages do to the server is what its specification allows: every theorem about
\* the safety of the call service holds of the composition.
THEOREM PagesUseService == CallsSpec => Init /\ [][Next]_vars
<1>1. CallsInit => Init
  BY DEF CallsInit
<1>2. ASSUME PagesTypeOK, [CallsNext]_callsVars PROVE [Next]_vars
  <2>1. ASSUME UNCHANGED serverVars PROVE UNCHANGED vars
    BY <2>1 DEF serverVars, vars
  <2>2. CASE UNCHANGED callsVars
    BY <2>1, <2>2 DEF callsVars
  <2>3. CASE \E u \in Users, v \in Convs, c \in CallIds : PlaceCall(u, v, c)
    BY <2>3 DEF PlaceCall, Next
  <2>4. ASSUME NEW u \in Users, ServerAccepts(u) \/ Accepted(u) PROVE [Next]_vars
    <3>1. joining[u] \in CallIds
      BY <1>2, <2>4 DEF ServerAccepts, Accepted, PagesTypeOK, Calls
    <3> QED BY <2>1, <2>4, <3>1 DEF ServerAccepts, Accepted, Next
  <2>5. ASSUME NEW u \in Users,
               AcceptCall(u) \/ JoinRoom(u) \/ Joined(u) \/ JoinFails(u) \/ DeclineCall(u) \/ EndCall(u) \/ Deliver(u)
        PROVE  [Next]_vars
    BY <2>1, <2>5 DEF AcceptCall, JoinRoom, Joined, JoinFails, DeclineCall, EndCall, Deliver
  <2>6. CASE \E u \in Users, c \in CallIds : BroadcasterLeft(u, c)
    BY <2>1, <2>6 DEF BroadcasterLeft
  <2>7. ASSUME NEW r \in requests, Serve(r) \/ LoseRequest(r) PROVE [Next]_vars
    <3>1. r.by \in Users /\ r.call \in CallIds
      BY <1>2 DEF PagesTypeOK
    <3> QED BY <2>1, <2>7, <3>1 DEF Serve, LoseRequest, Next
  <2>8. CASE \E c \in CallIds : RingTimeout(c)
    BY <2>8 DEF RingTimeout, Next
  <2> QED BY <1>2, <2>2, <2>3, <2>4, <2>5, <2>6, <2>7, <2>8 DEF CallsNext
<1>3. CallInv => PagesTypeOK
  BY DEF CallInv
<1> QED BY <1>1, <1>2, <1>3, CallsInvariance, PTL DEF CallsSpec

\* Calls keep to CallLife also with the pages' requests, their timing and their loss.
THEOREM PagesKeepToLife == CallsSpec => KeepsToCallLife
<1>1. CallInv /\ [Next]_vars => [Lives!Next]_(Lives!vars)
  BY LifeGoesOn DEF CallInv
<1> QED BY <1>1, LifeStarts, CallsInvariance, PagesUseService, PTL DEF KeepsToCallLife, Lives!Spec

\* A page that leaves its call for another reason than CallInv allows would have to ring,
\* join or hear of a second call while it is in the first.
LEMMA OwnCallStays ==
    ASSUME CallInv, CallsNext, ~crossed', NEW w \in Users, session[w] # NoCall, session'[w] # session[w]
    PROVE  \/ [what |-> "end", by |-> w, call |-> session[w]] \in requests'
           \/ session[w] \notin calls \/ <<w, session[w]>> \in notices
<1>0. PagesTypeOK /\ IInv /\ session \in [Users -> Calls]
  BY DEF CallInv, PagesTypeOK
<1>1. ASSUME ~crossed
      PROVE  /\ Page(w) /\ joining[w] = NoCall /\ pending[w] = NoCall /\ flow[w] = "idle"
             /\ rooms[w] = {session[w]}
             /\ \A c \in CallIds : <<w, c>> \in notices => Notice(w, c)
  <2>1. Page(w) /\ \A c \in CallIds : <<w, c>> \in notices => Notice(w, c)
    BY <1>1 DEF CallInv, Agreeing
  <2>2. joining[w] = NoCall /\ pending[w] = NoCall
    BY <2>1 DEF Page
  <2>3. flow[w] = "idle"
    BY <1>0, <2>2 DEF PagesTypeOK
  <2> QED BY <2>1, <2>2, <2>3 DEF Page
<1>2. ASSUME NEW u \in Users, NEW heard, CleanUpOn(u, heard) PROVE u = w /\ ~crossed
  BY <1>0, <1>2, CleanUpFacts
<1>3. CASE \E u \in Users : Joined(u)
  <2>1. PICK u \in Users : Joined(u)
    BY <1>3
  <2>2. u = w /\ ~crossed /\ flow[u] = "loading"
    BY <1>0, <2>1 DEF Joined
  <2> QED BY <1>1, <2>2
<1>4. CASE \E u \in Users : JoinFails(u)
  <2>1. PICK u \in Users : JoinFails(u)
    BY <1>4
  <2>2. CleanUpOn(u, {}) /\ flow[u] # "idle"
    BY <2>1 DEF JoinFails, CleanUp
  <2> QED BY <1>1, <1>2, <2>2
<1>5. CASE \E u \in Users : DeclineCall(u)
  <2>1. PICK u \in Users : DeclineCall(u)
    BY <1>5
  <2>2. CleanUpOn(u, {}) /\ pending[u] # NoCall
    BY <2>1 DEF DeclineCall, CleanUp
  <2> QED BY <1>1, <1>2, <2>2
<1>6. CASE \E u \in Users : EndCall(u)
  <2>1. PICK u \in Users : EndCall(u)
    BY <1>6
  <2>2. CleanUpOn(u, {})
    BY <2>1 DEF EndCall, CleanUp
  <2> QED BY <1>2, <2>1, <2>2 DEF EndCall, Post
<1>7. CASE \E u \in Users : Deliver(u)
  <2>1. PICK u \in Users : Deliver(u)
    BY <1>7
  <2>2. inbox[u] # <<>> /\ inbox' = [inbox EXCEPT ![u] = Tail(inbox[u])]
    BY <2>1 DEF Deliver
  <2>3. PICK e \in sent : e = Head(inbox[u]) /\ e.to = u /\ e.type \in Matters /\ e.call \in CallIds
    BY <2>2, HeadGoes
  <2>4. e.type # "call-incoming" /\ HearOver(u, e.call) /\ e.call \in {session[u], pending[u]}
    BY <2>1, <2>3 DEF Deliver, Incoming, Ring, HearOver
  <2>5. CleanUpOn(u, {})
    BY <2>4 DEF HearOver, CleanUp
  <2>6. e.call = session[w]
    BY <1>1, <1>2, <2>3, <2>4, <2>5, NoCallAssumption
  <2>7. e.call \notin calls
    BY <1>0, <2>3, <2>4 DEF IInv, NoEarlyEnd, ToldOver, Matters
  <2> QED BY <2>6, <2>7
<1>8. CASE \E u \in Users, c \in CallIds : BroadcasterLeft(u, c)
  <2>1. PICK u \in Users, c \in CallIds : BroadcasterLeft(u, c)
    BY <1>8
  <2>2. CleanUpOn(u, {<<u, c>>}) /\ <<u, c>> \in notices
    BY <2>1 DEF BroadcasterLeft
  <2>3. u = w /\ c \in rooms[w]
    BY <1>1, <1>2, <2>2 DEF Notice
  <2> QED BY <1>1, <1>2, <2>2, <2>3
<1> QED
  BY <1>3, <1>4, <1>5, <1>6, <1>7, <1>8
     DEF CallsNext, PlaceCall, AcceptCall, ServerAccepts, Accepted, JoinRoom, Serve, LoseRequest, RingTimeout, pageVars

\* A page leaves its call only by its user, who tells the server, or at the call's end.
THEOREM OnlyItsUserLeaves == CallsSpec => StaysInCall
<1>1. CallInv /\ [CallsNext]_callsVars =>
        [\A u \in Users : session[u] # NoCall /\ session'[u] # session[u] =>
            \/ [what |-> "end", by |-> u, call |-> session[u]] \in requests'
            \/ session[u] \notin calls \/ <<u, session[u]>> \in notices \/ crossed']_callsVars
  BY OwnCallStays
<1> QED BY <1>1, CallsInvariance, PTL DEF CallsSpec, StaysInCall

(***************************************************************************)
(* What a page captures and sends                                          *)
(*                                                                         *)
(* MediaInv says whose each track is: a join under way has its own capture *)
(* and nothing else, a pick's track is in no session yet, and in the       *)
(* session that is current the producers, the preview, the buttons and the *)
(* screen agree.  One lemma per action.                                    *)
(***************************************************************************)
\* The tracks captured for j so far, and its screens.
OwnTrack(j, t) == t \in Tracks /\ t[1] = j /\ t[3] <= taken
OwnScreen(j, t) == t = NoTrack \/ (OwnTrack(j, t) /\ KindOf(t) = "screen")

\* What a join or a session has is its own.
OwnTracks ==
    \A j \in Joins :
        /\ \A t \in local[j] : OwnTrack(j, t) /\ KindOf(t) \in Kinds
        /\ \A t \in sending[j] : OwnTrack(j, t)
        /\ OwnScreen(j, screen[j]) /\ OwnScreen(j, shown[j])

\* A join under way has captured its microphone and camera at most, and nothing of a session.
UnderWay(j) ==
    /\ j \notin over /\ j # current /\ \A p \in picks : p.of # j
    /\ sending[j] = {} /\ muted[j] = {} /\ screen[j] = NoTrack /\ shown[j] = NoTrack
    /\ local[j] = IF step[j] = "publishing" /\ produces[j] THEN {<<j, k, 0>> : k \in Kinds} ELSE {}
    /\ local[j] \subseteq live

\* A pick is for a track that nothing else has.
PickInv(p) ==
    /\ OwnTrack(p.of, p.track) /\ p.track[3] > 0
    /\ p.track \notin local[p.of] \cup sending[p.of]
    /\ p.step = "placing" =>
         /\ KindOf(p.track) \in Kinds => p.track \in live
         /\ p.of \notin over /\ p.of # current => p.track \in lost

\* A session sends what its page shows ...
KindsInv(j) ==
    /\ j \notin over
    /\ \A k \in Kinds :
         /\ k \in switches <=> produces[j] /\ k \notin muted[j]
         /\ OfKind(k, sending[j]) = OfKind(k, local[j])
         /\ produces[j] => \E t \in live : OfKind(k, sending[j]) = {t}

\* ... and the screen that it sends is the one it knows.
ScreenInv(j) ==
    j \notin slipped =>
        IF shown[j] = NoTrack
        THEN ~sharing /\ OfKind("screen", sending[j]) = {}
        ELSE /\ sharing /\ OfKind("screen", sending[j]) = {shown[j]}
             /\ screen[j] = shown[j] /\ shown[j] \in live

SessionInv(j) == KindsInv(j) /\ ScreenInv(j)

AllUnderWay == \A j \in Joins : step[j] # "done" => UnderWay(j)
AllPicks == \A p \in picks : PickInv(p)
OnePick == \A p, q \in picks : p.track = q.track => p = q
Session == current # NoJoin => SessionInv(current)

MediaInv ==
    MediaTypeOK /\ OwnTracks /\ AllUnderWay /\ AllPicks /\ OnePick /\ Session /\ DevicesReleased

\* What a track is.
LEMMA TrackFacts ==
    /\ \A t \in Tracks : t # NoTrack /\ t[1] \in Joins /\ KindOf(t) \in Kinds \cup {"screen"}
                         /\ t[3] \in 0..MaxPicks
    /\ "screen" \notin Kinds
    /\ \A j \in Joins, k \in Kinds \cup {"screen"}, n \in 0..MaxPicks :
         /\ <<j, k, n>> \in Tracks /\ KindOf(<<j, k, n>>) = k
         /\ <<j, k, n>>[1] = j /\ <<j, k, n>>[3] = n
BY MediaAssumption DEF Tracks, NoTrack, KindOf, Kinds

LEMMA MediaInitRight == MediaInit => MediaInv
<1> SUFFICES ASSUME MediaInit PROVE MediaInv
  OBVIOUS
<1>1. /\ local = [j \in Joins |-> {}] /\ sending = [j \in Joins |-> {}]
      /\ muted = [j \in Joins |-> {}] /\ screen = [j \in Joins |-> NoTrack]
      /\ shown = [j \in Joins |-> NoTrack]
  BY DEF MediaInit
<1>2. MediaTypeOK
  <2>1. taken \in 0..MaxPicks /\ switches \subseteq Kinds
    BY MediaAssumption DEF MediaInit, Kinds
  <2> QED BY <1>1, <2>1 DEF MediaInit, MediaTypeOK
<1>3. \A j \in Joins : UnderWay(j)
  BY <1>1, MediaAssumption DEF MediaInit, UnderWay
<1>4. OwnTracks
  BY <1>1 DEF OwnTracks, OwnScreen
<1>5. AllPicks /\ OnePick /\ Session /\ DevicesReleased
  BY DEF MediaInit, AllPicks, OnePick, Session, DevicesReleased
<1> QED BY <1>2, <1>3, <1>4, <1>5 DEF MediaInv, AllUnderWay

(***************************************************************************)
(* What a step leaves alone                                                *)
(***************************************************************************)
\* A step leaves what j has.
SameOf(j) ==
    /\ local'[j] = local[j] /\ sending'[j] = sending[j] /\ muted'[j] = muted[j]
    /\ screen'[j] = screen[j] /\ shown'[j] = shown[j]

LEMMA OwnKept ==
    ASSUME OwnTracks, taken <= taken', taken \in Int, taken' \in Int, NEW j \in Joins,
           \A t \in Tracks : t[3] \in Int,
           \A t \in local'[j] : t \in local[j] \/ (OwnTrack(j, t)' /\ KindOf(t) \in Kinds),
           \A t \in sending'[j] : t \in sending[j] \/ OwnTrack(j, t)',
           screen'[j] = screen[j] \/ OwnScreen(j, screen[j])',
           shown'[j] = shown[j] \/ OwnScreen(j, shown[j])'
    PROVE  /\ \A t \in local'[j] : OwnTrack(j, t)' /\ KindOf(t) \in Kinds
           /\ \A t \in sending'[j] : OwnTrack(j, t)'
           /\ OwnScreen(j, screen[j])' /\ OwnScreen(j, shown[j])'
<1>1. \A t : OwnTrack(j, t) => OwnTrack(j, t)'
  BY DEF OwnTrack
<1>2. \A t \in local'[j] : OwnTrack(j, t)' /\ KindOf(t) \in Kinds
  BY <1>1 DEF OwnTracks
<1>3. \A t \in sending'[j] : OwnTrack(j, t)'
  BY <1>1 DEF OwnTracks
<1>4. OwnScreen(j, screen[j])' /\ OwnScreen(j, shown[j])'
  <2>1. OwnScreen(j, screen[j])' \/ screen'[j] = screen[j]
    OBVIOUS
  <2>2. OwnScreen(j, shown[j])' \/ shown'[j] = shown[j]
    OBVIOUS
  <2> QED BY <1>1, <2>1, <2>2 DEF OwnTracks, OwnScreen
<1> QED BY <1>2, <1>3, <1>4

LEMMA UnderWayKept ==
    ASSUME NEW j \in Joins, UnderWay(j), SameOf(j), step'[j] = step[j],
           produces'[j] = produces[j], j \notin over', j # current',
           \A p \in picks' : p.of # j, \A t \in local[j] : t \in live'
    PROVE  UnderWay(j)'
BY DEF UnderWay, SameOf

LEMMA PickKept ==
    ASSUME NEW p, PickInv(p), taken <= taken', taken \in Int, taken' \in Int, p.track[3] \in Int,
           p.track \notin local'[p.of] \cup sending'[p.of],
           p.step = "placing" /\ KindOf(p.track) \in Kinds => p.track \in live',
           over \subseteq over', lost \subseteq lost',
           p.step = "placing" /\ p.of = current =>
               current' = current \/ p.of \in over' \/ p.track \in lost'
    PROVE  PickInv(p)'
<1>1. OwnTrack(p.of, p.track)'
  BY DEF PickInv, OwnTrack
<1> QED BY <1>1 DEF PickInv

LEMMA KindsKept ==
    ASSUME NEW j, KindsInv(j), j \notin over', switches' = switches,
           produces'[j] = produces[j], muted'[j] = muted[j],
           \A k \in Kinds : /\ OfKind(k, sending'[j]) = OfKind(k, sending[j])
                            /\ OfKind(k, local'[j]) = OfKind(k, local[j]),
           \A t \in sending[j] \cap live : KindOf(t) \in Kinds => t \in live'
    PROVE  KindsInv(j)'
<1>1. \A k \in Kinds : /\ k \in switches' <=> produces'[j] /\ k \notin muted'[j]
                       /\ OfKind(k, sending'[j]) = OfKind(k, local'[j])
  BY DEF KindsInv
<1>2. ASSUME NEW k \in Kinds, produces'[j] PROVE \E t \in live' : OfKind(k, sending'[j]) = {t}
  <2>1. PICK t \in live : OfKind(k, sending[j]) = {t}
    BY <1>2 DEF KindsInv
  <2>2. t \in sending[j] /\ KindOf(t) = k
    BY <2>1 DEF OfKind
  <2> QED BY <2>1, <2>2
<1>3. \A k \in Kinds : /\ OfKind(k, sending[j])' = OfKind(k, sending'[j])
                       /\ OfKind(k, local[j])' = OfKind(k, local'[j])
  BY DEF OfKind
<1> QED BY <1>1, <1>2, <1>3 DEF KindsInv

LEMMA ScreenKept ==
    ASSUME NEW j, ScreenInv(j), sharing' = sharing, sending'[j] = sending[j],
           shown'[j] = shown[j], slipped \subseteq slipped',
           j \notin slipped' => /\ screen'[j] = screen[j] \/ shown[j] = NoTrack
                                /\ shown[j] \in live => shown[j] \in live'
    PROVE  ScreenInv(j)'
<1>1. OfKind("screen", sending[j])' = OfKind("screen", sending[j])
  BY DEF OfKind
<1>2. CASE shown[j] = NoTrack
  BY <1>1, <1>2 DEF ScreenInv
<1>3. CASE shown[j] # NoTrack
  BY <1>1, <1>3 DEF ScreenInv
<1> QED BY <1>2, <1>3

LEMMA SessionKept ==
    ASSUME Session, UNCHANGED <<current, switches, sharing>>,
           current # NoJoin => /\ SameOf(current) /\ produces'[current] = produces[current]
                               /\ current \notin over'
                               /\ \A t \in sending[current] \cap live :
                                     KindOf(t) \in Kinds => t \in live'
                               /\ current \notin slipped /\ shown[current] \in live
                                    => shown[current] \in live',
           slipped \subseteq slipped'
    PROVE  Session'
<1> SUFFICES ASSUME current # NoJoin PROVE SessionInv(current)'
  BY DEF Session
<1>1. PICK j : j = current
  OBVIOUS
<1>2. KindsInv(j) /\ ScreenInv(j) /\ SameOf(j)
  BY <1>1 DEF Session, SessionInv
<1>3. KindsInv(j)'
  BY <1>1, <1>2, KindsKept DEF SameOf
<1>4. ScreenInv(j)'
  BY <1>1, <1>2, ScreenKept DEF SameOf
<1> QED BY <1>1, <1>3, <1>4 DEF SessionInv, KindsInv, ScreenInv, OfKind

\* What was captured before stays accounted for.
LEMMA ReleasedKept ==
    ASSUME DevicesReleased, current' = current, lost \subseteq lost',
           \A t \in live' \ lost' :
              \/ t \in live
              \/ current' # NoJoin /\ t \in Held(current)'
              \/ \E j \in Joins : step'[j] = "publishing" /\ t \in local'[j]
              \/ \E p \in picks' : p.step = "placing" /\ p.track = t,
           \A t \in live' \ lost' : current # NoJoin /\ t \in Held(current) => t \in Held(current)',
           \A t \in live' \ lost', j \in Joins :
              step[j] = "publishing" /\ t \in local[j] =>
                 step'[j] = "publishing" /\ t \in local'[j],
           \A t \in live' \ lost', p \in picks :
              p.step = "placing" /\ p.track = t =>
                 \/ current' # NoJoin /\ t \in Held(current)'
                 \/ \E q \in picks' : q.step = "placing" /\ q.track = t
    PROVE  DevicesReleased'
<1> SUFFICES ASSUME NEW t \in live' \ lost'
             PROVE  \/ current' # NoJoin /\ t \in Held(current)'
                    \/ \E j \in Joins : step'[j] = "publishing" /\ t \in local'[j]
                    \/ \E p \in picks' : p.step = "placing" /\ p.track = t
  BY DEF DevicesReleased
<1>1. CASE t \in live
  <2>1. t \in live \ lost
    BY <1>1
  <2>2. CASE current # NoJoin /\ t \in Held(current)
    BY <2>2
  <2>3. CASE \E j \in Joins : step[j] = "publishing" /\ t \in local[j]
    BY <2>3
  <2>4. CASE \E p \in picks : p.step = "placing" /\ p.track = t
    BY <2>4
  <2> QED BY <2>1, <2>2, <2>3, <2>4 DEF DevicesReleased
<1> QED BY <1>1

\* The types that the steps need.
LEMMA Types ==
    ASSUME MediaInv
    PROVE  /\ taken \in 0..MaxPicks /\ MaxPicks \in Nat
           /\ \A t \in Tracks : t[3] \in Int
           /\ \A p \in picks : /\ p \in Picks /\ p.of \in Joins /\ p.track \in Tracks
                               /\ p.track[1] = p.of /\ PickInv(p) /\ step[p.of] = "done"
           /\ current # NoJoin => current \in Joins /\ step[current] = "done" /\ SessionInv(current)
<1>1. \A p \in picks : p \in Picks /\ p.of \in Joins /\ p.track \in Tracks
  BY DEF MediaInv, MediaTypeOK, Picks
<1>2. \A p \in picks : p.track[1] = p.of /\ PickInv(p)
  BY DEF MediaInv, AllPicks, PickInv, OwnTrack
<1>3. \A p \in picks : step[p.of] = "done"
  BY <1>1 DEF MediaInv, AllUnderWay, UnderWay
<1>4. current # NoJoin => current \in Joins /\ step[current] = "done" /\ SessionInv(current)
  BY DEF MediaInv, MediaTypeOK, AllUnderWay, UnderWay, Session
<1>5. taken \in 0..MaxPicks /\ MaxPicks \in Nat
  BY MediaAssumption DEF MediaInv, MediaTypeOK
<1> QED BY <1>1, <1>2, <1>3, <1>4, <1>5, TrackFacts

LEMMA StartsRight ==
    ASSUME MediaInv, NEW j \in Joins, NEW produce \in BOOLEAN, Starts(j, produce) PROVE MediaInv'
<1>1. MediaTypeOK'
  BY DEF MediaInv, MediaTypeOK, Starts, At, trackVars, uiVars, pickVars
<1>2. OwnTracks'
  BY DEF MediaInv, OwnTracks, OwnTrack, OwnScreen, Starts, trackVars, pickVars
<1>3. UnderWay(j) /\ step[j] = "new" /\ j # current
  BY DEF MediaInv, AllUnderWay, Starts, At, UnderWay
<1>4. /\ UNCHANGED <<trackVars, uiVars, pickVars, current, lost, slipped>>
      /\ \A i \in Joins : step'[i] = IF i = j THEN "entering" ELSE step[i]
      /\ \A i \in Joins \ {j} : produces'[i] = produces[i]
  BY DEF Starts, At, MediaInv, MediaTypeOK
<1>5. AllUnderWay'
  <2> SUFFICES ASSUME NEW i \in Joins, step'[i] # "done" PROVE UnderWay(i)'
    BY DEF AllUnderWay
  <2>1. CASE i = j
    BY <1>3, <1>4, <2>1 DEF UnderWay, trackVars, pickVars
  <2>2. CASE i # j
    BY <1>4, <2>2, UnderWayKept DEF MediaInv, AllUnderWay, UnderWay, SameOf, trackVars, pickVars
  <2> QED BY <2>1, <2>2
<1>6. AllPicks' /\ OnePick'
  BY <1>4 DEF MediaInv, AllPicks, PickInv, OnePick, OwnTrack, trackVars, pickVars
<1>7. Session'
  <2>1. current # NoJoin => produces'[current] = produces[current] /\ current \notin over
    BY <1>3, <1>4, Types DEF SessionInv, KindsInv, ScreenInv
  <2> QED BY <1>4, <2>1, SessionKept DEF MediaInv, SameOf, trackVars, uiVars
<1>8. DevicesReleased'
  BY <1>3, <1>4 DEF MediaInv, DevicesReleased, Held, trackVars, pickVars
<1> QED BY <1>1, <1>2, <1>5, <1>6, <1>7, <1>8 DEF MediaInv

LEMMA EntersRight == ASSUME MediaInv, NEW j \in Joins, Enters(j) PROVE MediaInv'
<1>1. MediaTypeOK'
  BY DEF MediaInv, MediaTypeOK, Enters, At, trackVars, uiVars, pickVars
<1>2. OwnTracks'
  BY DEF MediaInv, OwnTracks, OwnTrack, OwnScreen, Enters, trackVars, pickVars
<1>3. UnderWay(j) /\ step[j] = "entering" /\ j # current
  BY DEF MediaInv, AllUnderWay, Enters, At, UnderWay
<1>4. /\ UNCHANGED <<trackVars, uiVars, pickVars, current, produces, lost, slipped>>
      /\ \A i \in Joins : step'[i] = IF i = j THEN "loading" ELSE step[i]
  BY DEF Enters, At, MediaInv, MediaTypeOK
<1>5. AllUnderWay'
  <2> SUFFICES ASSUME NEW i \in Joins, step'[i] # "done" PROVE UnderWay(i)'
    BY DEF AllUnderWay
  <2>1. CASE i = j
    BY <1>3, <1>4, <2>1 DEF UnderWay, trackVars, pickVars
  <2>2. CASE i # j
    BY <1>4, <2>2, UnderWayKept DEF MediaInv, AllUnderWay, UnderWay, SameOf, trackVars, pickVars
  <2> QED BY <2>1, <2>2
<1>6. AllPicks' /\ OnePick'
  BY <1>4 DEF MediaInv, AllPicks, PickInv, OnePick, OwnTrack, trackVars, pickVars
<1>7. Session'
  <2>1. current # NoJoin => current \notin over
    BY Types DEF SessionInv, KindsInv, ScreenInv
  <2> QED BY <1>4, <2>1, SessionKept DEF MediaInv, SameOf, trackVars, uiVars
<1>8. DevicesReleased'
  BY <1>3, <1>4 DEF MediaInv, DevicesReleased, Held, trackVars, pickVars
<1> QED BY <1>1, <1>2, <1>5, <1>6, <1>7, <1>8 DEF MediaInv

LEMMA CaptureRight == ASSUME MediaInv, NEW j \in Joins, captureCallStream(j) PROVE MediaInv'
<1> DEFINE new == IF produces[j] THEN {<<j, k, 0>> : k \in Kinds} ELSE {}
<1>1. \A t \in new : t \in Tracks /\ t[1] = j /\ t[3] = 0 /\ KindOf(t) \in Kinds
  BY TrackFacts, MediaAssumption
<1>2. UnderWay(j) /\ step[j] = "loading" /\ j # current
  BY DEF MediaInv, AllUnderWay, captureCallStream, At, UnderWay
<1>3. /\ UNCHANGED <<sending, muted, over, screen, shown, uiVars, pickVars, current, produces, lost, slipped>>
      /\ \A i \in Joins : step'[i] = IF i = j THEN "publishing" ELSE step[i]
      /\ \A i \in Joins : local'[i] = IF i = j THEN new ELSE local[i]
      /\ live' = live \cup new /\ local[j] = {}
  BY <1>2 DEF captureCallStream, At, MediaInv, MediaTypeOK, UnderWay
<1>4. MediaTypeOK'
  <2>1. local' \in [Joins -> SUBSET Tracks] /\ live' \subseteq Tracks
    BY <1>1, <1>3 DEF captureCallStream, MediaInv, MediaTypeOK
  <2> QED BY <2>1 DEF MediaInv, MediaTypeOK, captureCallStream, At, uiVars, pickVars
<1> HIDE DEF new
<1>5. OwnTracks'
  <2>1. taken' = taken /\ taken \in Nat
    BY <1>3, Types DEF pickVars
  <2>2. \A t \in new : OwnTrack(j, t)' /\ KindOf(t) \in Kinds
    BY <1>1, <2>1 DEF OwnTrack
  <2> SUFFICES ASSUME NEW i \in Joins
               PROVE  /\ \A t \in local'[i] : OwnTrack(i, t)' /\ KindOf(t) \in Kinds
                      /\ \A t \in sending'[i] : OwnTrack(i, t)'
                      /\ OwnScreen(i, screen[i])' /\ OwnScreen(i, shown[i])'
    BY DEF OwnTracks
  <2>3. \A t \in local'[i] : t \in local[i] \/ (OwnTrack(i, t)' /\ KindOf(t) \in Kinds)
    BY <1>3, <2>2 DEF OwnTrack
  <2>4. sending'[i] = sending[i] /\ screen'[i] = screen[i] /\ shown'[i] = shown[i]
    BY <1>3
  <2> QED BY <2>1, <2>3, <2>4, Types, OwnKept DEF MediaInv
<1>6. AllUnderWay'
  <2> SUFFICES ASSUME NEW i \in Joins, step'[i] # "done" PROVE UnderWay(i)'
    BY DEF AllUnderWay
  <2>1. CASE i = j
    BY <1>2, <1>3, <2>1 DEF UnderWay, pickVars, new
  <2>2. CASE i # j
    BY <1>3, <2>2, UnderWayKept DEF MediaInv, AllUnderWay, UnderWay, SameOf, pickVars
  <2> QED BY <2>1, <2>2
<1>7. AllPicks'
  <2> SUFFICES ASSUME NEW p \in picks PROVE PickInv(p)'
    BY <1>3 DEF AllPicks, pickVars
  <2>1. p.of # j /\ p.of \in Joins
    BY <1>2, Types DEF UnderWay
  <2> QED BY <1>3, <2>1, Types, PickKept DEF PickInv, pickVars
<1>8. OnePick'
  BY <1>3 DEF MediaInv, OnePick, pickVars
<1>9. Session'
  <2>1. current # NoJoin => current \notin over /\ local'[current] = local[current]
    BY <1>2, <1>3, Types DEF SessionInv, KindsInv, ScreenInv
  <2> QED BY <1>3, <2>1, SessionKept DEF MediaInv, SameOf, uiVars
<1>10. DevicesReleased'
  <2>1. current # NoJoin => Held(current)' = Held(current)
    BY <1>2, <1>3, Types DEF Held
  <2> QED BY <1>2, <1>3, <2>1, ReleasedKept DEF MediaInv, pickVars
<1> QED BY <1>4, <1>5, <1>6, <1>7, <1>8, <1>9, <1>10 DEF MediaInv

\* What a session holds is its own, and nothing of it is still to be placed.
LEMMA HeldOwn ==
    ASSUME MediaInv
    PROVE  /\ \A j \in Joins, t \in Tracks : t \in Held(j) => t[1] = j
           /\ \A j \in Joins : Held(j) \subseteq Tracks \cup {NoTrack}
           /\ \A p \in picks, j \in Joins : p.track \notin local[j] \cup sending[j]
           /\ \A p \in picks, j \in Joins : KindOf(p.track) \in Kinds => p.track \notin Held(j)
           /\ \A j \in Joins : \A t \in local[j] : t \in Tracks /\ t[1] = j
           /\ NoTrack \notin live
<1>1. /\ \A j \in Joins : \A t \in local[j] \cup sending[j] : t \in Tracks /\ t[1] = j
      /\ \A j \in Joins : screen[j] = NoTrack \/ (screen[j] \in Tracks /\ screen[j][1] = j
                                                    /\ KindOf(screen[j]) = "screen")
  BY DEF MediaInv, OwnTracks, OwnTrack, OwnScreen
<1>2. \A t \in Tracks : t # NoTrack
  BY TrackFacts
<1>3. \A p \in picks, j \in Joins : p.track \notin local[j] \cup sending[j]
  <2> SUFFICES ASSUME NEW p \in picks, NEW j \in Joins, p.track \in local[j] \cup sending[j]
               PROVE  FALSE
    OBVIOUS
  <2>1. p.of = j
    BY <1>1, Types
  <2> QED BY <2>1, Types DEF PickInv
<1>4. \A p \in picks, j \in Joins : KindOf(p.track) \in Kinds => p.track \notin Held(j)
  BY <1>1, <1>2, <1>3, TrackFacts, Types DEF Held
<1>5. NoTrack \notin live
  BY <1>2 DEF MediaInv, MediaTypeOK
<1> QED BY <1>1, <1>2, <1>3, <1>4, <1>5 DEF Held

LEMMA EntersCallRight == ASSUME MediaInv, NEW j \in Joins, EntersCall(j) PROVE MediaInv'
<1>1. UnderWay(j) /\ step[j] = "publishing" /\ j # current /\ j # NoJoin
  BY MediaAssumption DEF MediaInv, AllUnderWay, EntersCall, At, UnderWay
<1>2. /\ UNCHANGED <<produces, busy, hears, local, muted, over, screen, shown, live, pickVars, slipped>>
      /\ step' = [step EXCEPT ![j] = "done"]
      /\ sending' = [sending EXCEPT ![j] = local[j]]
      /\ current' = j /\ sharing' = FALSE /\ lost' = lost \cup Abandoned
      /\ switches' = IF produces[j] THEN Kinds ELSE {}
  BY DEF EntersCall, At
<1>3. /\ \A i \in Joins : step'[i] = IF i = j THEN "done" ELSE step[i]
      /\ \A i \in Joins : sending'[i] = IF i = j THEN local[j] ELSE sending[i]
  BY <1>2 DEF MediaInv, MediaTypeOK
<1>4. MediaTypeOK'
  <2>1. Abandoned \subseteq Tracks
    BY Types DEF Abandoned, MediaInv, MediaTypeOK
  <2>2. sending' \in [Joins -> SUBSET Tracks] /\ lost' \subseteq Tracks
    BY <1>2, <2>1 DEF MediaInv, MediaTypeOK
  <2>3. step' \in [Joins -> {"new", "entering", "loading", "publishing", "done"}]
    BY <1>2 DEF MediaInv, MediaTypeOK
  <2>4. switches' \subseteq Kinds /\ sharing' \in BOOLEAN /\ current' \in Joins \cup {NoJoin}
    BY <1>2
  <2> QED BY <1>2, <2>2, <2>3, <2>4 DEF MediaInv, MediaTypeOK, pickVars
<1>5. OwnTracks'
  BY <1>2, <1>3 DEF MediaInv, OwnTracks, OwnTrack, OwnScreen, pickVars
<1>6. AllUnderWay'
  <2> SUFFICES ASSUME NEW i \in Joins, step'[i] # "done" PROVE UnderWay(i)'
    BY DEF AllUnderWay
  <2> QED BY <1>2, <1>3, UnderWayKept DEF MediaInv, AllUnderWay, UnderWay, SameOf, pickVars
<1>7. AllPicks'
  <2> SUFFICES ASSUME NEW p \in picks PROVE PickInv(p)'
    BY <1>2 DEF AllPicks, pickVars
  <2>1. p.of # j /\ p.of \in Joins
    BY <1>1, Types DEF UnderWay
  <2>2. p.step = "placing" /\ p.of = current => p.track \in lost'
    BY <1>2, <2>1, MediaAssumption DEF Abandoned
  <2> QED BY <1>2, <1>3, <2>1, <2>2, Types, PickKept DEF PickInv, pickVars
<1>8. OnePick'
  BY <1>2 DEF MediaInv, OnePick, pickVars
<1>9. Session'
  <2>1. SessionInv(j)'
    <3>1. j \notin over' /\ muted'[j] = {} /\ shown'[j] = NoTrack /\ ~sharing'
          /\ sending'[j] = local[j] /\ local'[j] = local[j]
      BY <1>1, <1>2, <1>3 DEF UnderWay
    <3>2. OfKind("screen", local[j]) = {}
      BY TrackFacts DEF OfKind, MediaInv, OwnTracks
    <3>3. \A k \in Kinds : produces[j] => OfKind(k, local[j]) = {<<j, k, 0>>} /\ <<j, k, 0>> \in live
      <4> SUFFICES ASSUME NEW k \in Kinds, produces[j]
                   PROVE  OfKind(k, local[j]) = {<<j, k, 0>>} /\ <<j, k, 0>> \in live
        OBVIOUS
      <4>1. local[j] = {<<j, x, 0>> : x \in Kinds} /\ local[j] \subseteq live
        BY <1>1 DEF UnderWay
      <4>2. \A x \in Kinds : KindOf(<<j, x, 0>>) = x
        BY DEF KindOf
      <4> QED BY <4>1, <4>2 DEF OfKind
    <3>4. \A k \in Kinds : k \in switches' <=> produces'[j] /\ k \notin muted'[j]
      BY <1>2, <3>1
    <3>5. OfKind("screen", sending[j])' = {}
      BY <3>1, <3>2 DEF OfKind
    <3>6. \A k \in Kinds : /\ OfKind(k, sending[j])' = OfKind(k, local[j])'
                           /\ produces'[j] => \E t \in live' : OfKind(k, sending[j])' = {t}
      <4>1. \A k \in Kinds : OfKind(k, sending[j])' = OfKind(k, local[j]) /\ OfKind(k, local[j])' = OfKind(k, local[j])
        BY <3>1 DEF OfKind
      <4> QED BY <1>2, <3>3, <4>1
    <3> QED BY <3>1, <3>4, <3>5, <3>6 DEF SessionInv, KindsInv, ScreenInv
  <2> QED BY <1>2, <2>1 DEF Session, SessionInv, KindsInv, ScreenInv, OfKind
<1>10. DevicesReleased'
  <2> SUFFICES ASSUME NEW t \in live' \ lost'
               PROVE  \/ current' # NoJoin /\ t \in Held(current)'
                      \/ \E i \in Joins : step'[i] = "publishing" /\ t \in local'[i]
                      \/ \E p \in picks' : p.step = "placing" /\ p.track = t
    BY DEF DevicesReleased
  <2>1. t \in live \ lost /\ ~(current # NoJoin /\ t \in Held(current))
    BY <1>2 DEF Abandoned
  <2>2. ASSUME NEW i \in Joins, step[i] = "publishing", t \in local[i]
        PROVE  \/ current' # NoJoin /\ t \in Held(current)'
               \/ step'[i] = "publishing" /\ t \in local'[i]
    BY <1>1, <1>2, <1>3, <2>2 DEF Held
  <2> QED BY <1>2, <2>1, <2>2 DEF MediaInv, DevicesReleased, pickVars
<1> QED BY <1>4, <1>5, <1>6, <1>7, <1>8, <1>9, <1>10 DEF MediaInv

\* cleanup(): the session is closed, and the joins of G have failed with what they captured.
LEMMA ForgetRight ==
    ASSUME MediaInv, NEW stopped, NEW G \in SUBSET Joins, Forget(stopped),
           UNCHANGED <<produces, pickVars, slipped>>, lost \subseteq lost', lost' \subseteq Tracks,
           step' \in [Joins -> {"new", "entering", "loading", "publishing", "done"}],
           \A i \in Joins : step'[i] = IF i \in G THEN "done" ELSE step[i],
           \A i \in G : step[i] # "done" /\ local[i] \subseteq stopped \cup lost',
           \A t \in stopped : \E i \in G : t \in local[i]
    PROVE  MediaInv'
<1> DEFINE closed == IF current = NoJoin THEN {} ELSE Held(current)
<1>1. /\ UNCHANGED <<local, muted, screen>> /\ current' = NoJoin /\ busy' = FALSE
      /\ switches' = {"audio"} /\ sharing' = FALSE
      /\ live' = live \ (stopped \cup closed)
      /\ hears' \subseteq hears
      /\ over \subseteq over' /\ over' \subseteq over \cup ({current} \ {NoJoin})
      /\ current # NoJoin => current \in over'
  BY DEF Forget, Close
<1>2. /\ sending' \in [Joins -> SUBSET Tracks] /\ shown' \in [Joins -> Tracks \cup {NoTrack}]
      /\ \A i \in Joins : /\ sending'[i] = IF i = current THEN {} ELSE sending[i]
                          /\ shown'[i] = IF i = current THEN NoTrack ELSE shown[i]
  <2>1. CASE current = NoJoin
    BY <2>1, MediaAssumption DEF Forget, MediaInv, MediaTypeOK
  <2>2. CASE current # NoJoin
    BY <2>2 DEF Forget, Close, MediaInv, MediaTypeOK
  <2> QED BY <2>1, <2>2
<1>3. closed \subseteq Tracks \cup {NoTrack} /\ \A t \in closed \cap Tracks : t[1] = current /\ current # NoJoin
  BY Types, HeldOwn
<1>4. MediaTypeOK'
  <2>1. over' \subseteq Joins /\ hears' \subseteq Joins /\ live' \subseteq Tracks
    BY <1>1, Types DEF MediaInv, MediaTypeOK
  <2>2. switches' \subseteq Kinds
    BY <1>1 DEF Kinds
  <2> QED BY <1>1, <1>2, <2>1, <2>2 DEF MediaInv, MediaTypeOK, pickVars
<1> HIDE DEF closed
<1>5. OwnTracks'
  <2> SUFFICES ASSUME NEW i \in Joins
               PROVE  /\ \A t \in local'[i] : OwnTrack(i, t)' /\ KindOf(t) \in Kinds
                      /\ \A t \in sending'[i] : OwnTrack(i, t)'
                      /\ OwnScreen(i, screen[i])' /\ OwnScreen(i, shown[i])'
    BY DEF OwnTracks
  <2>1. shown'[i] = shown[i] \/ OwnScreen(i, shown[i])'
    BY <1>2 DEF OwnScreen
  <2>2. /\ screen'[i] = screen[i]
        /\ \A t \in local'[i] : t \in local[i] \/ (OwnTrack(i, t)' /\ KindOf(t) \in Kinds)
        /\ \A t \in sending'[i] : t \in sending[i] \/ OwnTrack(i, t)'
    BY <1>1, <1>2
  <2>3. taken' = taken
    BY DEF pickVars
  <2> QED BY <2>1, <2>2, <2>3, Types, OwnKept DEF MediaInv
<1>6. AllUnderWay'
  <2> SUFFICES ASSUME NEW i \in Joins, step'[i] # "done" PROVE UnderWay(i)'
    BY DEF AllUnderWay
  <2>1. i \notin G /\ step'[i] = step[i] /\ UnderWay(i) /\ i # current
    BY DEF MediaInv, AllUnderWay, UnderWay
  <2>2. SameOf(i)
    BY <1>1, <1>2, <2>1 DEF SameOf
  <2>3. \A t \in local[i] : t \in live'
    <3> SUFFICES ASSUME NEW t \in local[i] PROVE t \in live'
      OBVIOUS
    <3>1. t \in live /\ t \in Tracks /\ t[1] = i
      BY <2>1, HeldOwn DEF UnderWay
    <3>2. t \notin closed
      BY <1>3, <2>1, <3>1
    <3>3. t \notin stopped
      BY <2>1, <3>1, HeldOwn
    <3> QED BY <1>1, <3>1, <3>2, <3>3
  <2> QED BY <1>1, <2>1, <2>2, <2>3, UnderWayKept, MediaAssumption DEF UnderWay, pickVars
<1>7. AllPicks'
  <2> SUFFICES ASSUME NEW p \in picks PROVE PickInv(p)'
    BY DEF AllPicks, pickVars
  <2>1. p.track \notin local'[p.of] \cup sending'[p.of]
    BY <1>1, <1>2, Types, HeldOwn
  <2>2. p.step = "placing" /\ KindOf(p.track) \in Kinds => p.track \in live'
    <3> SUFFICES ASSUME p.step = "placing", KindOf(p.track) \in Kinds PROVE p.track \in live'
      OBVIOUS
    <3>1. p.track \in live
      BY Types DEF PickInv
    <3>2. p.track \notin closed
      BY Types, HeldOwn DEF closed
    <3>3. p.track \notin stopped
      BY HeldOwn
    <3> QED BY <1>1, <3>1, <3>2, <3>3
  <2>3. p.of = current => p.of \in over'
    BY <1>1, Types, MediaAssumption
  <2> QED BY <1>1, <2>1, <2>2, <2>3, Types, PickKept DEF pickVars
<1>8. OnePick'
  BY DEF MediaInv, OnePick, pickVars
<1>9. Session'
  BY <1>1 DEF Session
<1>10. DevicesReleased'
  <2> SUFFICES ASSUME NEW t \in live' \ lost'
               PROVE  \/ \E i \in Joins : step'[i] = "publishing" /\ t \in local'[i]
                      \/ \E p \in picks' : p.step = "placing" /\ p.track = t
    BY DEF DevicesReleased
  <2>1. t \in live \ lost /\ t \notin stopped /\ t \notin closed
    BY <1>1
  <2>2. ~(current # NoJoin /\ t \in Held(current))
    BY <2>1 DEF closed
  <2>3. ASSUME NEW i \in Joins, step[i] = "publishing", t \in local[i]
        PROVE  step'[i] = "publishing" /\ t \in local'[i]
    BY <1>1, <2>1, <2>3
  <2> QED BY <2>1, <2>2, <2>3 DEF MediaInv, DevicesReleased, pickVars
<1> QED BY <1>4, <1>5, <1>6, <1>7, <1>8, <1>9, <1>10 DEF MediaInv

LEMMA JoinThrowsRight == ASSUME MediaInv, NEW j \in Joins, JoinThrows(j) PROVE MediaInv'
<1>1. PICK failed \in SUBSET local[j] : Forget(failed) /\ lost' = lost \cup (local[j] \ failed)
  BY DEF JoinThrows
<1>2. /\ step[j] # "done" /\ step' = [step EXCEPT ![j] = "done"]
      /\ UNCHANGED <<produces, pickVars, slipped>>
  BY DEF JoinThrows
<1>3. /\ step' \in [Joins -> {"new", "entering", "loading", "publishing", "done"}]
      /\ \A i \in Joins : step'[i] = IF i \in {j} THEN "done" ELSE step[i]
      /\ local[j] \subseteq Tracks /\ lost \subseteq Tracks
  BY <1>2 DEF MediaInv, MediaTypeOK
<1>4. lost' \subseteq Tracks /\ lost \subseteq lost' /\ local[j] \subseteq failed \cup lost'
  BY <1>1, <1>3
<1>5. {j} \in SUBSET Joins /\ \A t \in failed : \E i \in {j} : t \in local[i]
  OBVIOUS
<1> QED BY <1>1, <1>2, <1>3, <1>4, <1>5, ForgetRight

LEMMA LeavesRight ==
    ASSUME MediaInv, Forget({}), UNCHANGED <<step, produces, pickVars, lost, slipped>> PROVE MediaInv'
<1>1. /\ step' \in [Joins -> {"new", "entering", "loading", "publishing", "done"}]
      /\ \A i \in Joins : step'[i] = IF i \in {} THEN "done" ELSE step[i]
      /\ lost' \subseteq Tracks
  BY DEF MediaInv, MediaTypeOK
<1> QED BY <1>1, ForgetRight

LEMMA ToggleRight == ASSUME MediaInv, NEW k \in Kinds, Toggle(k) PROVE MediaInv'
<1> DEFINE c == current
           quiet == IF k \in switches' THEN muted[c] \ {k} ELSE muted[c] \cup {k}
<1>1. /\ c # NoJoin /\ c \in Joins /\ produces[c] /\ step[c] = "done" /\ SessionInv(c)
      /\ switches' = IF k \in switches THEN switches \ {k} ELSE switches \cup {k}
      /\ UNCHANGED <<joinVars, local, sending, over, screen, shown, live, sharing, pickVars, lost, slipped>>
  BY Types DEF Toggle, Publishing
<1>2. /\ muted' = [muted EXCEPT ![c] = quiet]
      /\ \A i \in Joins : muted'[i] = IF i = c THEN quiet ELSE muted[i]
  BY <1>1 DEF Toggle, MediaInv, MediaTypeOK
<1>3. MediaTypeOK'
  <2>1. switches' \subseteq Kinds /\ quiet \in SUBSET Kinds
    BY <1>1 DEF MediaInv, MediaTypeOK
  <2>2. muted' \in [Joins -> SUBSET Kinds]
    BY <1>2, <2>1 DEF MediaInv, MediaTypeOK
  <2> QED BY <1>1, <2>1, <2>2 DEF MediaInv, MediaTypeOK, joinVars, pickVars
<1>4. OwnTracks' /\ AllPicks' /\ OnePick' /\ DevicesReleased'
  BY <1>1 DEF MediaInv, OwnTracks, OwnTrack, OwnScreen, AllPicks, PickInv, OnePick,
              DevicesReleased, Held, joinVars, pickVars
<1>5. AllUnderWay'
  BY <1>1, <1>2 DEF MediaInv, AllUnderWay, UnderWay, joinVars, pickVars
<1>6. Session'
  <2>1. \A x \in Kinds : x \in switches' <=> produces[c] /\ x \notin muted'[c]
    BY <1>1, <1>2 DEF SessionInv, KindsInv, ScreenInv
  <2> QED BY <1>1, <2>1 DEF Session, SessionInv, KindsInv, ScreenInv, OfKind, joinVars
<1> QED BY <1>3, <1>4, <1>5, <1>6 DEF MediaInv

(***************************************************************************)
(* The picks                                                               *)
(***************************************************************************)
LEMMA AsksRight == ASSUME MediaInv, NEW k \in Kinds \cup {"screen"}, Asks(k) PROVE MediaInv'
<1> PICK c : c = current
  OBVIOUS
<1> PICK n : n = taken + 1
  OBVIOUS
<1> PICK track : track = <<c, k, n>>
  OBVIOUS
<1> PICK new : new = [of |-> c, track |-> track, step |-> "asking"]
  OBVIOUS
<1>1. /\ c # NoJoin /\ c \in Joins /\ step[c] = "done" /\ SessionInv(c)
      /\ taken' = n /\ picks' = picks \cup {new}
      /\ UNCHANGED <<joinVars, trackVars, uiVars, lost, slipped>>
  BY Types DEF Asks, Publishing
<1>2. n \in 0..MaxPicks /\ n > 0 /\ taken < n /\ taken \in Int /\ n \in Int
  BY Types DEF Asks
<1>3. <<c, k, n>> \in Tracks /\ <<c, k, n>>[1] = c /\ <<c, k, n>>[3] = n
  BY <1>1, <1>2, TrackFacts
<1>4. \A j \in Joins : \A t \in local[j] \cup sending[j] : t[3] <= taken
  BY DEF MediaInv, OwnTracks, OwnTrack
<1>5. \A p \in picks : p.track # <<c, k, n>>
  BY <1>2, <1>3, Types DEF PickInv, OwnTrack
<1>6. MediaTypeOK'
  <2>1. new \in Picks
    BY <1>1, <1>3 DEF Picks
  <2> QED BY <1>1, <1>2, <2>1 DEF MediaInv, MediaTypeOK, joinVars, trackVars, uiVars
<1>7. OwnTracks'
  <2> SUFFICES ASSUME NEW i \in Joins
               PROVE  /\ \A t \in local'[i] : OwnTrack(i, t)' /\ KindOf(t) \in Kinds
                      /\ \A t \in sending'[i] : OwnTrack(i, t)'
                      /\ OwnScreen(i, screen[i])' /\ OwnScreen(i, shown[i])'
    BY DEF OwnTracks
  <2>1. /\ local'[i] = local[i] /\ sending'[i] = sending[i]
        /\ screen'[i] = screen[i] /\ shown'[i] = shown[i]
    BY <1>1 DEF trackVars
  <2>2. taken <= taken' /\ taken' \in Int
    BY <1>1, <1>2
  <2> QED BY <1>2, <2>1, <2>2, Types, OwnKept DEF MediaInv
<1>8. AllUnderWay'
  BY <1>1 DEF MediaInv, AllUnderWay, UnderWay, joinVars, trackVars
<1>9. AllPicks'
  <2>1. PickInv(new)'
    <3>1. new.of = c /\ new.track = track /\ new.step # "placing" /\ track = <<c, k, n>>
      OBVIOUS
    <3>2. track \notin local[c] \cup sending[c] /\ track[3] > 0
      BY <1>1, <1>2, <1>3, <1>4, <3>1
    <3>3. track \in Tracks /\ track[1] = c /\ track[3] <= taken'
      BY <1>1, <1>2, <1>3, <3>1
    <3>4. OwnTrack(new.of, new.track)'
      BY <1>1, <3>1, <3>3 DEF OwnTrack, joinVars
    <3>5. new.track \notin local'[new.of] \cup sending'[new.of]
      BY <1>1, <3>1, <3>2 DEF trackVars
    <3> QED BY <3>1, <3>2, <3>4, <3>5 DEF PickInv
  <2>2. ASSUME NEW p \in picks PROVE PickInv(p)'
    BY <1>1, <1>2, Types, PickKept DEF PickInv, joinVars, trackVars
  <2> QED BY <1>1, <2>1, <2>2 DEF AllPicks
<1>10. OnePick'
  BY <1>1, <1>5 DEF MediaInv, OnePick
<1>11. Session' /\ DevicesReleased'
  BY <1>1 DEF MediaInv, Session, SessionInv, KindsInv, ScreenInv, OfKind, DevicesReleased, Held,
              joinVars, trackVars, uiVars
<1> QED BY <1>6, <1>7, <1>8, <1>9, <1>10, <1>11 DEF MediaInv

LEMMA RefusedRight == ASSUME MediaInv, NEW p \in picks, Refused(p) PROVE MediaInv'
<1>1. /\ picks' = picks \ {p} /\ p.step = "asking"
      /\ UNCHANGED <<joinVars, trackVars, uiVars, taken, lost, slipped>>
  BY DEF Refused
<1>2. MediaTypeOK' /\ OwnTracks' /\ AllUnderWay'
  BY <1>1 DEF MediaInv, MediaTypeOK, OwnTracks, OwnTrack, OwnScreen, AllUnderWay, UnderWay,
              joinVars, trackVars, uiVars
<1>3. AllPicks' /\ OnePick'
  BY <1>1 DEF MediaInv, AllPicks, PickInv, OwnTrack, OnePick, joinVars, trackVars
<1>4. Session' /\ DevicesReleased'
  BY <1>1 DEF MediaInv, Session, SessionInv, KindsInv, ScreenInv, OfKind, DevicesReleased, Held,
              joinVars, trackVars, uiVars
<1> QED BY <1>2, <1>3, <1>4 DEF MediaInv

LEMMA CaptureTrackRight == ASSUME MediaInv, NEW p \in picks, captureTrack(p) PROVE MediaInv'
<1> DEFINE q == [p EXCEPT !.step = "placing"]
           t == p.track
           j == p.of
           s == KindOf(t) = "screen"
<1>1. /\ p.step = "asking" /\ picks' = (picks \ {p}) \cup {q}
      /\ live' = live \cup {t}
      /\ IF s THEN /\ screen' = [screen EXCEPT ![j] = t]
                   /\ slipped' = IF screen[j] = NoTrack THEN slipped ELSE slipped \cup {j}
         ELSE UNCHANGED <<screen, slipped>>
      /\ lost' = lost \cup (IF j = current THEN {} ELSE {t})
                   \cup (IF s THEN {screen[j]} \cap live ELSE {})
      /\ UNCHANGED <<joinVars, local, sending, muted, over, shown, uiVars, taken>>
  BY DEF captureTrack
<1>2. /\ p \in Picks /\ j \in Joins /\ t \in Tracks /\ t[1] = j /\ PickInv(p) /\ step[j] = "done"
      /\ q \in Picks /\ q.of = j /\ q.track = t /\ q.step = "placing"
  BY Types DEF Picks
<1> HIDE DEF q, t, j
<1>3. /\ slipped \subseteq slipped' /\ lost \subseteq lost' /\ live \subseteq live'
      /\ slipped' \subseteq slipped \cup {j} /\ lost' \subseteq lost \cup {t} \cup live
      /\ \A i \in Joins : screen'[i] = IF i = j /\ s THEN t ELSE screen[i]
      /\ screen' \in [Joins -> Tracks \cup {NoTrack}]
      /\ s /\ screen[j] # NoTrack => j \in slipped'
  BY <1>1, <1>2 DEF MediaInv, MediaTypeOK
<1>4. MediaTypeOK'
  BY <1>1, <1>2, <1>3 DEF MediaInv, MediaTypeOK, joinVars, uiVars
<1>5. OwnTracks'
  <2>1. s => OwnScreen(j, t)'
    BY <1>1, <1>2 DEF OwnScreen, OwnTrack, PickInv, t, j
  <2> SUFFICES ASSUME NEW i \in Joins
               PROVE  /\ \A x \in local'[i] : OwnTrack(i, x)' /\ KindOf(x) \in Kinds
                      /\ \A x \in sending'[i] : OwnTrack(i, x)'
                      /\ OwnScreen(i, screen[i])' /\ OwnScreen(i, shown[i])'
    BY DEF OwnTracks
  <2>2. screen'[i] = screen[i] \/ OwnScreen(i, screen[i])'
    BY <1>3, <2>1 DEF OwnScreen, OwnTrack
  <2> QED BY <1>1, <2>2, Types, OwnKept DEF MediaInv
<1>6. AllUnderWay'
  <2> SUFFICES ASSUME NEW i \in Joins, step'[i] # "done" PROVE UnderWay(i)'
    BY DEF AllUnderWay
  <2>1. UnderWay(i) /\ i # j
    BY <1>1, <1>2 DEF MediaInv, AllUnderWay, joinVars
  <2> QED BY <1>1, <1>2, <1>3, <2>1, UnderWayKept DEF UnderWay, SameOf, joinVars
<1>7. AllPicks'
  <2>1. PickInv(q)'
    <3>1. OwnTrack(j, t)' /\ t[3] > 0 /\ t \notin local[j] \cup sending[j]
      BY <1>1, <1>2 DEF PickInv, OwnTrack, t, j
    <3> QED BY <1>1, <1>2, <3>1 DEF PickInv, OwnTrack, joinVars
  <2>2. ASSUME NEW r \in picks PROVE PickInv(r)'
    BY <1>1, <1>3, Types, PickKept DEF PickInv, joinVars
  <2> QED BY <1>1, <2>1, <2>2 DEF AllPicks
<1>8. OnePick'
  <2>1. \A r \in picks \ {p} : r.track # t
    BY DEF MediaInv, OnePick, t
  <2>2. \A r, x \in picks \ {p} : r.track = x.track => r = x
    BY DEF MediaInv, OnePick
  <2> QED BY <1>1, <1>2, <2>1, <2>2 DEF OnePick
<1>9. Session'
  <2> SUFFICES ASSUME current # NoJoin PROVE SessionInv(current)'
    BY <1>1 DEF Session, joinVars
  <2>1. PICK c : c = current
    OBVIOUS
  <2>2. c \in Joins /\ KindsInv(c) /\ ScreenInv(c)
    BY <2>1, Types DEF SessionInv
  <2>3. KindsInv(c)'
    BY <1>1, <1>3, <2>2, KindsKept DEF KindsInv, joinVars, uiVars
  <2>4. c \notin slipped' => /\ screen'[c] = screen[c] \/ shown[c] = NoTrack
                             /\ shown[c] \in live => shown[c] \in live'
    BY <1>3, <2>2 DEF ScreenInv
  <2>5. ScreenInv(c)'
    BY <1>1, <1>3, <2>2, <2>4, ScreenKept DEF uiVars
  <2>6. c = current'
    BY <1>1, <2>1 DEF joinVars
  <2> QED BY <2>3, <2>5, <2>6 DEF SessionInv, KindsInv, ScreenInv, OfKind
<1>10. DevicesReleased'
  <2>1. ASSUME NEW x \in live' \ lost', x # t, current # NoJoin, x \in Held(current)
        PROVE  x \in Held(current)'
    <3>1. x \in live /\ ~(s /\ j = current /\ x = screen[j])
      BY <1>1, <2>1
    <3>2. current \in Joins /\ (x = screen[current] => x = screen'[current])
      BY <1>3, <3>1, Types, <2>1
    <3> QED BY <1>1, <2>1, <3>2 DEF Held, joinVars
  <2>2. \E r \in picks' : r.step = "placing" /\ r.track = t
    BY <1>1, <1>2
  <2>3. \A r \in picks : r.step = "placing" => r \in picks'
    BY <1>1
  <2> SUFFICES ASSUME NEW x \in live' \ lost'
               PROVE  \/ current' # NoJoin /\ x \in Held(current)'
                      \/ \E i \in Joins : step'[i] = "publishing" /\ x \in local'[i]
                      \/ \E r \in picks' : r.step = "placing" /\ r.track = x
    BY DEF DevicesReleased
  <2>4. CASE x = t
    BY <2>2, <2>4
  <2>5. CASE x # t
    <3>1. x \in live \ lost
      BY <1>1, <1>3, <2>5
    <3> QED BY <1>1, <2>1, <2>3, <2>5, <3>1 DEF MediaInv, DevicesReleased, joinVars
  <2> QED BY <2>4, <2>5
<1> QED BY <1>4, <1>5, <1>6, <1>7, <1>8, <1>9, <1>10 DEF MediaInv

LEMMA ReplaceTrackRight == ASSUME MediaInv, NEW p \in picks, replaceTrack(p) PROVE MediaInv'
<1> PICK t : t = p.track
  OBVIOUS
<1> PICK j : j = p.of
  OBVIOUS
<1> PICK k : k = KindOf(t)
  OBVIOUS
<1> PICK old : old = OfKind(k, local[j] \cup sending[j])
  OBVIOUS
<1>1. /\ p.step = "placing" /\ k \in Kinds /\ j \notin over
      /\ picks' = picks \ {p}
      /\ local' = [local EXCEPT ![j] = (@ \ old) \cup {t}]
      /\ sending' = [sending EXCEPT ![j] = (@ \ old) \cup {t}]
      /\ live' = live \ old
      /\ UNCHANGED <<joinVars, muted, over, screen, shown, uiVars, taken, lost, slipped>>
  BY DEF replaceTrack
<1>2. /\ j \in Joins /\ t \in Tracks /\ t[1] = j /\ PickInv(p) /\ step[j] = "done"
      /\ t \in live /\ t \notin local[j] \cup sending[j]
  BY <1>1, Types DEF PickInv
<1>3. /\ \A i \in Joins : local'[i] = IF i = j THEN (local[j] \ old) \cup {t} ELSE local[i]
      /\ \A i \in Joins : sending'[i] = IF i = j THEN (sending[j] \ old) \cup {t} ELSE sending[i]
  BY <1>1, <1>2 DEF MediaInv, MediaTypeOK
<1>4. \A x \in old : x \in Tracks /\ x[1] = j /\ KindOf(x) = k /\ x \in local[j] \cup sending[j]
  BY <1>2 DEF OfKind, MediaInv, OwnTracks, OwnTrack
<1>5. /\ \A x \in live : x \in live' \/ (x \in old /\ x \in Tracks /\ x[1] = j /\ KindOf(x) = k)
      /\ k # "screen" /\ \A r \in picks : r.track \notin old
  <2>1. \A x \in live : x \in live' \/ x \in old
    BY <1>1
  <2>2. \A r \in picks : r.track \notin local[j] \cup sending[j]
    BY <1>2, HeldOwn
  <2> QED BY <1>1, <1>4, <2>1, <2>2, TrackFacts
<1>6. t \notin old /\ t \in live'
  BY <1>1, <1>2, <1>4
<1>7. \A r \in picks \ {p} : r.track # t
  BY DEF MediaInv, OnePick
<1>8. MediaTypeOK'
  <2>1. local' \in [Joins -> SUBSET Tracks] /\ sending' \in [Joins -> SUBSET Tracks]
    BY <1>1, <1>2 DEF MediaInv, MediaTypeOK
  <2> QED BY <1>1, <2>1 DEF MediaInv, MediaTypeOK, joinVars, uiVars
<1>9. OwnTracks'
  <2>1. OwnTrack(j, t)'
    BY <1>1, <1>2 DEF PickInv, OwnTrack
  <2> SUFFICES ASSUME NEW i \in Joins
               PROVE  /\ \A x \in local'[i] : OwnTrack(i, x)' /\ KindOf(x) \in Kinds
                      /\ \A x \in sending'[i] : OwnTrack(i, x)'
                      /\ OwnScreen(i, screen[i])' /\ OwnScreen(i, shown[i])'
    BY DEF OwnTracks
  <2>2. \A x \in local'[i] : x \in local[i] \/ (OwnTrack(i, x)' /\ KindOf(x) \in Kinds)
    BY <1>1, <1>3, <2>1 DEF OwnTrack
  <2>3. \A x \in sending'[i] : x \in sending[i] \/ OwnTrack(i, x)'
    BY <1>3, <2>1 DEF OwnTrack
  <2>4. screen'[i] = screen[i] /\ shown'[i] = shown[i] /\ taken' = taken
    BY <1>1
  <2> QED BY <2>2, <2>3, <2>4, Types, OwnKept DEF MediaInv
<1>10. AllUnderWay'
  <2> SUFFICES ASSUME NEW i \in Joins, step'[i] # "done" PROVE UnderWay(i)'
    BY DEF AllUnderWay
  <2>1. UnderWay(i) /\ i # j
    BY <1>1, <1>2 DEF MediaInv, AllUnderWay, joinVars
  <2>2. \A x \in local[i] : x \in live'
    <3> SUFFICES ASSUME NEW x \in local[i] PROVE x \in live'
      OBVIOUS
    <3>1. x \in live /\ x[1] = i
      BY <2>1, HeldOwn DEF UnderWay
    <3> QED BY <1>5, <2>1, <3>1
  <2> QED BY <1>1, <1>3, <2>1, <2>2, UnderWayKept DEF UnderWay, SameOf, joinVars
<1>11. AllPicks'
  <2> SUFFICES ASSUME NEW r \in picks \ {p} PROVE PickInv(r)'
    BY <1>1 DEF AllPicks
  <2>1. r.track \notin local'[r.of] \cup sending'[r.of]
    BY <1>3, <1>7, Types, HeldOwn
  <2>3. r.step = "placing" /\ KindOf(r.track) \in Kinds => r.track \in live'
    BY <1>5, Types DEF PickInv
  <2>4. PickInv(r) /\ taken \in Int /\ r.track[3] \in Int
    BY Types
  <2>5. taken' = taken /\ over' = over /\ lost' = lost /\ current' = current
    BY <1>1 DEF joinVars
  <2> QED BY <2>1, <2>3, <2>4, <2>5, PickKept
<1>12. OnePick'
  BY <1>1 DEF MediaInv, OnePick
<1>13. Session'
  <2> SUFFICES ASSUME current # NoJoin PROVE SessionInv(current)'
    BY <1>1 DEF Session, joinVars
  <2>1. PICK c : c = current
    OBVIOUS
  <2>2. c \in Joins /\ KindsInv(c) /\ ScreenInv(c) /\ current' = c
    BY <1>1, <2>1, Types DEF SessionInv, joinVars
  <2>3. CASE c # j
    <3>1. sending'[c] = sending[c] /\ local'[c] = local[c]
      BY <1>3, <2>2, <2>3
    <3>2. \A x \in sending[c] : x \in live => x \in live'
      <4> SUFFICES ASSUME NEW x \in sending[c], x \in live PROVE x \in live'
        OBVIOUS
      <4>1. x[1] = c
        BY <2>2 DEF MediaInv, OwnTracks, OwnTrack
      <4> QED BY <1>5, <2>3, <4>1
    <3>3. shown[c] \in live => shown[c] \in live'
      BY <1>5, <2>2, TrackFacts DEF MediaInv, OwnTracks, OwnScreen
    <3>4. KindsInv(c)'
      BY <1>1, <2>2, <3>1, <3>2, KindsKept DEF KindsInv, joinVars, uiVars
    <3>5. ScreenInv(c)'
      BY <1>1, <2>2, <3>1, <3>3, ScreenKept DEF uiVars
    <3> QED BY <2>2, <3>4, <3>5 DEF SessionInv, KindsInv, ScreenInv, OfKind
  <2>4. CASE c = j
    <3>1. OfKind(k, sending'[c]) = {t} /\ OfKind(k, local'[c]) = {t}
      BY <1>3, <2>2, <2>4 DEF OfKind
    <3>2. \A x : x # k => /\ OfKind(x, sending'[c]) = OfKind(x, sending[c])
                          /\ OfKind(x, local'[c]) = OfKind(x, local[c])
      <4> SUFFICES ASSUME NEW x, x # k
                   PROVE  /\ OfKind(x, sending'[c]) = OfKind(x, sending[c])
                          /\ OfKind(x, local'[c]) = OfKind(x, local[c])
        OBVIOUS
      <4>1. \A y : KindOf(y) = x => y \notin old /\ y # t
        BY <1>4
      <4>2. /\ sending'[c] = (sending[c] \ old) \cup {t}
            /\ local'[c] = (local[c] \ old) \cup {t}
        BY <1>3, <2>2, <2>4
      <4> QED BY <4>1, <4>2 DEF OfKind
    <3>3. \A x \in Kinds : produces'[c] => \E y \in live' : OfKind(x, sending'[c]) = {y}
      <4> SUFFICES ASSUME NEW x \in Kinds, produces[c] PROVE \E y \in live' : OfKind(x, sending'[c]) = {y}
        BY <1>1 DEF joinVars
      <4>1. CASE x = k
        BY <1>6, <3>1, <4>1
      <4>2. CASE x # k
        <5>1. PICK y \in live : OfKind(x, sending[c]) = {y}
          BY <2>2 DEF KindsInv
        <5>2. KindOf(y) = x
          BY <5>1 DEF OfKind
        <5> QED BY <1>1, <1>4, <3>2, <4>2, <5>1, <5>2
      <4> QED BY <4>1, <4>2
    <3>4. \A x \in Kinds : /\ x \in switches' <=> produces'[c] /\ x \notin muted'[c]
                           /\ OfKind(x, sending'[c]) = OfKind(x, local'[c])
      BY <1>1, <2>2, <3>1, <3>2 DEF KindsInv, joinVars, uiVars
    <3>5. c \notin over'
      BY <1>1, <2>2 DEF KindsInv
    <3>6. OfKind("screen", sending'[c]) = OfKind("screen", sending[c])
      BY <1>5, <3>2
    <3>7. shown[c] \in live => shown[c] \in live'
      BY <1>5, <2>2, TrackFacts DEF MediaInv, OwnTracks, OwnScreen
    <3>8. ScreenInv(c)'
      BY <1>1, <2>2, <3>6, <3>7 DEF ScreenInv, OfKind, uiVars
    <3>9. KindsInv(c)'
      BY <3>3, <3>4, <3>5 DEF KindsInv, OfKind
    <3> QED BY <2>2, <3>8, <3>9 DEF SessionInv, KindsInv, ScreenInv, OfKind
  <2> QED BY <2>3, <2>4
<1>14. DevicesReleased'
  <2> SUFFICES ASSUME NEW x \in live' \ lost'
               PROVE  \/ current' # NoJoin /\ x \in Held(current)'
                      \/ \E i \in Joins : step'[i] = "publishing" /\ x \in local'[i]
                      \/ \E r \in picks' : r.step = "placing" /\ r.track = x
    BY DEF DevicesReleased
  <2>1. x \in live \ lost /\ x \notin old
    BY <1>1
  <2>2. CASE x = t
    <3>1. j = current
      BY <1>1, <1>2, <2>1, <2>2 DEF PickInv
    <3> QED BY <1>1, <1>2, <1>3, <2>2, <3>1, MediaAssumption DEF Held, joinVars
  <2>3. CASE x # t /\ current # NoJoin /\ x \in Held(current)
    <3>1. current \in Joins
      BY <2>3, Types
    <3> QED BY <1>1, <1>3, <2>1, <2>3, <3>1 DEF Held, joinVars
  <2>4. CASE \E i \in Joins : step[i] = "publishing" /\ x \in local[i]
    BY <1>1, <1>2, <1>3, <2>4 DEF joinVars
  <2>5. CASE x # t /\ \E r \in picks : r.step = "placing" /\ r.track = x
    BY <1>1, <2>5
  <2> QED BY <2>1, <2>2, <2>3, <2>4, <2>5 DEF MediaInv, DevicesReleased
<1> QED BY <1>8, <1>9, <1>10, <1>11, <1>12, <1>13, <1>14 DEF MediaInv

LEMMA AddScreenTrackRight == ASSUME MediaInv, NEW p \in picks, addScreenTrack(p) PROVE MediaInv'
<1> PICK t : t = p.track
  OBVIOUS
<1> PICK j : j = p.of
  OBVIOUS
<1>1. /\ p.step = "placing" /\ KindOf(t) = "screen" /\ j \notin over
      /\ picks' = picks \ {p}
      /\ shown' = [shown EXCEPT ![j] = t]
      /\ sending' = [sending EXCEPT ![j] = @ \cup {t}]
      /\ sharing' = TRUE
      /\ slipped' = slipped \cup
           (IF j = current /\ screen[j] = t /\ t \in live THEN {} ELSE {j, current} \ {NoJoin})
      /\ UNCHANGED <<joinVars, local, muted, over, screen, live, switches, taken, lost>>
  BY DEF addScreenTrack
<1>2. /\ j \in Joins /\ t \in Tracks /\ t[1] = j /\ PickInv(p) /\ step[j] = "done"
      /\ t \notin local[j] \cup sending[j] /\ KindOf(t) \notin Kinds
  BY <1>1, Types, TrackFacts DEF PickInv
<1>3. \A i \in Joins : /\ sending'[i] = IF i = j THEN sending[j] \cup {t} ELSE sending[i]
                       /\ shown'[i] = IF i = j THEN t ELSE shown[i]
  BY <1>1, <1>2 DEF MediaInv, MediaTypeOK
<1>4. \A r \in picks \ {p} : r.track # t
  BY DEF MediaInv, OnePick
<1>5. MediaTypeOK'
  <2>1. /\ sending' \in [Joins -> SUBSET Tracks] /\ shown' \in [Joins -> Tracks \cup {NoTrack}]
        /\ slipped' \subseteq Joins
    BY <1>1, <1>2 DEF MediaInv, MediaTypeOK
  <2> QED BY <1>1, <2>1 DEF MediaInv, MediaTypeOK, joinVars
<1>6. OwnTracks'
  <2>1. OwnTrack(j, t)' /\ OwnScreen(j, t)'
    BY <1>1, <1>2 DEF PickInv, OwnTrack, OwnScreen
  <2> SUFFICES ASSUME NEW i \in Joins
               PROVE  /\ \A x \in local'[i] : OwnTrack(i, x)' /\ KindOf(x) \in Kinds
                      /\ \A x \in sending'[i] : OwnTrack(i, x)'
                      /\ OwnScreen(i, screen[i])' /\ OwnScreen(i, shown[i])'
    BY DEF OwnTracks
  <2>2. \A x \in sending'[i] : x \in sending[i] \/ OwnTrack(i, x)'
    BY <1>3, <2>1 DEF OwnTrack
  <2>3. shown'[i] = shown[i] \/ OwnScreen(i, shown[i])'
    BY <1>3, <2>1 DEF OwnScreen, OwnTrack
  <2>4. local'[i] = local[i] /\ screen'[i] = screen[i] /\ taken' = taken
    BY <1>1
  <2> QED BY <2>2, <2>3, <2>4, Types, OwnKept DEF MediaInv
<1>7. AllUnderWay'
  <2> SUFFICES ASSUME NEW i \in Joins, step'[i] # "done" PROVE UnderWay(i)'
    BY DEF AllUnderWay
  <2>1. UnderWay(i) /\ i # j
    BY <1>1, <1>2 DEF MediaInv, AllUnderWay, joinVars
  <2> QED BY <1>1, <1>3, <2>1, UnderWayKept DEF UnderWay, SameOf, joinVars
<1>8. AllPicks'
  <2> SUFFICES ASSUME NEW r \in picks \ {p} PROVE PickInv(r)'
    BY <1>1 DEF AllPicks
  <2>1. r.track \notin local'[r.of] \cup sending'[r.of]
    BY <1>1, <1>3, <1>4, Types, HeldOwn
  <2>2. PickInv(r) /\ taken \in Int /\ r.track[3] \in Int
    BY Types
  <2>3. UNCHANGED <<taken, over, lost, current, live>>
    BY <1>1 DEF joinVars
  <2> QED BY <2>1, <2>2, <2>3, PickKept DEF PickInv
<1>9. OnePick'
  BY <1>1 DEF MediaInv, OnePick
<1>10. Session'
  <2> SUFFICES ASSUME current # NoJoin PROVE SessionInv(current)'
    BY <1>1 DEF Session, joinVars
  <2>1. PICK c : c = current
    OBVIOUS
  <2>2. c \in Joins /\ KindsInv(c) /\ ScreenInv(c) /\ current' = c
    BY <1>1, <2>1, Types DEF SessionInv, joinVars
  <2>3. \A k \in Kinds : OfKind(k, sending'[c]) = OfKind(k, sending[c])
    BY <1>2, <1>3, <2>2 DEF OfKind
  <2>4. KindsInv(c)'
    BY <1>1, <2>2, <2>3, KindsKept DEF KindsInv, joinVars
  <2>5. ScreenInv(c)'
    <3> SUFFICES ASSUME c \notin slipped' PROVE ScreenInv(c)'
      BY DEF ScreenInv
    <3>1. c \notin slipped /\ j = c /\ screen[j] = t /\ t \in live
      BY <1>1, <2>1
    <3>2. shown[c] = NoTrack
      <4> SUFFICES ASSUME shown[c] # NoTrack PROVE FALSE
        OBVIOUS
      <4>1. OfKind("screen", sending[c]) = {t}
        BY <2>2, <3>1 DEF ScreenInv
      <4> QED BY <1>2, <3>1, <4>1 DEF OfKind
    <3>3. OfKind("screen", sending[c]) = {}
      BY <2>2, <3>1, <3>2 DEF ScreenInv
    <3>4. OfKind("screen", sending'[c]) = {t}
      BY <1>1, <1>3, <2>2, <3>1, <3>3 DEF OfKind
    <3>5. shown'[c] = t /\ screen'[c] = t /\ live' = live /\ t # NoTrack
      BY <1>1, <1>2, <1>3, <3>1, TrackFacts
    <3> QED BY <1>1, <3>1, <3>4, <3>5 DEF ScreenInv, OfKind
  <2> QED BY <2>2, <2>4, <2>5 DEF SessionInv, KindsInv, ScreenInv, OfKind
<1>11. DevicesReleased'
  <2> SUFFICES ASSUME NEW x \in live' \ lost'
               PROVE  \/ current' # NoJoin /\ x \in Held(current)'
                      \/ \E i \in Joins : step'[i] = "publishing" /\ x \in local'[i]
                      \/ \E r \in picks' : r.step = "placing" /\ r.track = x
    BY DEF DevicesReleased
  <2>1. x \in live \ lost
    BY <1>1
  <2>2. CASE x = t
    <3>1. j = current
      BY <1>1, <1>2, <2>1, <2>2 DEF PickInv
    <3> QED BY <1>1, <1>2, <1>3, <2>2, <3>1, MediaAssumption DEF Held, joinVars
  <2>3. CASE x # t /\ current # NoJoin /\ x \in Held(current)
    <3>1. current \in Joins
      BY <2>3, Types
    <3> QED BY <1>1, <1>3, <2>1, <2>3, <3>1 DEF Held, joinVars
  <2>4. CASE \E i \in Joins : step[i] = "publishing" /\ x \in local[i]
    BY <1>1, <2>4 DEF joinVars
  <2>5. CASE x # t /\ \E r \in picks : r.step = "placing" /\ r.track = x
    BY <1>1, <2>5
  <2> QED BY <2>1, <2>2, <2>3, <2>4, <2>5 DEF MediaInv, DevicesReleased
<1> QED BY <1>5, <1>6, <1>7, <1>8, <1>9, <1>10, <1>11 DEF MediaInv

LEMMA PlacingFailsRight == ASSUME MediaInv, NEW p \in picks, PlacingFails(p) PROVE MediaInv'
<1> PICK t : t = p.track
  OBVIOUS
<1> PICK j : j = p.of
  OBVIOUS
<1>1. /\ p.step = "placing" /\ picks' = picks \ {p}
      /\ UNCHANGED <<joinVars, local, sending, muted, over, screen, shown, uiVars, taken, slipped>>
  BY DEF PlacingFails
<1>2. PICK stopped \in {{}, {t}} :
          /\ live' = live \ stopped
          /\ lost' = IF j \notin over /\ screen[j] = t THEN lost ELSE lost \cup ({t} \ stopped)
  BY DEF PlacingFails
<1>3. /\ j \in Joins /\ t \in Tracks /\ PickInv(p)
      /\ lost \subseteq lost' /\ lost' \subseteq lost \cup {t}
      /\ \A x \in live : x \in live' \/ x = t
      /\ live' \subseteq live
  BY <1>2, Types
<1>4. \A i \in Joins : t \notin local[i] \cup sending[i]
  BY HeldOwn
<1>5. MediaTypeOK' /\ OwnTracks'
  BY <1>1, <1>3 DEF MediaInv, MediaTypeOK, OwnTracks, OwnTrack, OwnScreen, joinVars, uiVars
<1>6. AllUnderWay'
  <2> SUFFICES ASSUME NEW i \in Joins, step'[i] # "done" PROVE UnderWay(i)'
    BY DEF AllUnderWay
  <2>1. UnderWay(i)
    BY <1>1 DEF MediaInv, AllUnderWay, joinVars
  <2> QED BY <1>1, <1>3, <1>4, <2>1, UnderWayKept DEF UnderWay, SameOf, joinVars
<1>7. AllPicks'
  <2> SUFFICES ASSUME NEW r \in picks \ {p} PROVE PickInv(r)'
    BY <1>1 DEF AllPicks
  <2>1. r.track # t
    BY DEF MediaInv, OnePick
  <2>2. PickInv(r) /\ taken \in Int /\ r.track[3] \in Int
    BY Types
  <2>3. UNCHANGED <<taken, over, current, local, sending>>
    BY <1>1 DEF joinVars
  <2> QED BY <1>3, <2>1, <2>2, <2>3, PickKept DEF PickInv
<1>8. OnePick'
  BY <1>1 DEF MediaInv, OnePick
<1>9. Session'
  <2>1. current # NoJoin => /\ current \in Joins /\ current \notin over
                            /\ current \notin slipped /\ shown[current] \in live
                                 => shown[current] \in sending[current]
    BY Types, HeldOwn DEF SessionInv, KindsInv, ScreenInv, OfKind
  <2> QED BY <1>1, <1>3, <1>4, <2>1, SessionKept DEF MediaInv, SameOf, joinVars, uiVars
<1>10. DevicesReleased'
  <2> SUFFICES ASSUME NEW x \in live' \ lost'
               PROVE  \/ current' # NoJoin /\ x \in Held(current)'
                      \/ \E i \in Joins : step'[i] = "publishing" /\ x \in local'[i]
                      \/ \E r \in picks' : r.step = "placing" /\ r.track = x
    BY DEF DevicesReleased
  <2>1. x \in live \ lost
    BY <1>3
  <2>2. CASE x = t
    <3>1. j \notin over /\ screen[j] = t
      BY <1>2, <2>2
    <3>2. j = current
      BY <1>1, <1>3, <2>1, <2>2, <3>1 DEF PickInv
    <3> QED BY <1>1, <1>3, <2>2, <3>1, <3>2, MediaAssumption DEF Held, joinVars
  <2>3. CASE x # t
    BY <1>1, <2>1, <2>3 DEF MediaInv, DevicesReleased, Held, joinVars
  <2> QED BY <2>2, <2>3
<1> QED BY <1>5, <1>6, <1>7, <1>8, <1>9, <1>10 DEF MediaInv

LEMMA RemoveScreenRight ==
    ASSUME MediaInv, current # NoJoin, removeScreenTrack({screen[current]}) PROVE MediaInv'
<1> PICK c : c = current
  OBVIOUS
<1> PICK gone : gone = {screen[c], shown[c]}
  OBVIOUS
<1>1. /\ live' = live \ gone
      /\ sending' = [sending EXCEPT ![c] = @ \ {shown[c]}]
      /\ shown' = [shown EXCEPT ![c] = NoTrack] /\ screen' = [screen EXCEPT ![c] = NoTrack]
      /\ sharing' = FALSE
      /\ UNCHANGED <<joinVars, local, muted, over, switches, pickVars, lost, slipped>>
  BY DEF removeScreenTrack
<1>2. c \in Joins /\ step[c] = "done" /\ KindsInv(c) /\ ScreenInv(c) /\ c # NoJoin
  BY Types DEF SessionInv
<1>3. \A i \in Joins : /\ sending'[i] = IF i = c THEN sending[c] \ {shown[c]} ELSE sending[i]
                       /\ shown'[i] = IF i = c THEN NoTrack ELSE shown[i]
                       /\ screen'[i] = IF i = c THEN NoTrack ELSE screen[i]
  BY <1>1, <1>2 DEF MediaInv, MediaTypeOK
<1>4. \A x \in Tracks : x \in gone => x[1] = c /\ KindOf(x) = "screen" /\ KindOf(x) \notin Kinds
  BY <1>2, TrackFacts DEF MediaInv, OwnTracks, OwnScreen, OwnTrack
<1>5. live \subseteq Tracks /\ \A x \in live : x \in live' \/ x \in gone
  BY <1>1 DEF MediaInv, MediaTypeOK
<1>6. MediaTypeOK'
  <2>1. /\ sending' \in [Joins -> SUBSET Tracks] /\ shown' \in [Joins -> Tracks \cup {NoTrack}]
        /\ screen' \in [Joins -> Tracks \cup {NoTrack}] /\ live' \subseteq Tracks
    BY <1>1, <1>2, <1>5 DEF MediaInv, MediaTypeOK
  <2> QED BY <1>1, <2>1 DEF MediaInv, MediaTypeOK, joinVars, pickVars
<1>7. OwnTracks'
  <2> SUFFICES ASSUME NEW i \in Joins
               PROVE  /\ \A x \in local'[i] : OwnTrack(i, x)' /\ KindOf(x) \in Kinds
                      /\ \A x \in sending'[i] : OwnTrack(i, x)'
                      /\ OwnScreen(i, screen[i])' /\ OwnScreen(i, shown[i])'
    BY DEF OwnTracks
  <2>1. local'[i] = local[i] /\ taken' = taken /\ \A x \in sending'[i] : x \in sending[i]
    BY <1>1, <1>3 DEF pickVars
  <2>2. screen'[i] = screen[i] \/ OwnScreen(i, screen[i])'
    BY <1>3 DEF OwnScreen
  <2>3. shown'[i] = shown[i] \/ OwnScreen(i, shown[i])'
    BY <1>3 DEF OwnScreen
  <2> QED BY <2>1, <2>2, <2>3, Types, OwnKept DEF MediaInv
<1>8. AllUnderWay'
  <2> SUFFICES ASSUME NEW i \in Joins, step'[i] # "done" PROVE UnderWay(i)'
    BY DEF AllUnderWay
  <2>1. UnderWay(i) /\ i # c
    BY <1>1, <1>2 DEF MediaInv, AllUnderWay, joinVars
  <2>2. \A x \in local[i] : x \in live'
    <3> SUFFICES ASSUME NEW x \in local[i] PROVE x \in live'
      OBVIOUS
    <3>1. x \in live /\ x \in Tracks /\ x[1] = i
      BY <2>1, HeldOwn DEF UnderWay
    <3> QED BY <1>4, <1>5, <2>1, <3>1
  <2> QED BY <1>1, <1>3, <2>1, <2>2, UnderWayKept DEF UnderWay, SameOf, joinVars, pickVars
<1>9. AllPicks'
  <2> SUFFICES ASSUME NEW r \in picks PROVE PickInv(r)'
    BY <1>1 DEF AllPicks, pickVars
  <2>1. r.track \notin local'[r.of] \cup sending'[r.of]
    BY <1>1, <1>3, Types, HeldOwn
  <2>2. PickInv(r) /\ taken \in Int /\ r.track[3] \in Int /\ r.track \in Tracks
    BY Types
  <2>3. r.step = "placing" /\ KindOf(r.track) \in Kinds => r.track \in live'
    BY <1>4, <1>5, <2>2 DEF PickInv
  <2>4. UNCHANGED <<taken, over, current, lost>>
    BY <1>1 DEF joinVars, pickVars
  <2> QED BY <2>1, <2>2, <2>3, <2>4, PickKept
<1>10. OnePick'
  BY <1>1 DEF MediaInv, OnePick, pickVars
<1>11. Session'
  <2>1. current' = c
    BY <1>1 DEF joinVars
  <2>2. KindsInv(c)'
    <3>1. \A k \in Kinds : OfKind(k, sending'[c]) = OfKind(k, sending[c])
      <4>1. \A x \in sending[c] : x \in Tracks
        BY <1>2, HeldOwn DEF MediaInv, OwnTracks, OwnTrack
      <4>2. \A x \in sending[c] : KindOf(x) \in Kinds => x # shown[c]
        BY <1>4, <4>1
      <4> QED BY <1>2, <1>3, <4>2 DEF OfKind
    <3>2. \A x \in live : KindOf(x) \in Kinds => x \in live'
      BY <1>4, <1>5
    <3>3. /\ produces'[c] = produces[c] /\ muted'[c] = muted[c] /\ local'[c] = local[c]
          /\ c \notin over' /\ switches' = switches
      BY <1>1, <1>2 DEF KindsInv, joinVars
    <3> QED BY <1>2, <3>1, <3>2, <3>3, KindsKept
  <2>3. ScreenInv(c)'
    <3> SUFFICES ASSUME c \notin slipped PROVE ScreenInv(c)'
      BY <1>1 DEF ScreenInv
    <3>1. OfKind("screen", sending[c]) \subseteq {shown[c]}
      BY <1>2 DEF ScreenInv
    <3>2. OfKind("screen", sending[c])' = {}
      BY <1>2, <1>3, <3>1 DEF OfKind
    <3> QED BY <1>1, <1>2, <1>3, <3>2 DEF ScreenInv
  <2> QED BY <2>1, <2>2, <2>3 DEF Session, SessionInv, KindsInv, ScreenInv, OfKind
<1>12. DevicesReleased'
  <2> SUFFICES ASSUME NEW x \in live' \ lost'
               PROVE  \/ current' # NoJoin /\ x \in Held(current)'
                      \/ \E i \in Joins : step'[i] = "publishing" /\ x \in local'[i]
                      \/ \E r \in picks' : r.step = "placing" /\ r.track = x
    BY DEF DevicesReleased
  <2>1. x \in live \ lost /\ x \notin gone
    BY <1>1
  <2>2. CASE x \in Held(c)
    BY <1>1, <1>2, <1>3, <2>1, <2>2 DEF Held, joinVars
  <2>3. CASE x \notin Held(c)
    BY <1>1, <2>1, <2>3 DEF MediaInv, DevicesReleased, joinVars, pickVars
  <2> QED BY <2>2, <2>3
<1> QED BY <1>6, <1>7, <1>8, <1>9, <1>10, <1>11, <1>12 DEF MediaInv

LEMMA OnendedRight == ASSUME MediaInv, NEW t \in live, onended(t) PROVE MediaInv'
<1>1. CASE current # NoJoin /\ screen[current] = t /\ t \in sending[current]
  <2>1. removeScreenTrack({t})
    BY <1>1 DEF onended
  <2> QED BY <1>1, <2>1, RemoveScreenRight
<1>2. CASE ~(current # NoJoin /\ screen[current] = t /\ t \in sending[current])
  <2>1. /\ KindOf(t) = "screen" /\ KindOf(t) \notin Kinds /\ live' = live \ {t}
        /\ UNCHANGED <<joinVars, local, sending, muted, over, screen, shown, uiVars, pickVars, lost, slipped>>
    BY <1>2, TrackFacts DEF onended
  <2>2. MediaTypeOK' /\ OwnTracks'
    BY <2>1 DEF MediaInv, MediaTypeOK, OwnTracks, OwnTrack, OwnScreen, joinVars, uiVars, pickVars
  <2>3. AllUnderWay'
    <3> SUFFICES ASSUME NEW i \in Joins, step'[i] # "done" PROVE UnderWay(i)'
      BY DEF AllUnderWay
    <3>1. UnderWay(i) /\ \A x \in local[i] : KindOf(x) \in Kinds
      BY <2>1 DEF MediaInv, AllUnderWay, OwnTracks, joinVars
    <3>2. \A x \in local[i] : x \in live'
      BY <2>1, <3>1 DEF UnderWay
    <3> QED BY <2>1, <3>1, <3>2, UnderWayKept DEF UnderWay, SameOf, joinVars, pickVars
  <2>4. AllPicks' /\ OnePick'
    BY <2>1 DEF MediaInv, AllPicks, PickInv, OwnTrack, OnePick, joinVars, pickVars
  <2>5. Session'
    <3>1. current # NoJoin =>
             /\ current \notin over
             /\ current \notin slipped /\ shown[current] \in live => shown[current] \in live'
      <4> SUFFICES ASSUME current # NoJoin, current \notin slipped, shown[current] \in live
                   PROVE  shown[current] \in live'
        BY Types DEF SessionInv, KindsInv
      <4>1. screen[current] = shown[current] /\ shown[current] \in sending[current]
        BY Types, HeldOwn DEF SessionInv, ScreenInv, OfKind
      <4> QED BY <1>2, <2>1, <4>1
    <3> QED BY <2>1, <3>1, SessionKept DEF MediaInv, SameOf, joinVars, uiVars
  <2>6. DevicesReleased'
    BY <2>1 DEF MediaInv, DevicesReleased, Held, joinVars, pickVars
  <2> QED BY <2>2, <2>3, <2>4, <2>5, <2>6 DEF MediaInv
<1> QED BY <1>1, <1>2

(***************************************************************************)
(* The invariant, and what follows from it                                 *)
(***************************************************************************)
LEMMA MediaNextRight == ASSUME MediaInv, MediaNext PROVE MediaInv'
<1>1. ASSUME NEW j \in Joins, NEW produce \in BOOLEAN, Starts(j, produce) PROVE MediaInv'
  BY <1>1, StartsRight
<1>2. ASSUME NEW j \in Joins, Enters(j) PROVE MediaInv'
  BY <1>2, EntersRight
<1>3. ASSUME NEW j \in Joins, captureCallStream(j) PROVE MediaInv'
  BY <1>3, CaptureRight
<1>4. ASSUME NEW j \in Joins, EntersCall(j) PROVE MediaInv'
  BY <1>4, EntersCallRight
<1>5. ASSUME NEW j \in Joins, JoinThrows(j) PROVE MediaInv'
  BY <1>5, JoinThrowsRight
<1>6. ASSUME NEW j \in Joins, RoomOver(j) PROVE MediaInv'
  BY <1>6, LeavesRight DEF RoomOver
<1>7. CASE HangsUp
  BY <1>7, LeavesRight DEF HangsUp
<1>8. CASE toggleScreen
  BY <1>8, RemoveScreenRight DEF toggleScreen, Publishing
<1>9. ASSUME NEW k \in Kinds, Toggle(k) PROVE MediaInv'
  BY <1>9, ToggleRight
<1>10. ASSUME NEW k \in Kinds \cup {"screen"}, Asks(k) PROVE MediaInv'
  BY <1>10, AsksRight
<1>11. ASSUME NEW p \in picks, captureTrack(p) PROVE MediaInv'
  BY <1>11, CaptureTrackRight
<1>12. ASSUME NEW p \in picks, Refused(p) PROVE MediaInv'
  BY <1>12, RefusedRight
<1>13. ASSUME NEW p \in picks, replaceTrack(p) PROVE MediaInv'
  BY <1>13, ReplaceTrackRight
<1>14. ASSUME NEW p \in picks, addScreenTrack(p) PROVE MediaInv'
  BY <1>14, AddScreenTrackRight
<1>15. ASSUME NEW p \in picks, PlacingFails(p) PROVE MediaInv'
  BY <1>15, PlacingFailsRight
<1>16. ASSUME NEW t \in live, onended(t) PROVE MediaInv'
  BY <1>16, OnendedRight
<1> QED BY <1>1, <1>2, <1>3, <1>4, <1>5, <1>6, <1>7, <1>8, <1>9, <1>10, <1>11, <1>12, <1>13, <1>14,
           <1>15, <1>16 DEF MediaNext, Buttons

\* MediaInv is an invariant of a page, however many calls it joins and devices it picks.
THEOREM MediaInvariance == MediaSpec => []MediaInv
<1>1. MediaInv /\ [MediaNext]_mediaVars => MediaInv'
  <2> SUFFICES ASSUME MediaInv, UNCHANGED mediaVars PROVE MediaInv'
    BY MediaNextRight
  <2> QED BY DEF MediaInv, MediaTypeOK, OwnTracks, OwnTrack, OwnScreen, AllUnderWay, UnderWay,
                 AllPicks, PickInv, OnePick, Session, SessionInv, KindsInv, ScreenInv, OfKind,
                 DevicesReleased, Held, mediaVars, joinVars, trackVars, uiVars, pickVars
<1> QED BY MediaInitRight, <1>1, PTL DEF MediaSpec

\* Each variable of the page keeps its type.
THEOREM MediaTypeCorrect == MediaSpec => []MediaTypeOK
<1>1. MediaInv => MediaTypeOK
  BY DEF MediaInv
<1> QED BY <1>1, MediaInvariance, PTL

\* No camera, microphone or screen stays captured but for those that the code loses.
THEOREM DevicesAreReleased == MediaSpec => []DevicesReleased
<1>1. MediaInv => DevicesReleased
  BY DEF MediaInv
<1> QED BY <1>1, MediaInvariance, PTL

\* What a session sends is what its page shows.
THEOREM WhatIsShownIsSent == MediaSpec => []ShownIsSent
<1>1. ASSUME MediaInv PROVE ShownIsSent
  <2> SUFFICES ASSUME current # NoJoin
               PROVE  /\ \A k \in Kinds :
                           /\ k \in switches <=> produces[current] /\ k \notin muted[current]
                           /\ OfKind(k, sending[current]) = OfKind(k, local[current])
                           /\ produces[current] => Cardinality(OfKind(k, sending[current]) \cap live) = 1
                      /\ current \in slipped
                           \/ (sharing <=> OfKind("screen", sending[current]) \cap live # {})
    BY DEF ShownIsSent
  <2>1. KindsInv(current) /\ ScreenInv(current)
    BY <1>1, Types DEF SessionInv
  <2>2. ASSUME NEW k \in Kinds, produces[current]
        PROVE  Cardinality(OfKind(k, sending[current]) \cap live) = 1
    <3>1. PICK t \in live : OfKind(k, sending[current]) = {t}
      BY <2>1, <2>2 DEF KindsInv
    <3>2. OfKind(k, sending[current]) \cap live = {t}
      BY <3>1
    <3> QED BY <3>2, FS_Singleton
  <2>3. current \notin slipped => (sharing <=> OfKind("screen", sending[current]) \cap live # {})
    BY <2>1 DEF ScreenInv
  <2> QED BY <2>1, <2>2, <2>3 DEF KindsInv
<1> QED BY <1>1, MediaInvariance, PTL
=============================================================================

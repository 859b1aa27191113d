----------------------------- MODULE CallMedia -----------------------------
(***************************************************************************)
(* What a chat page captures and sends in its calls: call-context.tsx      *)
(* with its devices.ts, the buttons of call-overlay.tsx and the publishing *)
(* side of rtc-shared's SfuClient.  One page, which joins one call after   *)
(* the other; all are video calls.  Whether the server lets it is          *)
(* CallClients' matter: here a join may succeed or fail at any await.      *)
(*                                                                         *)
(* A producer that is closed, or whose track is replaced, stops its track, *)
(* and so does one that cannot be made: mediasoup-client's defaults.       *)
(***************************************************************************)
EXTENDS Naturals, FiniteSets

CONSTANTS
    Joins,     \* the page's placeCall and acceptCall, and the calls they are about
    NoJoin,
    MaxPicks   \* bound: the devices and screens picked in all of them

ASSUME MediaAssumption == NoJoin \notin Joins /\ MaxPicks \in Nat

Kinds == {"audio", "video"}
\* What was captured for a join's session: first of each kind, then by a pick.
Tracks == Joins \X (Kinds \cup {"screen"}) \X (0..MaxPicks)
NoTrack == <<>>
KindOf(t) == t[2]

VARIABLES
    step,      \* step[j]: how far the join is
    produces,  \* produces[j]: the page publishes in it (a broadcast's viewer does not)
    current,   \* sessionRef
    busy,      \* inCallRef
    hears,     \* the joins whose room's Closed and PeerLeft are listened to
    local,     \* local[j]: the tracks of localStream
    sending,   \* sending[j]: the tracks of the SfuClient's producers
    muted,     \* muted[j]: the producers that are paused
    over,      \* the joins whose SfuClient is closed
    screen,    \* screen[j]: s.screenTrack
    shown,     \* shown[j]: the track of producers.get('screen')
    live,      \* the tracks whose device is captured
    switches,  \* ui.micOn and ui.camOn: those that are on
    sharing,   \* ui.sharing
    picks,     \* the switchDevice and toggleScreen under way
    taken,     \* number of picks
    lost,      \* history: the tracks that nothing will stop any more
    slipped    \* history: the joins in which a screen was picked twice, or ended while it was added

joinVars == <<step, produces, current, busy, hears>>
trackVars == <<local, sending, muted, over, screen, shown, live>>
uiVars == <<switches, sharing>>
pickVars == <<picks, taken>>
mediaVars == <<joinVars, trackVars, uiVars, pickVars, lost, slipped>>

Picks == [of : Joins, track : Tracks, step : {"asking", "placing"}]

MediaTypeOK ==
    /\ step \in [Joins -> {"new", "entering", "loading", "publishing", "done"}]
    /\ produces \in [Joins -> BOOLEAN] /\ current \in Joins \cup {NoJoin}
    /\ busy \in BOOLEAN /\ hears \subseteq Joins /\ over \subseteq Joins
    /\ local \in [Joins -> SUBSET Tracks] /\ sending \in [Joins -> SUBSET Tracks]
    /\ muted \in [Joins -> SUBSET Kinds]
    /\ screen \in [Joins -> Tracks \cup {NoTrack}] /\ shown \in [Joins -> Tracks \cup {NoTrack}]
    /\ live \subseteq Tracks /\ lost \subseteq Tracks
    /\ switches \subseteq Kinds /\ sharing \in BOOLEAN
    /\ picks \subseteq Picks /\ taken \in 0..MaxPicks
    /\ slipped \subseteq Joins

MediaInit ==
    /\ step = [j \in Joins |-> "new"] /\ produces = [j \in Joins |-> FALSE]
    /\ current = NoJoin /\ busy = FALSE /\ hears = {}
    /\ local = [j \in Joins |-> {}] /\ sending = local /\ muted = local
    /\ over = {} /\ live = {} /\ lost = {}
    /\ screen = [j \in Joins |-> NoTrack] /\ shown = screen
    /\ switches = {"audio"} /\ sharing = FALSE
    /\ picks = {} /\ taken = 0 /\ slipped = {}

(***************************************************************************)
(* The end of a session                                                    *)
(***************************************************************************)
Held(j) == local[j] \cup sending[j] \cup {screen[j]}

\* sfu.close(): with its transports every producer it ever made.
Close(j) ==
    /\ over' = over \cup {j}
    /\ sending' = [sending EXCEPT ![j] = {}]
    /\ shown' = [shown EXCEPT ![j] = NoTrack]

\* Mutant: s.screenTrack?.stop() is left out: the producer's end will stop it.
ForgetKeepingScreen(stopped) ==
    /\ current' = NoJoin /\ busy' = FALSE
    /\ switches' = {"audio"} /\ sharing' = FALSE
    /\ IF current = NoJoin
       THEN live' = live \ stopped /\ UNCHANGED <<over, sending, shown, hears>>
       ELSE live' = live \ (stopped \cup local[current] \cup sending[current])
            /\ Close(current) /\ hears' = hears \ {current}
    /\ UNCHANGED <<local, muted, screen>>

\* cleanup(), when `stopped` has just been stopped: it knows of no join but the
\* session's, and a join under way goes on.
Forget(stopped) ==
    /\ current' = NoJoin /\ busy' = FALSE
    /\ switches' = {"audio"} /\ sharing' = FALSE
    /\ IF current = NoJoin
       THEN live' = live \ stopped /\ UNCHANGED <<over, sending, shown, hears>>
       ELSE live' = live \ (stopped \cup Held(current))
            /\ Close(current) /\ hears' = hears \ {current}
    /\ UNCHANGED <<local, muted, screen>>

(***************************************************************************)
(* Joining                                                                 *)
(***************************************************************************)
At(j, here, there) == step[j] = here /\ step' = [step EXCEPT ![j] = there]

Starts(j, produce) ==
    /\ ~busy /\ busy' = TRUE
    /\ At(j, "new", "entering")
    /\ produces' = [produces EXCEPT ![j] = produce]
    /\ UNCHANGED <<current, hears, trackVars, uiVars, pickVars, lost, slipped>>

Enters(j) ==
    /\ At(j, "entering", "loading")
    /\ hears' = hears \cup {j}
    /\ UNCHANGED <<produces, current, busy, trackVars, uiVars, pickVars, lost, slipped>>

\* captureCallStream(), after the SFU device was loaded.
captureCallStream(j) ==
    /\ At(j, "loading", "publishing")
    /\ local' = [local EXCEPT ![j] = IF produces[j] THEN {<<j, k, 0>> : k \in Kinds} ELSE {}]
    /\ live' = live \cup local'[j]
    /\ UNCHANGED <<produces, current, busy, hears, sending, muted, over, screen, shown,
                   uiVars, pickVars, lost, slipped>>

\* What a session still holds, or is about to, when another join replaces it.
Abandoned ==
    IF current = NoJoin THEN {}
    ELSE (Held(current) \cap live)
           \cup {p.track : p \in {q \in picks : q.of = current /\ q.step = "placing"}}

\* Mutant: the page shows the microphone and the camera as the last call left them.
EntersCallAsBefore(j) ==
    /\ At(j, "publishing", "done")
    /\ sending' = [sending EXCEPT ![j] = local[j]]
    /\ current' = j
    /\ UNCHANGED switches
    /\ sharing' = FALSE
    /\ lost' = lost \cup Abandoned
    /\ UNCHANGED <<produces, busy, hears, local, muted, over, screen, shown, live, pickVars, slipped>>

\* publish() and consumeExisting() are through: the page has a session.  Nothing looks
\* whether it still wants it, or has another one, which nothing closes then.
EntersCall(j) ==
    /\ At(j, "publishing", "done")
    /\ sending' = [sending EXCEPT ![j] = local[j]]
    /\ current' = j
    /\ switches' = IF produces[j] THEN Kinds ELSE {}
    /\ sharing' = FALSE
    /\ lost' = lost \cup Abandoned
    /\ UNCHANGED <<produces, busy, hears, local, muted, over, screen, shown, live, pickVars, slipped>>

\* The catch of placeCall and acceptCall: what was captured already stays so, but for
\* a track that no producer could be made for.
JoinThrows(j) ==
    /\ step[j] \in {"entering", "loading", "publishing"} /\ step' = [step EXCEPT ![j] = "done"]
    /\ \E failed \in SUBSET local[j] :
          /\ Cardinality(failed) <= 1
          /\ Forget(failed)
          /\ lost' = lost \cup (local[j] \ failed)
    /\ UNCHANGED <<produces, pickVars, slipped>>

(***************************************************************************)
(* Leaving                                                                 *)
(***************************************************************************)
\* endCall, or the call's end in the inbox.
HangsUp ==
    /\ busy \/ current # NoJoin
    /\ Forget({})
    /\ UNCHANGED <<step, produces, pickVars, lost, slipped>>

\* A room closes, or its broadcaster has left: whatever session there is ends, also if
\* the room is that of a join which failed or is under way.
RoomOver(j) ==
    /\ j \in hears
    /\ Forget({})
    /\ UNCHANGED <<step, produces, pickVars, lost, slipped>>

(***************************************************************************)
(* The buttons of a session                                                *)
(***************************************************************************)
Publishing == current # NoJoin /\ produces[current]

\* toggleMute and toggleCam.
Toggle(k) ==
    /\ Publishing
    /\ switches' = IF k \in switches THEN switches \ {k} ELSE switches \cup {k}
    /\ muted' = [muted EXCEPT ![current] = IF k \in switches' THEN @ \ {k} ELSE @ \cup {k}]
    /\ UNCHANGED <<joinVars, local, sending, over, screen, shown, live, sharing, pickVars, lost, slipped>>

\* switchDevice, or toggleScreen without a screen: the browser is asked.
Asks(k) ==
    /\ Publishing /\ (k = "screen" => screen[current] = NoTrack)
    /\ taken < MaxPicks /\ taken' = taken + 1
    /\ picks' = picks \cup {[of |-> current, track |-> <<current, k, taken'>>, step |-> "asking"]}
    /\ UNCHANGED <<joinVars, trackVars, uiVars, lost, slipped>>

\* captureTrack and getDisplayMedia: the device is captured, on to replaceTrack or
\* addScreenTrack, whatever has become of the session.  The session may have got
\* another screen meanwhile, which is forgotten.
captureTrack(p) ==
    /\ p \in picks /\ p.step = "asking"
    /\ picks' = (picks \ {p}) \cup {[p EXCEPT !.step = "placing"]}
    /\ live' = live \cup {p.track}
    /\ IF KindOf(p.track) = "screen"
       THEN /\ screen' = [screen EXCEPT ![p.of] = p.track]
            /\ slipped' = IF screen[p.of] = NoTrack THEN slipped ELSE slipped \cup {p.of}
       ELSE UNCHANGED <<screen, slipped>>
    /\ lost' = lost \cup (IF p.of = current THEN {} ELSE {p.track})
                 \cup (IF KindOf(p.track) = "screen" THEN {screen[p.of]} \cap live ELSE {})
    /\ UNCHANGED <<joinVars, local, sending, muted, over, shown, uiVars, taken>>

\* The user cancelled, or there is no such device.
Refused(p) ==
    /\ p \in picks /\ p.step = "asking" /\ picks' = picks \ {p}
    /\ UNCHANGED <<joinVars, trackVars, uiVars, taken, lost, slipped>>

OfKind(k, tracks) == {t \in tracks : KindOf(t) = k}

replaceTrack(p) ==
    LET k == KindOf(p.track) j == p.of
        old == OfKind(k, local[j] \cup sending[j]) IN
    /\ p \in picks /\ p.step = "placing" /\ k \in Kinds /\ j \notin over
    /\ picks' = picks \ {p}
    /\ local' = [local EXCEPT ![j] = (@ \ old) \cup {p.track}]
    /\ sending' = [sending EXCEPT ![j] = (@ \ old) \cup {p.track}]
    /\ live' = live \ old
    /\ UNCHANGED <<joinVars, muted, over, screen, shown, uiVars, taken, lost, slipped>>

\* The page shows a screen, of whatever session it has by now, or its end.
addScreenTrack(p) ==
    LET j == p.of IN
    /\ p \in picks /\ p.step = "placing" /\ KindOf(p.track) = "screen" /\ j \notin over
    /\ picks' = picks \ {p}
    /\ shown' = [shown EXCEPT ![j] = p.track]
    /\ sending' = [sending EXCEPT ![j] = @ \cup {p.track}]
    /\ sharing' = TRUE
    /\ slipped' = slipped \cup
         (IF j = current /\ screen[j] = p.track /\ p.track \in live THEN {} ELSE {j, current} \ {NoJoin})
    /\ UNCHANGED <<joinVars, local, muted, over, screen, live, switches, taken, lost>>

\* replaceTrack or addScreenTrack throws, as they do when the session is over.  The
\* track was stopped, or was not, and then only a screen is still known to the session.
PlacingFails(p) ==
    /\ p \in picks /\ p.step = "placing" /\ picks' = picks \ {p}
    /\ \E stopped \in {{}, {p.track}} :
          /\ live' = live \ stopped
          /\ lost' = IF p.of \notin over /\ screen[p.of] = p.track THEN lost
                     ELSE lost \cup ({p.track} \ stopped)
    /\ UNCHANGED <<joinVars, local, sending, muted, over, screen, shown, uiVars, taken, slipped>>

\* removeScreenTrack() and what goes with it.
removeScreenTrack(stopped) ==
    /\ live' = live \ (stopped \cup {shown[current]})
    /\ sending' = [sending EXCEPT ![current] = @ \ {shown[current]}]
    /\ shown' = [shown EXCEPT ![current] = NoTrack]
    /\ screen' = [screen EXCEPT ![current] = NoTrack]
    /\ sharing' = FALSE
    /\ UNCHANGED <<joinVars, local, muted, over, switches, pickVars, lost, slipped>>

\* toggleScreen, with a screen.
toggleScreen ==
    /\ Publishing /\ screen[current] # NoTrack
    /\ removeScreenTrack({screen[current]})

\* The browser's own button: before the track was added, nobody hears of it.
onended(t) ==
    /\ t \in live /\ KindOf(t) = "screen"
    /\ IF current # NoJoin /\ screen[current] = t /\ t \in sending[current]
       THEN removeScreenTrack({t})
       ELSE live' = live \ {t}
            /\ UNCHANGED <<joinVars, local, sending, muted, over, screen, shown, uiVars, pickVars, lost, slipped>>

\* What the overlay offers during a call.
Buttons ==
    \/ HangsUp \/ toggleScreen
    \/ \E k \in Kinds : Toggle(k)
    \/ \E k \in Kinds \cup {"screen"} : Asks(k)

MediaNext ==
    \/ \E j \in Joins, produce \in BOOLEAN : Starts(j, produce)
    \/ \E j \in Joins :
          Enters(j) \/ captureCallStream(j) \/ EntersCall(j) \/ JoinThrows(j) \/ RoomOver(j)
    \/ Buttons
    \/ \E p \in picks :
          captureTrack(p) \/ Refused(p) \/ replaceTrack(p) \/ addScreenTrack(p) \/ PlacingFails(p)
    \/ \E t \in live : onended(t)

MediaSpec == MediaInit /\ [][MediaNext]_mediaVars
----------------------------------------------------------------------------
(***************************************************************************)
(* Properties                                                              *)
(***************************************************************************)
\* What leaves the devices is what the page says: in a session the microphone and the
\* camera are heard and seen exactly if their buttons are on, the tracks sent are the
\* ones of the local preview, and a screen is sent exactly if the page shows that it
\* shares one; however switches of devices, mute and the screen's button cross the
\* ends and the joins of calls.  Except for a screen that was picked twice, ended
\* before it was added, or was added to a session that had been replaced.
ShownIsSent ==
    current # NoJoin =>
        /\ \A k \in Kinds :
              /\ k \in switches <=> produces[current] /\ k \notin muted[current]
              /\ OfKind(k, sending[current]) = OfKind(k, local[current])
              /\ produces[current] => Cardinality(OfKind(k, sending[current]) \cap live) = 1
        /\ current \in slipped
              \/ (sharing <=> OfKind("screen", sending[current]) \cap live # {})

\* No camera, microphone or screen stays on: what is captured belongs to the session,
\* to a join under way or to a pick that is being placed.  Except what the code loses:
\* a join that fails after its capture, a session that another join replaces, a pick
\* that comes to nothing, and the first of two screens.
DevicesReleased ==
    \A t \in live \ lost :
        \/ current # NoJoin /\ t \in Held(current)
        \/ \E j \in Joins : step[j] = "publishing" /\ t \in local[j]
        \/ \E p \in picks : p.step = "placing" /\ p.track = t
=============================================================================

----------------------------- MODULE RoomPages -----------------------------
(***************************************************************************)
(* The pages of live-streaming, massive, meet and collaborative over one   *)
(* room of the directory (frontend/src/App.tsx, Broadcast.tsx, Watch.tsx,  *)
(* Stream.tsx, Meeting.tsx, Board.tsx with rtc-shared's SfuClient and      *)
(* MeshCall).                                                              *)
(*                                                                         *)
(* A page is an asynchronous function go(), here the list of what it still *)
(* has to await, and a cleanup that runs when its view goes: at any await. *)
(* Meanwhile its buttons work, and the host may mute it or throw it out.   *)
(* A server identity is used by one page once; connections are not lost.   *)
(***************************************************************************)
EXTENDS Directory, Sequences

CONSTANTS Players,     \* who presses the buttons of a page
          MaxShares,   \* how often each shares the screen
          Kinds        \* the buttons to choose from: "audio", "video", "screen"

ASSUME PlayersAssumption == Players \subseteq Peers
ASSUME KindsAssumption == Kinds \subseteq {"audio", "video", "screen"}

VARIABLES
    page,  \* page[p]: the page of p
    kind   \* which button is pressed: the three share no state of the page

vars == <<serverVars, page, kind>>

(***************************************************************************)
(* What each page awaits                                                   *)
(***************************************************************************)
BroadcastGo == <<"join", "init", "camera", "audio", "video">>
WatchGo == <<"join", "init", "list">>
StreamGo(role) == IF role = "broadcaster" THEN BroadcastGo ELSE <<"join", "init", "list">>
CanPublish(role) == app # "webinar" \/ role = "host"
MeetingGo(role) == <<"join">> \o (IF CanPublish(role) THEN <<"camera">> ELSE <<>>)
                   \o (IF app = "call" THEN <<>> ELSE <<"init">>)
                   \o (IF app # "call" /\ CanPublish(role) THEN <<"audio", "video">> ELSE <<>>)
                   \o (IF app = "call" THEN <<>> ELSE <<"list">>)
BoardGo == <<"join">>

Go(role) == CASE app = "live-streaming" /\ role = "broadcaster" -> BroadcastGo
              [] app = "live-streaming" /\ role = "viewer" -> WatchGo
              [] app = "massive" -> StreamGo(role)
              [] app \in Meetings -> MeetingGo(role)
              [] app \in Boards -> BoardGo

\* The pages with buttons for the microphone, the camera and the screen.
HasButtons(role) == \/ app = "live-streaming" /\ role = "broadcaster"
                    \/ app \in Meetings /\ CanPublish(role)

(***************************************************************************)
(* The page's state                                                        *)
(***************************************************************************)
Lobby == [view |-> "lobby",      \* lobby, asked, mounted, gone
          seen |-> FALSE,        \* the lobby shows the room
          todo |-> <<>>,         \* what go() still awaits
          status |-> "connecting",
          conn |-> "none",       \* none, joined, up, leaving, kicked, left
          engine |-> "none",     \* SfuClient, MeshCall or BoardSync: none, open, closed
          camera |-> "none",     \* getUserMedia's stream: none, live, stopped
          on |-> TRUE,           \* the switch as the page shows it
          enabled |-> TRUE,      \* the track's own switch
          sending |-> "none",    \* its producer: none, on, paused
          deaf |-> FALSE,        \* history: the last press found nothing to switch off
          picking |-> FALSE,     \* getDisplayMedia has not answered
          adding |-> 0,          \* addScreenTrack calls under way
          captures |-> 0,        \* screen captures that run
          ref |-> FALSE,         \* screenStreamRef holds the newest of them
          screenOn |-> FALSE,
          slips |-> {},          \* history: how the screen button's state was lost
          shares |-> 0]

Slips == {"late", "replaced", "failed", "ended"}
Awaits == {"join", "init", "camera", "audio", "video", "list"}

(***************************************************************************)
(* The media engines                                                       *)
(***************************************************************************)
\* SfuClient.setAudioEnabled and setVideoEnabled do nothing before the producer exists.
SetProducer(pg, next) ==
    IF pg.sending = "none" THEN pg
    ELSE [pg EXCEPT !.sending = IF next THEN "on" ELSE "paused"]
SetMesh(pg, next) == [pg EXCEPT !.sending = IF next THEN "on" ELSE "paused"]
SetEngine(pg, next) == CASE pg.engine = "none" -> pg
                         [] pg.engine # "none" /\ app = "call" -> SetMesh(pg, next)
                         [] pg.engine # "none" /\ app # "call" -> SetProducer(pg, next)

\* A producer starts as its track is.
Produce(pg) == [pg EXCEPT !.sending = IF pg.enabled THEN "on" ELSE "paused"]

CloseEngine(pg) == [pg EXCEPT !.engine = IF @ = "open" THEN "closed" ELSE @,
                              !.sending = "none"]

(***************************************************************************)
(* Leaving a view: the cleanup of each page                                *)
(***************************************************************************)
StopCamera(pg) == [pg EXCEPT !.camera = IF @ = "live" THEN "stopped" ELSE @]
StopScreen(pg) == [pg EXCEPT !.captures = IF pg.ref THEN @ - 1 ELSE @, !.ref = FALSE]
LeaveRoom(pg) == [pg EXCEPT !.conn = IF @ = "up" THEN "leaving" ELSE @]

BroadcastCleanup(pg) == LeaveRoom(StopScreen(StopCamera(CloseEngine(pg))))
WatchCleanup(pg) == LeaveRoom(CloseEngine(pg))
StreamCleanup(pg) == LeaveRoom(StopCamera(CloseEngine(pg)))
MeetingCleanup(pg) == LeaveRoom(StopScreen(StopCamera(CloseEngine(pg))))
BoardCleanup(pg) == LeaveRoom(CloseEngine(pg))

Cleanup(p, pg) == CASE app = "live-streaming" /\ token[p] = "broadcaster" -> BroadcastCleanup(pg)
                    [] app = "live-streaming" /\ token[p] = "viewer" -> WatchCleanup(pg)
                    [] app = "massive" -> StreamCleanup(pg)
                    [] app \in Meetings -> MeetingCleanup(pg)
                    [] app \in Boards -> BoardCleanup(pg)

Unmount(p) == [Cleanup(p, page[p]) EXCEPT !.view = "gone"]

(***************************************************************************)
(* The lobby                                                               *)
(***************************************************************************)
\* Its list, every three seconds; the stream apps show only what is live.
LiveShown == rec # NoRecord /\ rec.live
MassiveShown == rec # NoRecord /\ rec.live
MeetingShown == rec # NoRecord
BoardShown == rec # NoRecord
Shown == CASE app = "live-streaming" -> LiveShown
           [] app = "massive" -> MassiveShown
           [] app \in Meetings -> MeetingShown
           [] app \in Boards -> BoardShown

Set(p, pg) == page' = [page EXCEPT ![p] = pg]

PollLobby(p) ==
    /\ page[p].view = "lobby" /\ page[p].seen # Shown
    /\ Set(p, [page[p] EXCEPT !.seen = Shown])
    /\ UNCHANGED <<serverVars, kind>>

StartRoom(p) ==
    /\ page[p].view = "lobby"
    /\ Create(p)
    /\ Set(p, [page[p] EXCEPT !.view = "asked"])
    /\ UNCHANGED kind

\* A row of the list is clicked; the room it shows may be gone by now (404).
EnterRoom(p) ==
    /\ page[p].view = "lobby" /\ page[p].seen
    /\ \/ Issue(p) /\ Set(p, [page[p] EXCEPT !.view = "asked"])
       \/ rec = NoRecord /\ Set(p, [page[p] EXCEPT !.seen = FALSE]) /\ UNCHANGED serverVars
    /\ UNCHANGED kind

\* The answer with the token: the view is the room's page.
Mounted(p) ==
    /\ page[p].view = "asked"
    /\ Set(p, [page[p] EXCEPT !.view = "mounted", !.todo = Go(token[p])])
    /\ UNCHANGED <<serverVars, kind>>

(***************************************************************************)
(* go()                                                                    *)
(***************************************************************************)
Awaiting(p, what) == page[p].todo # <<>> /\ Head(page[p].todo) = what
Cancelled(p) == page[p].view = "gone"

\* The server has the socket join the room; then the await of the page ends.
JoinsRoom(p) ==
    /\ Awaiting(p, "join") /\ page[p].conn = "none"
    /\ Enter(p)
    /\ Set(p, [page[p] EXCEPT !.conn = "joined"])
    /\ UNCHANGED kind

\* go() after an await that succeeded: the page is ready after the last.
Continue(pg) == [pg EXCEPT !.todo = Tail(@),
                           !.status = IF Len(pg.todo) = 1 THEN "ready" ELSE @]
OpensEngine(pg) == app \in Meetings => pg.todo[2] # "camera"
MeshStart(pg) == IF app = "call" THEN Produce(pg) ELSE pg

\* Mutant: a page that was left while it joined just returns.
JoinedForgets(p) ==
    /\ Awaiting(p, "join") /\ page[p].conn = "joined"
    /\ Set(p, IF Cancelled(p) THEN [page[p] EXCEPT !.todo = <<>>]
              ELSE [Continue(page[p]) EXCEPT
                       !.conn = "up",
                       !.engine = IF OpensEngine(page[p]) THEN "open" ELSE "none"])
    /\ UNCHANGED <<serverVars, kind>>

Joined(p) ==
    /\ Awaiting(p, "join") /\ page[p].conn = "joined"
    /\ Set(p, IF Cancelled(p) THEN [page[p] EXCEPT !.todo = <<>>, !.conn = "leaving"]
              ELSE [Continue(page[p]) EXCEPT
                       !.conn = "up",
                       !.engine = IF OpensEngine(page[p]) THEN "open" ELSE "none"])
    /\ UNCHANGED <<serverVars, kind>>

\* Mutant: a camera granted to a page that was left is kept.
CameraKept(p) ==
    /\ Awaiting(p, "camera")
    /\ Set(p, MeshStart([Continue(page[p]) EXCEPT !.camera = "live", !.engine = "open"]))
    /\ UNCHANGED <<serverVars, kind>>

Camera(p) ==
    /\ Awaiting(p, "camera")
    /\ Set(p, IF Cancelled(p) THEN [page[p] EXCEPT !.todo = <<>>, !.camera = "stopped"]
              ELSE MeshStart([Continue(page[p]) EXCEPT !.camera = "live", !.engine = "open"]))
    /\ UNCHANGED <<serverVars, kind>>

\* An answer of the SFU.  close() forgets the requests: nothing is awaited after it.
Answered(p, what) ==
    /\ Awaiting(p, what) /\ page[p].engine = "open"
    /\ Set(p, IF what = kind THEN Produce(Continue(page[p])) ELSE Continue(page[p]))
    /\ UNCHANGED <<serverVars, kind>>

\* The catch of go(): a refused token or camera, a request without an answer.
Fails(p) ==
    /\ page[p].todo # <<>> /\ page[p].conn # "joined"
    /\ Head(page[p].todo) \in {"join", "camera"} \/ page[p].engine = "open"
    /\ Set(p, [page[p] EXCEPT !.todo = <<>>,
                              !.status = IF Cancelled(p) THEN @ ELSE "error"])
    /\ UNCHANGED <<serverVars, kind>>

(***************************************************************************)
(* Leaving                                                                 *)
(***************************************************************************)
Exit(p) ==
    /\ page[p].view = "mounted"
    /\ Set(p, Unmount(p))
    /\ UNCHANGED <<serverVars, kind>>

\* The server hears of the leave.
Departs(p) ==
    /\ page[p].conn = "leaving"
    /\ Leave(p)
    /\ Set(p, [page[p] EXCEPT !.conn = "left"])
    /\ UNCHANGED kind

\* A tile in the host's grid: someone who is sending.
HasTile(h, p) == /\ h # p
                 /\ page[h].view = "mounted" /\ page[h].status = "ready"
                 /\ page[p].conn = "up" /\ page[p].sending # "none"

\* The host's button, and the page's answer to the closed socket: onExit.
KickPeer(h, p) ==
    /\ HasTile(h, p)
    /\ Kick(h, p)
    /\ Set(p, [page[p] EXCEPT !.conn = "kicked"])
    /\ UNCHANGED kind

Terminated(p) ==
    /\ page[p].conn = "kicked" /\ ~Cancelled(p)
    /\ Set(p, [Unmount(p) EXCEPT !.conn = "left"])
    /\ UNCHANGED <<serverVars, kind>>

(***************************************************************************)
(* The switches for the microphone and the camera                          *)
(***************************************************************************)
Presses(p, kinds) == /\ p \in Players /\ kind \in kinds
                     /\ page[p].view = "mounted" /\ HasButtons(token[p])

\* Meeting: the producer and, when there is one, the track.
SwitchTrack(pg, next) == IF pg.camera = "live" THEN [pg EXCEPT !.enabled = next] ELSE pg
\* Mutant: the producer only.
MeetingSwitchProducer(pg, next) == SetEngine(pg, next)
MeetingSwitch(pg, next) == SwitchTrack(SetEngine(pg, next), next)
\* Broadcast: the microphone's producer only; the camera's producer and track.
BroadcastMic(pg, next) == SetEngine(pg, next)
BroadcastCam(pg, next) == SwitchTrack(SetEngine(pg, next), next)

NothingToSwitch(pg) ==
    /\ pg.sending = "none"
    /\ (app \in Meetings \/ kind = "video") => pg.camera # "live"

Switched(pg, next) ==
    LET new == CASE app \in Meetings -> MeetingSwitch(pg, next)
                 [] app \notin Meetings /\ kind = "audio" -> BroadcastMic(pg, next)
                 [] app \notin Meetings /\ kind = "video" -> BroadcastCam(pg, next)
    IN  [new EXCEPT !.on = next, !.deaf = ~next /\ NothingToSwitch(pg)]

Toggle(p) ==
    /\ Presses(p, {"audio", "video"})
    /\ Set(p, Switched(page[p], ~page[p].on))
    /\ UNCHANGED <<serverVars, kind>>

\* The host's request: it never switches a microphone on.
MuteRequest(h, p) ==
    /\ app \in Meetings /\ kind = "audio"
    /\ token[h] = "host" /\ HasTile(h, p)
    /\ Set(p, Switched(page[p], FALSE))
    /\ UNCHANGED <<serverVars, kind>>

(***************************************************************************)
(* The button for the screen, the same in both pages                       *)
(***************************************************************************)
StopShare(p) ==
    /\ Presses(p, {"screen"}) /\ page[p].engine = "open" /\ page[p].screenOn
    /\ Set(p, [StopScreen(page[p]) EXCEPT !.screenOn = FALSE])
    /\ UNCHANGED <<serverVars, kind>>

Share(p) ==
    /\ Presses(p, {"screen"}) /\ page[p].engine = "open"
    /\ ~page[p].screenOn /\ ~page[p].picking /\ page[p].shares < MaxShares
    /\ Set(p, [page[p] EXCEPT !.picking = TRUE, !.shares = @ + 1])
    /\ UNCHANGED <<serverVars, kind>>

\* The picker's answer, whether or not the page is still there.
Picked(p) ==
    /\ page[p].picking
    /\ Set(p, [page[p] EXCEPT !.picking = FALSE, !.captures = @ + 1, !.ref = TRUE,
                              !.adding = @ + 1,
                              !.slips = @ \cup (IF Cancelled(p) THEN {"late"} ELSE {})
                                          \cup (IF page[p].ref THEN {"replaced"} ELSE {})])
    /\ UNCHANGED <<serverVars, kind>>

NotPicked(p) ==
    /\ page[p].picking
    /\ Set(p, [page[p] EXCEPT !.picking = FALSE])
    /\ UNCHANGED <<serverVars, kind>>

\* addScreenTrack returns, or throws what the page swallows.
Added(p) ==
    /\ page[p].adding > 0 /\ page[p].engine = "open"
    /\ Set(p, [page[p] EXCEPT !.adding = @ - 1, !.screenOn = TRUE,
                              !.slips = IF page[p].ref THEN @ ELSE @ \cup {"ended"}])
    /\ UNCHANGED <<serverVars, kind>>

NotAdded(p) ==
    /\ page[p].adding > 0
    /\ Set(p, [page[p] EXCEPT !.adding = @ - 1,
                              !.slips = IF page[p].ref THEN @ \cup {"failed"} ELSE @])
    /\ UNCHANGED <<serverVars, kind>>

\* The user stops a capture with the browser's own button: track.onended.
\* Mutant: the button is not reset.
EndedUnseen(p) ==
    /\ page[p].captures > 0
    /\ Set(p, [page[p] EXCEPT !.captures = @ - 1, !.ref = FALSE])
    /\ UNCHANGED <<serverVars, kind>>

Ended(p) ==
    /\ page[p].captures > 0
    /\ Set(p, [page[p] EXCEPT !.captures = @ - 1, !.ref = FALSE, !.screenOn = FALSE])
    /\ UNCHANGED <<serverVars, kind>>

(***************************************************************************)
(* The specification                                                       *)
(***************************************************************************)
PagesInit == /\ Init
             /\ page = [p \in Peers |-> Lobby]
             /\ kind \in Kinds

RoomCloses == Close /\ UNCHANGED <<page, kind>>
TokenExpires(p) == Expire(p) /\ UNCHANGED <<page, kind>>

GoStep(p) == Joined(p) \/ Camera(p) \/ Fails(p)
                \/ \E what \in {"init", "audio", "video", "list"} : Answered(p, what)
ScreenStep(p) == StopShare(p) \/ Share(p) \/ Picked(p) \/ NotPicked(p)
                    \/ Added(p) \/ NotAdded(p) \/ Ended(p)
Step(p) == \/ PollLobby(p) \/ StartRoom(p) \/ EnterRoom(p) \/ Mounted(p)
           \/ JoinsRoom(p) \/ GoStep(p)
           \/ Exit(p) \/ Departs(p) \/ Terminated(p)
           \/ Toggle(p) \/ ScreenStep(p) \/ TokenExpires(p)

PagesNext == \/ \E p \in Peers : Step(p)
             \/ \E h, p \in Peers : KickPeer(h, p) \/ MuteRequest(h, p)
             \/ RoomCloses

PagesSpec == /\ PagesInit /\ [][PagesNext]_vars
             /\ \A p \in Peers : /\ WF_vars(JoinsRoom(p) \/ Fails(p)) /\ WF_vars(Joined(p))
                                 /\ WF_vars(Departs(p)) /\ WF_vars(Terminated(p))

(***************************************************************************)
(* Properties                                                              *)
(***************************************************************************)
TypeOK ==
    /\ ServerTypeOK
    /\ kind \in Kinds
    /\ \A p \in Peers :
        /\ page[p].view \in {"lobby", "asked", "mounted", "gone"}
        /\ page[p].todo \in Seq(Awaits)
        /\ page[p].status \in {"connecting", "ready", "error"}
        /\ page[p].conn \in {"none", "joined", "up", "leaving", "kicked", "left"}
        /\ page[p].engine \in {"none", "open", "closed"}
        /\ page[p].camera \in {"none", "live", "stopped"}
        /\ page[p].sending \in {"none", "on", "paused"}
        /\ page[p].captures \in Nat /\ page[p].adding \in Nat
        /\ page[p].slips \subseteq Slips

\* A page that is left at any await, thrown out or failing leaves nothing behind: no
\* camera, no engine, no membership, and no capture of the screen except one picked after
\* the page was left, or one that a second share replaced.
NothingLeftRunning ==
    \A p \in Peers : page[p].view = "gone" =>
        /\ page[p].camera # "live" /\ page[p].engine # "open"
        /\ page[p].captures > 0 => page[p].slips \cap {"late", "replaced"} # {}
        /\ p \in peers => page[p].conn \in {"joined", "leaving"}

\* A switch that shows off is off: nothing of its kind is sent, unless it was pressed
\* before there was a track or a producer to switch.
SwitchHonoured ==
    \A p \in Peers :
        (~page[p].on /\ page[p].enabled /\ page[p].sending = "on") => page[p].deaf

\* The screen button shows whether the screen is captured, unless adding the track failed
\* or had not returned when the capture ended, or a second share replaced the first.
ScreenShown ==
    \A p \in Peers :
        (page[p].view = "mounted" /\ page[p].adding = 0
           /\ page[p].slips \cap {"failed", "ended", "replaced"} = {})
        => (page[p].screenOn <=> page[p].captures > 0)

\* What a page's buttons show is so, whatever go() or the browser was awaiting.
ButtonsTrue == SwitchHonoured /\ ScreenShown

\* Whoever leaves a page leaves the room, at whatever await go() was.
GoneLeaves ==
    \A p \in Peers : page[p].view = "gone" ~> (p \notin peers /\ ~Awaiting(p, "join"))
============================================================================

------------------------------ MODULE Composer ------------------------------
(***************************************************************************)
(* The conversation pane of the chat page and its composer: what the user  *)
(* has in hand (a draft, a reply, an edit, a menu, a voice note) while he  *)
(* opens one conversation after the other (conversation-pane.tsx,          *)
(* composer-bar.tsx, message-menu.tsx and the sending part of              *)
(* chat-context.tsx).                                                      *)
(*                                                                         *)
(* A conversation stands for itself and for the message of its own that    *)
(* the user replies to or edits.  The pane stays mounted; the composer is  *)
(* there while a conversation is open, and keeps its state when another    *)
(* one is opened.                                                          *)
(***************************************************************************)
EXTENDS Naturals, FiniteSets

CONSTANTS
    Chats, NoChat,
    Notes,       \* bound: the voice notes
    MaxUploads   \* bound: the files on their way at a time

VARIABLES
    opened,    \* state.activeId
    replying,  \* the message that is replied to
    editing,   \* the message that is edited
    menu,      \* the message whose menu is open
    text,      \* the conversation in which the composer's text was written, or filled in
    note,      \* note[n]: how far the recording is
    noteFor,   \* noteFor[n]: the open conversation, and the reply, when it was begun
    recorder,  \* recorderRef
    recording, \* the composer shows that it records
    uploads,   \* the files on their way to the server, each with what it answers
    astray,    \* history: what was sent last was of another conversation, and never in hand
               \* when one was opened
    carried,   \* history: what was in hand when another conversation was opened
    twice      \* history: a recording was begun while another one ran

handVars == <<replying, editing, menu, text>>
noteVars == <<note, noteFor, recorder, recording, twice>>
sendVars == <<uploads, astray>>
composerVars == <<opened, handVars, noteVars, sendVars, carried>>

Opt == Chats \cup {NoChat}
Things == {"draft", "note"}
\* to: where it goes; of: where it was written; about: the message it refers to.
Sendings == [what : Things, to : Chats, of : Chats, about : Opt]

\* What is wrong with it.
Strays(s) ==
    (IF s.of # s.to THEN {s.what} ELSE {})
      \cup (IF s.about \notin {s.of, NoChat} THEN {"draft"} ELSE {})

ComposerTypeOK ==
    /\ opened \in Opt /\ replying \in Opt /\ editing \in Opt /\ menu \in Opt /\ text \in Opt
    /\ note \in [Notes -> {"none", "asking", "on", "stopping", "lost"}]
    /\ noteFor \in [Notes -> Opt \X Opt]
    /\ recorder \in SUBSET Notes /\ recording \in BOOLEAN
    /\ uploads \subseteq Sendings
    /\ astray \subseteq Things /\ carried \subseteq Things
    /\ twice \in BOOLEAN

ComposerInit ==
    /\ opened = NoChat /\ replying = NoChat /\ editing = NoChat /\ menu = NoChat /\ text = NoChat
    /\ note = [n \in Notes |-> "none"] /\ noteFor = [n \in Notes |-> <<NoChat, NoChat>>]
    /\ recorder = {} /\ recording = FALSE
    /\ uploads = {} /\ astray = {}
    /\ carried = {} /\ twice = FALSE

(***************************************************************************)
(* Opening a conversation                                                  *)
(***************************************************************************)
OnItsWay == {n \in Notes : note[n] \notin {"none", "lost"}}

InHand ==
    (IF {text, replying, editing, menu} # {NoChat} THEN {"draft"} ELSE {})
      \cup (IF OnItsWay # {} THEN {"note"} ELSE {})

\* The effect that resets reply, editing and menu runs when the pane is mounted, and
\* never again.  A click closes the menu, if it is shown.  A composer that comes back
\* is empty but for the edit.
open(c) ==
    /\ c # opened /\ opened' = c
    /\ menu' = IF opened = NoChat THEN menu ELSE NoChat
    /\ text' = IF opened # NoChat THEN text ELSE IF editing # NoChat THEN c ELSE NoChat
    /\ carried' = carried \cup InHand
    /\ UNCHANGED <<replying, editing, noteVars, sendVars>>

\* The user leaves the open conversation, or is removed from it: the composer goes, and
\* with it the only way to stop its recorder, or the one that is asked for.
removed ==
    /\ opened # NoChat /\ opened' = NoChat
    /\ text' = NoChat
    /\ recorder' = {} /\ recording' = FALSE
    /\ note' = [n \in Notes |-> IF note[n] \in {"asking", "on"} THEN "lost" ELSE note[n]]
    /\ noteFor' = [n \in Notes |-> IF note'[n] = "lost" THEN <<NoChat, NoChat>> ELSE noteFor[n]]
    /\ carried' = carried \cup InHand
    /\ UNCHANGED <<replying, editing, menu, twice, sendVars>>

(***************************************************************************)
(* Text, replies and edits                                                 *)
(***************************************************************************)
\* The text of the edit, nothing, or no prefill.
Prefill(e, r) == IF e # NoChat THEN {e} ELSE IF r # NoChat THEN {NoChat} ELSE {}

\* The composer's effect on a new prefill.
Helpers(e, r) ==
    /\ editing' = e /\ replying' = r
    /\ text' = IF Prefill(e, r) \in {Prefill(editing, replying), {}} THEN text
               ELSE IF e # NoChat THEN opened ELSE NoChat

Type ==
    /\ opened # NoChat /\ text = NoChat /\ text' = opened
    /\ UNCHANGED <<opened, replying, editing, menu, noteVars, sendVars, carried>>

onOpenMenu ==
    /\ opened # NoChat /\ menu' = opened
    /\ UNCHANGED <<opened, replying, editing, text, noteVars, sendVars, carried>>

close ==
    /\ opened # NoChat /\ menu # NoChat /\ menu' = NoChat
    /\ UNCHANGED <<opened, replying, editing, text, noteVars, sendVars, carried>>

\* onReply, onEdit, and onReact or onDelete, which go to the open conversation.
Chooses ==
    /\ opened # NoChat /\ menu # NoChat /\ menu' = NoChat
    /\ \/ Helpers(NoChat, menu) /\ UNCHANGED astray
       \/ Helpers(menu, NoChat) /\ UNCHANGED astray
       \/ /\ astray' = (IF menu = opened THEN {} ELSE {"draft"}) \ carried
          /\ UNCHANGED <<replying, editing, text>>
    /\ UNCHANGED <<opened, noteVars, uploads, carried>>

onCancel ==
    /\ opened # NoChat
    /\ \/ editing # NoChat /\ Helpers(NoChat, replying)
       \/ editing = NoChat /\ replying # NoChat /\ Helpers(NoChat, NoChat)
    /\ UNCHANGED <<opened, menu, noteVars, sendVars, carried>>

handleSend ==
    /\ opened # NoChat /\ text # NoChat /\ text' = NoChat
    /\ astray' =
         Strays([what |-> "draft", to |-> opened, of |-> text,
                 about |-> IF editing # NoChat THEN editing ELSE replying]) \ carried
    /\ editing' = NoChat
    /\ replying' = IF editing # NoChat THEN replying ELSE NoChat
    /\ UNCHANGED <<opened, menu, noteVars, uploads, carried>>

(***************************************************************************)
(* Files                                                                   *)
(***************************************************************************)
\* sendMedia, up to its first await.  The reply is not used up.
Sends(what, of, about) ==
    \/ opened = NoChat /\ UNCHANGED uploads
    \/ /\ opened # NoChat /\ Cardinality(uploads) < MaxUploads
       /\ uploads' = uploads \cup {[what |-> what, to |-> opened, of |-> of, about |-> about]}

pickFile ==
    /\ opened # NoChat
    /\ Sends("draft", opened, replying)
    /\ UNCHANGED <<opened, handVars, noteVars, astray, carried>>

\* Mutant: the open conversation is looked up again after the await.
SentToActive(u) ==
    /\ u \in uploads /\ uploads' = uploads \ {u}
    /\ opened # NoChat
    /\ astray' = Strays([u EXCEPT !.to = opened]) \ carried
    /\ UNCHANGED <<opened, handVars, noteVars, carried>>

\* The offer, or the upload, is through: the message is sent, wherever the user is now.
SendDone(u) ==
    /\ u \in uploads /\ uploads' = uploads \ {u}
    /\ astray' = Strays(u) \ carried
    /\ UNCHANGED <<opened, handVars, noteVars, carried>>

SendFails(u) ==
    /\ u \in uploads /\ uploads' = uploads \ {u}
    /\ UNCHANGED <<opened, handVars, noteVars, astray, carried>>

(***************************************************************************)
(* Voice notes                                                             *)
(***************************************************************************)
Moves(n, here, there) == note[n] = here /\ note' = [note EXCEPT ![n] = there]

\* The button stops the recorder it knows, or asks for the microphone.
toggleRecord(n) ==
    /\ opened # NoChat
    /\ \/ n \in recorder /\ Moves(n, "on", "stopping") /\ UNCHANGED noteFor
       \/ /\ \A m \in recorder : note[m] # "on"
          /\ Moves(n, "none", "asking")
          /\ n = CHOOSE m \in Notes : note[m] = "none"  \* any one will do
          /\ noteFor' = [noteFor EXCEPT ![n] = <<opened, replying>>]
    /\ UNCHANGED <<opened, handVars, recorder, recording, twice, sendVars, carried>>

\* Two recordings that were asked for both run, and the button knows the last one.
Granted(n) ==
    /\ Moves(n, "asking", "on")
    /\ recorder' = {n} /\ recording' = TRUE
    /\ twice' = (twice \/ \E m \in Notes : note[m] \in {"on", "stopping"})
    /\ UNCHANGED <<opened, handVars, noteFor, sendVars, carried>>

Denied(n) ==
    /\ Moves(n, "asking", "none")
    /\ noteFor' = [noteFor EXCEPT ![n] = <<NoChat, NoChat>>]
    /\ UNCHANGED <<opened, handVars, recorder, recording, twice, sendVars, carried>>

\* The microphone is released and the note goes to the conversation that is open now.
\* The composer that it was recorded in may be another one than there is.
onstop(n) ==
    /\ Moves(n, "stopping", "none")
    /\ recording' \in {FALSE} \cup (IF n \in recorder THEN {} ELSE {recording})
    /\ Sends("note", noteFor[n][1], noteFor[n][2])
    /\ noteFor' = [noteFor EXCEPT ![n] = <<NoChat, NoChat>>]
    /\ UNCHANGED <<opened, handVars, recorder, twice, astray, carried>>

\* The row of the composer.
Composes == Type \/ handleSend \/ pickFile \/ \E n \in Notes : toggleRecord(n)

ComposerNext ==
    \/ \E c \in Chats : open(c)
    \/ removed \/ onOpenMenu \/ close \/ Chooses \/ onCancel
    \/ Composes
    \/ \E u \in uploads : SendDone(u) \/ SendFails(u)
    \/ \E n \in Notes : Granted(n) \/ Denied(n) \/ onstop(n)

ComposerSpec == ComposerInit /\ [][ComposerNext]_composerVars
----------------------------------------------------------------------------
(***************************************************************************)
(* Properties                                                              *)
(***************************************************************************)
\* What is written in a conversation is sent to it, and refers to one of its own
\* messages, whatever is opened while a file is on its way: unless the user opened
\* another conversation with just that, a text, a message or a voice note, in hand.
\* (The effect of conversation-pane.tsx that is to reset the composer "when switching
\* conversations" does not run then.)
SentWhereWritten == astray = {}

\* The composer shows that it records exactly while its microphone is captured, and its
\* button stops that one: unless a second recording was begun before the first was
\* over.  A recording whose composer has gone goes on, and is shown nowhere.
MicShown ==
    ~twice => /\ \A n \in Notes : note[n] = "on" => recording /\ n \in recorder
              /\ recording => \E n \in recorder : note[n] \in {"on", "stopping"}
=============================================================================

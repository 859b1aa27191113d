------------------------------ MODULE Accounts ------------------------------
(***************************************************************************)
(* The chat's accounts: registration                                       *)
(* (backend/src/services/userService.js) over the user store's name index  *)
(* and files (backend/src/store/userStore.js).                             *)
(*                                                                         *)
(* A registration finds its name free, hashes the password, enters the     *)
(* name in the index, writes the user's file, copies the index and waits   *)
(* for its turn to write the copy.  Its request is the id of the user it   *)
(* makes; what a user's file holds later is DocumentStore's.               *)
(***************************************************************************)
EXTENDS Naturals, Sequences, SequencesExt

CONSTANTS
    Requests,
    Names,
    Free      \* no user: what the index says of a name that is free

ASSUME FreeAssumption == Free \notin Requests

VARIABLES
    reg,       \* reg[r]: the registration request r makes, and how far it is
    index,     \* _index
    indexFile, \* the index on disk
    files,     \* the users that have a file
    line,      \* the registrations that spin for the index's lock, oldest first
    rivals,    \* history: registrations of one name that were both allowed
    overtaken  \* history: registrations that wrote the index before an older one

accountVars == <<reg, index, indexFile, files, line, rivals, overtaken>>

Indexes == [Names -> Requests \cup {Free}]
Empty == [n \in Names |-> Free]
NoRegistration == [name |-> Free, pc |-> "none", copy |-> Empty]

AccountsTypeOK ==
    /\ \A r \in Requests :
        /\ reg[r].pc \in {"none", "hashing", "filing", "spinning", "writing", "made", "refused", "failed"}
        /\ reg[r].copy \in Indexes
    /\ index \in Indexes /\ indexFile \in Indexes
    /\ files \subseteq Requests
    /\ \A i \in DOMAIN line : reg[line[i]].pc = "spinning"

AccountsInit ==
    /\ reg = [r \in Requests |-> NoRegistration]
    /\ index = Empty /\ indexFile = Empty
    /\ files = {} /\ line = <<>>
    /\ rivals = {} /\ overtaken = {}

usernameTaken(n) == index[n] # Free

\* The account that an index finds under a name, if it has a file.
getByUsername(names, n) == IF names[n] \in files THEN names[n] ELSE Free
login(names, r) == getByUsername(names, reg[r].name) = r

Namesakes(n) == {q \in Requests : reg[q].name = n /\ reg[q].pc = "hashing"}

\* register, up to the password's hash
Register(r, n) ==
    /\ reg[r].pc = "none"
    /\ reg' = [reg EXCEPT ![r] =
         [name |-> n, pc |-> IF usernameTaken(n) THEN "refused" ELSE "hashing", copy |-> Empty]]
    /\ rivals' = IF usernameTaken(n) \/ Namesakes(n) = {} THEN rivals
                 ELSE rivals \cup Namesakes(n) \cup {r}
    /\ UNCHANGED <<index, indexFile, files, line, overtaken>>

\* create(): memory first.
Create(r) ==
    /\ reg[r].pc = "hashing"
    /\ index' = [index EXCEPT ![reg[r].name] = r]
    /\ reg' = [reg EXCEPT ![r].pc = "filing"]
    /\ UNCHANGED <<indexFile, files, line, rivals, overtaken>>

\* Mutant: the index's write is not awaited.
FileWrittenMade(r) ==
    /\ reg[r].pc = "filing"
    /\ files' = files \cup {r}
    /\ reg' = [reg EXCEPT ![r] = [@ EXCEPT !.copy = index, !.pc = "made"]]
    /\ UNCHANGED <<index, indexFile, line, rivals, overtaken>>

\* The user's file is there, and _persistIndex copies the index.  Whoever finds
\* the lock held tries again every 5 ms: turns are taken in any order.
LockHeld == \E q \in Requests : reg[q].pc = "writing"
FileWritten(r) ==
    /\ reg[r].pc = "filing"
    /\ files' = files \cup {r}
    /\ reg' = [reg EXCEPT ![r] =
         [@ EXCEPT !.copy = index, !.pc = IF LockHeld THEN "spinning" ELSE "writing"]]
    /\ line' = IF LockHeld THEN Append(line, r) ELSE line
    /\ overtaken' = IF LockHeld \/ line = <<>> THEN overtaken ELSE overtaken \cup {r}
    /\ UNCHANGED <<index, indexFile, rivals>>

Turn(i) ==
    /\ ~LockHeld
    /\ reg' = [reg EXCEPT ![line[i]].pc = "writing"]
    /\ line' = RemoveAt(line, i)
    /\ overtaken' = IF i = 1 THEN overtaken ELSE overtaken \cup {line[i]}
    /\ UNCHANGED <<index, indexFile, files, rivals>>

IndexWritten(r) ==
    /\ reg[r].pc = "writing"
    /\ indexFile' = reg[r].copy
    /\ reg' = [reg EXCEPT ![r].pc = "made"]
    /\ UNCHANGED <<index, files, line, rivals, overtaken>>

\* Either write fails, and so does the request: the name stays taken.
RegisterFails(r) ==
    /\ reg[r].pc \in {"filing", "writing"}
    /\ reg' = [reg EXCEPT ![r].pc = "failed"]
    /\ UNCHANGED <<index, indexFile, files, line, rivals, overtaken>>

\* init() of the next process
Reload ==
    /\ index' = indexFile
    /\ reg' = [r \in Requests |->
         IF reg[r].pc \in {"hashing", "filing", "spinning", "writing"} THEN [reg[r] EXCEPT !.pc = "failed"] ELSE reg[r]]
    /\ line' = <<>>
    /\ UNCHANGED <<indexFile, files, rivals, overtaken>>
----------------------------------------------------------------------------
\* Who was told of a new account can log in, now and after a restart: unless
\* another registration of the name was allowed before this one was entered, or
\* the index was written out of turn.
AccountsKept ==
    \A r \in Requests : reg[r].pc = "made" =>
        (login(index, r) /\ login(indexFile, r)) \/ r \in rivals \cup overtaken
=============================================================================

-------------------------------- MODULE Session --------------------------------
(***************************************************************************)
(* The threads that serve the clients (_user2, one per work item): receive *)
(* a command, take the mutex, run the command's case, give the mutex back. *)
(* The frame table, the SQL/message buffer and the account database are    *)
(* shared.  Replies on the talk socket are not part of this module.        *)
(***************************************************************************)
EXTENDS UserFrames

CONSTANTS
  Commands,     \* the commands each client sends
  RandValues,   \* what rand() may return
  RoomArgs,     \* the room indices the clients send
  Creds,        \* the credentials the clients send: [name, pass]
  Like          \* Like[p]: the names that SQL LIKE matches with pattern p

ASSUME RandAssumption == RandValues \subseteq Nat
ASSUME RoomAssumption == RoomArgs \subseteq Nat
ASSUME CommandAssumption == Commands \in [Conns -> SUBSET Nat]
ASSUME LikeAssumption == \A c \in Creds : c.name \in Like[c.name]

VARIABLES
  mm,       \* the thread that owns the mutex, 0 if none
  buffer,   \* the global text buffer: whose text, about what, naming which room
  users,    \* rows of UserList
  sock,     \* the socket a thread's recv was called with
  cmd,      \* local _ib: the command; later the uid being generated
  ib,       \* local ib: what recv returned; later the room asked for
  logged,   \* local logged
  cred,     \* local user/cb: the credentials received last
  wt,       \* loop index t
  room,     \* the room argument of share()
  after,    \* where share() returns to
  lenTo,    \* history: the socket the length of the current text went to
  rx,       \* the byte stream of each listener: does it parse?
  swapped   \* history: listeners that came or went between length and text

localVars   == <<sock, cmd, ib, logged, cred, wt, room, after>>
streamVars  == <<lenTo, rx, swapped>>
sessionVars == <<mm, buffer, users, localVars, streamVars>>

SERVER_LOGIN       == 1
SERVER_LOGOUT      == 2
SERVER_REGISTER    == 3
SERVER_MESSAGE     == 4
SERVER_CHANGE_ROOM == 5

Uninitialised == -2    \* a local that was never assigned
NoCred == [name |-> "", pass |-> ""]   \* cb holds no credentials
IntSize == 4           \* sizeof(int): what recv of a whole word returns

Text(w, what, r) == [by |-> w, what |-> what, room |-> r]
SQL(w) == Text(w, "sql", 0)

(* The locals and shared buffers of _user2 hold values of their kinds. *)
SessionTypeOK ==
  /\ mm \in Workers \cup {0}
  /\ buffer \in [by : Workers \cup {0}, what : {"none", "sql", "say", "leave", "join"}, room : Int]
  /\ users \subseteq Creds
  /\ sock \in [Workers -> Conns \cup {NULL}]
  /\ cmd \in [Workers -> Int]
  /\ ib \in [Workers -> Int]
  /\ logged \in [Workers -> BOOLEAN]
  /\ cred \in [Workers -> Creds \cup {NoCred}]
  /\ wt \in [Workers -> 0 .. MAX_CLIENTS]
  /\ room \in [Workers -> Int]
  /\ after \in [Workers -> {"unlock", "left", "join"}]
  /\ lenTo \in [Workers -> Conns \cup {NULL}]
  /\ rx \in [Conns -> {"whole", "half", "torn"}]
  /\ swapped \subseteq Conns \cup {NULL}

SessionInit ==
  /\ mm = 0
  /\ buffer = Text(0, "none", 0)
  /\ users = {}
  /\ sock   = [w \in Workers |-> NULL]
  /\ cmd    = [w \in Workers |-> Uninitialised]
  /\ ib     = [w \in Workers |-> 0]
  /\ logged = [w \in Workers |-> FALSE]
  /\ cred   = [w \in Workers |-> NoCred]
  /\ wt     = [w \in Workers |-> 0]
  /\ room   = [w \in Workers |-> 0]
  /\ after  = [w \in Workers |-> "unlock"]
  /\ lenTo  = [w \in Workers |-> NULL]
  /\ rx     = [c \in Conns |-> "whole"]
  /\ swapped = {}

Talk(w) == talk[wf[w]]

(***************************************************************************)
(* The head of the loop: receive a command and wait for the mutex.         *)
(***************************************************************************)
Start(w) ==
  /\ wpc[w] = "queued"
  /\ Goto(w, "top")
  /\ UNCHANGED <<quiet, sessionVars>>

CallRecv(w) ==
  /\ wpc[w] = "top"
  /\ sock' = [sock EXCEPT ![w] = Talk(w)]
  /\ Goto(w, "recv")
  /\ UNCHANGED <<quiet, mm, buffer, users, cmd, ib, logged, cred, wt, room, after, streamVars>>

RecvCommand(w) ==
  /\ wpc[w] = "recv"
  /\ Up(sock[w])
  /\ \E k \in Commands[sock[w]] : cmd' = [cmd EXCEPT ![w] = k]
  /\ ib' = [ib EXCEPT ![w] = IntSize]
  /\ sock' = [sock EXCEPT ![w] = NULL]
  /\ Goto(w, "wait")
  /\ UNCHANGED <<quiet, mm, buffer, users, logged, cred, wt, room, after, streamVars>>

\* Mutant: WSAECONNRESET is missing from the list of errors that close the frame.
RecvFailsNoReset(w) ==
  /\ wpc[w] = "recv"
  /\ ~Up(sock[w])
  /\ IF sock[w] = NULL
       THEN Goto(w, "closeChat") /\ UNCHANGED cmd
       ELSE Goto(w, "wait") /\ cmd' = [cmd EXCEPT ![w] = IF @ = Uninitialised THEN 0 ELSE @]
  /\ sock' = [sock EXCEPT ![w] = NULL]
  /\ UNCHANGED <<quiet, mm, buffer, users, ib, logged, cred, wt, room, after, streamVars>>

(* What an _ib that was never assigned may hold. *)
Leftovers == {0} \cup UNION {Commands[c] : c \in Conns}

(* recv failed.  The frame is closed if WSAGetLastError is one of the listed
   errors; otherwise the switch falls through and the previous _ib is run
   again as if it had just been received.  recv that returns 0 sets no error,
   so after an orderly close the answer is whatever this pool thread left
   behind; a socket closed during the call gives an unlisted WSAEINTR.       *)
RecvFails(w) ==
  /\ wpc[w] = "recv"
  /\ ~Up(sock[w])
  /\ \/ /\ Goto(w, "closeChat")
        /\ UNCHANGED <<cmd, ib>>
     \/ /\ sock[w] # NULL /\ conn[sock[w]] \in {"fin", "closed"}
        /\ \E k \in IF cmd[w] = Uninitialised THEN Leftovers ELSE {cmd[w]} :
             cmd' = [cmd EXCEPT ![w] = k]
        /\ ib' = [ib EXCEPT ![w] = IF conn[sock[w]] = "fin" THEN 0 ELSE -1]
        /\ Goto(w, "wait")
  /\ sock' = [sock EXCEPT ![w] = NULL]
  /\ UNCHANGED <<quiet, mm, buffer, users, logged, cred, wt, room, after, streamVars>>

\* Mutant: the thread does not wait for the mutex.
LockWithoutWaiting(w) ==
  /\ wpc[w] = "wait"
  /\ mm' = w
  /\ Goto(w, "cmd")
  /\ UNCHANGED <<quiet, buffer, users, localVars, streamVars>>

(* The wait ends in no other way: the handle is open as long as threads run,
   and no thread returns while it owns the mutex, so the exit(-1) after a
   failed wait is left out, as is the one after a failed ReleaseMutex.       *)
Lock(w) ==
  /\ wpc[w] = "wait"
  /\ mm = 0
  /\ mm' = w
  /\ Goto(w, "cmd")
  /\ UNCHANGED <<quiet, buffer, users, localVars, streamVars>>

Unlock(w) ==
  /\ wpc[w] = "unlock"
  /\ mm' = 0
  /\ ib' = [ib EXCEPT ![w] = 0]
  /\ Goto(w, "top")
  /\ UNCHANGED <<quiet, buffer, users, sock, cmd, logged, cred, wt, room, after, streamVars>>

(***************************************************************************)
(* SERVER_LOGIN and SERVER_REGISTER.  The credentials are read while the   *)
(* mutex is held; if the client is gone, cb still holds the previous ones, *)
(* or what a message left there, which may decrypt to anything.            *)
(* A client that is already logged in is told so and served all the same.  *)
(***************************************************************************)
ReadCreds(w) ==
  \E c \in IF Up(Talk(w)) \/ cred[w] = NoCred THEN Creds ELSE {cred[w]} :
    cred' = [cred EXCEPT ![w] = c]

Matches(row, c) == row.name \in Like[c.name] /\ row.pass \in Like[c.pass]

(* tryLogin answers 0 (let in), 1 (refused) or -1 (SQL error).  If no row
   matches, callback2 never runs and _ib is read uninitialised.              *)
TryLogin(c) ==
  IF \E row \in users : Matches(row, c) THEN {0, -1} ELSE {0, 1, -1}

Login(w) ==
  /\ wpc[w] = "cmd" /\ cmd[w] = SERVER_LOGIN
  /\ ReadCreds(w)
  /\ buffer' = SQL(w)
  /\ \E answer \in TryLogin(cred'[w]) :
       Goto(w, IF answer = 0 THEN "rand" ELSE "unlock")
  /\ UNCHANGED <<quiet, mm, users, sock, cmd, ib, logged, wt, room, after, streamVars>>

\* Mutant: the SELECT of tryLogin is used, name and password.
NameTakenWithPassword(c) == \E row \in users : Matches(row, c)

NameTaken(c) == \E row \in users : row.name \in Like[c.name]

(* reg: the SELECT by name, then the INSERT; either may fail. *)
Register(w) ==
  /\ wpc[w] = "cmd" /\ cmd[w] = SERVER_REGISTER
  /\ ReadCreds(w)
  /\ buffer' = SQL(w)
  /\ \/ Goto(w, "unlock")
     \/ /\ ~NameTaken(cred'[w])
        /\ Goto(w, "insert")
  /\ UNCHANGED <<quiet, mm, users, sock, cmd, ib, logged, wt, room, after, streamVars>>

Insert(w) ==
  /\ wpc[w] = "insert"
  /\ buffer' = SQL(w)
  /\ \/ /\ users' = users \cup {cred[w]}
        /\ Goto(w, "rand")
     \/ /\ Goto(w, "unlock")
        /\ UNCHANGED users
  /\ UNCHANGED <<quiet, mm, localVars, streamVars>>

(* The uid: draw again until no frame of the table holds it and it is not 0. *)
Draw(w) ==
  /\ wpc[w] = "rand"
  /\ \E r \in RandValues : cmd' = [cmd EXCEPT ![w] = r]
  /\ wt' = [wt EXCEPT ![w] = 0]
  /\ Goto(w, "scan")
  /\ UNCHANGED <<quiet, mm, buffer, users, sock, ib, logged, cred, room, after, streamVars>>

\* Mutant: the scan stops one frame short.
ScanIdsShort(w) ==
  /\ wpc[w] = "scan"
  /\ \/ /\ wt[w] < MAX_CLIENTS - 1 /\ id[wt[w]] # cmd[w]
        /\ wt' = [wt EXCEPT ![w] = @ + 1]
        /\ UNCHANGED wpc
     \/ /\ wt[w] = MAX_CLIENTS - 1
        /\ wt' = [wt EXCEPT ![w] = 0]
        /\ Goto(w, IF cmd[w] = 0 THEN "rand" ELSE "tell")
  /\ UNCHANGED <<quiet, mm, buffer, users, sock, cmd, ib, logged, cred, room, after, streamVars>>

ScanIds(w) ==
  /\ wpc[w] = "scan"
  /\ \/ /\ wt[w] < MAX_CLIENTS /\ id[wt[w]] # cmd[w]
        /\ wt' = [wt EXCEPT ![w] = @ + 1]
        /\ UNCHANGED wpc
     \/ /\ wt[w] < MAX_CLIENTS /\ id[wt[w]] = cmd[w]
        /\ wt' = [wt EXCEPT ![w] = 0]
        /\ Goto(w, "rand")
     \/ /\ wt[w] = MAX_CLIENTS
        /\ wt' = [wt EXCEPT ![w] = 0]
        /\ Goto(w, IF cmd[w] = 0 THEN "rand" ELSE "tell")
  /\ UNCHANGED <<quiet, mm, buffer, users, sock, cmd, ib, logged, cred, room, after, streamVars>>

(* The uid is sent to the client before the frame holds it. *)
Tell(w) ==
  /\ wpc[w] = "tell"
  /\ known' = IF Up(Talk(w)) THEN known \cup {cmd[w]} ELSE known
  /\ Goto(w, "setId")
  /\ UNCHANGED <<table, conn, work, wf, running, sessionVars>>

\* Mutant: the thread does not take its client for logged in.
SetIdUnlogged(w) ==
  /\ wpc[w] = "setId"
  /\ id' = [id EXCEPT ![wf[w]] = cmd[w]]
  /\ Goto(w, "unlock")
  /\ UNCHANGED <<chat, share, talk, pt, conn, work, wf, known, running, sessionVars>>

SetId(w) ==
  /\ wpc[w] = "setId"
  /\ id' = [id EXCEPT ![wf[w]] = cmd[w]]
  /\ logged' = [logged EXCEPT ![w] = TRUE]
  /\ Goto(w, "unlock")
  /\ UNCHANGED <<chat, share, talk, pt, conn, work, wf, known, running,
                 mm, buffer, users, sock, cmd, ib, cred, wt, room, after, streamVars>>

\* Mutant: the thread still takes its client for logged in.
LogoutKeepsLogged(w) ==
  /\ wpc[w] = "cmd" /\ cmd[w] = SERVER_LOGOUT
  /\ id' = [id EXCEPT ![wf[w]] = 0]
  /\ Goto(w, "unlock")
  /\ UNCHANGED <<chat, share, talk, pt, conn, work, wf, known, running, sessionVars>>

\* Mutant: the case continues the loop without giving the mutex back.
LogoutKeepsMutex(w) ==
  /\ wpc[w] = "cmd" /\ cmd[w] = SERVER_LOGOUT
  /\ id' = [id EXCEPT ![wf[w]] = 0]
  /\ logged' = [logged EXCEPT ![w] = FALSE]
  /\ Goto(w, "top")
  /\ UNCHANGED <<chat, share, talk, pt, conn, work, wf, known, running,
                 mm, buffer, users, sock, cmd, ib, cred, wt, room, after, streamVars>>

Logout(w) ==
  /\ wpc[w] = "cmd" /\ cmd[w] = SERVER_LOGOUT
  /\ id' = [id EXCEPT ![wf[w]] = 0]
  /\ logged' = [logged EXCEPT ![w] = FALSE]
  /\ Goto(w, "unlock")
  /\ UNCHANGED <<chat, share, talk, pt, conn, work, wf, known, running,
                 mm, buffer, users, sock, cmd, ib, cred, wt, room, after, streamVars>>

(***************************************************************************)
(* SERVER_CHANGE_ROOM and SERVER_MESSAGE.  Texts name rooms from 1.        *)
(* share(suf, uf->chat) reads the room when it is called, after the text   *)
(* was composed.                                                           *)
(***************************************************************************)
CallShare(w, continuation) ==
  /\ Goto(w, "call")
  /\ after' = [after EXCEPT ![w] = continuation]

(* If the client is gone, the room asked for is what recv left in ib.  Asking
   for the room one is in leaves it: chat is incremented to make the number
   for the text, and the text is shared with chat still incremented.         *)
ChangeRoom(w) ==
  /\ wpc[w] = "cmd" /\ cmd[w] = SERVER_CHANGE_ROOM
  /\ \E r \in IF Up(Talk(w)) THEN RoomArgs ELSE {ib[w]} :
       LET f == wf[w] IN
       /\ ib' = [ib EXCEPT ![w] = r]
       /\ \/ /\ ~logged[w]
             /\ Goto(w, "unlock")
             /\ UNCHANGED <<chat, buffer, after>>
          \/ /\ logged[w] /\ chat[f] = r
             /\ chat' = [chat EXCEPT ![f] = @ + 1]
             /\ buffer' = Text(w, "leave", chat[f] + 1)
             /\ CallShare(w, "left")
          \/ /\ logged[w] /\ chat[f] # r /\ chat[f] # NoRoom
             /\ buffer' = Text(w, "leave", chat[f] + 1)
             /\ CallShare(w, "join")
             /\ UNCHANGED chat
          \/ /\ logged[w] /\ chat[f] # r /\ chat[f] = NoRoom
             /\ Goto(w, "join")
             /\ UNCHANGED <<chat, buffer, after>>
  /\ UNCHANGED <<id, share, talk, pt, conn, work, wf, known, running,
                 mm, users, sock, cmd, logged, cred, wt, room, streamVars>>

Left(w) ==
  /\ wpc[w] = "left"
  /\ chat' = [chat EXCEPT ![wf[w]] = NoRoom]
  /\ Goto(w, "unlock")
  /\ UNCHANGED <<id, share, talk, pt, conn, work, wf, known, running, sessionVars>>

\* Mutant: the text is shared before the user is in the room.
JoinSharesFirst(w) ==
  /\ wpc[w] = "join"
  /\ buffer' = Text(w, "join", ib[w] + 1)
  /\ room' = [room EXCEPT ![w] = chat[wf[w]]]
  /\ chat' = [chat EXCEPT ![wf[w]] = ib[w]]
  /\ Goto(w, "share")
  /\ UNCHANGED <<id, share, talk, pt, conn, work, wf, known, running,
                 mm, users, sock, cmd, ib, logged, cred, wt, after, streamVars>>

Join(w) ==
  /\ wpc[w] = "join"
  /\ buffer' = Text(w, "join", ib[w] + 1)
  /\ chat' = [chat EXCEPT ![wf[w]] = ib[w]]
  /\ CallShare(w, "unlock")
  /\ UNCHANGED <<id, share, talk, pt, conn, work, wf, known, running,
                 mm, users, sock, cmd, ib, logged, cred, wt, room, streamVars>>

(* The text is received into cb, which credentials are received into as well. *)
Message(w) ==
  /\ wpc[w] = "cmd" /\ cmd[w] = SERVER_MESSAGE
  /\ \/ /\ ~logged[w] \/ chat[wf[w]] = NoRoom
        /\ Goto(w, "unlock")
        /\ UNCHANGED <<buffer, after>>
     \/ /\ logged[w] /\ chat[wf[w]] # NoRoom
        /\ buffer' = Text(w, "say", chat[wf[w]] + 1)
        /\ CallShare(w, "unlock")
  /\ cred' = [cred EXCEPT ![w] = IF Up(Talk(w)) THEN NoCred ELSE @]
  /\ UNCHANGED <<quiet, mm, users, sock, cmd, ib, logged, wt, room, streamVars>>

(* Only a left-over uid reaches the default case. *)
NoCommand(w) ==
  /\ wpc[w] = "cmd"
  /\ cmd[w] \notin SERVER_LOGIN .. SERVER_CHANGE_ROOM
  /\ Goto(w, "unlock")
  /\ UNCHANGED <<quiet, sessionVars>>

(***************************************************************************)
(* share(): for every frame in the room that has a listener, send the      *)
(* length and then the text.  It reads the frame four times, the room, and *)
(* the socket for the test and for each send, without what closeUserFrame  *)
(* and _main would have to wait for.                                       *)
(***************************************************************************)
\* Mutant: the mutex is given back before the broadcast.
EnterShareUnlocked(w) ==
  /\ wpc[w] = "call"
  /\ mm' = 0
  /\ room' = [room EXCEPT ![w] = chat[wf[w]]]
  /\ Goto(w, "share")
  /\ UNCHANGED <<quiet, buffer, users, sock, cmd, ib, logged, cred, wt, after, streamVars>>

EnterShare(w) ==
  /\ wpc[w] = "call"
  /\ room' = [room EXCEPT ![w] = chat[wf[w]]]
  /\ Goto(w, "share")
  /\ UNCHANGED <<quiet, mm, buffer, users, sock, cmd, ib, logged, cred, wt, after,
                 streamVars>>

(* "if (lpUF[t].chat != room) continue". *)
MatchRoom(w) ==
  /\ wpc[w] = "share"
  /\ wt[w] < MAX_CLIENTS
  /\ \/ /\ chat[wt[w]] # room[w]
        /\ wt' = [wt EXCEPT ![w] = @ + 1]
        /\ UNCHANGED wpc
     \/ /\ chat[wt[w]] = room[w]
        /\ Goto(w, "check")
        /\ UNCHANGED wt
  /\ UNCHANGED <<quiet, mm, buffer, users, sock, cmd, ib, logged, cred, room, after,
                 streamVars>>

\* Mutant: a frame without a listener is looked at again and again.
MatchListenerStuck(w) ==
  /\ wpc[w] = "check"
  /\ Goto(w, IF share[wt[w]] = NULL THEN "share" ELSE "length")
  /\ UNCHANGED <<quiet, mm, buffer, users, localVars, streamVars>>

(* "if (lpUF[t].share == 0) continue". *)
MatchListener(w) ==
  /\ wpc[w] = "check"
  /\ \/ /\ share[wt[w]] = NULL
        /\ wt' = [wt EXCEPT ![w] = @ + 1]
        /\ Goto(w, "share")
     \/ /\ share[wt[w]] # NULL
        /\ Goto(w, "length")
        /\ UNCHANGED wt
  /\ UNCHANGED <<quiet, mm, buffer, users, sock, cmd, ib, logged, cred, room, after,
                 streamVars>>

(* A listener that gets a length when it waits for a text, or a text when it
   waits for a length, never finds the message boundaries again.  A send on a
   socket that is gone fails, which nobody looks at.                         *)
Receives(c, expected, next) ==
  rx' = IF Up(c) THEN [rx EXCEPT ![c] = IF @ = expected THEN next ELSE "torn"] ELSE rx

SendLength(w) ==
  /\ wpc[w] = "length"
  /\ Receives(share[wt[w]], "whole", "half")
  /\ lenTo' = [lenTo EXCEPT ![w] = share[wt[w]]]
  /\ Goto(w, "body")
  /\ UNCHANGED <<quiet, mm, buffer, users, localVars, swapped>>

SendText(w) ==
  /\ wpc[w] = "body"
  /\ Receives(share[wt[w]], "half", "whole")
  /\ swapped' = IF share[wt[w]] = lenTo[w] THEN swapped
                ELSE swapped \cup {share[wt[w]], lenTo[w]}
  /\ lenTo' = [lenTo EXCEPT ![w] = NULL]
  /\ wt' = [wt EXCEPT ![w] = @ + 1]
  /\ Goto(w, "share")
  /\ UNCHANGED <<quiet, mm, buffer, users, sock, cmd, ib, logged, cred, room, after>>

LeaveShare(w) ==
  /\ wpc[w] = "share"
  /\ wt[w] = MAX_CLIENTS
  /\ Goto(w, after[w])
  /\ wt' = [wt EXCEPT ![w] = 0]
  /\ room' = [room EXCEPT ![w] = 0]
  /\ after' = [after EXCEPT ![w] = "unlock"]
  /\ UNCHANGED <<quiet, mm, buffer, users, sock, cmd, ib, logged, cred, streamVars>>

(* The places between taking the mutex and giving it back. *)
InShare  == {"call", "share", "check", "length", "body"}
Critical == {"cmd", "insert", "rand", "scan", "tell", "setId", "left", "join", "unlock"}
            \cup InShare
Places   == {"none", "queued", "top", "recv", "wait", "done"} \cup Critical \cup ClosePlaces

Broadcast(w) ==
  \/ EnterShare(w) \/ MatchRoom(w) \/ MatchListener(w)
  \/ SendLength(w) \/ SendText(w) \/ LeaveShare(w)

NewUid(w) == Draw(w) \/ ScanIds(w) \/ Tell(w) \/ SetId(w)

Handler(w) ==
  \/ Login(w) \/ Register(w) \/ Insert(w) \/ NewUid(w) \/ Logout(w)
  \/ ChangeRoom(w) \/ Left(w) \/ Join(w) \/ Message(w) \/ NoCommand(w)
  \/ Broadcast(w) \/ Unlock(w)

SessionNext(w) ==
  \/ Start(w) \/ CallRecv(w) \/ RecvCommand(w) \/ RecvFails(w) \/ Lock(w)
  \/ Handler(w)
  \/ CloseUserFrame(w) /\ UNCHANGED sessionVars
===============================================================================

-------------------------------- MODULE Client --------------------------------
(***************************************************************************)
(* The client program: the console thread (main) connects, then it and the *)
(* thread of the window (WndProc) send requests and read answers on one    *)
(* talk socket, without a lock between them.  A request is a sequence of   *)
(* sends, an answer is one word or two.  Each login starts a listener,     *)
(* which has a connection of its own.                                      *)
(***************************************************************************)
EXTENDS Integers, Sequences

CONSTANTS
  Names,     \* the names the user logs in and registers with
  Rooms,     \* the rooms that have a button
  Uids,      \* the uids the server draws
  MaxLogins, \* bound: how many times the user logs in with success
  Habits     \* what the user can be relied on to do, see Willing

ASSUME RoomsAssumption  == Rooms \subseteq 0 .. 4
ASSUME UidsAssumption   == Uids \subseteq Nat \ {0}
ASSUME LoginsAssumption == MaxLogins \in Nat \ {0}
ASSUME HabitsAssumption == Habits \subseteq {"waits", "heeds"}

VARIABLES
  my_id,      \* the uid the client was given, 0 if none
  curr_room,  \* the room the window takes the user to be in, -1 for none
  pressed,    \* local t of WndProc: the room whose button was pressed
  todo,       \* what each thread has still to send of its request
  wait,       \* the answer each thread then waits for, "none" if it is idle
  denied,     \* has the console said "deny" of the request made last?
  lst,        \* where each listener is
  presented,  \* the uid each listener presents, 0 if none
  link,       \* the talk socket: "none" yet, "up" or "cut"
  toServer,   \* its two directions
  toClient

inputVars  == <<my_id, curr_room, pressed, denied>>
listenVars == <<lst, presented>>
clientVars == <<inputVars, todo, wait, listenVars>>
wireVars   == <<link, toServer, toClient>>

USER_OK               == 0
USER_ACCESS_DENY      == 1
USER_LOGIN_SUCCES     == 2
USER_LOGIN_DENY       == 3
USER_REGISTER_SUCCESS == 4
USER_REGISTER_DENY    == 5

Threads == {"console", "window"}
Asked   == {"login", "reg", "logout", "say", "room"}
NoRoom  == -1
Listeners == 1 .. MaxLogins

(* One send: the command word, or a word, the credentials or the text of its
   body.  Each carries which thread sent it, to compare it with the answer.  *)
Piece(th, part, v) == [from |-> th, part |-> part, v |-> v]

Body(th, what, v) ==
  CASE what \in {"login", "reg"} -> <<Piece(th, "creds", v)>>
    [] what = "logout"           -> << >>
    [] what = "say"              -> <<Piece(th, "length", 0), Piece(th, "text", 0)>>
    [] what = "room"             -> <<Piece(th, "room", v)>>

Sends(th, what, v) == <<Piece(th, "command", what)>> \o Body(th, what, v)

ClientInit ==
  /\ my_id = 0
  /\ curr_room = NoRoom
  /\ pressed = NoRoom
  /\ todo = [th \in Threads |-> << >>]
  /\ wait = [th \in Threads |-> IF th = "console" THEN "connect" ELSE "none"]
  /\ denied = FALSE
  /\ lst = [l \in Listeners |-> "none"]
  /\ presented = [l \in Listeners |-> 0]
  /\ link = "none"
  /\ toServer = << >>
  /\ toClient = << >>

(***************************************************************************)
(* The user.  One who waits gives no input while a request is under way in *)
(* either thread; one who heeds what the console said of his login logs in *)
(* only when logged out.  The client enforces neither: the habits are      *)
(* assumptions that a run makes or drops.                                  *)
(***************************************************************************)
Willing(what) ==
  /\ "waits" \in Habits => \A th \in Threads : wait[th] = "none"
  /\ "heeds" \in Habits /\ what \in {"login", "reg"} => my_id = 0

Request(th, what, v) ==
  /\ wait[th] = "none"
  /\ Willing(what)
  /\ todo' = [todo EXCEPT ![th] = Sends(th, what, v)]
  /\ wait' = [wait EXCEPT ![th] = what]
  /\ denied' = FALSE
  /\ UNCHANGED <<my_id, curr_room, listenVars, wireVars>>

(* The type of what the two threads and the user see. *)
ClientTypeOK ==
  /\ my_id \in Uids \cup {0}
  /\ curr_room \in Rooms \cup {NoRoom}
  /\ pressed \in Rooms \cup {NoRoom}
  /\ \A th \in Threads : Len(todo[th]) <= 3
  /\ wait \in [Threads -> Asked \cup {"connect", "uid", "none"}]
  /\ denied \in BOOLEAN
  /\ lst \in [Listeners -> {"none", "starting", "asked", "settled"}]
  /\ presented \in [Listeners -> Uids \cup {0}]
  /\ link \in {"none", "up", "cut"}

(* main, before its loop; the window's buttons can be pressed before.  A client
   that cannot connect ends.                                                 *)
Connect ==
  /\ link = "none"
  /\ link' = "up"
  /\ toServer' = <<Piece("console", "hello", 0)>>
  /\ UNCHANGED <<clientVars, toClient>>

(* /login and /reg are sent although the user is logged in. *)
TypeCredentials ==
  /\ lst[MaxLogins] = "none"
  /\ \E what \in {"login", "reg"}, n \in Names : Request("console", what, n)
  /\ UNCHANGED pressed

TypeLogout ==
  /\ my_id # 0
  /\ Request("console", "logout", 0)
  /\ UNCHANGED pressed

(* Any other line is a message, for which the console wants a login. *)
TypeText ==
  /\ my_id # 0
  /\ Request("console", "say", 0)
  /\ UNCHANGED pressed

(* The window asks for a login before neither of its requests. *)
PressRoom ==
  /\ \E r \in Rooms : Request("window", "room", r) /\ pressed' = r

PressSend ==
  /\ Request("window", "say", 0)
  /\ UNCHANGED pressed

(* Without a connection the send fails, which nobody looks at. *)
Send(th) ==
  /\ todo[th] # << >>
  /\ toServer' = IF link = "up" THEN Append(toServer, Head(todo[th])) ELSE toServer
  /\ todo' = [todo EXCEPT ![th] = Tail(@)]
  /\ UNCHANGED <<inputVars, wait, listenVars, link, toClient>>

(***************************************************************************)
(* The answers.  A thread takes the next word on the socket, whoever it    *)
(* was meant for.  If the connection is gone recv fails, which nobody      *)
(* looks at: the word last sent stands for the answer.                     *)
(***************************************************************************)
Takes(th) ==
  /\ todo[th] = << >>
  /\ \/ toClient # << >> /\ toClient' = Tail(toClient)
     \/ toClient = << >> /\ link # "up" /\ UNCHANGED toClient
  /\ UNCHANGED <<todo, link, toServer>>

CommandWord == [login |-> 1, reg |-> 3]

Word == IF toClient # << >>        THEN Head(toClient).word
        ELSE IF wait["console"] = "uid" THEN my_id
        ELSE CommandWord[wait["console"]]

Done(th) == wait' = [wait EXCEPT ![th] = "none"]

(* The answer to SERVER_SET_CONNECTION is not looked at. *)
TakeAck ==
  /\ wait["console"] = "connect" /\ link # "none"
  /\ Takes("console")
  /\ Done("console")
  /\ UNCHANGED <<inputVars, listenVars>>

(* After a success the uid follows. *)
TakeVerdict ==
  /\ wait["console"] \in {"login", "reg"}
  /\ Takes("console")
  /\ LET success == IF wait["console"] = "login" THEN USER_LOGIN_SUCCES
                                                 ELSE USER_REGISTER_SUCCESS
     IN  IF Word = success
           THEN wait' = [wait EXCEPT !["console"] = "uid"] /\ UNCHANGED denied
           ELSE Done("console") /\ denied' = TRUE
  /\ UNCHANGED <<my_id, curr_room, pressed, listenVars>>

NextListener == CHOOSE l \in Listeners : lst[l] = "none" /\ \A k \in 1 .. (l - 1) : lst[k] # "none"

(* The listener is started whether or not a uid came. *)
TakeUid ==
  /\ wait["console"] = "uid"
  /\ Takes("console")
  /\ my_id' = Word
  /\ lst' = [lst EXCEPT ![NextListener] = "starting"]
  /\ Done("console")
  /\ UNCHANGED <<curr_room, pressed, denied, presented>>

(* Whatever the answer is. *)
TakeLogout ==
  /\ wait["console"] = "logout"
  /\ Takes("console")
  /\ my_id' = 0
  /\ Done("console")
  /\ UNCHANGED <<curr_room, pressed, denied, listenVars>>

(* The answer to a message is taken and not looked at. *)
TakeSaid(th) ==
  /\ wait[th] = "say"
  /\ Takes(th)
  /\ Done(th)
  /\ UNCHANGED <<inputVars, listenVars>>

\* Mutant: curr_room is set only when the user comes from no room.
TakeRoomOnce ==
  /\ wait["window"] = "room"
  /\ Takes("window")
  /\ curr_room' = IF curr_room = NoRoom THEN pressed ELSE curr_room
  /\ pressed' = NoRoom
  /\ Done("window")
  /\ UNCHANGED <<my_id, denied, listenVars>>

(* The answer is not looked at: a refusal changes the room too. *)
TakeRoom ==
  /\ wait["window"] = "room"
  /\ Takes("window")
  /\ curr_room' = IF pressed = curr_room THEN NoRoom ELSE pressed
  /\ pressed' = NoRoom
  /\ Done("window")
  /\ UNCHANGED <<my_id, denied, listenVars>>

(* listen(): its own connection, on which it presents what my_id is by then. *)
Present(l) ==
  /\ lst[l] = "starting"
  /\ lst' = [lst EXCEPT ![l] = "asked"]
  /\ presented' = [presented EXCEPT ![l] = my_id]
  /\ UNCHANGED <<inputVars, todo, wait, wireVars>>
===============================================================================

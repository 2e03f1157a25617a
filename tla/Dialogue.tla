------------------------------- MODULE Dialogue -------------------------------
(***************************************************************************)
(* A client, the accept loop that lets it and its listeners in, and the    *)
(* session that serves it: the replies of _user2 and _main, which modules  *)
(* Session and Acceptor leave out, put together with the client that waits *)
(* for them.  Other sessions only delay this one, as long as its frame is  *)
(* not handed out a second time (see ChatServer for that).                 *)
(***************************************************************************)
EXTENDS Client

VARIABLES
  spc,        \* where the session is in the command under way
  request,    \* the command under way, and the thread that asked for it
  logged,     \* local logged
  id,         \* uf->id
  chat,       \* uf->chat
  name,       \* user.name: under which name the session's texts go out
  account,    \* history: the name the session was granted for
  refused,    \* history: has a room been asked for by one not logged in?
  silent,     \* history: has a room been left, which is not answered?
  share,      \* uf->share: the uid its listener presented, NoListener if it is NULL
  uid,        \* local _ib: the uid on its way to the client and the frame
  excuse      \* history: why the last listener was turned away

sessionVars == <<spc, request, logged, id, chat, name, account, refused, silent, uid>>
serverVars  == <<sessionVars, share, excuse>>
vars        == <<clientVars, wireVars, serverVars>>

Nobody    == "nobody"
NoListener == -1
NoRequest == Piece("console", "command", "login")

ServerInit ==
  /\ spc = "hello"
  /\ request = NoRequest
  /\ logged = FALSE
  /\ id = 0
  /\ chat = NoRoom
  /\ name = Nobody
  /\ account = Nobody
  /\ refused = FALSE
  /\ silent = FALSE
  /\ share = NoListener
  /\ uid = 0
  /\ excuse = "none"

(* A word of an answer, marked with the request it answers. *)
Answer(word) == [word |-> word, to |-> <<request.from, request.v>>]

Reply(words) ==
  toClient' = toClient \o [i \in DOMAIN words |-> Answer(words[i])]

(* What the session's next recv is for, and that recv.  The model stops where
   the two threads' sends have mixed and a piece of another kind comes.      *)
Expected == CASE spc = "hello"          -> "hello"
              [] spc = "recv"           -> "command"
              [] spc \in {"login", "reg"} -> "creds"
              [] spc = "room"           -> "room"
              [] spc = "say"            -> "length"
              [] spc = "text"           -> "text"
              [] OTHER                  -> "nothing"

Receive ==
  /\ toServer # << >>
  /\ Head(toServer).part = Expected
  /\ toServer' = Tail(toServer)

(***************************************************************************)
(* The accept loop.  Once it has taken MAX_CLIENTS talk connections it     *)
(* turns every connection away.                                            *)
(***************************************************************************)
Greeting(word) == toClient' = Append(toClient, [word |-> word, to |-> <<"console", "connect">>])

Admit ==
  /\ spc = "hello"
  /\ Receive
  /\ \/ Greeting(USER_OK) /\ spc' = "recv" /\ UNCHANGED link
     \/ Greeting(USER_ACCESS_DENY) /\ spc' = "ended" /\ link' = "cut"
  /\ UNCHANGED <<request, logged, id, chat, name, account, refused, silent, uid,
                 share, excuse>>

TurnAway ==
  /\ excuse' = "full"
  /\ UNCHANGED share

\* Mutant: a frame that has a listener keeps it.
AttachOnce(l) ==
  /\ excuse # "full"
  /\ \/ presented[l] = id /\ share' = IF share = NoListener THEN id ELSE share
     \/ presented[l] = 0 /\ UNCHANGED share
  /\ UNCHANGED excuse

(* The frames of others are not modelled: a listener that presents 0 finds any
   that is free, perhaps this one.                                           *)
Attach(l) ==
  /\ excuse # "full"
  /\ \/ presented[l] = id /\ share' = id
     \/ presented[l] = 0 /\ UNCHANGED share
  /\ UNCHANGED excuse

(* A uid the table does not hold, or does not hold yet. *)
Deny(l) ==
  /\ excuse # "full"
  /\ presented[l] \notin {id, 0}
  /\ excuse' = IF spc = "setId" /\ presented[l] = uid THEN "early" ELSE excuse
  /\ UNCHANGED share

(* The answer: one that is turned away or denied ends, the others wait for texts. *)
AddConnection(l) ==
  /\ lst[l] = "asked"
  /\ TurnAway \/ Attach(l) \/ Deny(l)
  /\ lst' = [lst EXCEPT ![l] = "settled"]
  /\ presented' = [presented EXCEPT ![l] = 0]
  /\ UNCHANGED <<inputVars, todo, wait, wireVars, sessionVars>>

(***************************************************************************)
(* The session.                                                            *)
(***************************************************************************)
ReadCommand ==
  /\ spc = "recv"
  /\ Receive
  /\ request' = Head(toServer)
  /\ spc' = Head(toServer).v
  /\ UNCHANGED <<logged, id, chat, name, account, refused, silent, toClient, uid>>

(* SERVER_LOGIN and SERVER_REGISTER: one who is logged in is refused, and
   served all the same.  user.name is overwritten whatever comes of it.      *)
Denial == IF request.v = "login" THEN USER_LOGIN_DENY ELSE USER_REGISTER_DENY

ReadCreds ==
  /\ spc \in {"login", "reg"}
  /\ Receive
  /\ name' = Head(toServer).v
  /\ Reply(IF logged THEN <<Denial>> ELSE << >>)
  /\ spc' = "verdict"
  /\ UNCHANGED <<request, logged, id, chat, account, refused, silent, uid>>

(* tryLogin and reg may come to either verdict, see module Session. *)
Refuse ==
  /\ spc = "verdict"
  /\ Reply(<<Denial>>)
  /\ spc' = "recv"
  /\ UNCHANGED <<request, logged, id, chat, name, account, refused, silent, uid, toServer>>

(* Success first, then a uid, and only then the table. *)
Grant ==
  /\ spc = "verdict"
  /\ Reply(<<IF request.v = "login" THEN USER_LOGIN_SUCCES ELSE USER_REGISTER_SUCCESS>>)
  /\ spc' = "grant"
  /\ UNCHANGED <<request, logged, id, chat, name, account, refused, silent, uid, toServer>>

\* Mutant: the verdict is sent where the uid belongs.
TellVerdictAgain ==
  /\ spc = "grant"
  /\ uid' \in Uids \ {id}
  /\ Reply(<<IF request.v = "login" THEN USER_LOGIN_SUCCES ELSE USER_REGISTER_SUCCESS>>)
  /\ spc' = "setId"
  /\ UNCHANGED <<request, logged, id, chat, name, account, refused, silent, toServer>>

(* The uid is a fresh one: it differs from the frame's own. *)
TellUid ==
  /\ spc = "grant"
  /\ uid' \in Uids \ {id}
  /\ Reply(<<uid'>>)
  /\ spc' = "setId"
  /\ UNCHANGED <<request, logged, id, chat, name, account, refused, silent, toServer>>

SetId ==
  /\ spc = "setId"
  /\ id' = uid
  /\ uid' = 0
  /\ logged' = TRUE
  /\ account' = name
  /\ spc' = "recv"
  /\ UNCHANGED <<request, chat, name, refused, silent, toServer, toClient>>

Logout ==
  /\ spc = "logout"
  /\ Reply(<<USER_OK>>)
  /\ id' = 0
  /\ logged' = FALSE
  /\ account' = Nobody
  /\ spc' = "recv"
  /\ UNCHANGED <<request, chat, name, refused, silent, uid, toServer>>

(* SERVER_CHANGE_ROOM.  One who leaves a room gets no answer. *)
ChangeRoom ==
  /\ spc = "room"
  /\ Receive
  /\ spc' = "recv"
  /\ LET r == Head(toServer).v IN
       \/ /\ ~logged
          /\ Reply(<<USER_ACCESS_DENY>>)
          /\ refused' = TRUE
          /\ UNCHANGED <<chat, silent>>
       \/ /\ logged /\ chat = r
          /\ chat' = NoRoom
          /\ silent' = TRUE
          /\ UNCHANGED <<toClient, refused>>
       \/ /\ logged /\ chat # r
          /\ chat' = r
          /\ Reply(<<USER_OK>>)
          /\ UNCHANGED <<refused, silent>>
  /\ UNCHANGED <<request, logged, id, name, account, uid>>

ReadLength ==
  /\ spc = "say"
  /\ Receive
  /\ spc' = "text"
  /\ UNCHANGED <<request, logged, id, chat, name, account, refused, silent, uid, toClient>>

\* Mutant: the break after the first refusal is missing.
MessageRefusedTwice ==
  /\ spc = "text"
  /\ Receive
  /\ spc' = "recv"
  /\ Reply(CASE ~logged                  -> <<USER_ACCESS_DENY, USER_ACCESS_DENY>>
             [] logged /\ chat = NoRoom -> <<USER_ACCESS_DENY>>
             [] OTHER                   -> <<USER_OK>>)
  /\ UNCHANGED <<request, logged, id, chat, name, account, refused, silent, uid>>

\* Mutant: one who is in no room is refused without an answer.
MessageRefusedSilently ==
  /\ spc = "text"
  /\ Receive
  /\ spc' = "recv"
  /\ Reply(CASE ~logged                  -> <<USER_ACCESS_DENY>>
             [] logged /\ chat = NoRoom -> << >>
             [] OTHER                   -> <<USER_OK>>)
  /\ UNCHANGED <<request, logged, id, chat, name, account, refused, silent, uid>>

(* SERVER_MESSAGE is for those who are logged in and in a room. *)
Message ==
  /\ spc = "text"
  /\ Receive
  /\ spc' = "recv"
  /\ Reply(<<IF logged /\ chat # NoRoom THEN USER_OK ELSE USER_ACCESS_DENY>>)
  /\ UNCHANGED <<request, logged, id, chat, name, account, refused, silent, uid>>

ServerStep ==
  ReadCommand \/ ReadCreds \/ Refuse \/ Grant \/ TellUid \/ SetId
    \/ Logout \/ ChangeRoom \/ ReadLength \/ Message

(* An excuse ends with the next uid, unless it is that the server is full. *)
SessionStep ==
  /\ ServerStep
  /\ excuse' = IF spc = "grant" /\ spc' = "setId" /\ excuse = "early" THEN "none" ELSE excuse
  /\ UNCHANGED <<link, share>>

(* The talk connection is cut: what is under way to the session is lost, what
   is under way to the client may be.  closeUserFrame ends the session.      *)
Cut ==
  /\ link = "up"
  /\ link' = "cut"
  /\ toServer' = << >>
  /\ toClient' \in {toClient, << >>}
  /\ spc' = "ended"
  /\ id' = 0 /\ chat' = NoRoom /\ share' = NoListener /\ logged' = FALSE /\ uid' = 0
  /\ name' = Nobody /\ account' = Nobody /\ request' = NoRequest
  /\ UNCHANGED <<refused, silent, excuse>>

Input == TypeCredentials \/ TypeLogout \/ TypeText \/ PressRoom \/ PressSend

(* Of its own accord the client only goes on with what the user began. *)
ThreadStep(th) == Send(th) \/ TakeSaid(th)

ConsoleStep == Connect \/ ThreadStep("console") \/ TakeAck \/ TakeVerdict \/ TakeUid \/ TakeLogout
WindowStep  == ThreadStep("window") \/ TakeRoom

Init == ClientInit /\ ServerInit

Next ==
  \/ (Input \/ ConsoleStep \/ WindowStep) /\ UNCHANGED serverVars
  \/ (SessionStep \/ Admit \/ Cut) /\ UNCHANGED clientVars
  \/ \E l \in Listeners : (Present(l) /\ UNCHANGED serverVars) \/ AddConnection(l)

(* The threads of both programs run; the user need not do anything, and
   nothing need go wrong.                                                    *)
Fairness ==
  /\ WF_vars(ConsoleStep /\ UNCHANGED serverVars)
  /\ WF_vars(WindowStep /\ UNCHANGED serverVars)
  /\ WF_vars((SessionStep \/ Admit) /\ UNCHANGED clientVars)

Spec == Init /\ [][Next]_vars /\ Fairness

-----------------------------------------------------------------------------
(* The client's variables and the session's have values of their kinds; a uid
   is never taken for a status word or the other way round.                  *)
DialogueTypeOK ==
  /\ ClientTypeOK
  /\ spc \in Asked \cup {"hello", "recv", "verdict", "grant", "setId", "text", "ended"}
  /\ {logged, refused, silent} \subseteq BOOLEAN
  /\ {id, uid} \subseteq Uids \cup {0}
  /\ share \in Uids \cup {0, NoListener}
  /\ excuse \in {"none", "early", "full"}
  /\ chat \in Rooms \cup {NoRoom}
  /\ {name, account} \subseteq Names \cup {Nobody}

(* The next word on the socket answers what a thread of the client is waiting
   for: no answer is left over from an earlier request, and the session never
   takes one thread's send for a part of the other's request (TakeVerdict to
   TakeRoom do not look whose word they take).                               *)
AnswersFit ==
  /\ toServer # << >> /\ Expected # "nothing" => Head(toServer).part = Expected
  /\ toClient # << >> =>
       LET to == Head(toClient).to
       IN  \/ wait[to[1]] = to[2]
           \/ wait[to[1]] = "uid" /\ to[2] \in {"login", "reg"}

Idle == /\ link = "up"
        /\ \A th \in Threads : wait[th] = "none" /\ todo[th] = << >>
        /\ toServer = << >> /\ toClient = << >> /\ spc = "recv"

(* Whenever nothing is under way the client and the session agree: about
   whether the user is logged in, his uid, the room he is in (unless a room
   was refused: TakeRoom does not look at the answer), and the session speaks
   under the name it was granted for.                                        *)
Agreement ==
  Idle => /\ my_id = id
          /\ logged <=> id # 0
          /\ curr_room = chat \/ refused
          /\ logged => name = account

(* Whenever nothing is under way, not even a listener, a session that is logged
   in has one, and it is one that presented the uid the session now has; unless
   the server is full, or the listener was faster than the assignment of the
   uid to the frame.  Listeners of earlier logins may come late, and present
   the uid of a later login or none.                                         *)
SessionHeard ==
  /\ Idle /\ logged /\ excuse = "none"
  /\ \A l \in Listeners : lst[l] \notin {"starting", "asked"}
  => share = id

(* The console says "login deny" or "register deny" only if the request has
   changed nothing: the session has the uid that the client takes it to have
   (client.cpp, the two else branches).                                      *)
DenyIsDeny ==
  denied /\ wait["console"] = "none" /\ spc = "recv" /\ toServer = << >>
    => id = my_id

(* Every request the user makes is answered, unless he has left a room: the
   thread he made it in comes back from recv and is there for the next.      *)
RequestsAnswered ==
  \A th \in Threads : wait[th] # "none" ~> wait[th] = "none" \/ silent

(* The window's thread comes back to its message loop after each room that is
   asked for, also after the room the user is in.                            *)
WindowComesBack == wait["window"] = "room" ~> wait["window"] = "none"
===============================================================================

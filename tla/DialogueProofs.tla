---------------------------- MODULE DialogueProofs ----------------------------
(***************************************************************************)
(* One client and its session, for every set of names, rooms and uids,     *)
(* every number of logins and every user.  Nothing in the protocol says    *)
(* which request a word answers.  There are two ways in which the sides    *)
(* come to misunderstand each other, requests of both threads at a time    *)
(* and a login of one who is logged in; that there is no third rests on    *)
(* what may be under way between them in each stage of a request.          *)
(***************************************************************************)
EXTENDS Dialogue, Loops, SequenceTheorems, TLAPS

Parts  == {"hello", "command", "creds", "length", "text", "room"}
Pieces == [from : Threads, part : Parts, v : Asked \cup Names \cup Rooms \cup {0}]

(* What the session has still to receive of th's request. *)
Due(th) == toServer \o todo[th]

-------------------------------------------------------------------------------
(***************************************************************************)
(* A piece that is sent moves from one end of Due to the other, and one    *)
(* that is received is the first of Due.                                   *)
(***************************************************************************)
LEMMA SendMoves ==
  ASSUME NEW S, NEW s \in Seq(S), NEW t \in Seq(S), t # << >>
  PROVE  Append(s, Head(t)) \o Tail(t) = s \o t
<1>1. Head(t) \in S /\ Tail(t) \in Seq(S) /\ t = <<Head(t)>> \o Tail(t)
  BY SMT
<1>2. Append(s, Head(t)) = s \o <<Head(t)>> /\ <<Head(t)>> \in Seq(S)
  BY <1>1, AppendIsConcat
<1>3. QED
  BY <1>1, <1>2, ConcatAssociative

LEMMA FirstOf ==
  ASSUME NEW S, NEW s \in Seq(S), NEW t \in Seq(S), s # << >>
  PROVE  /\ s \o t # << >> /\ Head(s \o t) = Head(s) /\ Tail(s \o t) = Tail(s) \o t
<1>1. s \o t # << >>
  BY ConcatEqualIffEmpty
<1>2. Head(s \o t) = Head(s)
  BY SMT
<1>3. Tail(s \o t) = Tail(s) \o t
  BY SMT
<1>4. QED
  BY <1>1, <1>2, <1>3

(* An answer is one word or two. *)
LEMMA OneOrTwo ==
  ASSUME NEW a, NEW b
  PROVE  /\ <<a>> # << >> /\ Head(<<a>>) = a /\ Tail(<<a>>) = << >>
         /\ <<a, b>> # << >> /\ Head(<<a, b>>) = a /\ Tail(<<a, b>>) = <<b>>
BY SMT

(* A request is its command word and a body that depends on the command. *)
LEMMA Requests ==
  ASSUME NEW th \in Threads, NEW what \in Asked, NEW v \in Names \cup Rooms \cup {0}
  PROVE  /\ Body(th, what, v) \in Seq(Pieces)
         /\ Sends(th, what, v) \in Seq(Pieces)
         /\ Sends(th, what, v) # << >>
         /\ Head(Sends(th, what, v)) = Piece(th, "command", what)
         /\ Tail(Sends(th, what, v)) = Body(th, what, v)
         /\ Len(Sends(th, what, v)) <= 3
<1> DEFINE c == Piece(th, "command", what)
           b == Body(th, what, v)
<1>1. c \in Pieces /\ Piece(th, "creds", v) \in Pieces /\ Piece(th, "room", v) \in Pieces
      /\ Piece(th, "length", 0) \in Pieces /\ Piece(th, "text", 0) \in Pieces
  BY DEF Piece, Pieces, Parts
<1>2. b \in Seq(Pieces) /\ Len(b) <= 2
  <2>1. CASE what \in {"login", "reg"}
    <3>1. b = <<Piece(th, "creds", v)>>
      BY <2>1 DEF Body
    <3>2. QED
      BY <1>1, <3>1
  <2>2. CASE what = "logout"
    <3>1. b = << >>
      BY <2>2 DEF Body
    <3>2. QED
      BY <3>1
  <2>3. CASE what = "say"
    <3>1. b = <<Piece(th, "length", 0), Piece(th, "text", 0)>>
      BY <2>3 DEF Body
    <3>2. QED
      BY <1>1, <3>1
  <2>4. CASE what = "room"
    <3>1. b = <<Piece(th, "room", v)>>
      BY <2>4 DEF Body
    <3>2. QED
      BY <1>1, <3>1
  <2>5. QED
    BY <2>1, <2>2, <2>3, <2>4 DEF Asked
<1>3. Sends(th, what, v) = <<c>> \o b
  BY DEF Sends
<1>4. <<c>> \in Seq(Pieces) /\ <<c>> # << >> /\ Head(<<c>>) = c /\ Tail(<<c>>) = << >> /\ Len(<<c>>) = 1
  BY <1>1
<1>5. Head(<<c>> \o b) = c /\ <<c>> \o b # << >> /\ Tail(<<c>> \o b) = << >> \o b
  BY <1>2, <1>4, FirstOf
<1>6. << >> \o b = b
  BY <1>2, ConcatEmptySeq
<1>7. <<c>> \o b \in Seq(Pieces) /\ Len(<<c>> \o b) <= 3
  BY <1>2, <1>4
<1>8. QED
  BY <1>2, <1>3, <1>5, <1>6, <1>7
(***************************************************************************)
(* The stages of a request.  All that can be under way between the client  *)
(* and the session while the talk socket is up is what one of them says.   *)
(***************************************************************************)
Logins        == {"login", "reg"}
Success(what) == IF what = "login" THEN USER_LOGIN_SUCCES ELSE USER_REGISTER_SUCCESS
To(word, th, what) == [word |-> word, to |-> <<th, what>>]

Values(what) == CASE what \in Logins           -> Names
                  [] what = "room"             -> {pressed} \cap Rooms
                  [] what \in {"logout", "say"} -> {0}

(* Both sides take the user to be the same, or the uid is on its way to the
   frame, and to be in the same room, unless a refusal was not looked at.    *)
SameUser == IF spc = "setId" THEN id = 0 /\ uid = my_id /\ uid \in Uids ELSE id = my_id
SameRoom == refused \/ curr_room = chat
Agreed   == SameUser /\ SameRoom

Busy(th)   == wait[th] # "none"
LoggedOut(th) == wait[th] \in Logins => my_id = 0

Resting ==
  /\ \A th \in Threads : ~Busy(th)
  /\ toServer = << >> /\ toClient = << >>
  /\ spc \in {"recv", "setId"} /\ Agreed

Greeted ==
  /\ wait["console"] = "connect"
  /\ Agreed /\ my_id = 0
  /\ \/ spc = "hello" /\ Due("console") = <<Piece("console", "hello", 0)>> /\ toClient = << >>
     \/ spc = "recv" /\ Due("console") = << >> /\ toClient = <<To(USER_OK, "console", "connect")>>

Asking(th) ==
  /\ wait[th] \in Asked /\ LoggedOut(th)
  /\ \E v \in Values(wait[th]) : Due(th) = Sends(th, wait[th], v)
  /\ spc \in {"recv", "setId"} /\ toClient = << >> /\ Agreed

Serving(th) ==
  /\ wait[th] \in Asked /\ LoggedOut(th)
  /\ request.from = th /\ request.v = wait[th]
  /\ \/ spc = wait[th] /\ \E v \in Values(wait[th]) : Due(th) = Body(th, wait[th], v)
     \/ spc = "text" /\ wait[th] = "say" /\ Due(th) = <<Piece(th, "text", 0)>>
     \/ spc = "verdict" /\ wait[th] \in Logins /\ Due(th) = << >>
  /\ toClient = << >> /\ Agreed

(* Between the verdict and the uid, and after both. *)
Granted ==
  /\ spc = "grant" /\ id = 0 /\ my_id = 0 /\ SameRoom
  /\ request.from = "console" /\ request.v \in Logins
  /\ Due("console") = << >>
  /\ \/ wait["console"] = request.v /\ toClient = <<To(Success(request.v), "console", request.v)>>
     \/ wait["console"] = "uid" /\ toClient = << >>

Told ==
  /\ my_id = 0 /\ SameRoom /\ Due("console") = << >>
  /\ \E what \in Logins, u \in Uids :
       /\ \/ spc = "setId" /\ uid = u /\ id = 0
          \/ spc = "recv" /\ id = u
       /\ \/ /\ wait["console"] = what
             /\ toClient = <<To(Success(what), "console", what), To(u, "console", what)>>
          \/ wait["console"] = "uid" /\ toClient = <<To(u, "console", what)>>

Answered(th) ==
  /\ wait[th] \in Asked /\ LoggedOut(th)
  /\ spc = "recv" /\ Due(th) = << >>
  /\ \E word \in 0 .. 5 :
       /\ toClient = <<To(word, th, wait[th])>>
       /\ wait[th] \in Logins => word # Success(wait[th])
  /\ IF wait[th] = "logout" THEN id = 0 ELSE id = my_id
  /\ IF wait[th] = "room" THEN refused \/ (chat = pressed /\ curr_room # pressed)
                          ELSE SameRoom

(* A room has been left. *)
Unanswered ==
  /\ wait["window"] = "room"
  /\ spc = "recv" /\ id = my_id
  /\ Due("window") = << >> /\ toClient = << >>

Talking == \/ Resting \/ Greeted \/ Granted \/ Told \/ Unanswered
           \/ \E th \in Threads : Asking(th) \/ Serving(th) \/ Answered(th)

(* After the cut only words of one answer are left, and they suit the thread
   that waits.                                                               *)
Fits ==
  toClient # << >> =>
    \E th \in Threads :
      /\ todo[th] = << >>
      /\ \/ /\ wait[th] \in Asked \cup {"connect"}
            /\ \E word \in 0 .. 5 : toClient = <<To(word, th, wait[th])>>
         \/ /\ th = "console" /\ wait[th] \in Logins
            /\ \E u \in Uids : toClient = <<To(Success(wait[th]), th, wait[th]), To(u, th, wait[th])>>
         \/ /\ th = "console" /\ wait[th] = "uid"
            /\ \E what \in Logins, u \in Uids : toClient = <<To(u, th, what)>>

Wire ==
  /\ link = "none" => /\ toServer = << >> /\ toClient = << >> /\ spc = "hello"
                      /\ wait["console"] = "connect" /\ todo["console"] = << >>
                      /\ my_id = 0 /\ Agreed
  /\ link = "up"   => Talking
  /\ link = "cut"  => spc = "ended" /\ toServer = << >> /\ Fits

(* One request at a time. *)
Turns ==
  /\ \A th \in Threads : ~Busy(th) => todo[th] = << >>
  /\ \A th, u \in Threads : Busy(th) /\ Busy(u) => th = u
  /\ wait["console"] # "room"
  /\ wait["window"] \in {"none", "say", "room"}

(* A login that is under way has a listener left to start. *)
LoginUnderWay ==
  wait["console"] \in Logins \cup {"uid"} => my_id = 0 /\ lst[MaxLogins] = "none"

NameOfAccount == /\ logged <=> id # 0
                 /\ logged => name = account

Typed == /\ DialogueTypeOK
         /\ todo \in [Threads -> Seq(Pieces)]
         /\ toServer \in Seq(Pieces)

(* The client's uid has a listener, or one is on its way that will present it,
   or it is about to be given up.                                            *)
Coming(u) == \E l \in Listeners : lst[l] = "starting" \/ (lst[l] = "asked" /\ presented[l] = u)

Listening ==
  link = "up" /\ excuse = "none" /\ my_id # 0 =>
    \/ Coming(my_id)
    \/ spc # "setId" /\ share = my_id
    \/ wait["console"] = "logout" /\ toClient # << >>

DialogueInv == Typed /\ Turns /\ LoginUnderWay /\ NameOfAccount /\ Wire /\ Listening

(* Only one thread waits for an answer, and not for that to a login while the
   client has a uid.  The client makes sure of neither.                      *)
Orderly ==
  /\ \A th, u \in Threads : Busy(th) /\ Busy(u) => th = u
  /\ \A th \in Threads : LoggedOut(th)

(* The user of whom the runs take both for granted: see Willing. *)
Careful == {"waits", "heeds"} \subseteq Habits

-------------------------------------------------------------------------------
(* What a recv takes is the first of what is due, and a send takes nothing
   from it.                                                                  *)
LEMMA ReceiveDue ==
  ASSUME Typed, NEW th \in Threads, toServer # << >>
  PROVE  /\ Due(th) # << >> /\ Head(toServer) = Head(Due(th))
         /\ Receive /\ todo' = todo => Due(th)' = Tail(Due(th))
<1>1. todo[th] \in Seq(Pieces) /\ toServer \in Seq(Pieces)
  BY DEF Typed
<1>2. /\ Due(th) # << >> /\ Head(Due(th)) = Head(toServer)
      /\ Tail(Due(th)) = Tail(toServer) \o todo[th]
  BY <1>1, FirstOf DEF Due
<1>3. QED
  BY <1>2 DEF Receive, Due

LEMMA NothingDue ==
  ASSUME Typed, NEW th \in Threads
  PROVE  Due(th) = << >> <=> toServer = << >> /\ todo[th] = << >>
BY ConcatEqualIffEmpty DEF Typed, Due

LEMMA SendDue ==
  ASSUME Typed, NEW th \in Threads, Send(th), link = "up"
  PROVE  Due(th)' = Due(th)
<1>1. todo[th] \in Seq(Pieces) /\ toServer \in Seq(Pieces) /\ todo[th] # << >>
  BY DEF Typed, Send
<1>2. toServer' = Append(toServer, Head(todo[th])) /\ todo'[th] = Tail(todo[th])
  BY DEF Typed, Send
<1>3. QED
  BY <1>1, <1>2, SendMoves DEF Due

(* The words of an answer are appended to those that are under way. *)
LEMMA ReplyWords ==
  ASSUME NEW w, toClient = << >>
  PROVE  /\ Reply(<<w>>) => toClient' = <<Answer(w)>>
         /\ Reply(<< >>) => toClient' = << >>
<1>1. [i \in DOMAIN <<w>> |-> Answer(<<w>>[i])] = <<Answer(w)>>
  OBVIOUS
<1>2. [i \in DOMAIN << >> |-> Answer(<< >>[i])] = << >>
  OBVIOUS
<1>3. << >> \o <<Answer(w)>> = <<Answer(w)>> /\ << >> \o << >> = << >>
  OBVIOUS
<1>4. QED
  BY <1>1, <1>2, <1>3 DEF Reply

LEMMA ReplySecond ==
  ASSUME NEW a, NEW w, toClient = <<a>>, Reply(<<w>>)
  PROVE  toClient' = <<a, Answer(w)>>
<1>1. [i \in DOMAIN <<w>> |-> Answer(<<w>>[i])] = <<Answer(w)>>
  OBVIOUS
<1> DEFINE S == {a, Answer(w)}
<1>2. <<a>> \in Seq(S) /\ Answer(w) \in S
  OBVIOUS
<1>3. <<a>> \o <<Answer(w)>> = Append(<<a>>, Answer(w))
  BY <1>2, AppendIsConcat
<1>4. Append(<<a>>, Answer(w)) = <<a, Answer(w)>>
  <2> HIDE DEF S
  <2> DEFINE x == Answer(w)
             app == Append(<<a>>, x)
             two == <<a, x>>
  <2>1. a \in S /\ x \in S
    BY DEF S
  <2> HIDE DEF x
  <2>2. Len(<<a>>) = 1 /\ <<a>>[1] = a /\ <<a>> \in Seq(S)
    BY <2>1
  <2>3. app \in Seq(S) /\ Len(app) = 2 /\ app[1] = a /\ app[2] = x
    BY <2>1, <2>2, AppendProperties
  <2>4. two \in Seq(S) /\ Len(two) = 2 /\ two[1] = a /\ two[2] = x
    BY <2>1
  <2> HIDE DEF app, two
  <2>5. app = two
    <3>1. \A i \in 1 .. Len(app) : app[i] = two[i]
      BY <2>3, <2>4
    <3>2. QED
      BY <3>1, <2>3, <2>4, SeqEqual
  <2>6. QED
    BY <2>5 DEF app, two, x
<1>5. QED
  BY <1>1, <1>3, <1>4 DEF Reply

LEMMA DialogueStarts == Init => DialogueInv
<1> SUFFICES ASSUME Init PROVE DialogueInv
  OBVIOUS
<1> USE DEF Init, ClientInit, ServerInit
<1>1. Typed
  <2>1. ClientTypeOK
    <3>1. wait \in [Threads -> Asked \cup {"connect", "uid", "none"}]
      BY DEF Threads
    <3>2. \A th \in Threads : Len(todo[th]) <= 3
      <4>1. Len(<< >>) = 0
        OBVIOUS
      <4>2. QED
        BY <4>1
    <3>3. /\ lst \in [Listeners -> {"none", "starting", "asked", "settled"}]
          /\ presented \in [Listeners -> Uids \cup {0}]
      OBVIOUS
    <3>4. QED
      BY <3>1, <3>2, <3>3 DEF ClientTypeOK
  <2>2. DialogueTypeOK
    BY <2>1 DEF DialogueTypeOK, NoRoom, Nobody, NoListener
  <2>3. QED
    BY <2>2, EmptySeq DEF Typed
<1>2. Turns /\ LoginUnderWay /\ NameOfAccount
  BY DEF Turns, Busy, Threads, LoginUnderWay, Logins, NameOfAccount
<1>3. Wire
  BY DEF Wire, Agreed, SameUser, SameRoom, Threads
<1>4. Listening
  BY DEF Listening
<1>5. QED
  BY <1>1, <1>2, <1>3, <1>4 DEF DialogueInv

-------------------------------------------------------------------------------
(* In which stage the client and the session are, by where the session is. *)
LEMMA StageOf ==
  ASSUME Typed, Wire, Turns, spc \notin {"hello", "ended"}
  PROVE  /\ link = "up" /\ Talking
         /\ spc = "recv" /\ toServer # << >> => \E th \in Threads : Asking(th)
         /\ spc \in Asked \cup {"text", "verdict"} => \E th \in Threads : Serving(th)
         /\ spc = "grant" => Granted
         /\ spc = "setId" => Resting \/ Told \/ \E th \in Threads : Asking(th)
<1>1. link = "up" /\ Talking
  BY DEF Wire, Typed, DialogueTypeOK, ClientTypeOK
<1>2. /\ Resting \/ (\E th \in Threads : Asking(th)) => spc \in {"recv", "setId"}
      /\ Greeted => spc \in {"hello", "recv"}
      /\ Granted => spc = "grant"
      /\ Told => spc \in {"recv", "setId"}
      /\ Unanswered \/ (\E th \in Threads : Answered(th)) => spc = "recv"
      /\ (\E th \in Threads : Serving(th)) => spc \in Asked \cup {"text", "verdict"}
  BY DEF Resting, Asking, Greeted, Granted, Told, Unanswered, Answered, Serving
<1>3. spc = "recv" /\ toServer # << >> => \E th \in Threads : Asking(th)
  <2>1. toServer # << >> => \A th \in Threads : Due(th) # << >>
    BY NothingDue
  <2>2. Greeted \/ Told \/ Unanswered \/ (\E th \in Threads : Answered(th)) =>
          spc # "recv" \/ \E th \in Threads : Due(th) = << >>
    BY DEF Greeted, Told, Unanswered, Answered, Threads
  <2>3. QED
    BY <1>1, <1>2, <2>1, <2>2 DEF Talking, Resting, Asked
<1>4. QED
  BY <1>1, <1>2, <1>3 DEF Talking, Asked

LEMMA SessionSpeaks ==
  ASSUME Typed, Wire, Turns, NameOfAccount, SessionStep, UNCHANGED clientVars
  PROVE  Wire'
<1>1. spc \notin {"hello", "ended"}
  BY DEF SessionStep, ServerStep, ReadCommand, ReadCreds, Refuse, Grant, TellUid, SetId,
         Logout, ChangeRoom, ReadLength, Message
<1>2. link = "up" /\ link' = "up" /\ Talking
  BY <1>1, StageOf DEF SessionStep
<1> SUFFICES Talking'
  BY <1>2 DEF Wire
<1>3. UNCHANGED <<my_id, curr_room, pressed, todo, wait>>
  BY DEF clientVars, inputVars
<1>4. CASE ReadCommand
  <2>1. PICK th \in Threads : Asking(th)
    BY <1>1, <1>4, StageOf DEF ReadCommand, Receive
  <2>2. PICK v \in Values(wait[th]) : Due(th) = Sends(th, wait[th], v)
    BY <2>1 DEF Asking
  <2>3. v \in Names \cup Rooms \cup {0} /\ wait[th] \in Asked
    BY <2>1, <2>2 DEF Values, Asking, Asked, Logins
  <2>4. /\ Head(toServer) = Piece(th, "command", wait[th])
        /\ Due(th)' = Body(th, wait[th], v)
    BY <1>3, <1>4, <2>2, <2>3, ReceiveDue, Requests DEF ReadCommand, Receive
  <2>5. request'.from = th /\ request'.v = wait[th] /\ spc' = wait[th]
    BY <1>4, <2>4 DEF ReadCommand, Piece
  <2>6. Agreed'
    BY <1>3, <1>4, <2>1, <2>3, <2>5 DEF ReadCommand, Asking, Agreed, SameUser, SameRoom, Asked
  <2>7. Serving(th)'
    BY <1>3, <1>4, <2>1, <2>2, <2>3, <2>4, <2>5, <2>6
       DEF Serving, Asking, ReadCommand, LoggedOut, Values
  <2>8. QED
    BY <2>7 DEF Talking
<1>5. CASE ReadCreds
  <2>1. PICK th \in Threads : Serving(th)
    BY <1>1, <1>5, StageOf DEF ReadCreds, Asked
  <2>2. wait[th] = spc /\ wait[th] \in Logins
    BY <1>5, <2>1 DEF ReadCreds, Serving, Logins
  <2>3. PICK v \in Values(wait[th]) : Due(th) = Body(th, wait[th], v)
    BY <1>5, <2>1 DEF ReadCreds, Serving
  <2>4. Due(th) = <<Piece(th, "creds", v)>>
    BY <2>2, <2>3 DEF Body, Logins
  <2>5. Due(th)' = << >>
    BY <1>3, <1>5, <2>4, ReceiveDue, OneOrTwo DEF ReadCreds, Receive
  <2>6. ~logged
    BY <2>1, <2>2 DEF Serving, LoggedOut, Agreed, SameUser, Logins, NameOfAccount
  <2>7. toClient' = << >>
    BY <1>5, <2>1, <2>6, ReplyWords DEF ReadCreds, Serving
  <2>8. Agreed'
    BY <1>3, <1>5, <2>1, <2>2 DEF ReadCreds, Serving, Agreed, SameUser, SameRoom, Logins
  <2>9. Serving(th)'
    BY <1>3, <1>5, <2>1, <2>2, <2>5, <2>7, <2>8 DEF Serving, ReadCreds, LoggedOut
  <2>10. QED
    BY <2>9 DEF Talking
<1>6. CASE Refuse
  <2>1. PICK th \in Threads : Serving(th)
    BY <1>1, <1>6, StageOf DEF Refuse
  <2>2. wait[th] \in Logins /\ Due(th) = << >>
    BY <1>6, <2>1 DEF Refuse, Serving, Asked
  <2>3. toClient' = <<To(Denial, th, wait[th])>>
    BY <1>6, <2>1, ReplyWords DEF Refuse, Serving, Answer, To
  <2>4. Denial \in 0 .. 5 /\ Denial # Success(wait[th])
    BY <2>1, <2>2 DEF Serving, Denial, Success, Logins, USER_LOGIN_DENY, USER_REGISTER_DENY,
                      USER_LOGIN_SUCCES, USER_REGISTER_SUCCESS
  <2>5. id' = my_id' /\ SameRoom' /\ Due(th)' = << >>
    BY <1>3, <1>6, <2>1, <2>2 DEF Refuse, Serving, Agreed, SameUser, SameRoom, Due
  <2>6. Answered(th)'
    BY <1>3, <1>6, <2>1, <2>2, <2>3, <2>4, <2>5 DEF Answered, Refuse, Serving, LoggedOut, Logins
  <2>7. QED
    BY <2>6 DEF Talking
<1>7. CASE Grant
  <2>1. PICK th \in Threads : Serving(th)
    BY <1>1, <1>7, StageOf DEF Grant
  <2>2. wait[th] \in Logins /\ Due(th) = << >> /\ request.v = wait[th] /\ request.from = th
    BY <1>7, <2>1 DEF Grant, Serving, Asked
  <2>3. th = "console"
    BY <2>2 DEF Turns, Logins, Threads
  <2>4. toClient' = <<To(Success(request.v), "console", request.v)>>
    BY <1>7, <2>1, <2>2, <2>3, ReplyWords DEF Grant, Serving, Answer, To, Success
  <2>5. id = 0 /\ my_id = 0 /\ SameRoom
    BY <1>7, <2>1, <2>2 DEF Grant, Serving, LoggedOut, Agreed, SameUser
  <2>6. Granted'
    BY <1>3, <1>7, <2>2, <2>3, <2>4, <2>5 DEF Grant, Granted, Due, SameRoom
  <2>7. QED
    BY <2>6 DEF Talking
<1>8. CASE TellUid
  <2>1. Granted
    BY <1>1, <1>8, StageOf DEF TellUid
  <2> DEFINE what == request.v
  <2>2. Answer(uid') = To(uid', "console", what)
    BY <2>1 DEF Granted, Answer, To
  <2>3. CASE wait["console"] = what /\ toClient = <<To(Success(what), "console", what)>>
    <3>1. toClient' = <<To(Success(what), "console", what), To(uid', "console", what)>>
      BY <1>8, <2>2, <2>3, ReplySecond DEF TellUid
    <3>2. Told'
      BY <1>3, <1>8, <2>1, <2>3, <3>1 DEF Told, TellUid, Granted, Due, SameRoom
    <3>3. QED
      BY <3>2 DEF Talking
  <2>4. CASE wait["console"] = "uid" /\ toClient = << >>
    <3>1. toClient' = <<To(uid', "console", what)>>
      BY <1>8, <2>2, <2>4, ReplyWords DEF TellUid
    <3>2. Told'
      BY <1>3, <1>8, <2>1, <2>4, <3>1 DEF Told, TellUid, Granted, Due, SameRoom
    <3>3. QED
      BY <3>2 DEF Talking
  <2>5. QED
    BY <2>1, <2>3, <2>4 DEF Granted
<1>9. CASE SetId
  <2>1. /\ UNCHANGED <<toServer, toClient, refused, chat, request>>
        /\ spc' = "recv" /\ id' = uid /\ spc = "setId"
    BY <1>9 DEF SetId
  <2>2. \A th \in Threads : Due(th)' = Due(th)
    BY <1>3, <2>1 DEF Due
  <2>3. Agreed => Agreed'
    BY <1>3, <2>1 DEF Agreed, SameUser, SameRoom
  <2>4. CASE Resting
    <3>1. Resting'
      BY <1>3, <2>1, <2>3, <2>4 DEF Resting, Busy
    <3>2. QED
      BY <3>1 DEF Talking
  <2>5. CASE Told
    <3>1. Told'
      BY <1>3, <2>1, <2>2, <2>5 DEF Told, SameRoom, Threads
    <3>2. QED
      BY <3>1 DEF Talking
  <2>6. ASSUME NEW th \in Threads, Asking(th) PROVE Talking'
    <3>1. Asking(th)'
      BY <1>3, <2>1, <2>2, <2>3, <2>6 DEF Asking, LoggedOut, Values
    <3>2. QED
      BY <3>1 DEF Talking
  <2>7. QED
    BY <1>1, <2>1, <2>4, <2>5, <2>6, StageOf
<1>10. CASE Logout
  <2>1. PICK th \in Threads : Serving(th)
    BY <1>1, <1>10, StageOf DEF Logout, Asked
  <2>2. wait[th] = "logout" /\ request.v = wait[th] /\ request.from = th
    BY <1>10, <2>1 DEF Logout, Serving, Logins
  <2>3. Due(th) = << >>
    <3>1. PICK v \in Values(wait[th]) : Due(th) = Body(th, wait[th], v)
      BY <1>10, <2>1 DEF Logout, Serving
    <3>2. QED
      BY <2>2, <3>1 DEF Body
  <2>4. toClient' = <<To(USER_OK, th, wait[th])>>
    BY <1>10, <2>1, <2>2, ReplyWords DEF Logout, Serving, Answer, To
  <2>5. id' = 0 /\ SameRoom' /\ Due(th)' = << >> /\ spc' = "recv"
    BY <1>3, <1>10, <2>1, <2>3 DEF Logout, Serving, Agreed, SameRoom, Due
  <2>6. Answered(th)'
    BY <1>3, <2>2, <2>4, <2>5 DEF Answered, Asked, LoggedOut, Logins, USER_OK
  <2>7. QED
    BY <2>6 DEF Talking
<1>11. CASE ChangeRoom
  <2>1. PICK th \in Threads : Serving(th)
    BY <1>1, <1>11, StageOf DEF ChangeRoom, Asked
  <2>2. wait[th] = "room" /\ request.v = wait[th] /\ request.from = th
    BY <1>11, <2>1 DEF ChangeRoom, Serving, Logins
  <2>3. th = "window"
    BY <2>2 DEF Turns, Threads
  <2>4. PICK r \in Values(wait[th]) : Due(th) = Body(th, wait[th], r)
    BY <1>11, <2>1 DEF ChangeRoom, Serving, Logins
  <2>5. r = pressed /\ Due(th) = <<Piece(th, "room", r)>>
    BY <2>2, <2>4 DEF Values, Body, Logins
  <2>6. Head(toServer).v = pressed /\ Due(th)' = << >>
    <3>1. Head(toServer) = Head(Due(th)) /\ Due(th)' = Tail(Due(th))
      BY <1>3, <1>11, ReceiveDue DEF ChangeRoom, Receive
    <3>2. QED
      BY <2>5, <3>1, OneOrTwo DEF Piece
  <2>7. id' = my_id' /\ spc' = "recv"
    BY <1>3, <1>11, <2>1 DEF ChangeRoom, Serving, Agreed, SameUser
  <2>8. CASE Reply(<<USER_ACCESS_DENY>>) /\ refused'
    <3>1. toClient' = <<To(USER_ACCESS_DENY, th, wait[th])>>
      BY <2>1, <2>2, <2>8, ReplyWords DEF Serving, Answer, To
    <3>2. Answered(th)'
      BY <1>3, <2>2, <2>6, <2>7, <2>8, <3>1
         DEF Answered, Asked, LoggedOut, Logins, USER_ACCESS_DENY
    <3>3. QED
      BY <3>2 DEF Talking
  <2>9. CASE UNCHANGED toClient
    <3>1. Unanswered'
      BY <1>3, <2>1, <2>2, <2>3, <2>6, <2>7, <2>9 DEF Unanswered, Serving
    <3>2. QED
      BY <3>1 DEF Talking
  <2>10. CASE Reply(<<USER_OK>>) /\ chat # pressed /\ chat' = pressed /\ refused' = refused
    <3>1. toClient' = <<To(USER_OK, th, wait[th])>>
      BY <2>1, <2>2, <2>10, ReplyWords DEF Serving, Answer, To
    <3>2. refused' \/ (chat' = pressed' /\ curr_room' # pressed')
      BY <1>3, <2>1, <2>10 DEF Serving, Agreed, SameRoom
    <3>3. Answered(th)'
      BY <1>3, <2>2, <2>6, <2>7, <3>1, <3>2 DEF Answered, Asked, LoggedOut, Logins, USER_OK
    <3>4. QED
      BY <3>3 DEF Talking
  <2>11. QED
    BY <1>11, <2>6, <2>8, <2>9, <2>10 DEF ChangeRoom
<1>12. CASE ReadLength
  <2>1. PICK th \in Threads : Serving(th)
    BY <1>1, <1>12, StageOf DEF ReadLength, Asked
  <2>2. wait[th] = "say"
    BY <1>12, <2>1 DEF ReadLength, Serving, Logins
  <2>3. PICK v \in Values(wait[th]) : Due(th) = Body(th, wait[th], v)
    BY <1>12, <2>1 DEF ReadLength, Serving
  <2>4. Due(th) = <<Piece(th, "length", 0), Piece(th, "text", 0)>>
    BY <2>2, <2>3 DEF Body
  <2>5. Due(th)' = <<Piece(th, "text", 0)>>
    <3>1. Due(th)' = Tail(Due(th))
      BY <1>3, <1>12, ReceiveDue DEF ReadLength, Receive
    <3>2. QED
      BY <2>4, <3>1, OneOrTwo
  <2>6. Agreed'
    BY <1>3, <1>12, <2>1 DEF ReadLength, Serving, Agreed, SameUser, SameRoom
  <2>7. Serving(th)'
    BY <1>3, <1>12, <2>1, <2>2, <2>5, <2>6 DEF ReadLength, Serving, LoggedOut
  <2>8. QED
    BY <2>7 DEF Talking
<1>13. CASE Message
  <2>1. PICK th \in Threads : Serving(th)
    BY <1>1, <1>13, StageOf DEF Message
  <2>2. wait[th] = "say" /\ request.v = wait[th] /\ request.from = th
        /\ Due(th) = <<Piece(th, "text", 0)>>
    BY <1>13, <2>1 DEF Message, Serving, Asked
  <2>3. Due(th)' = << >>
    BY <1>3, <1>13, <2>2, ReceiveDue, OneOrTwo DEF Message, Receive
  <2>4. PICK word \in {USER_OK, USER_ACCESS_DENY} : Reply(<<word>>)
    BY <1>13 DEF Message
  <2>5. toClient' = <<To(word, th, wait[th])>> /\ word \in 0 .. 5
    BY <2>1, <2>2, <2>4, ReplyWords DEF Serving, Answer, To, USER_OK, USER_ACCESS_DENY
  <2>6. id' = my_id' /\ SameRoom'
    BY <1>3, <1>13, <2>1 DEF Message, Serving, Agreed, SameUser, SameRoom
  <2>7. Answered(th)'
    BY <1>3, <1>13, <2>2, <2>3, <2>5, <2>6 DEF Answered, Message, Asked, LoggedOut, Logins
  <2>8. QED
    BY <2>7 DEF Talking
<1>14. QED
  BY <1>4, <1>5, <1>6, <1>7, <1>8, <1>9, <1>10, <1>11, <1>12, <1>13 DEF SessionStep, ServerStep

(* Each stage leaves what suits the thread that waits for it, whenever the
   socket is cut.                                                            *)
LEMMA StageFits == Typed /\ Turns /\ Talking => Fits
<1> SUFFICES ASSUME Typed, Turns, Talking, toClient # << >> PROVE Fits
  BY DEF Fits
<1>1. CASE Greeted
  BY <1>1, NothingDue DEF Fits, Greeted, Threads, USER_OK
<1>2. CASE Granted
  BY <1>2, NothingDue DEF Fits, Granted, Threads, Logins, Success, Asked,
                          USER_LOGIN_SUCCES, USER_REGISTER_SUCCESS
<1>3. CASE Told
  BY <1>3, NothingDue DEF Fits, Told, Threads
<1>4. ASSUME NEW th \in Threads, Answered(th) PROVE Fits
  <2>1. todo[th] = << >> /\ wait[th] \in Asked \cup {"connect"}
    BY <1>4, NothingDue DEF Answered
  <2>2. PICK word \in 0 .. 5 : toClient = <<To(word, th, wait[th])>>
    BY <1>4 DEF Answered
  <2>3. QED
    BY <2>1, <2>2 DEF Fits
<1>5. QED
  BY <1>1, <1>2, <1>3, <1>4 DEF Talking, Resting, Unanswered, Asking, Serving

LEMMA AcceptLoopSpeaks ==
  ASSUME Typed, Wire, Turns, Admit, UNCHANGED clientVars
  PROVE  Wire'
<1>1. link = "up" /\ Greeted
  <2>1. link \in {"none", "up", "cut"} /\ spc = "hello" /\ toServer # << >>
    BY DEF Typed, DialogueTypeOK, ClientTypeOK, Admit, Receive
  <2>2. link = "up" /\ Talking
    BY <2>1 DEF Wire
  <2>3. QED
    BY <2>1, <2>2 DEF Talking, Resting, Granted, Told, Unanswered, Asking, Serving, Answered, Asked
<1>2. UNCHANGED <<my_id, curr_room, pressed, todo, wait, id, uid, chat, refused>>
  BY DEF clientVars, inputVars, Admit
<1>3. /\ Due("console") = <<Piece("console", "hello", 0)>> /\ toClient = << >>
      /\ spc = "hello" /\ wait["console"] = "connect" /\ my_id = 0 /\ Agreed
  BY <1>1 DEF Greeted, Admit
<1>4. Due("console")' = << >>
  BY <1>2, <1>3, ReceiveDue, OneOrTwo DEF Admit, Receive, Threads
<1>5. ASSUME NEW word, Greeting(word) PROVE toClient' = <<To(word, "console", "connect")>>
  BY <1>3, <1>5 DEF Greeting, To
<1>6. CASE Greeting(USER_OK) /\ spc' = "recv" /\ UNCHANGED link
  <2>1. Agreed'
    BY <1>2, <1>3, <1>6 DEF Agreed, SameUser, SameRoom
  <2>2. Greeted'
    BY <1>2, <1>3, <1>4, <1>5, <1>6, <2>1 DEF Greeted
  <2>3. QED
    BY <1>1, <1>6, <2>2 DEF Wire, Talking
<1>7. CASE Greeting(USER_ACCESS_DENY) /\ spc' = "ended" /\ link' = "cut"
  <2>1. toServer' = << >> /\ todo["console"] = << >>
    <3>1. toServer \in Seq(Pieces) /\ todo["console"] \in Seq(Pieces) /\ toServer # << >>
      BY DEF Typed, Threads, Admit, Receive
    <3>2. Tail(toServer) \o todo["console"] = << >> /\ Tail(toServer) \in Seq(Pieces)
      BY <1>2, <1>4, <3>1, HeadTailProperties DEF Due, Admit, Receive
    <3>3. QED
      BY <3>1, <3>2, ConcatEqualIffEmpty DEF Admit, Receive
  <2>2. toClient' = <<To(USER_ACCESS_DENY, "console", "connect")>>
    BY <1>5, <1>7
  <2>3. Fits'
    BY <1>2, <1>3, <2>1, <2>2 DEF Fits, Threads, USER_ACCESS_DENY
  <2>4. QED
    BY <1>7, <2>1, <2>3 DEF Wire
<1>8. QED
  BY <1>6, <1>7 DEF Admit

LEMMA CutFits ==
  ASSUME Typed, Wire, Turns, Cut, UNCHANGED clientVars
  PROVE  Wire'
<1>1. Fits
  BY StageFits DEF Wire, Cut
<1>2. UNCHANGED <<todo, wait>> /\ toClient' \in {toClient, << >>}
  BY DEF clientVars, Cut
<1>3. Fits'
  BY <1>1, <1>2 DEF Fits
<1>4. QED
  BY <1>3 DEF Wire, Cut


-------------------------------------------------------------------------------
(* A request that leaves the state orderly is begun when nothing is under way. *)
LEMMA InTurn ==
  ASSUME Typed, Orderly', NEW th \in Threads, NEW what \in Asked, NEW v, Request(th, what, v)
  PROVE  /\ \A t \in Threads : wait[t] = "none"
         /\ what \in Logins => my_id = 0
<1>1. wait[th] = "none" /\ wait'[th] = what /\ what # "none" /\ my_id' = my_id
  BY DEF Request, Typed, DialogueTypeOK, ClientTypeOK, Asked
<1>2. \A t \in Threads : t # th => wait'[t] = wait[t]
  BY DEF Request, Typed, DialogueTypeOK, ClientTypeOK
<1>3. QED
  BY <1>1, <1>2 DEF Orderly, Busy, LoggedOut

LEMMA UserSpeaks ==
  ASSUME Orderly', Typed, Turns, Wire, NEW th \in Threads, NEW what \in Asked,
         NEW v \in Names \cup Rooms \cup {0}, v \in Values(what)',
         Request(th, what, v), UNCHANGED serverVars
  PROVE  Wire'
<1>1. \A t \in Threads : ~Busy(t) /\ todo[t] = << >>
  BY InTurn DEF Turns, Busy
<1>2. what \in Logins => my_id = 0
  BY InTurn
<1>3. /\ wait' = [wait EXCEPT ![th] = what] /\ todo' = [todo EXCEPT ![th] = Sends(th, what, v)]
      /\ UNCHANGED <<my_id, curr_room, link, toServer, toClient>>
      /\ UNCHANGED <<spc, request, id, chat, refused, uid>>
  BY DEF Request, wireVars, serverVars, sessionVars
<1>4. wait'[th] = what /\ todo'[th] = Sends(th, what, v)
  BY <1>3 DEF Typed, DialogueTypeOK, ClientTypeOK
<1>5. link # "none"
  BY <1>1 DEF Wire, Busy, Threads
<1>6. CASE link = "up"
  <2>1. Resting
    BY <1>1, <1>6 DEF Wire, Talking, Greeted, Granted, Told, Unanswered, Asking, Serving, Answered,
                      Busy, Threads, Asked, Logins
  <2>2. Due(th)' = Sends(th, what, v)
    BY <1>3, <1>4, <2>1, Requests, ConcatEmptySeq DEF Resting, Due
  <2>3. Agreed'
    BY <1>3, <2>1 DEF Resting, Agreed, SameUser, SameRoom
  <2>4. Asking(th)'
    BY <1>2, <1>3, <1>4, <2>1, <2>2, <2>3 DEF Asking, Resting, LoggedOut
  <2>5. QED
    BY <1>3, <1>6, <2>4 DEF Wire, Talking
<1>7. CASE link = "cut"
  <2>1. toClient = << >>
    BY <1>1, <1>7 DEF Wire, Fits, Busy, Asked, Logins
  <2>2. QED
    BY <1>3, <1>7, <2>1 DEF Wire, Fits
<1>8. QED
  BY <1>5, <1>6, <1>7 DEF Typed, DialogueTypeOK, ClientTypeOK

LEMMA InputSpeaks ==
  ASSUME Orderly', Typed, Turns, Wire, Input, UNCHANGED serverVars
  PROVE  Wire'
<1>1. CASE TypeCredentials
  <2>1. PICK what \in {"login", "reg"}, n \in Names : Request("console", what, n)
    BY <1>1 DEF TypeCredentials
  <2>2. n \in Values(what)' /\ what \in Asked
    BY <2>1 DEF Values, Logins, Asked
  <2>3. QED
    BY <2>1, <2>2, UserSpeaks DEF Threads
<1>2. CASE TypeLogout
  <2>1. 0 \in Values("logout")' /\ "logout" \in Asked
    BY DEF Values, Logins, Asked
  <2>2. QED
    BY <1>2, <2>1, UserSpeaks DEF Threads, TypeLogout
<1>3. CASE TypeText \/ PressSend
  <2>1. 0 \in Values("say")' /\ "say" \in Asked
    BY DEF Values, Logins, Asked
  <2>2. QED
    BY <1>3, <2>1, UserSpeaks DEF Threads, TypeText, PressSend
<1>4. CASE PressRoom
  <2>1. PICK r \in Rooms : Request("window", "room", r) /\ pressed' = r
    BY <1>4 DEF PressRoom
  <2>2. r \in Values("room")' /\ "room" \in Asked
    BY <2>1 DEF Values, Logins, Asked
  <2>3. QED
    BY <2>1, <2>2, UserSpeaks DEF Threads
<1>5. QED
  BY <1>1, <1>2, <1>3, <1>4 DEF Input

LEMMA ConnectSpeaks ==
  ASSUME Typed, Wire, Connect, UNCHANGED serverVars
  PROVE  Wire'
<1>1. UNCHANGED <<my_id, curr_room, todo, wait, spc, id, uid, chat, refused, toClient>>
  BY DEF Connect, clientVars, inputVars, serverVars, sessionVars
<1>2. Agreed' /\ wait'["console"] = "connect" /\ my_id' = 0 /\ spc' = "hello" /\ toClient' = << >>
  BY <1>1 DEF Wire, Connect, Agreed, SameUser, SameRoom
<1>3. Due("console")' = <<Piece("console", "hello", 0)>>
  <2>1. toServer' = <<Piece("console", "hello", 0)>> /\ todo'["console"] = << >>
    BY <1>1 DEF Wire, Connect
  <2>2. QED
    BY <2>1 DEF Due
<1>4. QED
  BY <1>2, <1>3 DEF Wire, Connect, Talking, Greeted

(* A send moves no stage on. *)
LEMMA SendSpeaks ==
  ASSUME Typed, Turns, Wire, NEW th \in Threads, Send(th), UNCHANGED serverVars
  PROVE  Wire'
<1>1. UNCHANGED <<my_id, curr_room, pressed, wait, link, toClient>>
      /\ UNCHANGED <<spc, request, id, chat, refused, uid>>
  BY DEF Send, inputVars, serverVars, sessionVars
<1>2. Busy(th) /\ \A t \in Threads : t # th => ~Busy(t)
  BY DEF Turns, Send
<1>3. Agreed <=> Agreed'
  BY <1>1 DEF Agreed, SameUser, SameRoom
<1>4. CASE link = "up"
  <2>1. Due(th)' = Due(th)
    BY <1>4, SendDue
  <2>2. Due(th) # << >>
    BY NothingDue DEF Send
  <2>3. CASE Greeted
    <3>1. th = "console"
      BY <1>2, <2>3 DEF Greeted, Busy, Threads
    <3>2. Greeted'
      BY <1>1, <1>3, <2>1, <2>3, <3>1 DEF Greeted
    <3>3. QED
      BY <1>1, <1>4, <3>2 DEF Wire, Talking
  <2>4. ASSUME NEW t \in Threads, Asking(t) PROVE Wire'
    <3>1. t = th
      BY <1>2, <2>4 DEF Asking, Busy, Asked
    <3>2. Asking(th)'
      BY <1>1, <1>3, <2>1, <2>4, <3>1 DEF Asking, LoggedOut, Values
    <3>3. QED
      BY <1>1, <1>4, <3>2 DEF Wire, Talking
  <2>5. ASSUME NEW t \in Threads, Serving(t) PROVE Wire'
    <3>1. t = th
      BY <1>2, <2>5 DEF Serving, Busy, Asked
    <3>2. Serving(th)'
      BY <1>1, <1>3, <2>1, <2>5, <3>1 DEF Serving, LoggedOut, Values
    <3>3. QED
      BY <1>1, <1>4, <3>2 DEF Wire, Talking
  <2>6. ~Resting
    BY <1>2 DEF Resting
  <2>7. ~Granted /\ ~Told /\ ~Unanswered /\ \A t \in Threads : ~Answered(t)
    <3>1. ASSUME NEW t \in Threads, Due(t) = << >>, Busy(t) PROVE FALSE
      BY <1>2, <2>2, <3>1
    <3>2. QED
      BY <3>1 DEF Granted, Told, Unanswered, Answered, Busy, Threads, Asked, Logins
  <2>8. QED
    BY <1>4, <2>3, <2>4, <2>5, <2>6, <2>7 DEF Wire, Talking
<1>5. CASE link = "cut"
  <2>1. toServer' = << >>
    BY <1>5 DEF Wire, Send
  <2>2. toClient = << >>
    <3>1. ASSUME NEW t \in Threads, wait[t] # "none", todo[t] = << >> PROVE FALSE
      BY <1>2, <3>1 DEF Busy, Send
    <3>2. QED
      BY <1>5, <3>1 DEF Wire, Fits, Asked, Logins
  <2>3. QED
    BY <1>1, <1>5, <2>1, <2>2 DEF Wire, Fits
<1>6. CASE link = "none"
  <2>1. FALSE
    BY <1>2, <1>6 DEF Wire, Busy, Send, Threads
  <2>2. QED
    BY <2>1
<1>7. QED
  BY <1>4, <1>5, <1>6 DEF Typed, DialogueTypeOK, ClientTypeOK

-------------------------------------------------------------------------------
(***************************************************************************)
(* The answers.  A thread that takes a word is the one the word is for, or *)
(* the socket is cut and there is none.                                    *)
(***************************************************************************)
LEMMA TakesHis ==
  ASSUME Typed, Turns, Wire, NEW th \in Threads, Busy(th), Takes(th), link = "up"
  PROVE  /\ toClient # << >> /\ toClient' = Tail(toClient)
         /\ \/ th = "console" /\ (Greeted \/ Granted \/ Told)
            \/ Answered(th)
<1>1. toClient # << >> /\ toClient' = Tail(toClient)
  BY DEF Takes
<1>2. \A t \in Threads : Busy(t) => t = th
  BY DEF Turns
<1>3. /\ Greeted \/ Granted \/ Told => Busy("console")
      /\ \A t \in Threads : Answered(t) => Busy(t)
  BY DEF Greeted, Granted, Told, Answered, Busy, Asked, Logins
<1>4. QED
  BY <1>1, <1>2, <1>3 DEF Wire, Talking, Resting, Unanswered, Asking, Serving, Threads

(* An answer's only or last word ends the request. *)
LEMMA RestAfter ==
  ASSUME Turns, NEW th \in Threads, Busy(th), Done(th),
         wait \in [Threads -> Asked \cup {"connect", "uid", "none"}]
  PROVE  \A t \in Threads : ~Busy(t)'
BY DEF Turns, Busy, Done

LEMMA CutTakes ==
  ASSUME Typed, Turns, Wire, NEW th \in Threads, Busy(th), Takes(th), link = "cut",
         UNCHANGED serverVars
  PROVE  /\ link' = "cut" /\ toServer' = << >> /\ spc' = "ended"
         /\ \/ toClient' = << >>
            \/ /\ th = "console" /\ wait[th] \in Logins /\ todo'[th] = << >>
               /\ Word = Success(wait[th])
               /\ \E u \in Uids : toClient' = <<To(u, th, wait[th])>>
<1>1. link' = "cut" /\ toServer' = << >> /\ spc' = "ended" /\ todo'[th] = << >> /\ Fits
  BY DEF Wire, Takes, serverVars, sessionVars
<1>2. CASE toClient = << >>
  BY <1>1, <1>2 DEF Takes
<1>3. CASE toClient # << >>
  <2>1. toClient' = Tail(toClient)
    BY <1>3 DEF Takes
  <2>2. ASSUME NEW a, toClient = <<a>> PROVE toClient' = << >>
    BY <2>1, <2>2, OneOrTwo
  <2>3. ASSUME NEW t \in Threads, t = "console", wait[t] \in Logins, NEW u \in Uids,
               toClient = <<To(Success(wait[t]), t, wait[t]), To(u, t, wait[t])>>
        PROVE  /\ th = "console" /\ wait[th] \in Logins
               /\ Word = Success(wait[th]) /\ toClient' = <<To(u, th, wait[th])>>
    <3>1. t = th
      BY <2>3 DEF Turns, Busy, Logins
    <3>2. Head(toClient) = To(Success(wait[t]), t, wait[t]) /\ Tail(toClient) = <<To(u, t, wait[t])>>
      BY <2>3, OneOrTwo
    <3>3. QED
      BY <1>3, <2>1, <2>3, <3>1, <3>2 DEF Word, To
  <2>4. QED
    BY <1>1, <1>3, <2>2, <2>3 DEF Fits
<1>4. QED
  BY <1>1, <1>2, <1>3

(* What each of the client's steps that takes an answer does. *)
TakesAnswer(th) ==
  \/ th = "console" /\ (TakeAck \/ TakeVerdict \/ TakeUid \/ TakeLogout)
  \/ th = "window" /\ TakeRoom
  \/ TakeSaid(th)

LEMMA TakesWhere ==
  ASSUME Typed, Turns, Wire, NEW th \in Threads, TakesAnswer(th)
  PROVE  Busy(th) /\ Takes(th) /\ link \in {"up", "cut"}
<1>1. Busy(th) /\ Takes(th) /\ (wait[th] = "connect" => link # "none")
  BY DEF TakesAnswer, TakeAck, TakeVerdict, TakeUid, TakeLogout, TakeRoom, TakeSaid, Busy
<1>2. link = "none" => Busy("console") /\ wait["console"] = "connect"
  BY DEF Wire, Busy
<1>3. link = "none" => th = "console"
  BY <1>1, <1>2 DEF Turns, Threads
<1>4. QED
  BY <1>1, <1>2, <1>3 DEF Typed, DialogueTypeOK, ClientTypeOK

LEMMA AnswerAfterCut ==
  ASSUME Typed, Turns, Wire, NEW th \in Threads, TakesAnswer(th), link = "cut",
         UNCHANGED serverVars
  PROVE  Wire'
<1>1. Busy(th) /\ Takes(th)
  BY TakesWhere
<1>2. /\ link' = "cut" /\ toServer' = << >> /\ spc' = "ended"
      /\ \/ toClient' = << >>
         \/ /\ th = "console" /\ wait[th] \in Logins /\ todo'[th] = << >>
            /\ Word = Success(wait[th])
            /\ \E u \in Uids : toClient' = <<To(u, th, wait[th])>>
  BY <1>1, CutTakes
<1>3. CASE toClient' = << >>
  BY <1>2, <1>3 DEF Wire, Fits
<1>4. CASE /\ th = "console" /\ wait[th] \in Logins /\ todo'[th] = << >>
           /\ Word = Success(wait[th])
           /\ \E u \in Uids : toClient' = <<To(u, th, wait[th])>>
  <2>1. TakeVerdict
    BY <1>4 DEF TakesAnswer, TakeAck, TakeUid, TakeLogout, TakeSaid, Logins
  <2>2. wait' = [wait EXCEPT !["console"] = "uid"]
    BY <1>4, <2>1 DEF TakeVerdict, Success
  <2>3. wait'["console"] = "uid"
    BY <2>2 DEF Typed, DialogueTypeOK, ClientTypeOK, Threads
  <2>4. QED
    BY <1>2, <1>4, <2>3 DEF Wire, Fits
<1>5. QED
  BY <1>2, <1>3, <1>4

LEMMA AnswerTaken ==
  ASSUME Typed, Turns, Wire, NEW th \in Threads, TakesAnswer(th), link = "up",
         UNCHANGED serverVars
  PROVE  Wire'
<1>1. /\ Busy(th) /\ Takes(th)
      /\ toClient # << >> /\ toClient' = Tail(toClient) /\ Word = Head(toClient).word
      /\ \/ th = "console" /\ (Greeted \/ Granted \/ Told)
         \/ Answered(th)
  BY TakesWhere, TakesHis DEF Word
<1>2. UNCHANGED <<spc, request, id, chat, refused, uid, link, toServer, todo>>
  BY <1>1 DEF Takes, serverVars, sessionVars
<1>3. wait \in [Threads -> Asked \cup {"connect", "uid", "none"}]
  BY DEF Typed, DialogueTypeOK, ClientTypeOK
<1> SUFFICES Talking'
  BY <1>2 DEF Wire
<1>4. ASSUME Done(th), toClient' = << >>, Due(th) = << >>, spc \in {"recv", "setId"}, Agreed'
      PROVE  Talking'
  <2>1. toServer' = << >>
    BY <1>2, <1>4, NothingDue
  <2>2. \A t \in Threads : ~Busy(t)'
    BY <1>1, <1>3, <1>4, RestAfter
  <2>3. Resting'
    BY <1>2, <1>4, <2>1, <2>2 DEF Resting
  <2>4. QED
    BY <2>3 DEF Talking
<1>5. ASSUME NEW a, toClient = <<a>> PROVE toClient' = << >> /\ Word = a.word
  BY <1>1, <1>5, OneOrTwo
<1>6. CASE Greeted /\ th = "console"
  <2>1. spc = "recv" /\ Due(th) = << >> /\ toClient = <<To(USER_OK, "console", "connect")>>
    BY <1>1, <1>6 DEF Greeted
  <2>2. TakeAck
    BY <1>6 DEF Greeted, TakesAnswer, TakeVerdict, TakeUid, TakeLogout, TakeSaid
  <2>3. Done(th) /\ UNCHANGED <<my_id, curr_room>>
    BY <1>6, <2>2 DEF TakeAck, inputVars
  <2>4. Agreed'
    BY <1>2, <1>6, <2>3 DEF Greeted, Agreed, SameUser, SameRoom
  <2>5. QED
    BY <1>4, <1>5, <2>1, <2>3, <2>4
<1>7. CASE Granted /\ th = "console"
  <2>1. wait["console"] = request.v /\ request.v \in Logins
        /\ toClient = <<To(Success(request.v), "console", request.v)>>
    BY <1>1, <1>7 DEF Granted
  <2>2. toClient' = << >> /\ Word = Success(request.v)
    BY <1>5, <2>1 DEF To
  <2>3. TakeVerdict
    BY <1>7, <2>1 DEF TakesAnswer, TakeAck, TakeUid, TakeLogout, TakeSaid, Logins
  <2>4. wait' = [wait EXCEPT !["console"] = "uid"] /\ UNCHANGED <<my_id, curr_room>>
    BY <2>1, <2>2, <2>3 DEF TakeVerdict, Success
  <2>5. wait'["console"] = "uid"
    BY <1>3, <2>4 DEF Threads
  <2>6. Granted'
    BY <1>2, <1>7, <2>2, <2>4, <2>5 DEF Granted, SameRoom, Due
  <2>7. QED
    BY <2>6 DEF Talking
<1>8. CASE Told /\ th = "console"
  <2>1. PICK what \in Logins, u \in Uids :
          /\ \/ spc = "setId" /\ uid = u /\ id = 0
             \/ spc = "recv" /\ id = u
          /\ \/ /\ wait["console"] = what
                /\ toClient = <<To(Success(what), "console", what), To(u, "console", what)>>
             \/ wait["console"] = "uid" /\ toClient = <<To(u, "console", what)>>
    BY <1>8 DEF Told
  <2>2. CASE /\ wait["console"] = what
             /\ toClient = <<To(Success(what), "console", what), To(u, "console", what)>>
    <3>1. toClient' = <<To(u, "console", what)>> /\ Word = Success(what)
      BY <1>1, <2>2, OneOrTwo DEF To
    <3>2. TakeVerdict
      BY <1>8, <2>2 DEF TakesAnswer, TakeAck, TakeUid, TakeLogout, TakeSaid, Logins
    <3>3. wait' = [wait EXCEPT !["console"] = "uid"] /\ UNCHANGED <<my_id, curr_room>>
      BY <2>2, <3>1, <3>2 DEF TakeVerdict, Success
    <3>4. wait'["console"] = "uid"
      BY <1>3, <3>3 DEF Threads
    <3>5. Told'
      BY <1>2, <1>8, <2>1, <3>1, <3>3, <3>4 DEF Told, SameRoom, Due
    <3>6. QED
      BY <3>5 DEF Talking
  <2>3. CASE wait["console"] = "uid" /\ toClient = <<To(u, "console", what)>>
    <3>1. toClient' = << >> /\ Word = u
      BY <1>5, <2>3 DEF To
    <3>2. TakeUid
      BY <1>8, <2>3 DEF TakesAnswer, TakeAck, TakeVerdict, TakeLogout, TakeSaid
    <3>3. Done(th) /\ my_id' = u /\ curr_room' = curr_room
      BY <1>8, <3>1, <3>2 DEF TakeUid
    <3>4. Agreed' /\ spc \in {"recv", "setId"} /\ Due(th) = << >>
      BY <1>2, <1>8, <2>1, <3>3 DEF Told, Agreed, SameUser, SameRoom
    <3>5. QED
      BY <1>4, <3>1, <3>3, <3>4
  <2>4. QED
    BY <2>1, <2>2, <2>3
<1>9. CASE Answered(th)
  <2>1. PICK word \in 0 .. 5 :
          /\ toClient = <<To(word, th, wait[th])>>
          /\ wait[th] \in Logins => word # Success(wait[th])
    BY <1>9 DEF Answered
  <2>2. toClient' = << >> /\ Word = word /\ spc = "recv" /\ Due(th) = << >> /\ wait[th] \in Asked
    BY <1>5, <1>9, <2>1 DEF Answered, To
  <2>3. Done(th)
    <3>1. ASSUME th = "console", TakeVerdict PROVE Done(th)
      <4>1. wait[th] \in Logins
        BY <3>1 DEF TakeVerdict, Logins
      <4>2. word # Success(wait["console"])
        BY <2>1, <3>1, <4>1
      <4>3. QED
        BY <2>2, <3>1, <4>2 DEF TakeVerdict, Success
    <3>2. QED
      BY <3>1 DEF TakesAnswer, TakeAck, TakeUid, TakeLogout, TakeSaid, TakeRoom
  <2>4. Agreed'
    <3>1. CASE th = "window" /\ TakeRoom
      <4>1. /\ refused \/ (chat = pressed /\ curr_room # pressed)
            /\ id = my_id
        BY <1>9, <3>1 DEF TakeRoom, Answered
      <4>2. /\ curr_room' = IF pressed = curr_room THEN NoRoom ELSE pressed
            /\ my_id' = my_id
        BY <3>1 DEF TakeRoom
      <4>3. QED
        BY <1>2, <2>2, <4>1, <4>2 DEF Agreed, SameUser, SameRoom
    <3>2. CASE th = "console" /\ TakeLogout
      <4>1. id = 0 /\ SameRoom /\ my_id' = 0 /\ curr_room' = curr_room
        BY <1>9, <3>2 DEF TakeLogout, Answered
      <4>2. QED
        BY <1>2, <2>2, <4>1 DEF Agreed, SameUser, SameRoom
    <3>3. CASE (th = "console" /\ TakeVerdict) \/ TakeSaid(th)
      <4>1. id = my_id /\ SameRoom /\ UNCHANGED <<my_id, curr_room>>
        BY <1>9, <3>3 DEF TakeVerdict, TakeSaid, Answered, inputVars
      <4>2. QED
        BY <1>2, <2>2, <4>1 DEF Agreed, SameUser, SameRoom
    <3>4. QED
      BY <2>2, <3>1, <3>2, <3>3 DEF TakesAnswer, TakeAck, TakeUid, Asked
  <2>5. QED
    BY <1>4, <2>2, <2>3, <2>4
<1>10. QED
  BY <1>1, <1>6, <1>7, <1>8, <1>9

-------------------------------------------------------------------------------
(* The steps of the client's two threads. *)
LEMMA ThreadSteps ==
  ConsoleStep \/ WindowStep => Connect \/ \E th \in Threads : Send(th) \/ TakesAnswer(th)
BY DEF ConsoleStep, WindowStep, ThreadStep, TakesAnswer, Threads

(* A listener's steps, and none at all, leave the talk socket alone. *)
ListenerStep == \E l \in Listeners : (Present(l) /\ UNCHANGED serverVars) \/ AddConnection(l)

LEMMA ListenersApart ==
  ASSUME ListenerStep \/ UNCHANGED vars
  PROVE  UNCHANGED <<inputVars, todo, wait, wireVars, sessionVars>>
BY DEF ListenerStep, Present, AddConnection, serverVars, vars, clientVars

LEMMA WireHolds ==
  ASSUME Orderly', Typed, Turns, NameOfAccount, Wire, [Next]_vars
  PROVE  Wire'
<1>1. CASE Input /\ UNCHANGED serverVars
  BY <1>1, InputSpeaks
<1>2. CASE (ConsoleStep \/ WindowStep) /\ UNCHANGED serverVars
  BY <1>2, ThreadSteps, ConnectSpeaks, SendSpeaks, AnswerTaken, AnswerAfterCut, TakesWhere
<1>3. CASE (SessionStep \/ Admit \/ Cut) /\ UNCHANGED clientVars
  BY <1>3, SessionSpeaks, AcceptLoopSpeaks, CutFits
<1>4. CASE ListenerStep \/ UNCHANGED vars
  <2>1. UNCHANGED <<inputVars, todo, wait, wireVars, sessionVars>>
    BY <1>4, ListenersApart
  <2>2. UNCHANGED <<my_id, curr_room, pressed, todo, wait, link, toServer, toClient>>
        /\ UNCHANGED <<spc, request, id, chat, refused, uid>>
    BY <2>1 DEF inputVars, wireVars, sessionVars
  <2>3. Agreed' = Agreed /\ \A th \in Threads : Due(th)' = Due(th)
    BY <2>2 DEF Agreed, SameUser, SameRoom, Due
  <2>4. /\ Resting' = Resting /\ Greeted' = Greeted /\ Granted' = Granted
        /\ Told' = Told /\ Unanswered' = Unanswered
    BY <2>2, <2>3 DEF Resting, Greeted, Granted, Told, Unanswered, Busy, SameRoom, Due
  <2>5. \A th \in Threads : /\ Asking(th)' = Asking(th) /\ Serving(th)' = Serving(th)
                            /\ Answered(th)' = Answered(th)
    BY <2>2, <2>3 DEF Asking, Serving, Answered, LoggedOut, Values, SameRoom
  <2>6. Talking => Talking'
    BY <2>4, <2>5 DEF Talking
  <2>7. Fits => Fits'
    BY <2>2 DEF Fits
  <2>8. QED
    BY <2>2, <2>3, <2>6, <2>7 DEF Wire
<1>5. QED
  BY <1>1, <1>2, <1>3, <1>4 DEF Next, ListenerStep

-------------------------------------------------------------------------------
LEMMA TurnsHold ==
  ASSUME Orderly', Typed, Turns, Wire, [Next]_vars
  PROVE  Turns'
<1>1. wait \in [Threads -> Asked \cup {"connect", "uid", "none"}] /\ todo \in [Threads -> Seq(Pieces)]
  BY DEF Typed, DialogueTypeOK, ClientTypeOK
<1>2. ASSUME NEW th \in Threads, NEW what \in Asked, NEW v, Request(th, what, v),
             IF th = "console" THEN what # "room" ELSE what \in {"say", "room"}
      PROVE  Turns'
  <2>1. \A t \in Threads : wait[t] = "none" /\ todo[t] = << >>
    BY <1>2, InTurn DEF Turns, Busy
  <2>2. /\ wait' = [wait EXCEPT ![th] = what] /\ \A t \in Threads : t # th => todo'[t] = << >>
    BY <1>1, <1>2, <2>1 DEF Request
  <2>3. \A t \in Threads : wait'[t] = IF t = th THEN what ELSE "none"
    BY <1>1, <2>1, <2>2
  <2>4. QED
    BY <1>2, <2>2, <2>3 DEF Turns, Busy, Threads, Asked
<1>3. CASE Input
  <2>1. /\ TypeCredentials => \E what \in {"login", "reg"}, n \in Names : Request("console", what, n)
        /\ TypeLogout => Request("console", "logout", 0)
        /\ TypeText => Request("console", "say", 0)
        /\ PressRoom => \E r \in Rooms : Request("window", "room", r)
        /\ PressSend => Request("window", "say", 0)
    BY DEF TypeCredentials, TypeLogout, TypeText, PressRoom, PressSend
  <2>2. QED
    BY <1>2, <1>3, <2>1 DEF Input, Threads, Asked
<1>4. ASSUME UNCHANGED wait, UNCHANGED todo \/ \E th \in Threads : Send(th) PROVE Turns'
  <2>1. \A th \in Threads : todo[th] = << >> => todo'[th] = << >>
    BY <1>1, <1>4 DEF Send
  <2>2. QED
    BY <1>4, <2>1 DEF Turns, Busy
<1>5. ASSUME NEW th \in Threads, TakesAnswer(th) PROVE Turns'
  <2>1. Busy(th) /\ todo' = todo /\ todo[th] = << >>
    BY <1>5, TakesWhere DEF Takes
  <2>2. wait' = [wait EXCEPT ![th] = "none"] \/ (th = "console" /\ wait' = [wait EXCEPT ![th] = "uid"])
    BY <1>5 DEF TakesAnswer, TakeAck, TakeVerdict, TakeUid, TakeLogout, TakeRoom, TakeSaid, Done
  <2>3. QED
    BY <1>1, <2>1, <2>2 DEF Turns, Busy, Threads
<1>6. CASE ConsoleStep \/ WindowStep
  <2>1. Connect => UNCHANGED <<wait, todo>>
    BY DEF Connect, clientVars
  <2>2. \A th \in Threads : Send(th) => UNCHANGED wait
    BY DEF Send
  <2>3. QED
    BY <1>4, <1>5, <1>6, <2>1, <2>2, ThreadSteps
<1>7. CASE UNCHANGED clientVars
  BY <1>4, <1>7 DEF clientVars
<1>8. CASE ListenerStep \/ UNCHANGED vars
  BY <1>4, <1>8, ListenersApart
<1>9. QED
  BY <1>3, <1>6, <1>7, <1>8 DEF Next, ListenerStep

-------------------------------------------------------------------------------
(* What the session's next recv takes is what it is for. *)
LEMMA PartDue ==
  ASSUME Typed, Turns, Wire, toServer # << >>
  PROVE  LET q == Head(toServer)
         IN  /\ spc = "hello" => q.part = "hello"
             /\ spc = "recv" => q.part = "command" /\ q.v \in Asked
             /\ spc \in Logins => q.part = "creds" /\ q.v \in Names
             /\ spc = "room" => q.part = "room" /\ q.v \in Rooms
             /\ spc = "say" => q.part = "length"
             /\ spc = "text" => q.part = "text"
<1> DEFINE q == Head(toServer)
<1>1. ASSUME NEW th \in Threads PROVE Due(th) # << >> /\ q = Head(Due(th))
  BY <1>1, ReceiveDue
<1>2. CASE spc = "hello"
  <2>1. link = "up"
    BY <1>2 DEF Typed, DialogueTypeOK, ClientTypeOK, Wire
  <2>2. Greeted
    BY <1>2, <2>1 DEF Wire, Talking, Resting, Granted, Told, Unanswered, Asking, Serving,
                      Answered, Asked
  <2>3. Due("console") = <<Piece("console", "hello", 0)>>
    BY <1>2, <2>2 DEF Greeted
  <2>4. q = Piece("console", "hello", 0)
    BY <1>1, <2>3, OneOrTwo DEF Threads
  <2>5. QED
    BY <1>2, <2>4 DEF Piece, Logins
<1>3. CASE spc = "recv"
  <2>1. PICK th \in Threads : Asking(th)
    BY <1>3, StageOf
  <2>2. PICK v \in Values(wait[th]) : Due(th) = Sends(th, wait[th], v)
    BY <2>1 DEF Asking
  <2>3. v \in Names \cup Rooms \cup {0} /\ wait[th] \in Asked
    BY <2>1, <2>2 DEF Values, Asking, Asked, Logins
  <2>4. q = Piece(th, "command", wait[th])
    BY <1>1, <2>2, <2>3, Requests
  <2>5. QED
    BY <1>3, <2>3, <2>4 DEF Piece, Logins
<1>4. CASE spc \in Asked
  <2>1. PICK th \in Threads : Serving(th)
    BY <1>4, StageOf DEF Asked
  <2>2. PICK v \in Values(wait[th]) : Due(th) = Body(th, wait[th], v)
    BY <1>4, <2>1 DEF Serving, Asked
  <2>3. wait[th] = spc
    BY <1>4, <2>1 DEF Serving, Asked
  <2>4. CASE spc \in Logins
    <3>1. v \in Names /\ Due(th) = <<Piece(th, "creds", v)>>
      BY <2>2, <2>3, <2>4 DEF Values, Body, Logins
    <3>2. q = Piece(th, "creds", v)
      BY <1>1, <3>1, OneOrTwo
    <3>3. QED
      BY <2>4, <3>1, <3>2 DEF Piece, Logins
  <2>5. CASE spc = "room"
    <3>1. v \in Rooms /\ Due(th) = <<Piece(th, "room", v)>>
      BY <2>2, <2>3, <2>5 DEF Values, Body, Logins
    <3>2. q = Piece(th, "room", v)
      BY <1>1, <3>1, OneOrTwo
    <3>3. QED
      BY <2>5, <3>1, <3>2 DEF Piece, Logins
  <2>6. CASE spc = "say"
    <3>1. Due(th) = <<Piece(th, "length", 0), Piece(th, "text", 0)>>
      BY <2>2, <2>3, <2>6 DEF Body
    <3>2. q = Piece(th, "length", 0)
      BY <1>1, <3>1, OneOrTwo
    <3>3. QED
      BY <2>6, <3>2 DEF Piece, Logins
  <2>7. QED
    BY <1>4, <2>4, <2>5, <2>6 DEF Asked, Logins
<1>5. CASE spc = "text"
  <2>1. PICK th \in Threads : Serving(th)
    BY <1>5, StageOf
  <2>2. Due(th) = <<Piece(th, "text", 0)>>
    BY <1>5, <2>1 DEF Serving, Asked
  <2>3. q = Piece(th, "text", 0)
    BY <1>1, <2>2, OneOrTwo
  <2>4. QED
    BY <1>5, <2>3 DEF Piece, Logins
<1>6. QED
  BY <1>2, <1>3, <1>4, <1>5 DEF Logins, Asked

(* The session is in a login only if its user has not been granted one. *)
LEMMA LoginsOfLoggedOut ==
  ASSUME Typed, Turns, Wire, NameOfAccount, spc \in Logins
  PROVE  ~logged
<1>1. PICK th \in Threads : Serving(th)
  BY StageOf DEF Asked, Logins
<1>2. wait[th] = spc /\ my_id = 0 /\ id = my_id
  BY <1>1 DEF Serving, LoggedOut, Agreed, SameUser, Logins
<1>3. QED
  BY <1>2 DEF NameOfAccount

LEMMA NameOfAccountHolds ==
  ASSUME Typed, Turns, Wire, NameOfAccount, [Next]_vars
  PROVE  NameOfAccount'
<1>1. ASSUME UNCHANGED <<logged, id, name, account>> PROVE NameOfAccount'
  BY <1>1 DEF NameOfAccount
<1>2. CASE UNCHANGED serverVars \/ ListenerStep \/ UNCHANGED vars \/ Admit
  BY <1>1, <1>2, ListenersApart DEF serverVars, sessionVars, Admit
<1>3. CASE Cut
  BY <1>3 DEF Cut, NameOfAccount
<1>4. CASE SessionStep
  <2>1. CASE SetId
    <3>1. uid \in Uids
      BY <2>1, StageOf DEF SetId, Resting, Told, Asking, Agreed, SameUser
    <3>2. QED
      BY <2>1, <3>1, UidsAssumption DEF SetId, NameOfAccount
  <2>2. CASE ReadCreds
    <3>1. ~logged
      BY <2>2, LoginsOfLoggedOut DEF ReadCreds, Logins
    <3>2. QED
      BY <2>2, <3>1 DEF ReadCreds, NameOfAccount
  <2>3. CASE Logout
    BY <2>3 DEF Logout, NameOfAccount
  <2>4. CASE ReadCommand \/ Refuse \/ Grant \/ TellUid \/ ChangeRoom \/ ReadLength \/ Message
    BY <1>1, <2>4 DEF ReadCommand, Refuse, Grant, TellUid, ChangeRoom, ReadLength, Message
  <2>5. QED
    BY <1>4, <2>1, <2>2, <2>3, <2>4 DEF SessionStep, ServerStep
<1>5. QED
  BY <1>2, <1>3, <1>4 DEF Next, ListenerStep

(* The listener that a login starts is there: some are left. *)
LEMMA ListenersLeft ==
  ASSUME lst[MaxLogins] = "none"
  PROVE  NextListener \in Listeners /\ lst[NextListener] = "none"
<1> DEFINE Free == {l \in Listeners : lst[l] = "none"}
<1>1. Free \subseteq Nat /\ MaxLogins \in Free
  BY LoginsAssumption DEF Listeners
<1>2. PICK l \in Free : \A k \in Free : l <= k
  <2> HIDE DEF Free
  <2>1. QED
    BY <1>1, LeastElement
<1>3. \A k \in Free : ~(k < l)
  BY <1>1, <1>2
<1>4. l \in Listeners /\ lst[l] = "none" /\ \A k \in 1 .. (l - 1) : lst[k] # "none"
  <2>1. l \in 1 .. MaxLogins /\ lst[l] = "none"
    BY DEF Listeners
  <2>2. ASSUME NEW k \in 1 .. (l - 1), lst[k] = "none" PROVE FALSE
    <3>1. k \in Listeners /\ k < l
      BY <2>1, LoginsAssumption DEF Listeners
    <3>2. QED
      BY <1>3, <2>2, <3>1
  <2>3. QED
    BY <2>1, <2>2 DEF Listeners
<1>5. QED
  BY <1>4 DEF NextListener

LEMMA LoginUnderWayHolds ==
  ASSUME Orderly', Typed, Turns, Wire, LoginUnderWay, [Next]_vars
  PROVE  LoginUnderWay'
<1>1. /\ wait \in [Threads -> Asked \cup {"connect", "uid", "none"}]
      /\ lst \in [Listeners -> {"none", "starting", "asked", "settled"}]
      /\ MaxLogins \in Listeners
  BY LoginsAssumption DEF Typed, DialogueTypeOK, ClientTypeOK, Listeners
<1>2. ASSUME wait'["console"] \in Logins \cup {"uid"} => wait["console"] \in Logins \cup {"uid"},
             UNCHANGED my_id, lst[MaxLogins] = "none" => lst'[MaxLogins] = "none"
      PROVE  LoginUnderWay'
  BY <1>2 DEF LoginUnderWay
<1>3. CASE TypeCredentials
  <2>1. lst[MaxLogins] = "none" /\ \E what \in {"login", "reg"}, n \in Names : Request("console", what, n)
    BY <1>3 DEF TypeCredentials
  <2>2. my_id = 0 /\ UNCHANGED <<my_id, lst>>
    BY <2>1, InTurn DEF Request, listenVars, Logins, Asked, Threads
  <2>3. QED
    BY <2>1, <2>2 DEF LoginUnderWay
<1>4. CASE TypeLogout \/ TypeText \/ PressRoom \/ PressSend
  <2>1. \E th \in Threads, what \in {"logout", "say", "room"} : \E v : Request(th, what, v)
    BY <1>4 DEF TypeLogout, TypeText, PressRoom, PressSend, Threads
  <2>2. UNCHANGED <<my_id, lst>> /\ \E th \in Threads, what \in {"logout", "say", "room"} :
                                       wait' = [wait EXCEPT ![th] = what]
    BY <2>1 DEF Request, listenVars
  <2>3. QED
    BY <1>1, <1>2, <2>2 DEF Logins, Threads
<1>5. CASE Connect \/ \E th \in Threads : Send(th)
  BY <1>2, <1>5 DEF Connect, Send, clientVars, inputVars, listenVars
<1>6. ASSUME NEW th \in Threads, TakesAnswer(th) PROVE LoginUnderWay'
  <2>1. CASE th = "console" /\ TakeVerdict
    <3>1. wait["console"] \in Logins /\ UNCHANGED <<my_id, lst>>
      BY <2>1 DEF TakeVerdict, listenVars, Logins
    <3>2. QED
      BY <1>2, <3>1
  <2>2. CASE th = "console" /\ ~TakeVerdict
    <3>1. wait' = [wait EXCEPT !["console"] = "none"]
      BY <1>6, <2>2 DEF TakesAnswer, TakeAck, TakeUid, TakeLogout, TakeSaid, Done
    <3>2. QED
      BY <1>1, <3>1 DEF LoginUnderWay, Logins, Threads
  <2>3. CASE th = "window"
    <3>1. UNCHANGED <<my_id, lst>> /\ wait' = [wait EXCEPT !["window"] = "none"]
      BY <1>6, <2>3 DEF TakesAnswer, TakeRoom, TakeSaid, Done, inputVars, listenVars
    <3>2. QED
      BY <1>1, <1>2, <3>1 DEF Threads
  <2>4. QED
    BY <2>1, <2>2, <2>3 DEF Threads
<1>7. CASE UNCHANGED clientVars \/ UNCHANGED vars
  BY <1>2, <1>7 DEF clientVars, inputVars, listenVars, vars
<1>8. CASE ListenerStep
  <2>1. UNCHANGED <<my_id, wait>>
    BY <1>8, ListenersApart DEF inputVars
  <2>2. PICK l \in Listeners : lst[l] # "none" /\ \E w : lst' = [lst EXCEPT ![l] = w]
    BY <1>8 DEF ListenerStep, Present, AddConnection
  <2>3. QED
    BY <1>1, <1>2, <2>1, <2>2
<1>9. QED
  BY <1>3, <1>4, <1>5, <1>6, <1>7, <1>8, ThreadSteps DEF Next, ListenerStep, Input

-------------------------------------------------------------------------------
(***************************************************************************)
(* Every value is one of its kind.  For what is read from the socket that  *)
(* takes the stages: the words carry no type of their own.                 *)
(***************************************************************************)
LEMMA ServerTyped ==
  ASSUME Typed, Turns, Wire, [Next]_vars
  PROVE  /\ spc' \in Asked \cup {"hello", "recv", "verdict", "grant", "setId", "text", "ended"}
         /\ {logged, refused, silent}' \subseteq BOOLEAN
         /\ {id, uid}' \subseteq Uids \cup {0}
         /\ share' \in Uids \cup {0, NoListener}
         /\ excuse' \in {"none", "early", "full"}
         /\ chat' \in Rooms \cup {NoRoom}
         /\ {name, account}' \subseteq Names \cup {Nobody}
<1> USE DEF Typed, DialogueTypeOK
<1>1. CASE UNCHANGED serverVars \/ UNCHANGED vars
  BY <1>1 DEF serverVars, sessionVars, vars
<1>2. CASE ListenerStep
  <2>1. UNCHANGED sessionVars
    BY <1>2, ListenersApart
  <2>2. share' \in Uids \cup {0, NoListener} /\ excuse' \in {"none", "early", "full"}
    BY <1>2 DEF ListenerStep, AddConnection, TurnAway, Attach, Deny, serverVars
  <2>3. QED
    BY <2>1, <2>2 DEF sessionVars
<1>3. CASE Admit
  BY <1>3 DEF Admit
<1>4. CASE Cut
  BY <1>4 DEF Cut
<1>5. CASE SessionStep
  <2>1. excuse' \in {"none", "early", "full"} /\ share' \in Uids \cup {0, NoListener}
    BY <1>5 DEF SessionStep
  <2>2. CASE ReadCommand
    <3>1. spc' \in Asked
      BY <2>2, PartDue DEF ReadCommand, Receive
    <3>2. QED
      BY <2>1, <2>2, <3>1 DEF ReadCommand
  <2>3. CASE ReadCreds
    <3>1. name' \in Names
      BY <2>3, PartDue DEF ReadCreds, Receive, Logins
    <3>2. QED
      BY <2>1, <2>3, <3>1 DEF ReadCreds
  <2>4. CASE ChangeRoom
    <3>1. Head(toServer).v \in Rooms
      BY <2>4, PartDue DEF ChangeRoom, Receive
    <3>2. QED
      BY <2>1, <2>4, <3>1 DEF ChangeRoom
  <2>5. CASE Refuse \/ Grant \/ TellUid \/ SetId \/ Logout \/ ReadLength \/ Message
    BY <2>1, <2>5 DEF Refuse, Grant, TellUid, SetId, Logout, ReadLength, Message
  <2>6. QED
    BY <1>5, <2>2, <2>3, <2>4, <2>5 DEF SessionStep, ServerStep
<1>6. QED
  BY <1>1, <1>2, <1>3, <1>4, <1>5 DEF Next, ListenerStep

(* The uid the client takes is one: what the server said, or the one it had. *)
LEMMA UidTaken ==
  ASSUME Typed, Turns, Wire, TakeUid
  PROVE  my_id' \in Uids \cup {0}
<1>1. wait["console"] = "uid" /\ Takes("console") /\ my_id' = Word /\ Busy("console")
  BY DEF TakeUid, Busy
<1>2. TakesAnswer("console") /\ "console" \in Threads
  BY DEF TakesAnswer, Threads
<1>3. ASSUME NEW u \in Uids, NEW what, toClient = <<To(u, "console", what)>> PROVE my_id' = u
  <2>1. Head(toClient) = To(u, "console", what) /\ toClient # << >>
    BY <1>3, OneOrTwo
  <2>2. QED
    BY <1>1, <2>1 DEF Word, To
<1>4. CASE link = "up"
  <2>1. Told
    BY <1>1, <1>2, <1>4, TakesHis DEF Greeted, Granted, Answered, Logins, Asked
  <2>2. \E what \in Logins, u \in Uids : toClient = <<To(u, "console", what)>>
    <3>1. wait["console"] \notin Logins
      BY <1>1 DEF Logins
    <3>2. QED
      BY <2>1, <3>1 DEF Told
  <2>3. QED
    BY <1>3, <2>2
<1>5. CASE link = "cut"
  <2>1. CASE toClient = << >>
    BY <1>1, <2>1 DEF Word, Typed, DialogueTypeOK, ClientTypeOK
  <2>2. CASE toClient # << >>
    <3>1. PICK th \in Threads :
            /\ wait[th] # "none"
            /\ \/ wait[th] \in Asked \cup {"connect"}
               \/ wait[th] \in Logins
               \/ \E what \in Logins, u \in Uids : toClient = <<To(u, "console", what)>>
      <4>1. "none" \notin Asked \cup {"connect"} /\ "none" \notin Logins
        BY DEF Asked, Logins
      <4>2. QED
        BY <1>5, <2>2, <4>1 DEF Wire, Fits
    <3>2. th = "console"
      BY <1>1, <1>2, <3>1 DEF Turns, Busy
    <3>3. \E what \in Logins, u \in Uids : toClient = <<To(u, "console", what)>>
      <4>1. "uid" \notin Asked \cup {"connect"} /\ "uid" \notin Logins
        BY DEF Asked, Logins
      <4>2. QED
        BY <1>1, <3>1, <3>2, <4>1
    <3>4. QED
      BY <1>3, <3>3
  <2>3. QED
    BY <2>1, <2>2
<1>6. QED
  BY <1>2, <1>4, <1>5, TakesWhere

LEMMA RequestTyped ==
  ASSUME Typed, NEW th \in Threads, NEW what \in Asked, NEW v \in Names \cup Rooms \cup {0},
         Request(th, what, v)
  PROVE  /\ todo' \in [Threads -> Seq(Pieces)] /\ \A t \in Threads : Len(todo'[t]) <= 3
         /\ wait' \in [Threads -> Asked \cup {"connect", "uid", "none"}]
         /\ denied' \in BOOLEAN
         /\ UNCHANGED <<my_id, curr_room, lst, presented, link, toServer>>
<1>1. Sends(th, what, v) \in Seq(Pieces) /\ Len(Sends(th, what, v)) <= 3
  BY Requests
<1>2. todo' = [todo EXCEPT ![th] = Sends(th, what, v)] /\ wait' = [wait EXCEPT ![th] = what]
  BY DEF Request
<1>3. todo' \in [Threads -> Seq(Pieces)] /\ \A t \in Threads : Len(todo'[t]) <= 3
  <2>1. \A t \in Threads : todo'[t] = IF t = th THEN Sends(th, what, v) ELSE todo[t]
    BY <1>2 DEF Typed
  <2>2. QED
    BY <1>1, <1>2, <2>1 DEF Typed, DialogueTypeOK, ClientTypeOK
<1>4. QED
  BY <1>2, <1>3 DEF Request, Typed, DialogueTypeOK, ClientTypeOK, listenVars, wireVars

LEMMA ClientTyped ==
  ASSUME Typed, Turns, Wire, LoginUnderWay, [Next]_vars
  PROVE  ClientTypeOK' /\ todo' \in [Threads -> Seq(Pieces)] /\ toServer' \in Seq(Pieces)
<1> DEFINE Goal == ClientTypeOK' /\ todo' \in [Threads -> Seq(Pieces)] /\ toServer' \in Seq(Pieces)
<1>1. CASE Input
  <2>1. PICK th \in Threads, what \in Asked, v \in Names \cup Rooms \cup {0} : Request(th, what, v)
    BY <1>1 DEF Input, TypeCredentials, TypeLogout, TypeText, PressRoom, PressSend, Threads, Asked
  <2>2. pressed' \in Rooms \cup {NoRoom}
    BY <1>1 DEF Input, TypeCredentials, TypeLogout, TypeText, PressRoom, PressSend,
                Typed, DialogueTypeOK, ClientTypeOK
  <2>3. /\ todo' \in [Threads -> Seq(Pieces)] /\ \A t \in Threads : Len(todo'[t]) <= 3
        /\ wait' \in [Threads -> Asked \cup {"connect", "uid", "none"}]
        /\ denied' \in BOOLEAN
        /\ UNCHANGED <<my_id, curr_room, lst, presented, link, toServer>>
    BY <2>1, RequestTyped
  <2>4. QED
    BY <2>2, <2>3 DEF Typed, DialogueTypeOK, ClientTypeOK
<1>2. CASE Connect
  <2>1. <<Piece("console", "hello", 0)>> \in Seq(Pieces)
    <3>1. Piece("console", "hello", 0) \in Pieces
      BY DEF Piece, Pieces, Parts, Threads
    <3>2. QED
      BY <3>1
  <2>2. UNCHANGED <<my_id, curr_room, pressed, denied, todo, wait, lst, presented>>
    BY <1>2 DEF Connect, clientVars, inputVars, listenVars
  <2>3. QED
    BY <1>2, <2>1, <2>2 DEF Connect, Typed, DialogueTypeOK, ClientTypeOK
<1>3. ASSUME NEW th \in Threads, Send(th) PROVE Goal
  <2>1. todo[th] \in Seq(Pieces) /\ todo[th] # << >> /\ toServer \in Seq(Pieces) /\ Len(todo[th]) <= 3
    BY <1>3 DEF Send, Typed, DialogueTypeOK, ClientTypeOK
  <2>2. Head(todo[th]) \in Pieces /\ Tail(todo[th]) \in Seq(Pieces) /\ Len(Tail(todo[th])) <= 3
    BY <2>1
  <2>3. toServer' \in Seq(Pieces)
    BY <1>3, <2>1, <2>2 DEF Send
  <2>4. todo' = [todo EXCEPT ![th] = Tail(todo[th])]
    BY <1>3 DEF Send
  <2>5. \A t \in Threads : todo'[t] = IF t = th THEN Tail(todo[th]) ELSE todo[t]
    BY <2>4 DEF Typed
  <2>6. todo' \in [Threads -> Seq(Pieces)] /\ \A t \in Threads : Len(todo'[t]) <= 3
    BY <2>2, <2>4, <2>5 DEF Typed, DialogueTypeOK, ClientTypeOK
  <2>7. QED
    BY <1>3, <2>3, <2>6 DEF Send, Typed, DialogueTypeOK, ClientTypeOK, inputVars, listenVars
<1>4. ASSUME NEW th \in Threads, TakesAnswer(th) PROVE Goal
  <2>1. UNCHANGED <<todo, link, toServer>>
    BY <1>4, TakesWhere DEF Takes
  <2>2. wait' \in [Threads -> Asked \cup {"connect", "uid", "none"}]
    BY <1>4 DEF TakesAnswer, TakeAck, TakeVerdict, TakeUid, TakeLogout, TakeRoom, TakeSaid, Done,
                Typed, DialogueTypeOK, ClientTypeOK
  <2>3. my_id' \in Uids \cup {0}
    BY <1>4, UidTaken DEF TakesAnswer, TakeAck, TakeVerdict, TakeLogout, TakeRoom, TakeSaid, inputVars,
                          Typed, DialogueTypeOK, ClientTypeOK
  <2>4. /\ curr_room' \in Rooms \cup {NoRoom} /\ pressed' \in Rooms \cup {NoRoom}
        /\ denied' \in BOOLEAN
    BY <1>4 DEF TakesAnswer, TakeAck, TakeVerdict, TakeUid, TakeLogout, TakeRoom, TakeSaid, inputVars,
                Typed, DialogueTypeOK, ClientTypeOK
  <2>5. /\ lst' \in [Listeners -> {"none", "starting", "asked", "settled"}]
        /\ presented' = presented
    BY <1>4 DEF TakesAnswer, TakeAck, TakeVerdict, TakeUid, TakeLogout, TakeRoom, TakeSaid, listenVars,
                Typed, DialogueTypeOK, ClientTypeOK
  <2>6. QED
    BY <2>1, <2>2, <2>3, <2>4, <2>5 DEF Typed, DialogueTypeOK, ClientTypeOK
<1>5. CASE (SessionStep \/ Admit \/ Cut) /\ UNCHANGED clientVars
  <2>1. UNCHANGED <<my_id, curr_room, pressed, denied, todo, wait, lst, presented>>
    BY <1>5 DEF clientVars, inputVars, listenVars
  <2>2. link' \in {"none", "up", "cut"}
    BY <1>5 DEF SessionStep, Admit, Cut, Typed, DialogueTypeOK, ClientTypeOK
  <2>3. Receive => toServer' \in Seq(Pieces)
    BY HeadTailProperties DEF Receive, Typed
  <2>4. toServer' \in Seq(Pieces)
    <3>1. ServerStep => Receive \/ UNCHANGED toServer
      BY DEF ServerStep, ReadCommand, ReadCreds, Refuse, Grant, TellUid, SetId, Logout,
             ChangeRoom, ReadLength, Message
    <3>2. << >> \in Seq(Pieces)
      OBVIOUS
    <3>3. QED
      BY <1>5, <2>3, <3>1, <3>2 DEF SessionStep, Admit, Cut, Typed
  <2>5. QED
    BY <2>1, <2>2, <2>4 DEF Typed, DialogueTypeOK, ClientTypeOK
<1>6. CASE ListenerStep \/ UNCHANGED vars
  <2>1. UNCHANGED <<my_id, curr_room, pressed, denied, todo, wait, link, toServer>>
    BY <1>6, ListenersApart DEF inputVars, wireVars
  <2>2. /\ lst' \in [Listeners -> {"none", "starting", "asked", "settled"}]
        /\ presented' \in [Listeners -> Uids \cup {0}]
    BY <1>6 DEF ListenerStep, Present, AddConnection, vars, clientVars, listenVars,
                Typed, DialogueTypeOK, ClientTypeOK
  <2>3. QED
    BY <2>1, <2>2 DEF Typed, DialogueTypeOK, ClientTypeOK
<1>7. QED
  BY <1>1, <1>2, <1>3, <1>4, <1>5, <1>6, ThreadSteps DEF Next, ListenerStep

LEMMA TypedHolds ==
  ASSUME Typed, Turns, Wire, LoginUnderWay, [Next]_vars
  PROVE  Typed'
BY ServerTyped, ClientTyped DEF Typed, DialogueTypeOK

-------------------------------------------------------------------------------
(* While a logout's answer is under way the session does nothing. *)
LEMMA LogoutAnswered ==
  ASSUME Typed, Turns, Wire, link = "up", wait["console"] = "logout", toClient # << >>
  PROVE  spc = "recv" /\ toServer = << >>
<1>1. ~Resting /\ ~Greeted /\ ~Granted /\ ~Told
  <2>1. wait["console"] \notin Logins \cup {"none", "connect", "uid"} /\ "console" \in Threads
    BY DEF Logins, Threads
  <2>2. QED
    BY <2>1 DEF Resting, Greeted, Granted, Told, Busy
<1>2. PICK th \in Threads : Answered(th)
  BY <1>1 DEF Wire, Talking, Unanswered, Asking, Serving
<1>3. QED
  BY <1>2, NothingDue DEF Answered

(* Where the uid is that the client goes by. *)
LEMMA UidKnown ==
  ASSUME Typed, Turns, Wire, link = "up", my_id # 0
  PROVE  \/ spc = "setId" /\ id = 0 /\ uid = my_id
         \/ spc # "setId" /\ id = my_id
         \/ wait["console"] = "logout" /\ toClient # << >>
<1>1. CASE Resting \/ \E th \in Threads : Asking(th) \/ Serving(th)
  BY <1>1 DEF Resting, Asking, Serving, Agreed, SameUser
<1>2. CASE Unanswered
  BY <1>2 DEF Unanswered
<1>3. ASSUME NEW th \in Threads, Answered(th)
      PROVE  \/ spc # "setId" /\ id = my_id
             \/ wait["console"] = "logout" /\ toClient # << >>
  <2>1. spc = "recv" /\ toClient # << >>
    <3>1. \E word : toClient = <<To(word, th, wait[th])>>
      BY <1>3 DEF Answered
    <3>2. QED
      BY <1>3, <3>1, OneOrTwo DEF Answered
  <2>2. wait[th] = "logout" => th = "console"
    BY DEF Turns, Threads
  <2>3. QED
    BY <1>3, <2>1, <2>2 DEF Answered
<1>4. ~Greeted /\ ~Granted /\ ~Told
  BY DEF Greeted, Granted, Told
<1>5. QED
  BY <1>1, <1>2, <1>3, <1>4 DEF Wire, Talking

LEMMA ListenerSettles ==
  ASSUME Typed, Turns, Wire, Listening, NEW l \in Listeners, AddConnection(l)
  PROVE  Listening'
<1>1. /\ lst' = [lst EXCEPT ![l] = "settled"] /\ presented' = [presented EXCEPT ![l] = 0]
      /\ UNCHANGED <<my_id, wait, toClient, link, spc, id, uid>>
      /\ lst[l] = "asked"
  BY DEF AddConnection, inputVars, wireVars, sessionVars
<1>2. \A k \in Listeners : k # l => lst'[k] = lst[k] /\ presented'[k] = presented[k]
  BY <1>1 DEF Typed, DialogueTypeOK, ClientTypeOK
<1> SUFFICES ASSUME link = "up", excuse' = "none", my_id # 0,
                    ~(wait["console"] = "logout" /\ toClient # << >>)
             PROVE  Coming(my_id)' \/ (spc # "setId" /\ share' = my_id)
  BY <1>1 DEF Listening
<1>3. (spc = "setId" /\ id = 0 /\ uid = my_id) \/ (spc # "setId" /\ id = my_id)
  BY UidKnown
<1>4. /\ excuse = "none" /\ (Attach(l) \/ Deny(l))
      /\ ~(spc = "setId" /\ presented[l] = uid /\ Deny(l))
  BY DEF AddConnection, TurnAway, Attach, Deny
<1>5. CASE spc # "setId" /\ share = my_id
  BY <1>3, <1>4, <1>5 DEF Attach, Deny
<1>6. CASE \E k \in Listeners : k # l /\ (lst[k] = "starting" \/ (lst[k] = "asked" /\ presented[k] = my_id))
  BY <1>1, <1>2, <1>6 DEF Coming
<1>7. CASE presented[l] = my_id
  BY <1>3, <1>4, <1>7 DEF Attach, Deny
<1>8. QED
  <2>1. Coming(my_id) \/ (spc # "setId" /\ share = my_id)
    BY <1>4 DEF Listening
  <2>2. QED
    BY <1>1, <1>5, <1>6, <1>7, <2>1 DEF Coming

LEMMA ListeningHolds ==
  ASSUME Typed, Turns, Wire, LoginUnderWay, Listening, [Next]_vars, Orderly'
  PROVE  Listening'
<1>1. ASSUME UNCHANGED <<my_id, lst, presented, share, excuse, link>>,
             spc' = "setId" => spc = "setId",
             link = "up" /\ wait["console"] = "logout" /\ toClient # << >> =>
               UNCHANGED <<toClient, wait>>
      PROVE  Listening'
  BY <1>1 DEF Listening, Coming
<1>2. ASSUME my_id' = 0 \/ link' # "up" PROVE Listening'
  BY <1>2 DEF Listening
<1>3. CASE Input /\ UNCHANGED serverVars
  <2>1. PICK th \in Threads, what \in Asked : \E v : Request(th, what, v)
    BY <1>3 DEF Input, TypeCredentials, TypeLogout, TypeText, PressRoom, PressSend, Threads, Asked
  <2>2. wait["console"] = "none" /\ UNCHANGED <<my_id, lst, presented, link>>
    BY <2>1, InTurn DEF Request, listenVars, wireVars, Threads
  <2>3. QED
    BY <1>1, <1>3, <2>2 DEF serverVars, sessionVars
<1>4. CASE Connect /\ UNCHANGED serverVars
  <2>1. my_id' = 0
    BY <1>4 DEF Connect, Wire, clientVars, inputVars
  <2>2. QED
    BY <1>2, <2>1
<1>5. ASSUME NEW th \in Threads, Send(th), UNCHANGED serverVars PROVE Listening'
  BY <1>1, <1>5 DEF Send, inputVars, listenVars, serverVars, sessionVars
<1>6. ASSUME NEW th \in Threads, TakesAnswer(th), UNCHANGED serverVars PROVE Listening'
  <2>1. CASE TakeLogout
    BY <1>2, <2>1 DEF TakeLogout
  <2>2. CASE TakeUid
    <3>1. lst[MaxLogins] = "none" /\ lst' = [lst EXCEPT ![NextListener] = "starting"]
      BY <2>2 DEF TakeUid, LoginUnderWay
    <3>2. NextListener \in Listeners /\ lst'[NextListener] = "starting"
      BY <3>1, ListenersLeft DEF Typed, DialogueTypeOK, ClientTypeOK
    <3>3. QED
      BY <3>2 DEF Listening, Coming
  <2>3. CASE \/ th = "console" /\ (TakeAck \/ TakeVerdict)
             \/ th = "window" /\ TakeRoom
             \/ TakeSaid(th)
    <3>1. wait["console"] # "logout"
      <4>1. Busy(th) /\ wait[th] # "logout"
        BY <2>3 DEF TakeAck, TakeVerdict, TakeRoom, TakeSaid, Busy
      <4>2. QED
        BY <4>1 DEF Turns, Busy, Threads
    <3>2. UNCHANGED <<my_id, lst, presented, link>>
      BY <2>3 DEF TakeAck, TakeVerdict, TakeRoom, TakeSaid, Takes, inputVars, listenVars
    <3>3. QED
      BY <1>1, <1>6, <3>1, <3>2 DEF serverVars, sessionVars
  <2>4. QED
    BY <1>6, <2>1, <2>2, <2>3 DEF TakesAnswer
<1>7. CASE SessionStep /\ UNCHANGED clientVars
  <2>1. UNCHANGED <<my_id, lst, presented, wait, share, link>>
    BY <1>7 DEF SessionStep, clientVars, inputVars, listenVars
  <2>2. CASE TellUid
    <3>1. my_id = 0
      BY <2>2, StageOf DEF TellUid, Granted
    <3>2. QED
      BY <1>2, <2>1, <3>1
  <2>3. CASE ~TellUid
    <3>1. spc' # "setId"
      <4>1. CASE ReadCommand
        <5>1. spc' \in Asked
          BY <4>1, PartDue DEF ReadCommand, Receive
        <5>2. QED
          BY <5>1 DEF Asked
      <4>2. CASE ReadCreds \/ Refuse \/ Grant \/ SetId \/ Logout \/ ChangeRoom \/ ReadLength \/ Message
        BY <4>2 DEF ReadCreds, Refuse, Grant, SetId, Logout, ChangeRoom, ReadLength, Message
      <4>3. QED
        BY <1>7, <2>3, <4>1, <4>2 DEF SessionStep, ServerStep
    <3>2. excuse' = excuse
      BY <1>7, <3>1 DEF SessionStep
    <3>3. spc # "recv" \/ toServer # << >>
      BY <1>7 DEF SessionStep, ServerStep, ReadCommand, ReadCreds, Refuse, Grant, TellUid, SetId,
                  Logout, ChangeRoom, ReadLength, Message, Receive
    <3>4. ~(link = "up" /\ wait["console"] = "logout" /\ toClient # << >>)
      BY <3>3, LogoutAnswered
    <3>5. QED
      BY <1>1, <2>1, <3>1, <3>2, <3>4
  <2>4. QED
    BY <2>2, <2>3
<1>8. CASE Admit /\ UNCHANGED clientVars
  <2>1. link = "up" => Greeted
    BY <1>8 DEF Admit, Wire, Talking, Resting, Granted, Told, Unanswered, Asking, Serving,
                Answered, Asked
  <2>2. link # "up" => link' # "up"
    BY <1>8 DEF Admit
  <2>3. link = "up" => my_id' = 0
    BY <1>8, <2>1 DEF Greeted, clientVars, inputVars
  <2>4. QED
    BY <1>2, <2>2, <2>3
<1>9. CASE Cut /\ UNCHANGED clientVars
  BY <1>2, <1>9 DEF Cut
<1>10. ASSUME NEW l \in Listeners, Present(l), UNCHANGED serverVars PROVE Listening'
  <2>1. lst'[l] = "asked" /\ presented'[l] = my_id /\ my_id' = my_id
    BY <1>10 DEF Present, inputVars, Typed, DialogueTypeOK, ClientTypeOK
  <2>2. QED
    BY <2>1 DEF Listening, Coming
<1>11. ASSUME NEW l \in Listeners, AddConnection(l) PROVE Listening'
  BY <1>11, ListenerSettles
<1>12. CASE UNCHANGED vars
  BY <1>1, <1>12 DEF vars, clientVars, inputVars, listenVars, wireVars, serverVars, sessionVars
<1>13. QED
  BY <1>3, <1>4, <1>5, <1>6, <1>7, <1>8, <1>9, <1>10, <1>11, <1>12, ThreadSteps DEF Next

-------------------------------------------------------------------------------
LEMMA DialogueStep == Orderly' /\ DialogueInv /\ [Next]_vars => DialogueInv'
BY TypedHolds, TurnsHold, LoginUnderWayHolds, NameOfAccountHolds, WireHolds, ListeningHolds
   DEF DialogueInv

LEMMA DialogueInvHolds == Spec /\ []Orderly => []DialogueInv
BY DialogueStarts, DialogueStep, PTL DEF Spec

(* As long as the requests are orderly, the client's variables and the session's
   stay in their types, the uid the console takes from the socket among them: it
   never takes a status word for it (client.cpp 222 and 275, where recv fills
   my_id with whatever comes).                                                *)
THEOREM UidsAreUids == Spec /\ []Orderly => []DialogueTypeOK
<1>1. DialogueInv => DialogueTypeOK
  BY DEF DialogueInv, Typed
<1>2. QED
  BY <1>1, DialogueInvHolds, PTL

(* Cross-talk has two causes only: both threads wait for an answer at a time,
   or the user logs in while logged in.  As long as neither happens, and whoever
   the user is, a word from the server is taken by the thread whose request it
   answers, and what the session receives is what it expects, through refusals,
   rooms left without an answer, late listeners, a full server and a connection
   cut anywhere (client.cpp 211-306 and 616-680, server.cpp 583-829).         *)
THEOREM NoCrossTalk == Spec /\ []Orderly => []AnswersFit
<1>1. ASSUME Typed, Turns, Wire PROVE AnswersFit
  <2>1. toServer # << >> /\ Expected # "nothing" => Head(toServer).part = Expected
    BY <1>1, PartDue DEF Expected, Logins
  <2>2. ASSUME toClient # << >>
        PROVE  LET to == Head(toClient).to
               IN  \/ wait[to[1]] = to[2]
                   \/ wait[to[1]] = "uid" /\ to[2] \in {"login", "reg"}
    <3>1. Fits
      BY <1>1, <2>2, StageFits DEF Wire, Typed, DialogueTypeOK, ClientTypeOK
    <3>2. ASSUME NEW word, NEW th, NEW what, NEW rest,
                 toClient = <<To(word, th, what)>> \/ toClient = <<To(word, th, what), rest>>
          PROVE  Head(toClient).to[1] = th /\ Head(toClient).to[2] = what
      <4>1. Head(toClient) = To(word, th, what)
        BY <3>2, OneOrTwo
      <4>2. QED
        BY <4>1 DEF To
    <3>3. PICK th \in Threads :
            \/ \E word \in 0 .. 5 : toClient = <<To(word, th, wait[th])>>
            \/ \E u \in Uids : toClient = <<To(Success(wait[th]), th, wait[th]), To(u, th, wait[th])>>
            \/ /\ wait[th] = "uid"
               /\ \E what \in Logins, u \in Uids : toClient = <<To(u, th, what)>>
      BY <2>2, <3>1 DEF Fits
    <3>4. QED
      BY <3>2, <3>3 DEF Logins
  <2>3. QED
    BY <2>1, <2>2 DEF AnswersFit
<1>2. DialogueInv => AnswersFit
  BY <1>1 DEF DialogueInv
<1>3. QED
  BY <1>2, DialogueInvHolds, PTL

(* When nothing is under way, both sides have the same user and the same room. *)
LEMMA IdleRests ==
  ASSUME Typed, Turns, Wire, Idle
  PROVE  id = my_id /\ SameRoom
<1>1. \A th \in Threads : ~Busy(th)
  BY DEF Idle, Busy
<1>2. Resting
  BY <1>1 DEF Idle, Wire, Talking, Greeted, Granted, Told, Unanswered, Asking, Serving, Answered,
              Busy, Threads, Asked, Logins
<1>3. QED
  BY <1>2 DEF Resting, Idle, Agreed, SameUser

(* After orderly requests, whenever nothing is under way, the client and the
   session agree on the uid, on whether the user is logged in, on the room, and on the account the
   session speaks for (client.cpp 219-252 and 630-639, server.cpp 646-798).   *)
THEOREM SidesAgree == Spec /\ []Orderly => []Agreement
<1>1. DialogueInv => Agreement
  BY IdleRests DEF DialogueInv, Agreement, NameOfAccount, SameRoom
<1>2. QED
  BY <1>1, DialogueInvHolds, PTL

(* After orderly requests, and nothing under way, a logged-in session is heard
   under its own uid, unless its listener was turned away or came before the
   uid was in the table (client.cpp 222-223 and 325-357, server.cpp 106-122). *)
THEOREM SessionIsHeard == Spec /\ []Orderly => []SessionHeard
<1>1. ASSUME Typed, Turns, Wire, NameOfAccount, Listening PROVE SessionHeard
  <2>1. SUFFICES ASSUME Idle, logged, excuse = "none",
                        \A l \in Listeners : lst[l] \notin {"starting", "asked"}
                 PROVE  share = id
    BY DEF SessionHeard
  <2>2. id = my_id /\ id # 0
    BY <1>1, <2>1, IdleRests DEF NameOfAccount
  <2>3. ~Coming(my_id) /\ link = "up" /\ toClient = << >>
    BY <2>1 DEF Coming, Idle
  <2>4. QED
    BY <1>1, <2>1, <2>2, <2>3 DEF Listening
<1>2. DialogueInv => SessionHeard
  BY <1>1 DEF DialogueInv
<1>3. QED
  BY <1>2, DialogueInvHolds, PTL

(* The console's "login deny" is true unless requests of both threads met or the
   user logged in while logged in, who is told so and served all the same
   (client.cpp 201-203 and 228-230, server.cpp 651-657).                      *)
THEOREM DenyMeansDeny == Spec /\ []Orderly => []DenyIsDeny
<1>1. ASSUME Typed, Turns, Wire PROVE DenyIsDeny
  <2>1. SUFFICES ASSUME wait["console"] = "none", spc = "recv", toServer = << >> PROVE id = my_id
    BY DEF DenyIsDeny
  <2>2. Talking
    BY <1>1, <2>1 DEF Wire, Typed, DialogueTypeOK, ClientTypeOK
  <2>3. ~Greeted /\ ~Told /\ ~Granted
    BY <2>1 DEF Greeted, Told, Granted, Logins
  <2>4. ASSUME NEW th \in Threads, Answered(th) PROVE wait[th] # "logout"
    BY <1>1, <2>1 DEF Turns, Threads
  <2>5. QED
    BY <2>1, <2>2, <2>3, <2>4
       DEF Talking, Resting, Unanswered, Asking, Serving, Answered, Agreed, SameUser
<1>2. DialogueInv => DenyIsDeny
  BY <1>1 DEF DialogueInv
<1>3. QED
  BY <1>2, DialogueInvHolds, PTL

(* A user who gives no input while a request is under way, and logs in only when
   logged out, is orderly: what the runs show of him are cases of the theorems.
   The client's threads make sure of neither (client.cpp 190-306, 616-680).   *)
THEOREM CarefulIsOrderly == ASSUME Careful PROVE Spec => []Orderly
<1> DEFINE Kept == /\ Orderly
                   /\ wait \in [Threads -> Asked \cup {"connect", "uid", "none"}]
<1>1. Init => Kept
  BY DEF Init, ClientInit, Orderly, Busy, LoggedOut, Logins, Threads
<1>2. Kept /\ [Next]_vars => Kept'
  <2> SUFFICES ASSUME Kept, [Next]_vars PROVE Kept'
    OBVIOUS
  <2>1. ASSUME NEW th \in Threads, NEW what \in Asked, NEW v, Request(th, what, v) PROVE Kept'
    <3>1. (\A t \in Threads : wait[t] = "none") /\ (what \in Logins => my_id = 0)
      BY <2>1 DEF Careful, Request, Willing, Logins
    <3>2. my_id' = my_id /\ wait' = [wait EXCEPT ![th] = what]
      BY <2>1 DEF Request
    <3>3. QED
      BY <3>1, <3>2 DEF Orderly, Busy, LoggedOut
  <2>2. CASE Input
    <3>1. \E th \in Threads, what \in Asked : \E v : Request(th, what, v)
      BY <2>2 DEF Input, TypeCredentials, TypeLogout, TypeText, PressRoom, PressSend, Threads, Asked
    <3>2. QED
      BY <2>1, <3>1
  <2>3. CASE UNCHANGED <<my_id, wait>>
    BY <2>3 DEF Orderly, Busy, LoggedOut
  <2>4. ASSUME NEW th \in Threads, TakesAnswer(th) PROVE Kept'
    <3>1. wait[th] # "none" /\ \E next \in {"none", "uid"} : wait' = [wait EXCEPT ![th] = next]
      BY <2>4 DEF TakesAnswer, TakeAck, TakeVerdict, TakeUid, TakeLogout, TakeRoom, TakeSaid, Done
    <3>2. \A t \in Threads : wait'[t] \in {wait[t], "none", "uid"} /\ (Busy(t)' => Busy(t))
      BY <3>1 DEF Busy
    <3>3. \A t \in Threads : wait'[t] # "uid" /\ wait'[t] # "none" => t # th
      BY <3>1
    <3>4. \A t \in Threads : LoggedOut(t)'
      BY <3>1, <3>2, <3>3 DEF Orderly, Busy, LoggedOut, Logins
    <3>5. QED
      BY <3>1, <3>2, <3>4 DEF Orderly
  <2>5. CASE ConsoleStep \/ WindowStep
    <3>1. Connect => UNCHANGED <<my_id, wait>>
      BY DEF Connect, clientVars, inputVars
    <3>2. \A th \in Threads : Send(th) => UNCHANGED <<my_id, wait>>
      BY DEF Send, inputVars
    <3>3. QED
      BY <2>3, <2>4, <2>5, <3>1, <3>2, ThreadSteps
  <2>6. CASE UNCHANGED clientVars \/ UNCHANGED vars \/ ListenerStep
    <3>1. UNCHANGED <<my_id, wait>>
      BY <2>6, ListenersApart DEF clientVars, inputVars, vars
    <3>2. QED
      BY <2>3, <3>1
  <2>7. QED
    BY <2>2, <2>5, <2>6 DEF Next, ListenerStep
<1>3. QED
  BY <1>1, <1>2, PTL DEF Spec
===============================================================================

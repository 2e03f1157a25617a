--------------------------- MODULE ChatServerProofs ---------------------------
(***************************************************************************)
(* What holds of the running server for every number of frames and         *)
(* connections, and whatever rand, the clients and the pool do.            *)
(***************************************************************************)
EXTENDS ChatServer, FiniteSetTheorems, TLAPS

(* The places from which the accept loop still needs a frame. *)
Taking == {"first", "scanFree", "fillTalk", "fillShare", "fillWork", "ack"}

(* The bounds on indices and the kinds of locals that typing rests on. *)
Bounds ==
  /\ mpc \in Taking => counter < MAX_CLIENTS
  /\ mpc \in {"fillShare", "fillWork"} => mt < MAX_CLIENTS
  /\ \A w \in Workers :
       /\ wpc[w] \in {"check", "length", "body"} => wt[w] < MAX_CLIENTS
       /\ wpc[w] = "insert" => cred[w] \in Creds
       /\ wpc[w] \in {"scan", "tell", "setId"} => cmd[w] \in RandValues

Typed == TypeOK /\ Bounds

-------------------------------------------------------------------------------
(* The initial state is typed. *)
LEMMA InitTyped == Init => Typed
<1> SUFFICES ASSUME Init PROVE Typed
  OBVIOUS
<1> USE ClientsAssumption, ConnAssumption DEF Init, Frames, Workers
<1>1. FramesTypeOK
  BY DEF FramesInit, FramesTypeOK, ConnState, WorkState, NoRoom
<1>2. MainTypeOK
  BY DEF MainInit, MainTypeOK, MainPlaces, NULL, Uninit
<1>3. SessionTypeOK
  BY DEF SessionInit, SessionTypeOK, Text, NULL, Uninitialised
<1>4. wpc \in [Workers -> Places]
  BY DEF FramesInit, Places
<1>5. Bounds
  BY DEF FramesInit, MainInit, Bounds, Taking
<1>6. QED
  BY <1>1, <1>2, <1>3, <1>4, <1>5 DEF Typed, TypeOK

(* Every step of the accept loop keeps the state typed. *)
LEMMA MainTyped ==
  ASSUME Typed, MainNext, UNCHANGED sessionVars
  PROVE  Typed'
<1> USE ClientsAssumption DEF Typed, TypeOK
<1>1. SessionTypeOK'
  BY DEF SessionTypeOK, sessionVars, localVars, streamVars
<1>2. CASE Accept
  <2>1. soc' \in Conns \cup {NULL}
    BY <1>2, ConnAssumption DEF Accept, MainTypeOK, Conns, NULL
  <2>2. conn' \in [Conns -> ConnState]
    BY <1>2 DEF Accept, FramesTypeOK, ConnState
  <2>3. FramesTypeOK' /\ MainTypeOK'
    BY <1>2, <2>1, <2>2 DEF Accept, FramesTypeOK, MainTypeOK, MainPlaces, table
  <2>4. Bounds' /\ (wpc \in [Workers -> Places])'
    BY <1>2 DEF Accept, Full, Bounds, Taking, MainTypeOK, sessionVars, localVars, table
  <2>5. QED
    BY <1>1, <2>3, <2>4
<1>3. CASE Deny
  <2>1. FramesTypeOK' /\ MainTypeOK'
    BY <1>3 DEF Deny, CloseSocket, FramesTypeOK, MainTypeOK, MainPlaces, ConnState, table
  <2>2. Bounds' /\ (wpc \in [Workers -> Places])'
    BY <1>3 DEF Deny, Bounds, Taking, sessionVars, localVars, table
  <2>3. QED
    BY <1>1, <2>1, <2>2
<1>4. CASE First \/ SearchFreeUF \/ Acknowledge \/ SearchUID \/ Greet
  <2>1. FramesTypeOK' /\ (wpc \in [Workers -> Places])'
    BY <1>4 DEF First, SearchFreeUF, Acknowledge, SearchUID, Greet, FramesTypeOK, frameVars
  <2>2. MainTypeOK'
    BY <1>4 DEF First, SearchFreeUF, Acknowledge, SearchUID, Greet, Bounds, Taking, MainTypeOK, MainPlaces,
       USER_OK
  <2>3. Bounds'
    BY <1>4 DEF First, SearchFreeUF, Acknowledge, SearchUID, Greet, Bounds, Taking, MainTypeOK,
       frameVars, sessionVars, localVars
  <2>4. QED
    BY <1>1, <2>1, <2>2, <2>3
<1>5. CASE FillTalk \/ FillShare
  <2>1. mt \in Frames
    BY <1>5 DEF FillTalk, FillShare, Bounds, MainTypeOK, Frames
  <2>2. FramesTypeOK' /\ (wpc \in [Workers -> Places])'
    <3>1. talk' \in [Frames -> Conns \cup {NULL}] /\ share' \in [Frames -> Conns \cup {NULL}]
      BY <1>5, <2>1 DEF FillTalk, FillShare, FramesTypeOK, MainTypeOK
    <3>2. QED
      BY <1>5, <3>1 DEF FillTalk, FillShare, FramesTypeOK
  <2>3. MainTypeOK' /\ Bounds'
    BY <1>5, <2>1 DEF FillTalk, FillShare, Bounds, Taking, MainTypeOK, MainPlaces,
       sessionVars, localVars
  <2>4. QED
    BY <1>1, <2>2, <2>3
<1>6. CASE FillWork
  <2>1. mt \in Frames /\ counter + 1 \in Workers
    BY <1>6 DEF FillWork, Bounds, Taking, MainTypeOK, Frames, Workers
  <2>2. FramesTypeOK'
    <3>1. /\ pt' \in [Frames -> Workers \cup {NULL}]
          /\ work' \in [Workers -> WorkState]
          /\ wf' \in [Workers -> Frames]
      BY <1>6, <2>1 DEF FillWork, FramesTypeOK, WorkState
    <3>2. QED
      BY <1>6, <3>1 DEF FillWork, FramesTypeOK
  <2>3. (wpc \in [Workers -> Places])'
    BY <1>6, <2>1 DEF FillWork, Goto, Places
  <2>4. MainTypeOK' /\ Bounds'
    BY <1>6, <2>1, <2>3 DEF FillWork, Goto, Bounds, Taking, MainTypeOK, MainPlaces,
       sessionVars, localVars
  <2>5. QED
    BY <1>1, <2>2, <2>3, <2>4
<1>7. CASE ReadUid
  <2>1. uid' \in Int
    BY <1>7 DEF ReadUid, FramesTypeOK, MainTypeOK, USER_ACCESS_DENY
  <2>2. FramesTypeOK' /\ MainTypeOK' /\ (wpc \in [Workers -> Places])'
    BY <1>7, <2>1 DEF ReadUid, FramesTypeOK, MainTypeOK, MainPlaces, frameVars
  <2>3. Bounds'
    BY <1>7 DEF ReadUid, Bounds, Taking, frameVars, sessionVars, localVars
  <2>4. QED
    BY <1>1, <2>2, <2>3
<1>8. CASE VerifyUID
  <2>1. FramesTypeOK' /\ (wpc \in [Workers -> Places])'
    BY <1>8 DEF VerifyUID, CloseSocket, FramesTypeOK, ConnState, table
  <2>2. MainTypeOK'
    BY <1>8 DEF VerifyUID, MainTypeOK, MainPlaces, USER_ACCESS_DENY
  <2>3. Bounds'
    BY <1>8 DEF VerifyUID, Bounds, Taking, sessionVars, localVars, table
  <2>4. QED
    BY <1>1, <2>1, <2>2, <2>3
<1>9. CASE Attach
  <2>1. FramesTypeOK' /\ (wpc \in [Workers -> Places])'
    BY <1>9 DEF Attach, FramesTypeOK, MainTypeOK
  <2>2. MainTypeOK' /\ Bounds'
    BY <1>9 DEF Attach, MainTypeOK, MainPlaces, USER_OK, Bounds, Taking, sessionVars, localVars
  <2>3. QED
    BY <1>1, <2>1, <2>2
<1>10. QED
  BY <1>2, <1>3, <1>4, <1>5, <1>6, <1>7, <1>8, <1>9 DEF MainNext

(* A thread of the pool writes only well-typed values into the table. *)
LEMMA SessionFramesTyped ==
  ASSUME Typed, NEW w \in Workers, SessionNext(w)
  PROVE  FramesTypeOK'
<1> USE DEF Typed, TypeOK
<1>1. wf[w] \in Frames
  BY DEF FramesTypeOK
<1>2. CASE Tell(w)
  BY <1>2, RandAssumption DEF Tell, Bounds, FramesTypeOK, table
<1>3. CASE SetId(w)
  <2>1. id' \in [Frames -> Nat]
    BY <1>1, <1>3, RandAssumption DEF SetId, Bounds, FramesTypeOK
  <2>2. QED
    BY <1>3, <2>1 DEF SetId, FramesTypeOK
<1>4. CASE Logout(w)
  BY <1>1, <1>4 DEF Logout, FramesTypeOK
<1>5. CASE ChangeRoom(w)
  <2>1. chat' \in [Frames -> Int]
    BY <1>1, <1>5 DEF ChangeRoom, FramesTypeOK
  <2>2. QED
    BY <1>5, <2>1 DEF ChangeRoom, FramesTypeOK
<1>6. CASE Left(w)
  BY <1>1, <1>6 DEF Left, NoRoom, FramesTypeOK
<1>7. CASE Join(w)
  <2>1. chat' \in [Frames -> Int]
    BY <1>1, <1>7 DEF Join, FramesTypeOK, SessionTypeOK
  <2>2. QED
    BY <1>7, <2>1 DEF Join, FramesTypeOK
<1>8. CASE CloseUserFrame(w) /\ UNCHANGED sessionVars
  <2>1. CASE CloseChat(w)
    BY <1>1, <2>1 DEF CloseChat, NoRoom, FramesTypeOK
  <2>2. CASE CloseId(w)
    BY <1>1, <2>2 DEF CloseId, FramesTypeOK
  <2>3. CASE CloseTalk(w)
    <3>1. conn' \in [Conns -> ConnState] /\ talk' \in [Frames -> Conns \cup {NULL}]
      BY <1>1, <2>3 DEF CloseTalk, CloseSocket, ConnState, FramesTypeOK
    <3>2. QED
      BY <2>3, <3>1 DEF CloseTalk, FramesTypeOK
  <2>4. CASE CloseShare(w)
    <3>1. conn' \in [Conns -> ConnState] /\ share' \in [Frames -> Conns \cup {NULL}]
      BY <1>1, <2>4 DEF CloseShare, CloseSocket, ConnState, FramesTypeOK
    <3>2. QED
      BY <2>4, <3>1 DEF CloseShare, FramesTypeOK
  <2>5. CASE CloseWork(w)
    <3>1. work' \in [Workers -> WorkState]
      BY <2>5 DEF CloseWork, WorkState, FramesTypeOK
    <3>2. QED
      BY <2>5, <3>1 DEF CloseWork, FramesTypeOK, table
  <2>6. QED
    BY <1>8, <2>1, <2>2, <2>3, <2>4, <2>5 DEF CloseUserFrame
<1>9. CASE UNCHANGED quiet
  BY <1>9 DEF quiet, table, FramesTypeOK
<1>10. QED
  <2>1. Start(w) \/ CallRecv(w) \/ RecvCommand(w) \/ RecvFails(w) \/ Lock(w) => UNCHANGED quiet
    BY DEF Start, CallRecv, RecvCommand, RecvFails, Lock
  <2>2. Login(w) \/ Register(w) \/ Insert(w) \/ Draw(w) \/ ScanIds(w) \/ Message(w)
        \/ NoCommand(w) \/ Broadcast(w) \/ Unlock(w) => UNCHANGED quiet
    BY DEF Login, Register, Insert, Draw, ScanIds, Message, NoCommand, Unlock, Broadcast,
       EnterShare, MatchRoom, MatchListener, SendLength, SendText, LeaveShare
  <2>3. QED
    BY <1>2, <1>3, <1>4, <1>5, <1>6, <1>7, <1>8, <1>9, <2>1, <2>2
    DEF SessionNext, Handler, NewUid

(* A thread of the pool keeps its locals and the shared buffers well-typed. *)
LEMMA SessionLocalsTyped ==
  ASSUME Typed, NEW w \in Workers, SessionNext(w)
  PROVE  SessionTypeOK'
<1> USE DEF Typed, TypeOK
<1>1. wf[w] \in Frames /\ \A f \in Frames : share[f] \in Conns \cup {NULL} /\ chat[f] \in Int
  BY DEF FramesTypeOK
<1>2. CASE CallRecv(w)
  BY <1>1, <1>2 DEF CallRecv, Talk, SessionTypeOK, streamVars, FramesTypeOK
<1>3. CASE RecvCommand(w)
  <2>1. sock[w] \in Conns
    BY <1>3 DEF RecvCommand, Up, SessionTypeOK, FramesTypeOK
  <2>2. Commands[sock[w]] \subseteq Nat
    BY <2>1, CommandAssumption
  <2>3. QED
    BY <1>3, <2>2 DEF RecvCommand, SessionTypeOK, streamVars, IntSize, NULL
<1>4. CASE RecvFails(w)
  <2>1. cmd' \in [Workers -> Int] /\ ib' \in [Workers -> Int]
    <3>1. Leftovers \subseteq Nat
      BY CommandAssumption DEF Leftovers
    <3>2. QED
      BY <1>4, <3>1 DEF RecvFails, SessionTypeOK
  <2>2. QED
    BY <1>4, <2>1 DEF RecvFails, SessionTypeOK, streamVars, NULL
<1>5. CASE Lock(w) \/ Unlock(w)
  BY <1>5 DEF Lock, Unlock, SessionTypeOK, localVars, streamVars
<1>6. CASE Login(w) \/ Register(w)
  <2>1. cred' \in [Workers -> Creds \cup {NoCred}]
    BY <1>6 DEF Login, Register, ReadCreds, SessionTypeOK
  <2>2. QED
    BY <1>6, <2>1 DEF Login, Register, SQL, Text, SessionTypeOK, streamVars
<1>7. CASE Insert(w)
  BY <1>7 DEF Insert, SQL, Text, Bounds, SessionTypeOK, localVars, streamVars
<1>8. CASE Draw(w)
  BY <1>8, RandAssumption, ClientsAssumption DEF Draw, SessionTypeOK, streamVars
<1>9. CASE ScanIds(w)
  BY <1>9, ClientsAssumption DEF ScanIds, SessionTypeOK, streamVars
<1>10. CASE SetId(w) \/ Logout(w)
  BY <1>10 DEF SetId, Logout, SessionTypeOK, streamVars
<1>11. CASE ChangeRoom(w)
  <2>1. ib' \in [Workers -> Int]
    BY <1>11, RoomAssumption DEF ChangeRoom, SessionTypeOK
  <2>2. after' \in [Workers -> {"unlock", "left", "join"}]
    BY <1>11 DEF ChangeRoom, CallShare, SessionTypeOK
  <2>3. buffer' \in [by : Workers \cup {0}, what : {"none", "sql", "say", "leave", "join"}, room : Int]
    BY <1>1, <1>11 DEF ChangeRoom, Text, SessionTypeOK
  <2>4. QED
    BY <1>11, <2>1, <2>2, <2>3 DEF ChangeRoom, SessionTypeOK, streamVars
<1>12. CASE Join(w) \/ Message(w)
  <2>1. buffer' \in [by : Workers \cup {0}, what : {"none", "sql", "say", "leave", "join"}, room : Int]
    BY <1>1, <1>12 DEF Join, Message, Text, SessionTypeOK
  <2>2. after' \in [Workers -> {"unlock", "left", "join"}]
    BY <1>12 DEF Join, Message, CallShare, SessionTypeOK
  <2>3. QED
    BY <1>12, <2>1, <2>2 DEF Join, Message, SessionTypeOK, streamVars
<1>13. CASE EnterShare(w)
  BY <1>1, <1>13 DEF EnterShare, SessionTypeOK, streamVars
<1>14. CASE MatchRoom(w) \/ MatchListener(w) \/ LeaveShare(w)
  BY <1>14, ClientsAssumption DEF MatchRoom, MatchListener, LeaveShare, Bounds, SessionTypeOK, streamVars
<1>15. CASE SendLength(w) \/ SendText(w)
  <2>1. wt[w] \in Frames
    BY <1>15, ClientsAssumption DEF SendLength, SendText, Bounds, SessionTypeOK, Frames
  <2>2. rx' \in [Conns -> {"whole", "half", "torn"}]
    BY <1>15 DEF SendLength, SendText, Receives, SessionTypeOK
  <2>3. wt' \in [Workers -> 0 .. MAX_CLIENTS]
    <3>1. CASE SendLength(w)
      BY <3>1 DEF SendLength, SessionTypeOK, localVars
    <3>2. CASE SendText(w)
      BY <2>1, <3>2, ClientsAssumption DEF SendText, SessionTypeOK, Frames
    <3>3. QED
      BY <1>15, <3>1, <3>2
  <2>4. lenTo' \in [Workers -> Conns \cup {NULL}] /\ swapped' \subseteq Conns \cup {NULL}
    BY <1>1, <1>15, <2>1 DEF SendLength, SendText, SessionTypeOK
  <2>5. QED
    BY <1>15, <2>2, <2>3, <2>4 DEF SendLength, SendText, SessionTypeOK, localVars
<1>16. CASE UNCHANGED sessionVars
  BY <1>16 DEF sessionVars, localVars, streamVars, SessionTypeOK
<1>17. QED
  BY <1>2, <1>3, <1>4, <1>5, <1>6, <1>7, <1>8, <1>9, <1>10, <1>11, <1>12, <1>13, <1>14, <1>15, <1>16
  DEF SessionNext, Handler, NewUid, Broadcast, Start, Tell, Left, NoCommand

(* A thread of the pool is always at one of its places, and reaches the places
   that use an index or a credential only with a good one.                   *)
LEMMA SessionPlacesTyped ==
  ASSUME Typed, NEW w \in Workers, SessionNext(w), UNCHANGED mainVars
  PROVE  (wpc \in [Workers -> Places])' /\ Bounds'
<1> USE DEF Typed, TypeOK
<1>1. ASSUME NEW p \in Places, Goto(w, p)
      PROVE  /\ wpc' \in [Workers -> Places]
             /\ wpc'[w] = p
             /\ \A v \in Workers : v # w => wpc'[v] = wpc[v]
  BY <1>1 DEF Goto
<1>2. ASSUME NEW p \in Places, Goto(w, p),
             \A v \in Workers : v # w => wt'[v] = wt[v] /\ cred'[v] = cred[v] /\ cmd'[v] = cmd[v],
             p \in {"check", "length", "body"} => wt'[w] < MAX_CLIENTS,
             p = "insert" => cred'[w] \in Creds,
             p \in {"scan", "tell", "setId"} => cmd'[w] \in RandValues
      PROVE  (wpc \in [Workers -> Places])' /\ Bounds'
  BY <1>1, <1>2 DEF Bounds, mainVars
<1> USE DEF Places, Critical, InShare, ClosePlaces, SessionTypeOK
<1>3. CASE Start(w) \/ CallRecv(w) \/ RecvCommand(w) \/ RecvFails(w)
  <2>1. CASE Start(w)
    BY <1>2, <2>1 DEF Start, sessionVars, localVars
  <2>2. CASE CallRecv(w)
    BY <1>2, <2>2 DEF CallRecv
  <2>3. CASE RecvCommand(w)
    BY <1>2, <2>3 DEF RecvCommand
  <2>4. CASE RecvFails(w)
    BY <1>2, <2>4 DEF RecvFails
  <2>5. QED
    BY <1>3, <2>1, <2>2, <2>3, <2>4
<1>4. CASE Lock(w) \/ Unlock(w) \/ NoCommand(w)
  BY <1>2, <1>4 DEF Lock, Unlock, NoCommand, sessionVars, localVars
<1>5. CASE Login(w)
  <2>1. Goto(w, "rand") \/ Goto(w, "unlock")
    BY <1>5 DEF Login
  <2>2. \A v \in Workers : v # w => cred'[v] = cred[v]
    BY <1>5 DEF Login, ReadCreds
  <2>3. QED
    BY <1>2, <1>5, <2>1, <2>2 DEF Login
<1>6. CASE Register(w)
  <2>1. Goto(w, "unlock") \/ Goto(w, "insert")
    BY <1>6 DEF Register
  <2>2. \A v \in Workers : v # w => cred'[v] = cred[v]
    BY <1>6 DEF Register, ReadCreds
  <2>3. cred'[w] \in Creds
    BY <1>6 DEF Register, ReadCreds
  <2>4. QED
    BY <1>2, <1>6, <2>1, <2>2, <2>3 DEF Register
<1>7. CASE Insert(w)
  BY <1>2, <1>7 DEF Insert, localVars
<1>8. CASE Draw(w)
  BY <1>2, <1>8 DEF Draw
<1>9. CASE ScanIds(w)
  <2>1. CASE UNCHANGED wpc
    BY <1>9, <2>1 DEF ScanIds, Bounds, mainVars
  <2>2. CASE Goto(w, "rand") \/ Goto(w, "tell")
    BY <1>2, <1>9, <2>2 DEF ScanIds, Bounds
  <2>3. QED
    BY <1>9, <2>1, <2>2 DEF ScanIds
<1>10. CASE Tell(w)
  BY <1>2, <1>10 DEF Tell, Bounds, sessionVars, localVars
<1>11. CASE SetId(w) \/ Logout(w)
  BY <1>2, <1>11 DEF SetId, Logout
<1>12. CASE ChangeRoom(w)
  <2>1. Goto(w, "unlock") \/ Goto(w, "call") \/ Goto(w, "join")
    BY <1>12 DEF ChangeRoom, CallShare
  <2>2. QED
    BY <1>2, <1>12, <2>1 DEF ChangeRoom
<1>13. CASE Left(w)
  BY <1>2, <1>13 DEF Left, sessionVars, localVars
<1>14. CASE Join(w) \/ Message(w)
  BY <1>2, <1>14 DEF Join, Message, CallShare
<1>15. CASE EnterShare(w)
  BY <1>2, <1>15 DEF EnterShare
<1>16. CASE MatchRoom(w) \/ MatchListener(w)
  <2>1. CASE MatchRoom(w) /\ UNCHANGED wpc
    BY <2>1 DEF MatchRoom, Bounds, mainVars
  <2>2. CASE MatchRoom(w) /\ Goto(w, "check") /\ UNCHANGED wt
    BY <1>2, <2>2 DEF MatchRoom
  <2>3. CASE MatchListener(w)
    <3>1. wt[w] < MAX_CLIENTS
      BY <2>3 DEF MatchListener, Bounds
    <3>2. QED
      BY <1>2, <2>3, <3>1 DEF MatchListener
  <2>4. QED
    BY <1>16, <2>1, <2>2, <2>3 DEF MatchRoom
<1>17. CASE SendLength(w)
  BY <1>2, <1>17 DEF SendLength, Bounds, localVars
<1>18. CASE SendText(w)
  BY <1>2, <1>18 DEF SendText
<1>19. CASE LeaveShare(w)
  <2>1. after[w] \in {"unlock", "left", "join"}
    OBVIOUS
  <2>2. QED
    BY <1>2, <1>19, <2>1 DEF LeaveShare
<1>20. CASE CloseUserFrame(w) /\ UNCHANGED sessionVars
  <2>1. \E p \in ClosePlaces \cup {"done"} : Goto(w, p)
    BY <1>20 DEF CloseUserFrame, CloseChat, CloseId, CloseTalk, CloseShare, CloseWork
  <2>2. QED
    BY <1>2, <1>20, <2>1 DEF sessionVars, localVars
<1>21. QED
  BY <1>3, <1>4, <1>5, <1>6, <1>7, <1>8, <1>9, <1>10, <1>11, <1>12, <1>13, <1>14, <1>15, <1>16,
     <1>17, <1>18, <1>19, <1>20
  DEF SessionNext, Handler, NewUid, Broadcast

(* A client that goes away changes nothing but its socket. *)
LEMMA PeerTyped ==
  ASSUME Typed, NEW c \in Conns, PeerLeaves(c), UNCHANGED <<mainVars, sessionVars>>
  PROVE  Typed'
<1> USE DEF Typed, TypeOK
<1>1. FramesTypeOK'
  BY EndingAssumption DEF PeerLeaves, FramesTypeOK, ConnState, table
<1>2. MainTypeOK' /\ SessionTypeOK'
  BY DEF mainVars, sessionVars, localVars, streamVars, MainTypeOK, SessionTypeOK
<1>3. Bounds' /\ (wpc \in [Workers -> Places])'
  BY DEF PeerLeaves, mainVars, sessionVars, localVars, Bounds
<1>4. QED
  BY <1>1, <1>2, <1>3

LEMMA NextTyped == Typed /\ [Next]_vars => Typed'
<1> SUFFICES ASSUME Typed, [Next]_vars PROVE Typed'
  OBVIOUS
<1>1. CASE MainNext /\ UNCHANGED sessionVars
  BY <1>1, MainTyped
<1>2. CASE \E w \in Workers : SessionNext(w) /\ UNCHANGED mainVars
  <2>1. PICK w \in Workers : SessionNext(w) /\ UNCHANGED mainVars
    BY <1>2
  <2>2. FramesTypeOK'
    BY <2>1, SessionFramesTyped
  <2>3. MainTypeOK'
    BY <2>1 DEF mainVars, MainTypeOK, Typed, TypeOK
  <2>4. SessionTypeOK'
    BY <2>1, SessionLocalsTyped
  <2>5. (wpc \in [Workers -> Places])' /\ Bounds'
    BY <2>1, SessionPlacesTyped
  <2>6. QED
    BY <2>2, <2>3, <2>4, <2>5 DEF Typed, TypeOK
<1>3. CASE \E c \in Conns : PeerLeaves(c) /\ UNCHANGED <<mainVars, sessionVars>>
  BY <1>3, PeerTyped
<1>4. CASE UNCHANGED vars
  BY <1>4 DEF vars, frameVars, mainVars, sessionVars, localVars, streamVars, Typed, TypeOK,
     FramesTypeOK, MainTypeOK, SessionTypeOK, Bounds
<1>5. QED
  BY <1>1, <1>2, <1>3, <1>4 DEF Next

(* Every variable always holds a value of its kind.  It rests on Bounds: the
   index that _main writes through, the index share() sends through, and the
   locals that a case of the switch hands on to its next step.               *)
THEOREM TypeCorrect == Spec => []TypeOK
<1>1. Spec => []Typed
  BY InitTyped, NextTyped, PTL DEF Spec
<1>2. Typed => TypeOK
  BY DEF Typed
<1>3. QED
  BY <1>1, <1>2, PTL

-------------------------------------------------------------------------------
(***************************************************************************)
(* The mutex.  Work items are started in the order of the counter, so the  *)
(* one that _main starts was at no place before.                           *)
(***************************************************************************)
Started == \A w \in Workers : wpc[w] # "none" => w <= counter \/ (mpc = "ack" /\ w = counter + 1)

Mutex == \A w \in Workers : wpc[w] \in Critical <=> mm = w

(* A step of a thread moves no other thread and touches no other's locals. *)
LEMMA OthersStay ==
  ASSUME Typed, NEW w \in Workers, SessionNext(w)
  PROVE  \A v \in Workers : v # w => /\ wpc'[v] = wpc[v] /\ cmd'[v] = cmd[v]
                                     /\ wt'[v] = wt[v] /\ cred'[v] = cred[v]
<1> USE DEF Typed, TypeOK, SessionTypeOK
<1>1. CASE Start(w) \/ CallRecv(w) \/ RecvCommand(w) \/ RecvFails(w) \/ Lock(w) \/ Unlock(w)
  BY <1>1 DEF Start, CallRecv, RecvCommand, RecvFails, Lock, Unlock, Goto, sessionVars, localVars
<1>2. CASE Login(w) \/ Register(w) \/ Insert(w) \/ Logout(w) \/ NoCommand(w)
  BY <1>2 DEF Login, Register, ReadCreds, Insert, Logout, NoCommand, Goto, sessionVars, localVars
<1>3. CASE NewUid(w)
  BY <1>3 DEF NewUid, Draw, ScanIds, Tell, SetId, Goto, sessionVars, localVars
<1>4. CASE ChangeRoom(w) \/ Left(w) \/ Join(w) \/ Message(w)
  BY <1>4 DEF ChangeRoom, Left, Join, Message, CallShare, Goto, sessionVars, localVars
<1>5. CASE Broadcast(w)
  BY <1>5 DEF Broadcast, EnterShare, MatchRoom, MatchListener, SendLength, SendText, LeaveShare, Goto, localVars
<1>6. CASE CloseUserFrame(w) /\ UNCHANGED sessionVars
  BY <1>6 DEF CloseUserFrame, CloseChat, CloseId, CloseTalk, CloseShare, CloseWork, Goto,
     sessionVars, localVars
<1>7. QED
  BY <1>1, <1>2, <1>3, <1>4, <1>5, <1>6 DEF SessionNext, Handler

(* A thread enters the critical places only through Lock and leaves them only
   through Unlock; no other step touches the mutex.                          *)
LEMMA ThreadMoves ==
  ASSUME Typed, NEW w \in Workers, SessionNext(w)
  PROVE  /\ wpc[w] # "none" /\ wpc'[w] # "none"
         /\ \/ wpc[w] \in Critical /\ wpc'[w] \in Critical /\ mm' = mm
            \/ wpc[w] \notin Critical /\ wpc'[w] \notin Critical /\ mm' = mm
            \/ Lock(w) /\ wpc'[w] \in Critical
            \/ Unlock(w) /\ wpc'[w] \notin Critical
<1> USE DEF Typed, TypeOK, SessionTypeOK, Critical, InShare, Goto
<1>1. CASE Start(w) \/ CallRecv(w) \/ RecvCommand(w) \/ RecvFails(w) \/ Lock(w) \/ Unlock(w)
  BY <1>1 DEF Start, CallRecv, RecvCommand, RecvFails, Lock, Unlock, sessionVars
<1>2. CASE Login(w) \/ Register(w) \/ Insert(w) \/ Logout(w) \/ NoCommand(w)
  BY <1>2 DEF Login, Register, Insert, Logout, NoCommand, sessionVars
<1>3. CASE NewUid(w)
  BY <1>3 DEF NewUid, Draw, ScanIds, Tell, SetId, sessionVars
<1>4. CASE ChangeRoom(w) \/ Left(w) \/ Join(w) \/ Message(w)
  BY <1>4 DEF ChangeRoom, Left, Join, Message, CallShare, sessionVars
<1>5. CASE Broadcast(w)
  BY <1>5 DEF Broadcast, EnterShare, MatchRoom, MatchListener, SendLength, SendText, LeaveShare
<1>6. CASE CloseUserFrame(w) /\ UNCHANGED sessionVars
  BY <1>6 DEF CloseUserFrame, CloseChat, CloseId, CloseTalk, CloseShare, CloseWork, sessionVars
<1>7. QED
  BY <1>1, <1>2, <1>3, <1>4, <1>5, <1>6 DEF SessionNext, Handler

(* All _main does to the threads is to start the one its counter names. *)
LEMMA MainMoves ==
  ASSUME Typed, MainNext
  PROVE  \/ UNCHANGED <<wpc, wf>> /\ counter <= counter'
            /\ (mpc = "ack" => counter' = counter + 1)
         \/ /\ counter + 1 \in Workers /\ counter' = counter /\ mpc' = "ack" /\ mpc # "ack"
            /\ Goto(counter + 1, "queued") /\ wf' = [wf EXCEPT ![counter + 1] = mt]
<1> USE ClientsAssumption DEF Typed, TypeOK, MainTypeOK
<1>1. CASE FillWork
  BY <1>1 DEF FillWork, Bounds, Taking, Workers
<1>2. CASE Accept \/ Deny \/ First \/ SearchFreeUF \/ FillTalk \/ FillShare
  BY <1>2 DEF Accept, Deny, First, SearchFreeUF, FillTalk, FillShare, frameVars
<1>3. CASE Acknowledge \/ ReadUid \/ VerifyUID \/ SearchUID \/ Attach \/ Greet
  BY <1>3 DEF Acknowledge, ReadUid, VerifyUID, SearchUID, Attach, Greet, frameVars
<1>4. QED
  BY <1>1, <1>2, <1>3 DEF MainNext

LEMMA MutexStep ==
  ASSUME Typed, Started, Mutex, [Next]_vars
  PROVE  Started' /\ Mutex'
<1> USE DEF Started, Mutex
<1>1. CASE MainNext /\ UNCHANGED sessionVars
  <2>1. CASE UNCHANGED <<wpc, wf>> /\ counter <= counter' /\ (mpc = "ack" => counter' = counter + 1)
    <3> Typed'
      BY NextTyped
    <3>1. counter \in Nat /\ counter' \in Nat
      BY ClientsAssumption DEF Typed, TypeOK, MainTypeOK
    <3>2. Started'
      <4> SUFFICES ASSUME NEW v \in Workers, wpc[v] # "none"
                   PROVE  v <= counter'
        BY <2>1
      <4>1. v \in Int
        BY ClientsAssumption DEF Workers
      <4>2. QED
        BY <2>1, <3>1, <4>1
    <3>3. Mutex'
      BY <1>1, <2>1 DEF sessionVars
    <3>4. QED
      BY <3>2, <3>3
  <2>2. CASE /\ counter + 1 \in Workers /\ counter' = counter /\ mpc' = "ack" /\ mpc # "ack"
             /\ Goto(counter + 1, "queued")
    <3>1. wpc[counter + 1] = "none"
      BY <2>2, ClientsAssumption DEF Typed, TypeOK, MainTypeOK, Workers
    <3>2. mm' = mm
      BY <1>1 DEF sessionVars
    <3>3. QED
      BY <2>2, <3>1, <3>2 DEF Goto, Critical, InShare, Typed, TypeOK
  <2>3. QED
    BY <1>1, <2>1, <2>2, MainMoves
<1>2. CASE \E w \in Workers : SessionNext(w) /\ UNCHANGED mainVars
  <2>1. PICK w \in Workers : SessionNext(w) /\ UNCHANGED mainVars
    BY <1>2
  <2>2. \A v \in Workers : v # w => wpc'[v] = wpc[v]
    BY <2>1, OthersStay
  <2>3. Started'
    BY <2>1, <2>2, ThreadMoves DEF mainVars
  <2>4. Mutex'
    <3>1. CASE mm' = mm /\ (wpc[w] \in Critical <=> wpc'[w] \in Critical)
      BY <2>2, <3>1
    <3>2. CASE Lock(w) /\ wpc'[w] \in Critical
      BY <2>2, <3>2 DEF Lock, Workers
    <3>3. CASE Unlock(w) /\ wpc'[w] \notin Critical
      BY <2>2, <3>3 DEF Unlock, Critical, InShare, Workers
    <3>4. QED
      BY <2>1, <3>1, <3>2, <3>3, ThreadMoves
  <2>5. QED
    BY <2>3, <2>4
<1>3. CASE UNCHANGED <<wpc, mm, mpc, counter>>
  BY <1>3
<1>4. QED
  BY <1>1, <1>2, <1>3 DEF Next, PeerLeaves, vars, frameVars, mainVars, sessionVars

Core == Typed /\ Started /\ Mutex

(* A thread is at a critical place exactly if it owns the mutex: the invariant
   that the arguments about the mutex's data rest on.                        *)
LEMMA CoreHolds == Spec => []Core
<1>1. Init => Started /\ Mutex
  BY DEF Init, FramesInit, SessionInit, Started, Mutex, Critical, InShare, Workers
<1>2. Init => Core
  BY <1>1, InitTyped DEF Core
<1>3. Core /\ [Next]_vars => Core'
  BY MutexStep, NextTyped DEF Core
<1>4. QED
  BY <1>2, <1>3, PTL DEF Spec

-------------------------------------------------------------------------------
(***************************************************************************)
(* The uids.  While a thread looks for a fresh uid it owns the mutex, so   *)
(* nobody else hands one out; what closeUserFrame does meanwhile, without  *)
(* the mutex, can only take uids away from the table.  0 is left out of    *)
(* the scan's promise: it becomes more frequent under the scan's eyes, and *)
(* is rejected at its end.                                                 *)
(***************************************************************************)
Scanned(w) ==
  wpc[w] = "scan" /\ cmd[w] # 0 => \A f \in Frames : f < wt[w] => id[f] # cmd[w]

Found(w) ==
  wpc[w] \in {"tell", "setId"} => cmd[w] # 0 /\ \A f \in Frames : id[f] # cmd[w]

Fresh == \A w \in Workers : Scanned(w) /\ Found(w)

(* The ids change only when a frame is given a uid or loses it. *)
LEMMA IdWrites ==
  ASSUME Typed, NEW w \in Workers, SessionNext(w)
  PROVE  \/ id' = id
         \/ id' = [id EXCEPT ![wf[w]] = 0]
         \/ SetId(w)
<1>1. CASE Start(w) \/ CallRecv(w) \/ RecvCommand(w) \/ RecvFails(w) \/ Lock(w) \/ Unlock(w)
  BY <1>1 DEF Start, CallRecv, RecvCommand, RecvFails, Lock, Unlock, quiet, table
<1>2. CASE Login(w) \/ Register(w) \/ Insert(w) \/ Logout(w) \/ NoCommand(w)
  BY <1>2 DEF Login, Register, Insert, Logout, NoCommand, quiet, table
<1>3. CASE NewUid(w)
  BY <1>3 DEF NewUid, Draw, ScanIds, Tell, quiet, table
<1>4. CASE ChangeRoom(w) \/ Left(w) \/ Join(w) \/ Message(w)
  BY <1>4 DEF ChangeRoom, Left, Join, Message, quiet, table
<1>5. CASE Broadcast(w)
  BY <1>5 DEF Broadcast, EnterShare, MatchRoom, MatchListener, SendLength, SendText, LeaveShare, quiet, table
<1>6. CASE CloseUserFrame(w)
  BY <1>6 DEF CloseUserFrame, CloseChat, CloseId, CloseTalk, CloseShare, CloseWork, table
<1>7. QED
  BY <1>1, <1>2, <1>3, <1>4, <1>5, <1>6 DEF SessionNext, Handler

(* A thread reaches "scan" with its index at 0, goes on only past frames with
   other uids, and leaves for "tell" with a uid that is not 0.               *)
LEMMA ScanSteps ==
  ASSUME Typed, NEW w \in Workers, SessionNext(w)
  PROVE  /\ wpc'[w] = "scan" =>
              \/ wt'[w] = 0
              \/ /\ wpc[w] = "scan" /\ UNCHANGED <<id, cmd>>
                 /\ wt[w] \in Frames /\ id[wt[w]] # cmd[w] /\ wt'[w] = wt[w] + 1
         /\ wpc'[w] = "tell" =>
              wpc[w] = "scan" /\ wt[w] = MAX_CLIENTS /\ cmd[w] # 0 /\ UNCHANGED <<id, cmd>>
         /\ wpc'[w] = "setId" => wpc[w] = "tell" /\ UNCHANGED <<id, cmd>>
<1> USE DEF Typed, TypeOK, SessionTypeOK, Goto
<1>1. CASE Start(w) \/ CallRecv(w) \/ RecvCommand(w) \/ RecvFails(w) \/ Lock(w) \/ Unlock(w)
  BY <1>1 DEF Start, CallRecv, RecvCommand, RecvFails, Lock, Unlock
<1>2. CASE Login(w) \/ Register(w) \/ Insert(w) \/ Logout(w) \/ NoCommand(w)
  BY <1>2 DEF Login, Register, Insert, Logout, NoCommand
<1>3. CASE Draw(w)
  BY <1>3 DEF Draw
<1>4. CASE ScanIds(w)
  BY <1>4, ClientsAssumption DEF ScanIds, quiet, table, Frames
<1>5. CASE Tell(w) \/ SetId(w)
  BY <1>5 DEF Tell, SetId, table, sessionVars, localVars
<1>6. CASE ChangeRoom(w) \/ Left(w) \/ Join(w) \/ Message(w)
  BY <1>6 DEF ChangeRoom, Left, Join, Message, CallShare
<1>7. CASE Broadcast(w)
  BY <1>7 DEF Broadcast, EnterShare, MatchRoom, MatchListener, SendLength, SendText, LeaveShare
<1>8. CASE CloseUserFrame(w)
  BY <1>8 DEF CloseUserFrame, CloseChat, CloseId, CloseTalk, CloseShare, CloseWork
<1>9. QED
  BY <1>1, <1>2, <1>3, <1>4, <1>5, <1>6, <1>7, <1>8 DEF SessionNext, Handler, NewUid

LEMMA FreshStep ==
  ASSUME Typed, Mutex, Fresh, NEW w \in Workers, SessionNext(w)
  PROVE  Fresh'
<1>0. wf[w] \in Frames /\ id \in [Frames -> Nat] /\ wt \in [Workers -> 0 .. MAX_CLIENTS]
  BY DEF Typed, TypeOK, FramesTypeOK, SessionTypeOK
<1>1. ASSUME NEW v \in Workers, v # w
      PROVE  Scanned(v)' /\ Found(v)'
  <2>1. wpc'[v] = wpc[v] /\ cmd'[v] = cmd[v] /\ wt'[v] = wt[v]
    BY <1>1, OthersStay
  <2>2. CASE id' = id \/ id' = [id EXCEPT ![wf[w]] = 0]
    <3>1. \A f \in Frames : id'[f] = id[f] \/ id'[f] = 0
      BY <1>0, <2>2
    <3>2. QED
      BY <2>1, <3>1 DEF Fresh, Scanned, Found
  <2>3. CASE SetId(w)
    <3>1. wpc[v] \notin Critical
      BY <1>1, <2>3 DEF SetId, Mutex, Critical
    <3>2. QED
      BY <2>1, <3>1 DEF Scanned, Found, Critical
  <2>4. QED
    BY <2>2, <2>3, IdWrites
<1>2. Scanned(w)'
  <2> SUFFICES ASSUME wpc'[w] = "scan", cmd'[w] # 0, NEW f \in Frames, f < wt'[w]
               PROVE  id'[f] # cmd'[w]
    BY DEF Scanned
  <2>1. /\ wpc[w] = "scan" /\ UNCHANGED <<id, cmd>>
        /\ wt[w] \in Frames /\ id[wt[w]] # cmd[w] /\ wt'[w] = wt[w] + 1
    BY ScanSteps, ClientsAssumption DEF Frames
  <2>2. f < wt[w] \/ f = wt[w]
    BY <2>1, ClientsAssumption DEF Frames
  <2>3. QED
    BY <2>1, <2>2 DEF Fresh, Scanned
<1>3. Found(w)'
  <2>1. CASE wpc'[w] = "tell"
    <3>1. wpc[w] = "scan" /\ wt[w] = MAX_CLIENTS /\ cmd[w] # 0 /\ UNCHANGED <<id, cmd>>
      BY <2>1, ScanSteps
    <3>2. \A f \in Frames : f < wt[w]
      BY <3>1, ClientsAssumption DEF Frames
    <3>3. QED
      BY <3>1, <3>2 DEF Fresh, Scanned, Found
  <2>2. CASE wpc'[w] = "setId"
    BY <2>2, ScanSteps DEF Fresh, Found
  <2>3. QED
    BY <2>1, <2>2 DEF Found
<1>4. QED
  BY <1>1, <1>2, <1>3 DEF Fresh

(* Only threads write ids; the accept loop and the clients leave alone all
   that Fresh speaks of, except that _main starts threads.                   *)
LEMMA OthersKeepFresh ==
  ASSUME Typed, Fresh, UNCHANGED sessionVars,
         MainNext \/ UNCHANGED <<id, wpc>>
  PROVE  Fresh' /\ id' = id
<1>1. id' = id
  BY DEF MainNext, Accept, Deny, First, SearchFreeUF, FillTalk, FillShare, FillWork, Acknowledge,
     ReadUid, VerifyUID, SearchUID, Attach, Greet, frameVars, table
<1>2. \A v \in Workers : wpc'[v] = wpc[v] \/ wpc'[v] = "queued"
  BY MainMoves DEF Goto, Typed, TypeOK
<1>3. QED
  BY <1>1, <1>2 DEF Fresh, Scanned, Found, sessionVars, localVars

LEMMA UniqueStep ==
  ASSUME Typed, Fresh, UidsUnique, NEW w \in Workers, SessionNext(w)
  PROVE  UidsUnique'
<1>1. wf[w] \in Frames /\ id \in [Frames -> Nat]
  BY DEF Typed, TypeOK, FramesTypeOK
<1>2. CASE id' = id \/ id' = [id EXCEPT ![wf[w]] = 0]
  BY <1>1, <1>2 DEF UidsUnique
<1>3. CASE SetId(w)
  <2>1. id' = [id EXCEPT ![wf[w]] = cmd[w]] /\ \A f \in Frames : id[f] # cmd[w]
    BY <1>3 DEF SetId, Fresh, Found
  <2>2. QED
    BY <1>1, <2>1 DEF UidsUnique
<1>4. QED
  BY <1>2, <1>3, IdWrites

UidInv == Fresh /\ UidsUnique

LEMMA UidInvHolds == Spec => []UidInv
<1>1. Init => UidInv
  BY DEF Init, FramesInit, Fresh, Scanned, Found, UidsUnique, UidInv
<1>2. Core /\ UidInv /\ [Next]_vars => UidInv'
  <2> SUFFICES ASSUME Core, UidInv, [Next]_vars PROVE UidInv'
    OBVIOUS
  <2> USE DEF UidInv, Core
  <2>1. CASE \E w \in Workers : SessionNext(w) /\ UNCHANGED mainVars
    BY <2>1, FreshStep, UniqueStep
  <2>2. CASE UNCHANGED sessionVars /\ (MainNext \/ UNCHANGED <<id, wpc>>)
    BY <2>2, OthersKeepFresh DEF UidsUnique
  <2>3. QED
    BY <2>1, <2>2 DEF Next, PeerLeaves, vars, frameVars, table, sessionVars, mainVars
<1>3. QED
  BY <1>1, <1>2, CoreHolds, PTL DEF Spec

(* No two frames ever carry the same uid, although the scan and the assignment
   are separate steps and frames are closed without the mutex.               *)
THEOREM UidsAreUnique == Spec => []UidsUnique
<1>1. UidInv => UidsUnique
  BY DEF UidInv
<1>2. QED
  BY <1>1, UidInvHolds, PTL

(* The frame table with its threads, its mutex and its scan implements the
   registry of uids: SetId is a Grant, the end of a session a Release.       *)
THEOREM ServerImplementsRegistry == Spec => RegistryImplemented
<1>1. Init => Registry!Init
  BY DEF Init, FramesInit, Registry!Init
<1>2. Core /\ UidInv /\ [Next]_vars => [Registry!Next]_id
  <2> SUFFICES ASSUME Core, UidInv, [Next]_vars
               PROVE  Registry!Next \/ id' = id
    OBVIOUS
  <2>1. CASE \E w \in Workers : SessionNext(w) /\ UNCHANGED mainVars
    <3>1. PICK w \in Workers : SessionNext(w)
      BY <2>1
    <3>2. wf[w] \in Frames
      BY DEF Core, Typed, TypeOK, FramesTypeOK
    <3>3. CASE id' = [id EXCEPT ![wf[w]] = 0]
      BY <3>2, <3>3 DEF Registry!Next, Registry!Release
    <3>4. CASE SetId(w)
      <4>1. cmd[w] \in RandValues /\ cmd[w] # 0 /\ \A f \in Frames : id[f] # cmd[w]
        BY <3>4 DEF SetId, UidInv, Fresh, Found, Core, Typed, Bounds
      <4>2. Registry!Grant(wf[w], cmd[w])
        BY <3>4, <4>1 DEF SetId, Registry!Grant
      <4>3. QED
        BY <3>2, <4>1, <4>2 DEF Registry!Next
    <3>5. QED
      BY <3>1, <3>3, <3>4, IdWrites DEF Core
  <2>2. CASE UNCHANGED sessionVars /\ (MainNext \/ UNCHANGED <<id, wpc>>)
    BY <2>2, OthersKeepFresh DEF Core, UidInv
  <2>3. QED
    BY <2>1, <2>2 DEF Next, PeerLeaves, vars, frameVars, table, sessionVars, mainVars
<1>3. QED
  BY <1>1, <1>2, CoreHolds, UidInvHolds, PTL DEF Spec, RegistryImplemented, Registry!Spec

-------------------------------------------------------------------------------
(***************************************************************************)
(* The data the mutex guards: the text buffer and the accounts.            *)
(***************************************************************************)

(* Whoever writes the buffer owns the mutex and signs the text, and a thread
   reaches share() with a text of its own.                                   *)
LEMMA BufferWrites ==
  ASSUME Typed, NEW w \in Workers, SessionNext(w)
  PROVE  /\ buffer' = buffer \/ (wpc[w] \in Critical /\ buffer'.by = w)
         /\ wpc'[w] \in InShare =>
              buffer'.by = w \/ (wpc[w] \in InShare /\ buffer' = buffer)
<1> USE DEF Typed, TypeOK, SessionTypeOK, Critical, InShare, Goto
<1>1. CASE Start(w) \/ CallRecv(w) \/ RecvCommand(w) \/ RecvFails(w) \/ Lock(w) \/ Unlock(w)
  BY <1>1 DEF Start, CallRecv, RecvCommand, RecvFails, Lock, Unlock, sessionVars
<1>2. CASE Login(w) \/ Register(w) \/ Insert(w) \/ Logout(w) \/ NoCommand(w)
  BY <1>2 DEF Login, Register, Insert, Logout, NoCommand, SQL, Text, sessionVars
<1>3. CASE NewUid(w)
  BY <1>3 DEF NewUid, Draw, ScanIds, Tell, SetId, sessionVars
<1>4. CASE ChangeRoom(w) \/ Left(w) \/ Join(w) \/ Message(w)
  BY <1>4 DEF ChangeRoom, Left, Join, Message, CallShare, Text, sessionVars
<1>5. CASE Broadcast(w)
  BY <1>5 DEF Broadcast, EnterShare, MatchRoom, MatchListener, SendLength, SendText, LeaveShare
<1>6. CASE CloseUserFrame(w) /\ UNCHANGED sessionVars
  BY <1>6 DEF CloseUserFrame, CloseChat, CloseId, CloseTalk, CloseShare, CloseWork, sessionVars
<1>7. QED
  BY <1>1, <1>2, <1>3, <1>4, <1>5, <1>6 DEF SessionNext, Handler

(* Only the INSERT adds an account, and it is reached only with credentials
   whose name no account has.                                                *)
LEMMA AccountWrites ==
  ASSUME Typed, NEW w \in Workers, SessionNext(w)
  PROVE  /\ users' = users \/ (wpc[w] = "insert" /\ users' = users \cup {cred[w]})
         /\ wpc'[w] = "insert" => users' = users /\ ~NameTaken(cred'[w])
<1> USE DEF Typed, TypeOK, SessionTypeOK, Goto
<1>1. CASE Start(w) \/ CallRecv(w) \/ RecvCommand(w) \/ RecvFails(w) \/ Lock(w) \/ Unlock(w)
  BY <1>1 DEF Start, CallRecv, RecvCommand, RecvFails, Lock, Unlock, sessionVars
<1>2. CASE Login(w) \/ Register(w) \/ Insert(w) \/ Logout(w) \/ NoCommand(w)
  BY <1>2 DEF Login, Register, Insert, Logout, NoCommand, sessionVars
<1>3. CASE NewUid(w)
  BY <1>3 DEF NewUid, Draw, ScanIds, Tell, SetId, sessionVars
<1>4. CASE ChangeRoom(w) \/ Left(w) \/ Join(w) \/ Message(w)
  BY <1>4 DEF ChangeRoom, Left, Join, Message, CallShare, sessionVars
<1>5. CASE Broadcast(w)
  BY <1>5 DEF Broadcast, EnterShare, MatchRoom, MatchListener, SendLength, SendText, LeaveShare
<1>6. CASE CloseUserFrame(w) /\ UNCHANGED sessionVars
  BY <1>6 DEF CloseUserFrame, CloseChat, CloseId, CloseTalk, CloseShare, CloseWork, sessionVars
<1>7. QED
  BY <1>1, <1>2, <1>3, <1>4, <1>5, <1>6 DEF SessionNext, Handler

(* Between the SELECT and the INSERT of a registration no account appears
   that would take its name.                                                 *)
StillFree == \A w \in Workers : wpc[w] = "insert" => ~NameTaken(cred[w])

GuardedInv == BufferOwned /\ StillFree /\ NamesUnique

LEMMA GuardedStep ==
  ASSUME Core, GuardedInv, NEW w \in Workers, SessionNext(w), UNCHANGED mainVars
  PROVE  GuardedInv'
<1> USE DEF GuardedInv
<1>1. Typed /\ Mutex
  BY DEF Core
<1>2. ASSUME NEW v \in Workers, v # w
      PROVE  /\ wpc'[v] = wpc[v] /\ cred'[v] = cred[v]
             /\ wpc[v] \in Critical => wpc[w] \notin Critical
  BY <1>1, <1>2, OthersStay DEF Mutex
<1>3. BufferOwned'
  <2>1. ASSUME NEW v \in Workers, v # w, wpc[v] \in InShare
        PROVE  buffer'.by = v
    BY <1>1, <1>2, <2>1, BufferWrites DEF BufferOwned, Critical
  <2>2. QED
    BY <1>1, <1>2, <2>1, BufferWrites DEF BufferOwned
<1>4. StillFree'
  <2>1. ASSUME NEW v \in Workers, v # w, wpc[v] = "insert"
        PROVE  users' = users
    BY <1>1, <1>2, <2>1, AccountWrites DEF Critical
  <2>2. QED
    BY <1>1, <1>2, <2>1, AccountWrites DEF StillFree, NameTaken
<1>5. (\A v \in Workers : wpc[v] = "insert" => cred[v] \notin users)'
  BY <1>1, <1>4, SessionPlacesTyped, LikeAssumption DEF StillFree, NameTaken, Bounds
<1>6. (\A r, s \in users : r.name \in Like[s.name] /\ s.name \in Like[r.name] => r = s)'
  <2>1. CASE users' = users
    BY <2>1 DEF NamesUnique
  <2>2. CASE wpc[w] = "insert" /\ users' = users \cup {cred[w]}
    <3>1. \A row \in users : row.name \notin Like[cred[w].name]
      BY <2>2 DEF StillFree, NameTaken
    <3>2. QED
      BY <2>2, <3>1 DEF NamesUnique
  <2>3. QED
    BY <1>1, <2>1, <2>2, AccountWrites
<1>7. QED
  BY <1>3, <1>4, <1>5, <1>6 DEF NamesUnique

LEMMA GuardedHolds == Spec => []GuardedInv
<1>1. Init => GuardedInv
  BY DEF Init, FramesInit, SessionInit, GuardedInv, BufferOwned, StillFree, NamesUnique, InShare
<1>2. Core /\ GuardedInv /\ [Next]_vars => GuardedInv'
  <2> SUFFICES ASSUME Core, GuardedInv, [Next]_vars PROVE GuardedInv'
    OBVIOUS
  <2>1. CASE \E w \in Workers : SessionNext(w) /\ UNCHANGED mainVars
    BY <2>1, GuardedStep
  <2>2. CASE UNCHANGED sessionVars /\ (MainNext \/ UNCHANGED wpc)
    <3>1. \A v \in Workers : wpc'[v] = wpc[v] \/ wpc'[v] = "queued"
      BY <2>2, MainMoves DEF Goto, Core, Typed, TypeOK
    <3>2. QED
      BY <2>2, <3>1 DEF GuardedInv, BufferOwned, StillFree, NamesUnique, NameTaken, InShare,
         sessionVars, localVars
  <2>3. QED
    BY <2>1, <2>2 DEF Next, PeerLeaves, vars, frameVars, sessionVars, mainVars
<1>3. QED
  BY <1>1, <1>2, CoreHolds, PTL DEF Spec

(* While a thread shares a text, the one global buffer holds that text. *)
THEOREM BufferIsOwned == Spec => []BufferOwned
<1>1. GuardedInv => BufferOwned
  BY DEF GuardedInv
<1>2. QED
  BY <1>1, GuardedHolds, PTL

(* No two accounts have names that LIKE takes for one another. *)
THEOREM NamesAreUnique == Spec => []NamesUnique
<1>1. GuardedInv => NamesUnique
  BY DEF GuardedInv
<1>2. QED
  BY <1>1, GuardedHolds, PTL

-------------------------------------------------------------------------------
(***************************************************************************)
(* The search for a free frame.  A frame with a uid, and every frame the   *)
(* search has passed, is the frame of some thread that was started.  There *)
(* are at most counter such threads, and counter < MAX_CLIENTS when the    *)
(* search begins: it cannot pass all MAX_CLIENTS frames.                   *)
(***************************************************************************)
Served(f) == \E w \in Workers : wpc[w] # "none" /\ wf[w] = f

SearchInv ==
  /\ \A f \in Frames : id[f] # 0 => Served(f)
  /\ mpc = "scanFree" => \A f \in Frames : f < mt => Served(f)
  /\ FreeFrameFound

(* Counting: fewer threads than frames cannot serve every frame. *)
LEMMA NotAllServed ==
  ASSUME Core, mpc = "scanFree"
  PROVE  \E f \in Frames : ~Served(f)
<1> SUFFICES ASSUME \A f \in Frames : Served(f) PROVE FALSE
  OBVIOUS
<1> DEFINE bind == [w \in 1 .. counter |-> wf[w]]
<1>1. counter \in Nat /\ counter < MAX_CLIENTS /\ MAX_CLIENTS \in Nat
  BY ClientsAssumption DEF Core, Typed, TypeOK, MainTypeOK, Bounds, Taking
<1>2. \A w \in Workers : wpc[w] # "none" => w \in 1 .. counter
  BY <1>1 DEF Core, Started, Workers
<1>3. bind \in [1 .. counter -> Frames]
  BY <1>1 DEF Core, Typed, TypeOK, FramesTypeOK, Workers
<1>4. bind \in Surjection(1 .. counter, Frames)
  <2>1. \A f \in Frames : \E w \in 1 .. counter : bind[w] = f
    BY <1>2 DEF Served
  <2>2. QED
    BY <1>3, <2>1 DEF Surjection
<1>5. IsFiniteSet(1 .. counter) /\ Cardinality(1 .. counter) = counter
  BY <1>1, FS_Interval
<1>6. Cardinality(Frames) = MAX_CLIENTS
  BY <1>1, FS_Interval DEF Frames
<1>7. Cardinality(Frames) <= Cardinality(1 .. counter)
  BY <1>4, <1>5, FS_Surjection
<1>8. QED
  BY <1>1, <1>5, <1>6, <1>7

LEMMA SearchMain ==
  ASSUME Core, SearchInv, MainNext, UNCHANGED sessionVars
  PROVE  SearchInv'
<1>1. Typed /\ Started
  BY DEF Core
<1>2. id' = id
  BY DEF MainNext, Accept, Deny, First, SearchFreeUF, FillTalk, FillShare, FillWork, Acknowledge,
     ReadUid, VerifyUID, SearchUID, Attach, Greet, frameVars, table
<1>3. \A f \in Frames : Served(f) => Served(f)'
  <2>1. CASE UNCHANGED <<wpc, wf>>
    BY <2>1 DEF Served
  <2>2. CASE /\ counter + 1 \in Workers /\ mpc # "ack"
             /\ Goto(counter + 1, "queued") /\ wf' = [wf EXCEPT ![counter + 1] = mt]
    <3>1. wpc[counter + 1] = "none"
      BY <1>1, <2>2, ClientsAssumption DEF Started, Typed, TypeOK, MainTypeOK, Workers
    <3>2. QED
      BY <1>1, <2>2, <3>1 DEF Served, Goto, Typed, TypeOK, FramesTypeOK
  <2>3. QED
    BY <1>1, <2>1, <2>2, MainMoves
<1>4. \A f \in Frames : id'[f] # 0 => Served(f)'
  BY <1>2, <1>3 DEF SearchInv
<1>5. CASE SearchFreeUF
  <2>1. mt \in 0 .. MAX_CLIENTS
    BY <1>1 DEF Typed, TypeOK, MainTypeOK
  <2>2. mt < MAX_CLIENTS
    <3>1. PICK f \in Frames : ~Served(f)
      BY <1>5, NotAllServed DEF SearchFreeUF
    <3>2. ~(f < mt)
      BY <1>5, <3>1 DEF SearchFreeUF, SearchInv
    <3>3. QED
      BY <2>1, <3>2, ClientsAssumption DEF Frames
  <2>3. CASE mpc' = "fillTalk"
    BY <1>4, <1>5, <2>2, <2>3 DEF SearchFreeUF, SearchInv, FreeFrameFound
  <2>4. CASE mt' = mt + 1 /\ mpc' = mpc
    <3>1. Served(mt)
      BY <1>5, <2>1, <2>2, <2>4, ClientsAssumption DEF SearchFreeUF, SearchInv, Frames
    <3>2. \A f \in Frames : f < mt' => f < mt \/ f = mt
      BY <2>1, <2>4, ClientsAssumption DEF Frames
    <3>3. QED
      BY <1>3, <1>4, <1>5, <2>4, <3>1, <3>2 DEF SearchFreeUF, SearchInv, FreeFrameFound
  <2>5. QED
    BY <1>5, <2>3, <2>4 DEF SearchFreeUF
<1>6. CASE First
  BY <1>4, <1>6, ClientsAssumption DEF First, SearchInv, FreeFrameFound, Frames
<1>7. CASE ~SearchFreeUF /\ ~First
  <2>1. mpc' \notin {"scanFree", "fillTalk"}
    BY <1>7 DEF MainNext, Accept, Deny, FillTalk, FillShare, FillWork, Acknowledge,
       ReadUid, VerifyUID, SearchUID, Attach, Greet
  <2>2. QED
    BY <1>4, <2>1 DEF SearchInv, FreeFrameFound
<1>8. QED
  BY <1>5, <1>6, <1>7

LEMMA SearchThread ==
  ASSUME Core, SearchInv, NEW w \in Workers, SessionNext(w), UNCHANGED mainVars
  PROVE  SearchInv'
<1>1. Typed /\ wf[w] \in Frames
  BY DEF Core, Typed, TypeOK, FramesTypeOK
<1>2. wf' = wf
  BY DEF SessionNext, Handler, NewUid, Broadcast, CloseUserFrame, Start, CallRecv, RecvCommand,
     RecvFails, Lock, Unlock, Login, Register, Insert, Draw, ScanIds, Tell, SetId, Logout,
     ChangeRoom, Left, Join, Message, NoCommand, EnterShare, MatchRoom, MatchListener, SendLength, SendText,
     LeaveShare, CloseChat, CloseId, CloseTalk, CloseShare, CloseWork, quiet
<1>3. \A f \in Frames : Served(f) => Served(f)'
  BY <1>1, <1>2, OthersStay, ThreadMoves DEF Served
<1>4. Served(wf[w])
  BY <1>1, ThreadMoves DEF Served
<1>5. \A f \in Frames : id'[f] # 0 => id[f] # 0 \/ f = wf[w]
  BY <1>1, IdWrites DEF SetId, Typed, TypeOK, FramesTypeOK
<1>6. QED
  BY <1>3, <1>4, <1>5 DEF SearchInv, FreeFrameFound, mainVars

LEMMA SearchHolds == Spec => []SearchInv
<1>1. Init => SearchInv
  BY DEF Init, FramesInit, MainInit, SearchInv, FreeFrameFound
<1>2. Core /\ SearchInv /\ [Next]_vars => SearchInv'
  <2> SUFFICES ASSUME Core, SearchInv, [Next]_vars PROVE SearchInv'
    OBVIOUS
  <2>1. CASE MainNext /\ UNCHANGED sessionVars
    BY <2>1, SearchMain
  <2>2. CASE \E w \in Workers : SessionNext(w) /\ UNCHANGED mainVars
    BY <2>2, SearchThread
  <2>3. CASE UNCHANGED <<id, wpc, wf, mpc, mt>>
    BY <2>3 DEF SearchInv, FreeFrameFound, Served
  <2>4. QED
    BY <2>1, <2>2, <2>3 DEF Next, PeerLeaves, vars, frameVars, table, mainVars
<1>3. QED
  BY <1>1, <1>2, CoreHolds, PTL DEF Spec

(* searchFreeUF always finds a frame, for every number of clients, although
   it takes no mutex: _main never writes through the -1 of a failed search.  *)
THEOREM FreeFrameIsFound == Spec => []FreeFrameFound
<1>1. SearchInv => FreeFrameFound
  BY DEF SearchInv
<1>2. QED
  BY <1>1, SearchHolds, PTL
===============================================================================

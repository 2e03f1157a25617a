---------------------------- MODULE BroadcastProofs ----------------------------
(***************************************************************************)
(* What listeners get from share(): streams they can parse, and texts of   *)
(* their room.                                                             *)
(***************************************************************************)
EXTENDS FrameProofs

-------------------------------------------------------------------------------
(***************************************************************************)
(* The streams.  One thread sends at a time, since share() runs under the  *)
(* mutex, so the only stream between a length and its text is the one the  *)
(* length went to; a connection that is not accepted yet has got nothing.  *)
(***************************************************************************)
Unheard ==
  /\ \A c \in Conns : c > soc => rx[c] = "whole"
  /\ \A f \in Frames : share[f] <= soc
  /\ \A w \in Workers : lenTo[w] <= soc

StreamInv == Unheard /\ StreamsParse

(* Only share() writes streams; a thread revives no connection, and all it does
   to a listener's socket is clear it.                                       *)
LEMMA StreamWrites ==
  ASSUME Typed, NEW w \in Workers, SessionNext(w)
  PROVE  /\ \/ SendLength(w) /\ wpc'[w] = "body"
            \/ SendText(w) /\ wpc'[w] # "body"
            \/ UNCHANGED streamVars /\ wpc[w] # "body" /\ wpc'[w] # "body"
         /\ \A c \in Conns : Up(c)' => Up(c)
         /\ \A f \in Frames : share'[f] = share[f] \/ share'[f] = NULL
<1> USE DEF Typed, TypeOK, FramesTypeOK, SessionTypeOK, Goto, Up
<1>1. CASE Start(w) \/ CallRecv(w) \/ RecvCommand(w) \/ RecvFails(w) \/ Lock(w) \/ Unlock(w)
  BY <1>1 DEF Start, CallRecv, RecvCommand, RecvFails, Lock, Unlock, quiet, table, sessionVars
<1>2. CASE Login(w) \/ Register(w) \/ Insert(w) \/ Logout(w) \/ NoCommand(w)
  BY <1>2 DEF Login, Register, Insert, Logout, NoCommand, quiet, table, sessionVars
<1>3. CASE NewUid(w)
  BY <1>3 DEF NewUid, Draw, ScanIds, Tell, SetId, quiet, table, sessionVars
<1>4. CASE ChangeRoom(w) \/ Left(w) \/ Join(w) \/ Message(w)
  BY <1>4 DEF ChangeRoom, Left, Join, Message, CallShare, quiet, table, sessionVars
<1>5. CASE Broadcast(w)
  BY <1>5 DEF Broadcast, EnterShare, MatchRoom, MatchListener, SendLength, SendText, LeaveShare, quiet, table
<1>6. CASE CloseUserFrame(w) /\ UNCHANGED sessionVars
  BY <1>6 DEF CloseUserFrame, CloseChat, CloseId, CloseTalk, CloseShare, CloseWork, CloseSocket,
     table, sessionVars
<1>7. QED
  BY <1>1, <1>2, <1>3, <1>4, <1>5, <1>6 DEF SessionNext, Handler

(* The accept loop revives no connection either, except that it takes the next
   one; the only listener it attaches is the one it accepted last.           *)
LEMMA MainListeners ==
  ASSUME Typed, MainNext
  PROVE  /\ soc' \in Nat /\ soc <= soc'
         /\ \A c \in Conns : Up(c)' => Up(c) \/ c > soc
         /\ \A f \in Frames : share'[f] \in {share[f], NULL, soc}
<1> USE ConnAssumption DEF Typed, TypeOK, FramesTypeOK, MainTypeOK, Up, Conns, NULL
<1>1. CASE Accept \/ Deny \/ First \/ SearchFreeUF \/ FillTalk \/ FillShare
  BY <1>1 DEF Accept, Deny, First, SearchFreeUF, FillTalk, FillShare, CloseSocket, frameVars, table
<1>2. CASE Acknowledge \/ ReadUid \/ VerifyUID \/ SearchUID \/ Attach \/ Greet
  BY <1>2 DEF Acknowledge, ReadUid, VerifyUID, SearchUID, Attach, Greet, CloseSocket,
     frameVars, table
<1>3. CASE FillWork
  BY <1>3 DEF FillWork
<1>4. QED
  BY <1>1, <1>2, <1>3 DEF MainNext

LEMMA UnheardThread ==
  ASSUME Core, Unheard, NEW w \in Workers, SessionNext(w), UNCHANGED mainVars
  PROVE  Unheard'
<1>1. Typed /\ soc' = soc /\ soc \in Nat
  BY ConnAssumption DEF Core, Typed, TypeOK, MainTypeOK, mainVars, Conns, NULL
<1>2. (\A f \in Frames : share[f] <= soc)'
  BY <1>1, StreamWrites DEF Unheard, NULL
<1>3. CASE UNCHANGED streamVars
  BY <1>1, <1>2, <1>3 DEF Unheard, streamVars
<1>4. CASE SendLength(w) \/ SendText(w)
  <2>1. wt[w] \in Frames /\ share[wt[w]] <= soc
    BY <1>1, <1>4, ClientsAssumption
    DEF SendLength, SendText, Unheard, Typed, TypeOK, SessionTypeOK, Bounds, Frames
  <2>2. (\A c \in Conns : c > soc => rx[c] = "whole")'
    BY <1>1, <1>4, <2>1, ConnAssumption
    DEF SendLength, SendText, Receives, Unheard, Typed, TypeOK, SessionTypeOK, Conns
  <2>3. (\A v \in Workers : lenTo[v] <= soc)'
    BY <1>1, <1>4, <2>1 DEF SendLength, SendText, Unheard, Typed, TypeOK, SessionTypeOK, NULL
  <2>4. QED
    BY <1>2, <2>2, <2>3 DEF Unheard
<1>5. QED
  BY <1>1, <1>3, <1>4, StreamWrites

LEMMA ParseThread ==
  ASSUME Core, StreamsParse, NEW w \in Workers, SessionNext(w)
  PROVE  StreamsParse'
<1>1. Typed /\ Mutex
  BY DEF Core
<1>2. ASSUME NEW v \in Workers, v # w
      PROVE  wpc'[v] = wpc[v] /\ lenTo'[v] = lenTo[v]
  BY <1>1, <1>2, OthersStay, OthersKnow
<1>3. CASE UNCHANGED streamVars /\ wpc[w] # "body" /\ wpc'[w] # "body"
  BY <1>1, <1>2, <1>3, StreamWrites DEF StreamsParse, streamVars
<1>4. ASSUME wpc[w] \in {"length", "body"}, NEW v \in Workers, v # w
      PROVE  wpc[v] # "body"
  BY <1>1, <1>4 DEF Mutex, Critical, InShare
<1>5. CASE SendLength(w) /\ wpc'[w] = "body"
  <2>1. /\ wpc[w] = "length" /\ swapped' = swapped /\ lenTo'[w] = share[wt[w]]
        /\ Receives(share[wt[w]], "whole", "half")
    BY <1>1, <1>5 DEF SendLength, Typed, TypeOK, SessionTypeOK
  <2>2. ASSUME NEW c \in Conns \ swapped, Up(c)'
        PROVE  rx'[c] = IF share[wt[w]] = c THEN "half" ELSE "whole"
    <3>1. Up(c)
      BY <1>1, <2>2, StreamWrites
    <3>2. rx[c] = "whole"
      BY <1>4, <2>1, <3>1 DEF StreamsParse
    <3>3. QED
      BY <1>1, <2>1, <3>1, <3>2 DEF Receives, Typed, TypeOK, SessionTypeOK
  <2>3. QED
    BY <1>2, <1>4, <1>5, <2>1, <2>2 DEF StreamsParse
<1>6. CASE SendText(w) /\ wpc'[w] # "body"
  <2>1. /\ wpc[w] = "body" /\ Receives(share[wt[w]], "half", "whole")
        /\ swapped' = IF share[wt[w]] = lenTo[w] THEN swapped
                      ELSE swapped \cup {share[wt[w]], lenTo[w]}
    BY <1>6 DEF SendText
  <2>2. ASSUME NEW c \in Conns \ swapped', Up(c)'
        PROVE  rx'[c] = "whole"
    <3>1. Up(c) /\ c \notin swapped
      BY <1>1, <2>1, <2>2, StreamWrites
    <3>2. rx[c] = IF lenTo[w] = c THEN "half" ELSE "whole"
      BY <1>4, <2>1, <3>1 DEF StreamsParse
    <3>3. lenTo[w] = c <=> share[wt[w]] = c
      BY <2>1, <2>2
    <3>4. QED
      BY <1>1, <2>1, <3>1, <3>2, <3>3 DEF Receives, Typed, TypeOK, SessionTypeOK
  <2>3. QED
    BY <1>2, <1>4, <1>6, <2>1, <2>2 DEF StreamsParse
<1>7. QED
  BY <1>1, <1>3, <1>5, <1>6, StreamWrites

LEMMA StreamsMain ==
  ASSUME Core, StreamInv, MainNext, UNCHANGED sessionVars
  PROVE  StreamInv'
<1> USE DEF StreamInv
<1>1. Typed /\ soc \in Nat /\ \A f \in Frames : share[f] \in Nat
  BY ConnAssumption DEF Core, Typed, TypeOK, FramesTypeOK, MainTypeOK, Conns, NULL
<1>2. UNCHANGED <<rx, lenTo, swapped>>
  BY DEF sessionVars, streamVars
<1>3. soc' \in Nat /\ soc <= soc'
  BY <1>1, MainListeners
<1>4. \A w \in Workers : lenTo[w] \in Nat
  BY <1>1, ConnAssumption DEF Typed, TypeOK, SessionTypeOK, Conns, NULL
<1>5. Unheard'
  BY <1>1, <1>2, <1>3, <1>4, MainListeners, ConnAssumption DEF Unheard, NULL, Conns
<1>6. \A w \in Workers : wpc'[w] = "body" <=> wpc[w] = "body"
  <2>1. ASSUME NEW w \in Workers PROVE wpc'[w] = wpc[w] \/ (wpc'[w] = "queued" /\ wpc[w] = "none")
    BY <1>1, MainWrites, FillWorkStarts DEF Core, FillWork, Goto, Typed, TypeOK
  <2>2. QED
    BY <2>1
<1>7. ASSUME NEW c \in Conns \ swapped, Up(c)'
      PROVE  rx[c] = IF \E w \in Workers : wpc[w] = "body" /\ lenTo[w] = c THEN "half" ELSE "whole"
  <2>1. CASE Up(c)
    BY <1>7, <2>1 DEF StreamsParse
  <2>2. CASE c > soc
    BY <1>1, <1>4, <2>2, ConnAssumption DEF Unheard, Conns
  <2>3. QED
    BY <1>1, <1>7, <2>1, <2>2, MainListeners
<1>8. QED
  BY <1>2, <1>5, <1>6, <1>7 DEF StreamsParse

LEMMA StreamInvHolds == Spec => []StreamInv
<1>1. Init => StreamInv
  BY ConnAssumption DEF Init, FramesInit, MainInit, SessionInit, StreamInv, Unheard, StreamsParse,
     NULL, Conns, Up
<1>2. Core /\ StreamInv /\ [Next]_vars => StreamInv'
  <2> SUFFICES ASSUME Core, StreamInv, [Next]_vars PROVE StreamInv'
    OBVIOUS
  <2> USE DEF StreamInv
  <2>1. CASE MainNext /\ UNCHANGED sessionVars
    BY <2>1, StreamsMain
  <2>2. CASE \E w \in Workers : SessionNext(w) /\ UNCHANGED mainVars
    BY <2>2, UnheardThread, ParseThread
  <2>3. CASE \E c \in Conns : PeerLeaves(c) /\ UNCHANGED <<mainVars, sessionVars>>
    <3>1. \A c \in Conns : Up(c)' => Up(c)
      BY <2>3, EndingAssumption DEF PeerLeaves, Up, Core, Typed, TypeOK, FramesTypeOK
    <3>2. QED
      BY <2>3, <3>1 DEF PeerLeaves, StreamsParse, Unheard, mainVars, sessionVars, streamVars, table
  <2>4. CASE UNCHANGED vars
    BY <2>4 DEF StreamsParse, Unheard, Up, vars, frameVars, mainVars, sessionVars, streamVars
  <2>5. QED
    BY <2>1, <2>2, <2>3, <2>4 DEF Next
<1>3. QED
  BY <1>1, <1>2, CoreHolds, PTL DEF Spec

(* Every connected listener whose socket nobody changed in the middle of a
   broadcast finds the boundaries between lengths and texts, however many
   threads share texts.                                                      *)
THEOREM ListenersParse == Spec => []StreamsParse
<1>1. StreamInv => StreamsParse
  BY DEF StreamInv
<1>2. QED
  BY <1>1, StreamInvHolds, PTL

-------------------------------------------------------------------------------
(***************************************************************************)
(* The texts.  One that says or announces something names the room its     *)
(* user is in when it is composed; until share() has read the room nobody  *)
(* but the user's own thread can change it, nor overwrite the text.  From  *)
(* the read of a receiver's room to the two sends its frame may be closed  *)
(* and handed out again, but its user cannot enter another room, nor can a *)
(* new user log in on it: both take the mutex.                             *)
(***************************************************************************)
Named == buffer.what \in {"say", "join"}

Sharing   == {"share", "check", "length", "body"}
Addressed == {"check", "length", "body"}

(* A frame that has no user, or is losing it. *)
Closing(f) == id[f] = 0 \/ \E v \in Workers : wf[v] = f /\ wpc[v] = "closeId"

RoomNamed ==
  \A w \in Workers : wf[w] \notin clash /\ Named =>
    /\ wpc[w] = "call" => chat[wf[w]] + 1 = buffer.room
    /\ wpc[w] \in Sharing => room[w] + 1 = buffer.room

(* The frame that was found in the room is still in it, unless it is being, or
   has been, closed.                                                         *)
RoomKept ==
  \A w \in Workers : wpc[w] \in Addressed =>
    chat[wt[w]] = room[w] \/ Closing(wt[w])

TextInv == RoomNamed /\ RoomKept

(* How a thread comes to share a text: it composes one about the room it is
   in, reads that room, and then changes neither until share() is over; it
   looks at one frame at a time, first of all at the room.                   *)
LEMMA TextWrites ==
  ASSUME Typed, NEW w \in Workers, SessionNext(w)
  PROVE  /\ wpc'[w] = "call" => Join(w) \/ Message(w) \/ buffer'.what = "leave"
         /\ wpc'[w] \in Sharing =>
              \/ EnterShare(w)
              \/ wpc[w] \in Sharing /\ UNCHANGED <<buffer, room>>
         /\ wpc'[w] \in Addressed =>
              \/ chat[wt[w]] = room[w] /\ UNCHANGED <<chat, wt, room>>
              \/ wpc[w] \in Addressed /\ UNCHANGED <<chat, id, wt, room>>
<1> USE DEF Typed, TypeOK, SessionTypeOK, Goto, Sharing, Addressed
<1>1. CASE Start(w) \/ CallRecv(w) \/ RecvCommand(w) \/ RecvFails(w) \/ Lock(w) \/ Unlock(w)
  BY <1>1 DEF Start, CallRecv, RecvCommand, RecvFails, Lock, Unlock
<1>2. CASE Login(w) \/ Register(w) \/ Insert(w) \/ Logout(w) \/ NoCommand(w)
  BY <1>2 DEF Login, Register, Insert, Logout, NoCommand
<1>3. CASE NewUid(w)
  BY <1>3 DEF NewUid, Draw, ScanIds, Tell, SetId
<1>4. CASE ChangeRoom(w) \/ Left(w) \/ Join(w) \/ Message(w)
  BY <1>4 DEF ChangeRoom, Left, Join, Message, CallShare, Text
<1>5. CASE EnterShare(w) \/ SendText(w) \/ LeaveShare(w)
  BY <1>5 DEF EnterShare, SendText, LeaveShare
<1>6. CASE MatchRoom(w) \/ MatchListener(w) \/ SendLength(w)
  BY <1>6 DEF MatchRoom, MatchListener, SendLength, localVars, quiet, table
<1>7. CASE CloseUserFrame(w)
  BY <1>7 DEF CloseUserFrame, CloseChat, CloseId, CloseTalk, CloseShare, CloseWork
<1>8. QED
  BY <1>1, <1>2, <1>3, <1>4, <1>5, <1>6, <1>7 DEF SessionNext, Handler, Broadcast

LEMMA RoomNamedThread ==
  ASSUME Core, OneThread, RoomNamed, NEW w \in Workers, SessionNext(w), UNCHANGED mainVars
  PROVE  RoomNamed'
<1>1. Typed /\ Mutex /\ clash' = clash
  BY DEF Core, mainVars
<1>2. UNCHANGED wf /\ wf[w] \in Frames /\ Live(w)
  BY <1>1, OwnFrameOnly, LastStep DEF Typed, TypeOK, FramesTypeOK
<1>3. ASSUME NEW v \in Workers, v # w, wf[v] \notin clash, wpc'[v] \in InShare
      PROVE  UNCHANGED buffer /\ wpc'[v] = wpc[v] /\ room'[v] = room[v]
             /\ chat'[wf[v]] = chat[wf[v]]
  <2>1. wpc'[v] = wpc[v] /\ Live(v)
    BY <1>1, <1>3, OthersStay DEF Live, InShare
  <2>2. wpc[w] \notin Critical
    BY <1>1, <1>3, <2>1 DEF Mutex, Critical
  <2>3. QED
    BY <1>1, <1>3, <2>1, <2>2, BufferWrites, OthersKnow, Undisturbed
<1>4. ASSUME wf[w] \notin clash, Named', wpc'[w] = "call"
      PROVE  chat'[wf[w]] + 1 = buffer'.room
  <2>1. Join(w) \/ Message(w)
    BY <1>1, <1>4, TextWrites DEF Named
  <2>2. CASE Join(w)
    BY <1>1, <1>2, <2>2 DEF Join, Text, Typed, TypeOK, FramesTypeOK
  <2>3. CASE Message(w)
    BY <1>1, <1>4, <2>3 DEF Message, Goto, Text, quiet, table, Typed, TypeOK
  <2>4. QED
    BY <2>1, <2>2, <2>3
<1>5. ASSUME wf[w] \notin clash, Named', wpc'[w] \in Sharing
      PROVE  room'[w] + 1 = buffer'.room
  <2>1. CASE EnterShare(w)
    BY <1>1, <1>5, <2>1 DEF EnterShare, RoomNamed, Named, Typed, TypeOK, SessionTypeOK
  <2>2. CASE wpc[w] \in Sharing /\ UNCHANGED <<buffer, room>>
    BY <1>5, <2>2 DEF RoomNamed, Named
  <2>3. QED
    BY <1>1, <1>5, <2>1, <2>2, TextWrites
<1>6. QED
  BY <1>1, <1>2, <1>3, <1>4, <1>5 DEF RoomNamed, Named, InShare, Sharing

(* Outside the mutex a thread takes no room away but in closeUserFrame, whose
   next write takes the uid, and gives none, and no uid.                     *)
LEMMA UnguardedWrites ==
  ASSUME Typed, NEW w \in Workers, SessionNext(w), wpc[w] \notin Critical
  PROVE  \/ UNCHANGED <<id, chat>> /\ wpc[w] # "closeId"
         \/ CloseChat(w)
         \/ CloseId(w)
<1>1. CASE Start(w) \/ CallRecv(w) \/ RecvCommand(w) \/ RecvFails(w) \/ Lock(w)
  BY <1>1 DEF Start, CallRecv, RecvCommand, RecvFails, Lock, quiet, table
<1>2. CASE CloseUserFrame(w)
  BY <1>2 DEF CloseUserFrame, CloseTalk, CloseShare, CloseWork, table
<1>3. CASE Handler(w)
  BY <1>3 DEF Handler, Login, Register, Insert, NewUid, Draw, ScanIds, Tell, SetId, Logout,
     ChangeRoom, Left, Join, Message, NoCommand, Broadcast, EnterShare, MatchRoom, MatchListener,
     SendLength, SendText, LeaveShare, Unlock, Critical, InShare
<1>4. QED
  BY <1>1, <1>2, <1>3 DEF SessionNext

(* A frame that is closed stays closed while another thread has the mutex. *)
LEMMA StaysClosing ==
  ASSUME Typed, NEW w \in Workers, SessionNext(w), wpc[w] \notin Critical,
         NEW f \in Frames, Closing(f)
  PROVE  Closing(f)'
<1> USE DEF Typed, TypeOK, FramesTypeOK
<1>1. wf' = wf /\ wf[w] \in Frames /\ \A v \in Workers : v # w => wpc'[v] = wpc[v]
  BY OwnFrameOnly, OthersStay
<1>2. CASE UNCHANGED <<id, chat>> /\ wpc[w] # "closeId"
  BY <1>1, <1>2 DEF Closing
<1>3. CASE CloseChat(w)
  BY <1>1, <1>3 DEF CloseChat, Closing
<1>4. CASE CloseId(w)
  BY <1>1, <1>4 DEF CloseId, Closing
<1>5. QED
  BY <1>2, <1>3, <1>4, UnguardedWrites

LEMMA AddressedFrame ==
  ASSUME Typed, NEW w \in Workers, wpc[w] \in Addressed
  PROVE  wt[w] \in Frames
<1>1. wt[w] \in 0 .. MAX_CLIENTS /\ wt[w] < MAX_CLIENTS
  BY DEF Typed, TypeOK, SessionTypeOK, Bounds, Addressed
<1>2. QED
  BY <1>1, ClientsAssumption DEF Frames

LEMMA RoomKeptThread ==
  ASSUME Core, RoomKept, NEW w \in Workers, SessionNext(w)
  PROVE  RoomKept'
<1> USE DEF Typed, TypeOK, FramesTypeOK, SessionTypeOK
<1>1. Typed /\ Mutex
  BY DEF Core
<1>2. wf' = wf /\ wf[w] \in Frames /\ \A v \in Workers : v # w => wpc'[v] = wpc[v]
  BY <1>1, OwnFrameOnly, OthersStay
<1>3. ASSUME NEW v \in Workers, v # w, wpc[v] \in Addressed
      PROVE  chat'[wt'[v]] = room'[v] \/ Closing(wt[v])'
  <2>1. wpc[w] \notin Critical
    BY <1>1, <1>3 DEF Mutex, Critical, InShare, Addressed
  <2>2. wt'[v] = wt[v] /\ room'[v] = room[v]
    BY <1>1, <1>3, OthersStay, OthersKnow
  <2>3. wt[v] \in Frames
    BY <1>1, <1>3, AddressedFrame
  <2>4. CASE Closing(wt[v])
    <3>1. ASSUME NEW f \in Frames, Closing(f) PROVE Closing(f)'
      BY <1>1, <2>1, <3>1, StaysClosing
    <3>2. QED
      BY <2>2, <2>3, <2>4, <3>1 DEF Closing
  <2>5. CASE chat[wt[v]] = room[v] /\ UNCHANGED chat
    BY <2>2, <2>5
  <2>6. CASE chat[wt[v]] = room[v] /\ CloseChat(w)
    <3>1. wf[w] # wt[v] => chat'[wt[v]] = chat[wt[v]]
      BY <1>1, <1>2, <2>3, <2>6 DEF CloseChat
    <3>2. wf[w] = wt[v] => Closing(wt[v])'
      BY <1>1, <1>2, <2>2, <2>6 DEF CloseChat, Goto, Closing
    <3>3. QED
      BY <2>2, <2>6, <3>1, <3>2
  <2>7. QED
    BY <1>1, <1>3, <2>1, <2>4, <2>5, <2>6, UnguardedWrites DEF RoomKept, CloseId
<1>4. ASSUME wpc'[w] \in Addressed
      PROVE  chat'[wt'[w]] = room'[w] \/ Closing(wt[w])'
  <2>1. CASE chat[wt[w]] = room[w] /\ UNCHANGED <<chat, wt, room>>
    BY <2>1
  <2>2. CASE wpc[w] \in Addressed /\ UNCHANGED <<chat, id, wt, room>>
    <3>1. ASSUME NEW v \in Workers, wpc[v] = "closeId" PROVE wpc'[v] = "closeId"
      BY <1>2, <2>2, <3>1 DEF Addressed
    <3>2. QED
      BY <1>2, <2>2, <3>1 DEF RoomKept, Closing
  <2>3. QED
    BY <1>1, <1>4, <2>1, <2>2, TextWrites
<1>5. QED
  BY <1>2, <1>3, <1>4 DEF RoomKept

LEMMA TextInvHolds == Spec => []TextInv
<1>1. Init => TextInv
  BY DEF Init, FramesInit, TextInv, RoomNamed, RoomKept, Sharing, Addressed
<1>2. Core /\ ItemInv /\ TextInv /\ [Next]_vars => TextInv'
  <2> SUFFICES ASSUME Core, OneThread, RoomNamed, RoomKept, [Next]_vars
               PROVE  RoomNamed' /\ RoomKept'
    BY DEF ItemInv, TextInv
  <2>1. CASE MainNext /\ UNCHANGED sessionVars
    <3>1. Typed /\ Started
      BY DEF Core
    <3>2. ASSUME NEW v \in Workers
          PROVE  \/ wpc'[v] = wpc[v] /\ wf'[v] = wf[v]
                 \/ wpc'[v] = "queued" /\ wpc[v] = "none"
      BY <2>1, <3>1, MainWrites, FillWorkStarts DEF FillWork, Goto, Typed, TypeOK, FramesTypeOK
    <3>3. RoomNamed'
      BY <2>1, <3>1, <3>2, MainWrites DEF RoomNamed, Named, Sharing, sessionVars, localVars
    <3>4. ASSUME NEW f \in Frames, Closing(f) PROVE Closing(f)'
      BY <2>1, <3>1, <3>2, <3>4, MainWrites DEF Closing
    <3>5. \A v \in Workers : wpc[v] \in Addressed => wt[v] \in Frames
      BY <3>1, AddressedFrame
    <3>6. RoomKept'
      BY <2>1, <3>1, <3>2, <3>4, <3>5, MainWrites
      DEF RoomKept, Addressed, sessionVars, localVars
    <3>7. QED
      BY <3>3, <3>6
  <2>2. CASE \E w \in Workers : SessionNext(w) /\ UNCHANGED mainVars
    BY <2>2, RoomNamedThread, RoomKeptThread
  <2>3. CASE UNCHANGED <<table, wpc, wf, mainVars, sessionVars>>
    BY <2>3 DEF RoomNamed, RoomKept, Closing, Named, table, mainVars, sessionVars, localVars
  <2>4. QED
    BY <2>1, <2>2, <2>3 DEF Next, PeerLeaves, vars, frameVars, table
<1>3. QED
  BY <1>1, <1>2, CoreHolds, ItemHolds, PTL DEF Spec

(* Neither length nor text of what a client says, or announces on joining, goes
   to the listener of a user who is not in the room the text names, however
   many frames are emptied and refilled between share()'s look at a frame's
   room (142) and its two sends (148, 149), for which it reads the frame again. *)
THEOREM TextsStay == Spec => TextsStayInRoom
<1>1. Core /\ TextInv /\ [Next]_vars
      => [\A w \in Workers :
            Sends(w) /\ buffer.what \in {"say", "join"} /\ wf[w] \notin clash
            => InRoomNamed(wt[w])]_vars
  <2> SUFFICES ASSUME RoomNamed, RoomKept, NEW w \in Workers,
                      Sends(w), Named, wf[w] \notin clash
               PROVE  InRoomNamed(wt[w])
    BY DEF TextInv, Named
  <2>1. wpc[w] \in Addressed /\ wpc[w] \in Sharing
    BY DEF Sends, Addressed, Sharing
  <2>2. room[w] + 1 = buffer.room
    BY <2>1 DEF RoomNamed
  <2>3. CASE chat[wt[w]] = room[w]
    BY <2>2, <2>3 DEF InRoomNamed
  <2>4. CASE Closing(wt[w])
    BY <2>4 DEF Closing, InRoomNamed
  <2>5. QED
    BY <2>1, <2>3, <2>4 DEF RoomKept
<1>2. QED
  BY <1>1, CoreHolds, TextInvHolds, PTL DEF Spec, TextsStayInRoom
===============================================================================

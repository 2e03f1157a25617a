------------------------------ MODULE FrameProofs ------------------------------
(***************************************************************************)
(* A frame and the thread that serves it.  The accept loop may hand a      *)
(* frame out while a thread is still bound to it, and then records it in   *)
(* clash; outside clash a frame has one thread at most, and what that      *)
(* thread knows of its frame stays true until the thread itself changes    *)
(* it.                                                                     *)
(***************************************************************************)
EXTENDS ChatServerProofs

Live(w) == wpc[w] \notin {"none", "done"}

(* The accept loop is filling the frame mt. *)
Handing == mpc \in {"fillShare", "fillWork"}

(* The places of closeUserFrame from which the room, and the uid, are gone. *)
RoomGone == ClosePlaces \ {"closeChat"}
IdGone   == RoomGone \ {"closeId"}

-------------------------------------------------------------------------------
(* A thread writes no frame but its own, and never its work item's handle. *)
LEMMA OwnFrameOnly ==
  ASSUME Typed, NEW w \in Workers, SessionNext(w)
  PROVE  /\ UNCHANGED <<pt, wf>>
         /\ \A f \in Frames : f # wf[w] =>
              /\ id'[f] = id[f] /\ chat'[f] = chat[f]
              /\ share'[f] = share[f] /\ talk'[f] = talk[f]
<1> USE DEF Typed, TypeOK, FramesTypeOK
<1>1. CASE Start(w) \/ CallRecv(w) \/ RecvCommand(w) \/ RecvFails(w) \/ Lock(w) \/ Unlock(w)
  BY <1>1 DEF Start, CallRecv, RecvCommand, RecvFails, Lock, Unlock, quiet, table
<1>2. CASE Login(w) \/ Register(w) \/ Insert(w) \/ Logout(w) \/ NoCommand(w)
  BY <1>2 DEF Login, Register, Insert, Logout, NoCommand, quiet, table
<1>3. CASE NewUid(w)
  BY <1>3 DEF NewUid, Draw, ScanIds, Tell, SetId, quiet, table
<1>4. CASE ChangeRoom(w) \/ Left(w) \/ Join(w) \/ Message(w)
  BY <1>4 DEF ChangeRoom, Left, Join, Message, quiet, table
<1>5. CASE Broadcast(w)
  BY <1>5 DEF Broadcast, EnterShare, MatchRoom, MatchListener, SendLength, SendText, LeaveShare, quiet, table
<1>6. CASE CloseUserFrame(w)
  BY <1>6 DEF CloseUserFrame, CloseChat, CloseId, CloseTalk, CloseShare, CloseWork, table
<1>7. QED
  BY <1>1, <1>2, <1>3, <1>4, <1>5, <1>6 DEF SessionNext, Handler

(* A thread leaves alone what the others know of their clients and streams. *)
LEMMA OthersKnow ==
  ASSUME Typed, NEW w \in Workers, SessionNext(w)
  PROVE  \A v \in Workers : v # w => /\ logged'[v] = logged[v] /\ sock'[v] = sock[v]
                                     /\ room'[v] = room[v] /\ lenTo'[v] = lenTo[v]
<1> USE DEF Typed, TypeOK, SessionTypeOK
<1>1. CASE Start(w) \/ CallRecv(w) \/ RecvCommand(w) \/ RecvFails(w) \/ Lock(w) \/ Unlock(w)
  BY <1>1 DEF Start, CallRecv, RecvCommand, RecvFails, Lock, Unlock,
     sessionVars, localVars, streamVars
<1>2. CASE Login(w) \/ Register(w) \/ Insert(w) \/ Logout(w) \/ NoCommand(w)
  BY <1>2 DEF Login, Register, Insert, Logout, NoCommand, sessionVars, localVars, streamVars
<1>3. CASE NewUid(w)
  BY <1>3 DEF NewUid, Draw, ScanIds, Tell, SetId, sessionVars, localVars, streamVars
<1>4. CASE ChangeRoom(w) \/ Left(w) \/ Join(w) \/ Message(w)
  BY <1>4 DEF ChangeRoom, Left, Join, Message, sessionVars, localVars, streamVars
<1>5. CASE Broadcast(w)
  BY <1>5 DEF Broadcast, EnterShare, MatchRoom, MatchListener, SendLength, SendText, LeaveShare, localVars, streamVars
<1>6. CASE CloseUserFrame(w) /\ UNCHANGED sessionVars
  BY <1>6 DEF sessionVars, localVars, streamVars
<1>7. QED
  BY <1>1, <1>2, <1>3, <1>4, <1>5, <1>6 DEF SessionNext, Handler

(* The last thing a thread does is to give its frame's work item back. *)
LEMMA LastStep ==
  ASSUME Typed, NEW w \in Workers, SessionNext(w)
  PROVE  /\ Live(w) /\ wpc'[w] # "none"
         /\ \/ work' = work /\ wpc'[w] # "done"
            \/ CloseWork(w) /\ wpc'[w] = "done"
<1> USE DEF Typed, TypeOK, SessionTypeOK, Goto, Live
<1>1. CASE Start(w) \/ CallRecv(w) \/ RecvCommand(w) \/ RecvFails(w) \/ Lock(w) \/ Unlock(w)
  BY <1>1 DEF Start, CallRecv, RecvCommand, RecvFails, Lock, Unlock, quiet
<1>2. CASE Login(w) \/ Register(w) \/ Insert(w) \/ Logout(w) \/ NoCommand(w)
  BY <1>2 DEF Login, Register, Insert, Logout, NoCommand, quiet
<1>3. CASE NewUid(w)
  BY <1>3 DEF NewUid, Draw, ScanIds, Tell, SetId, quiet
<1>4. CASE ChangeRoom(w) \/ Left(w) \/ Join(w) \/ Message(w)
  BY <1>4 DEF ChangeRoom, Left, Join, Message, CallShare, quiet
<1>5. CASE Broadcast(w)
  BY <1>5 DEF Broadcast, EnterShare, MatchRoom, MatchListener, SendLength, SendText, LeaveShare, quiet
<1>6. CASE CloseUserFrame(w)
  BY <1>6 DEF CloseUserFrame, CloseChat, CloseId, CloseTalk, CloseShare, CloseWork
<1>7. QED
  BY <1>1, <1>2, <1>3, <1>4, <1>5, <1>6 DEF SessionNext, Handler

(* What a thread does to the uid and the room of its frame on the way to each
   place: closeUserFrame clears one after the other, and until it has cleared
   the uid only a login and a logout change that, each together with logged.  *)
LEMMA OwnFrame ==
  ASSUME Typed, NEW w \in Workers, SessionNext(w)
  PROVE  /\ wpc'[w] \in RoomGone \cup {"done"} =>
              CloseChat(w) \/ (wpc[w] \in RoomGone /\ chat' = chat)
         /\ wpc'[w] \in IdGone \cup {"done"} =>
              CloseId(w) \/ (wpc[w] \in IdGone /\ id' = id)
         /\ wpc'[w] \notin IdGone \cup {"done"} =>
              /\ wpc[w] \notin IdGone
              /\ UNCHANGED <<logged, id>> \/ Logout(w) \/ SetId(w)
         /\ wpc'[w] = "recv" => CallRecv(w)
<1> USE DEF Typed, TypeOK, SessionTypeOK, Goto, RoomGone, IdGone, ClosePlaces
<1>1. CASE Start(w) \/ CallRecv(w) \/ RecvCommand(w) \/ RecvFails(w) \/ Lock(w) \/ Unlock(w)
  BY <1>1 DEF Start, CallRecv, RecvCommand, RecvFails, Lock, Unlock, quiet, table,
     sessionVars, localVars
<1>2. CASE Login(w) \/ Register(w) \/ Insert(w) \/ Logout(w) \/ NoCommand(w)
  BY <1>2 DEF Login, Register, Insert, Logout, NoCommand, quiet, table, sessionVars, localVars
<1>3. CASE NewUid(w)
  BY <1>3 DEF NewUid, Draw, ScanIds, Tell, SetId, quiet, table, sessionVars, localVars
<1>4. CASE ChangeRoom(w) \/ Left(w) \/ Join(w) \/ Message(w)
  BY <1>4 DEF ChangeRoom, Left, Join, Message, CallShare, quiet, table, sessionVars, localVars
<1>5. CASE Broadcast(w)
  BY <1>5 DEF Broadcast, EnterShare, MatchRoom, MatchListener, SendLength, SendText, LeaveShare, quiet, table, localVars
<1>6. CASE CloseUserFrame(w) /\ UNCHANGED sessionVars
  BY <1>6 DEF CloseUserFrame, CloseChat, CloseId, CloseTalk, CloseShare, CloseWork, table,
     sessionVars, localVars
<1>7. QED
  BY <1>1, <1>2, <1>3, <1>4, <1>5, <1>6 DEF SessionNext, Handler

(* The accept loop leaves uids and rooms alone, and hands a frame out in the
   three steps FillTalk, FillShare and FillWork.                             *)
LEMMA MainWrites ==
  ASSUME Typed, MainNext
  PROVE  /\ UNCHANGED <<id, chat, known>> /\ clash \subseteq clash'
         /\ FillTalk \/ (UNCHANGED <<talk, clash>> /\ mpc' # "fillShare")
         /\ FillShare \/ Attach \/ UNCHANGED share
         /\ FillShare \/ FillWork \/ mpc' # "fillWork"
         /\ FillWork \/ UNCHANGED <<pt, work, wf, wpc>>
<1>1. CASE Accept \/ Deny \/ First \/ SearchFreeUF \/ FillTalk \/ FillShare
  BY <1>1 DEF Accept, Deny, First, SearchFreeUF, FillTalk, FillShare, frameVars, table
<1>2. CASE Acknowledge \/ ReadUid \/ VerifyUID \/ SearchUID \/ Attach \/ Greet
  BY <1>2 DEF Acknowledge, ReadUid, VerifyUID, SearchUID, Attach, Greet, frameVars, table
<1>3. CASE FillWork
  BY <1>3 DEF FillWork
<1>4. QED
  BY <1>1, <1>2, <1>3 DEF MainNext

(* While mt is filled it is an index, and the thread it gets is new. *)
LEMMA FillWorkStarts ==
  ASSUME Typed, Started, FillWork, mpc' # mpc
  PROVE  /\ mt \in Frames /\ counter + 1 \in Workers /\ wpc[counter + 1] = "none"
         /\ Goto(counter + 1, "queued") /\ wf' = [wf EXCEPT ![counter + 1] = mt]
         /\ pt' = [pt EXCEPT ![mt] = counter + 1]
         /\ work' = [work EXCEPT ![counter + 1] = "open"]
<1>1. mt \in Frames /\ counter + 1 \in Workers
  BY ClientsAssumption DEF FillWork, Typed, TypeOK, MainTypeOK, Bounds, Taking, Frames, Workers
<1>2. wpc[counter + 1] = "none"
  BY <1>1, ClientsAssumption DEF FillWork, Started, Typed, TypeOK, MainTypeOK
<1>3. QED
  BY <1>1, <1>2 DEF FillWork

-------------------------------------------------------------------------------
(***************************************************************************)
(* One thread to a frame, and one frame to a work item.                    *)
(***************************************************************************)
OneThread ==
  /\ \A v, w \in Workers : v # w /\ Live(v) /\ Live(w) /\ wf[v] = wf[w] => wf[w] \in clash
  /\ Handing /\ mt \notin clash => \A w \in Workers : Live(w) => wf[w] # mt

(* The handle in a frame is that of the last thread that was given the frame;
   outside clash that is the one which runs, and its item is not given back.  *)
ItemOfFrame ==
  /\ \A f \in Frames : pt[f] # NULL => wpc[pt[f]] # "none" /\ wf[pt[f]] = f
  /\ \A w \in Workers : Live(w) /\ wf[w] \notin clash => pt[wf[w]] = w /\ work[w] = "open"

ItemInv == OneThread /\ ItemOfFrame /\ WorkClosedOnce

LEMMA ItemThread ==
  ASSUME Core, ItemInv, NEW w \in Workers, SessionNext(w), UNCHANGED mainVars
  PROVE  ItemInv'
<1> USE DEF ItemInv
<1>1. Typed /\ clash' = clash /\ mt' = mt /\ mpc' = mpc
  BY DEF Core, mainVars
<1>2. UNCHANGED <<pt, wf>> /\ Live(w) /\ wpc'[w] # "none"
  BY <1>1, OwnFrameOnly, LastStep
<1>3. \A v \in Workers : v # w => wpc'[v] = wpc[v]
  BY <1>1, OthersStay
<1>4. \A v \in Workers : Live(v)' => Live(v)
  BY <1>2, <1>3 DEF Live
<1>5. OneThread'
  BY <1>1, <1>2, <1>4 DEF OneThread, Handing
<1>6. \A f \in Frames : pt[f] # NULL => pt[f] \in Workers
  BY <1>1 DEF Typed, TypeOK, FramesTypeOK
<1>7. (\A f \in Frames : pt[f] # NULL => wpc[pt[f]] # "none" /\ wf[pt[f]] = f)'
  BY <1>2, <1>3, <1>6 DEF ItemOfFrame
<1>8. CASE work' = work
  BY <1>1, <1>2, <1>4, <1>5, <1>7, <1>8 DEF ItemOfFrame, WorkClosedOnce
<1>9. CASE CloseWork(w) /\ wpc'[w] = "done"
  <2> DEFINE item == pt[wf[w]]
  <2>1. /\ wf \in [Workers -> Frames] /\ work \in [Workers -> WorkState]
        /\ work' = [work EXCEPT ![item] = IF @ = "open" THEN "closed" ELSE "double"]
    BY <1>1, <1>9 DEF CloseWork, Typed, TypeOK, FramesTypeOK
  <2>2. ASSUME NEW v \in Workers, Live(v)', wf[v] \notin clash
        PROVE  pt[wf[v]] = v /\ work'[v] = "open"
    <3>1. v # w /\ Live(v) /\ pt[wf[v]] = v /\ work[v] = "open"
      BY <1>4, <1>9, <2>2 DEF ItemOfFrame, Live
    <3>2. wf[w] # wf[v]
      BY <1>2, <2>2, <3>1 DEF OneThread
    <3>3. item # v
      BY <2>1, <3>1, <3>2, <1>6 DEF ItemOfFrame, NULL, Workers
    <3>4. QED
      BY <2>1, <3>1, <3>3
  <2>3. ASSUME NEW v \in Workers, work'[v] = "double", wf[v] \notin clash
        PROVE  FALSE
    <3>1. work[v] # "double"
      BY <2>3 DEF WorkClosedOnce
    <3>2. v = item /\ work[v] # "open"
      BY <2>1, <2>3, <3>1
    <3>3. wf[v] = wf[w]
      BY <2>1, <3>2, <1>6 DEF ItemOfFrame, NULL, Workers
    <3>4. pt[wf[w]] = w /\ work[w] = "open"
      BY <1>2, <2>3, <3>3 DEF ItemOfFrame
    <3>5. QED
      BY <3>2, <3>4
  <2>4. QED
    BY <1>1, <1>2, <1>5, <1>7, <2>2, <2>3 DEF ItemOfFrame, WorkClosedOnce
<1>10. QED
  BY <1>1, <1>5, <1>8, <1>9, LastStep

LEMMA ItemMain ==
  ASSUME Core, ItemInv, MainNext
  PROVE  ItemInv'
<1> USE DEF ItemInv
<1>1. Typed /\ Started
  BY DEF Core
<1>2. clash \subseteq clash'
  BY <1>1, MainWrites
<1>3. CASE FillTalk
  <2>1. UNCHANGED <<pt, work, wf, wpc, mt>> /\ mpc' = "fillShare"
    BY <1>3 DEF FillTalk
  <2>2. mt \notin clash' => \A w \in Workers : Live(w) => wf[w] # mt
    BY <1>3 DEF FillTalk, BoundTo, Live
  <2>3. OneThread'
    BY <1>2, <2>1, <2>2 DEF OneThread, Handing, Live
  <2>4. QED
    BY <1>2, <2>1, <2>3 DEF ItemOfFrame, WorkClosedOnce, Live
<1>4. CASE FillWork /\ mpc' # mpc
  <2>1. PICK new \in Workers :
        /\ mt \in Frames /\ wpc[new] = "none"
        /\ wpc' = [wpc EXCEPT ![new] = "queued"] /\ wf' = [wf EXCEPT ![new] = mt]
        /\ pt' = [pt EXCEPT ![mt] = new] /\ work' = [work EXCEPT ![new] = "open"]
    BY <1>1, <1>4, FillWorkStarts DEF Goto
  <2>2. /\ wpc \in [Workers -> Places] /\ wf \in [Workers -> Frames]
        /\ pt \in [Frames -> Workers \cup {NULL}] /\ work \in [Workers -> WorkState]
    BY <1>1 DEF Typed, TypeOK, FramesTypeOK
  <2>3. clash' = clash /\ mpc = "fillWork" /\ mpc' = "ack"
    BY <1>4 DEF FillWork
  <2>4. /\ Live(new)' /\ wf'[new] = mt /\ pt'[mt] = new /\ work'[new] = "open"
        /\ \A w \in Workers : w # new =>
             (Live(w)' <=> Live(w)) /\ wf'[w] = wf[w] /\ work'[w] = work[w]
        /\ \A f \in Frames : f # mt => pt'[f] = pt[f]
    BY <2>1, <2>2 DEF Live
  <2>5. mt \notin clash => \A w \in Workers : Live(w) => wf[w] # mt
    BY <2>3 DEF OneThread, Handing
  <2>6. OneThread'
    BY <2>3, <2>4, <2>5 DEF OneThread, Handing
  <2>7. (\A f \in Frames : pt[f] # NULL => wpc[pt[f]] # "none" /\ wf[pt[f]] = f)'
    <3> SUFFICES ASSUME NEW f \in Frames, pt'[f] # NULL
                 PROVE  wpc'[pt'[f]] # "none" /\ wf'[pt'[f]] = f
      OBVIOUS
    <3>1. CASE f = mt
      BY <2>1, <2>2, <2>4, <3>1
    <3>2. CASE f # mt
      <4>1. pt[f] \in Workers /\ pt'[f] = pt[f] /\ wpc[pt[f]] # "none" /\ wf[pt[f]] = f
        BY <2>2, <2>4, <3>2 DEF ItemOfFrame
      <4>2. QED
        BY <2>1, <2>2, <4>1
    <3>3. QED
      BY <3>1, <3>2
  <2>8. ASSUME NEW w \in Workers, Live(w)', wf'[w] \notin clash
        PROVE  pt'[wf'[w]] = w /\ work'[w] = "open"
    <3>1. CASE w = new
      BY <2>4, <3>1
    <3>2. CASE w # new
      BY <2>2, <2>4, <2>5, <2>8, <3>2 DEF ItemOfFrame
    <3>3. QED
      BY <3>1, <3>2
  <2>9. WorkClosedOnce'
    BY <2>3, <2>4 DEF WorkClosedOnce
  <2>10. QED
    BY <2>3, <2>6, <2>7, <2>8, <2>9 DEF ItemOfFrame
<1>5. CASE ~FillTalk /\ UNCHANGED <<pt, work, wf, wpc, clash>>
  <2>1. Handing' => Handing /\ mt' = mt
    BY <1>1, <1>5, MainWrites DEF Handing, FillShare, FillWork
  <2>2. QED
    BY <1>5, <2>1 DEF OneThread, ItemOfFrame, WorkClosedOnce, Live
<1>6. QED
  BY <1>1, <1>3, <1>4, <1>5, MainWrites DEF FillWork

LEMMA ItemHolds == Spec => []ItemInv
<1>1. Init => ItemInv
  BY DEF Init, FramesInit, MainInit, ItemInv, OneThread, ItemOfFrame, WorkClosedOnce, Live, Handing
<1>2. Core /\ ItemInv /\ [Next]_vars => ItemInv'
  <2> SUFFICES ASSUME Core, ItemInv, [Next]_vars PROVE ItemInv'
    OBVIOUS
  <2>1. CASE MainNext /\ UNCHANGED sessionVars
    BY <2>1, ItemMain
  <2>2. CASE \E w \in Workers : SessionNext(w) /\ UNCHANGED mainVars
    BY <2>2, ItemThread
  <2>3. CASE UNCHANGED <<pt, work, wpc, wf, mainVars>>
    BY <2>3 DEF ItemInv, OneThread, ItemOfFrame, WorkClosedOnce, Live, Handing, mainVars
  <2>4. QED
    BY <2>1, <2>2, <2>3 DEF Next, PeerLeaves, vars, frameVars, table
<1>3. QED
  BY <1>1, <1>2, CoreHolds, PTL DEF Spec

(* closeUserFrame gives every work item back once, unless _main handed the frame
   out while its thread still ran: nobody else closes the item of a frame that
   was not, and _main does not overwrite the handle before it is closed.     *)
THEOREM WorkIsClosedOnce == Spec => []WorkClosedOnce
<1>1. ItemInv => WorkClosedOnce
  BY DEF ItemInv
<1>2. QED
  BY <1>1, ItemHolds, PTL

-------------------------------------------------------------------------------
(***************************************************************************)
(* What the fields of a frame hold.  They become empty while the frame is  *)
(* closed, in the order of closeUserFrame, and stay so until it is handed  *)
(* out, since nobody else writes a frame that no thread serves; only the   *)
(* listener's socket may be written by _main, which clears it itself.      *)
(***************************************************************************)
Vacant(f) == \A w \in Workers : Live(w) => wf[w] # f

Emptied ==
  /\ \A w \in Workers : wf[w] \notin clash =>
       /\ wpc[w] \in RoomGone => chat[wf[w]] = NoRoom
       /\ wpc[w] \in IdGone => id[wf[w]] = 0
  /\ \A f \in Frames : f \notin clash /\ Vacant(f) => id[f] = 0 /\ chat[f] = NoRoom
  /\ Handing /\ mt \notin clash => talk[mt] = soc
  /\ mpc = "fillWork" /\ mt \notin clash => share[mt] = NULL

(* A thread's logged and the uid of its frame go together from its start to
   the end of its loop, and it hears the frame's socket.                     *)
Coherent ==
  \A w \in Workers :
    /\ wpc[w] = "none" => ~logged[w]
    /\ Live(w) /\ wf[w] \notin clash =>
         /\ wpc[w] \notin IdGone => (logged[w] <=> id[wf[w]] # 0)
         /\ wpc[w] = "recv" => sock[w] = talk[wf[w]]

(* The thread of a frame that was never handed out twice is alone with it. *)
LEMMA Undisturbed ==
  ASSUME Core, OneThread, NEW w \in Workers, SessionNext(w), UNCHANGED mainVars,
         NEW v \in Workers, v # w, Live(v), wf[v] \notin clash
  PROVE  /\ Live(w) /\ wf[v] # wf[w] /\ UNCHANGED <<wf, clash>> /\ wpc'[v] = wpc[v]
         /\ id'[wf[v]] = id[wf[v]] /\ chat'[wf[v]] = chat[wf[v]]
         /\ share'[wf[v]] = share[wf[v]] /\ talk'[wf[v]] = talk[wf[v]]
<1>1. Typed /\ clash' = clash
  BY DEF Core, mainVars
<1>2. Live(w) /\ UNCHANGED wf /\ wf[v] \in Frames
  BY <1>1, LastStep, OwnFrameOnly DEF Typed, TypeOK, FramesTypeOK
<1>3. wf[v] # wf[w]
  BY <1>2 DEF OneThread
<1>4. QED
  BY <1>1, <1>2, <1>3, OwnFrameOnly, OthersStay

LEMMA EmptiedThread ==
  ASSUME Core, OneThread, Emptied, NEW w \in Workers, SessionNext(w), UNCHANGED mainVars
  PROVE  Emptied'
<1>1. Typed /\ UNCHANGED <<clash, mpc, mt, soc>>
  BY DEF Core, mainVars
<1>2. UNCHANGED <<pt, wf>> /\ Live(w) /\ wf[w] \in Frames
  BY <1>1, OwnFrameOnly, LastStep DEF Typed, TypeOK, FramesTypeOK
<1>3. /\ wpc'[w] \in RoomGone \cup {"done"} /\ wf[w] \notin clash => chat'[wf[w]] = NoRoom
      /\ wpc'[w] \in IdGone \cup {"done"} /\ wf[w] \notin clash => id'[wf[w]] = 0
  BY <1>1, <1>2, OwnFrame DEF Emptied, CloseChat, CloseId, Typed, TypeOK, FramesTypeOK
<1>4. ASSUME NEW v \in Workers, wf'[v] \notin clash'
      PROVE  /\ wpc'[v] \in RoomGone => chat'[wf'[v]] = NoRoom
             /\ wpc'[v] \in IdGone => id'[wf'[v]] = 0
  <2>1. CASE v = w
    BY <1>1, <1>2, <1>3, <1>4, <2>1
  <2>2. CASE v # w
    <3>1. wpc'[v] = wpc[v]
      BY <1>1, <2>2, OthersStay
    <3>2. wpc[v] \in RoomGone => Live(v)
      BY DEF RoomGone, ClosePlaces, Live
    <3>3. QED
      BY <1>1, <1>2, <1>4, <2>2, <3>1, <3>2, Undisturbed DEF Emptied, IdGone
  <2>3. QED
    BY <2>1, <2>2
<1>5. ASSUME NEW f \in Frames, f \notin clash', Vacant(f)'
      PROVE  id'[f] = 0 /\ chat'[f] = NoRoom
  <2>1. CASE f = wf[w]
    <3>1. wpc'[w] = "done"
      BY <1>1, <1>2, <1>5, <2>1, LastStep DEF Vacant, Live
    <3>2. QED
      BY <1>1, <1>3, <1>5, <2>1, <3>1
  <2>2. CASE f # wf[w]
    <3>1. Vacant(f)
      BY <1>1, <1>2, <1>5, <2>2, OthersStay DEF Vacant, Live
    <3>2. QED
      BY <1>1, <1>5, <2>2, <3>1, OwnFrameOnly DEF Emptied
  <2>3. QED
    BY <2>1, <2>2
<1>6. Handing /\ mt \notin clash => mt # wf[w] /\ mt \in Frames
  BY <1>1, <1>2, ClientsAssumption
  DEF OneThread, Handing, Typed, TypeOK, MainTypeOK, Bounds, Frames
<1>7. Handing /\ mt \notin clash => talk'[mt] = talk[mt] /\ share'[mt] = share[mt]
  BY <1>1, <1>6, OwnFrameOnly
<1>8. (Handing /\ mt \notin clash => talk[mt] = soc)'
  BY <1>1, <1>7 DEF Emptied, Handing
<1>9. (mpc = "fillWork" /\ mt \notin clash => share[mt] = NULL)'
  BY <1>1, <1>7 DEF Emptied, Handing
<1>10. QED
  BY <1>4, <1>5, <1>8, <1>9 DEF Emptied

LEMMA EmptiedMain ==
  ASSUME Core, OneThread, Emptied, MainNext
  PROVE  Emptied'
<1>1. Typed /\ Started
  BY DEF Core
<1>2. UNCHANGED <<id, chat>> /\ clash \subseteq clash'
  BY <1>1, MainWrites
<1>3. ASSUME NEW v \in Workers
      PROVE  \/ wpc'[v] = wpc[v] /\ wf'[v] = wf[v]
             \/ wpc[v] = "none" /\ wpc'[v] = "queued"
  BY <1>1, MainWrites, FillWorkStarts DEF FillWork, Goto, Typed, TypeOK, FramesTypeOK
<1>4. (\A w \in Workers : wf[w] \notin clash =>
         /\ wpc[w] \in RoomGone => chat[wf[w]] = NoRoom
         /\ wpc[w] \in IdGone => id[wf[w]] = 0)'
  BY <1>2, <1>3 DEF Emptied, RoomGone, IdGone, ClosePlaces
<1>5. \A f \in Frames : Vacant(f)' => Vacant(f)
  BY <1>3 DEF Vacant, Live
<1>6. (\A f \in Frames : f \notin clash /\ Vacant(f) => id[f] = 0 /\ chat[f] = NoRoom)'
  BY <1>2, <1>5 DEF Emptied
<1>7. (Handing /\ mt \notin clash => talk[mt] = soc)'
  <2>1. CASE FillTalk
    BY <1>1, <2>1, ClientsAssumption DEF FillTalk, Typed, TypeOK, FramesTypeOK, MainTypeOK, Frames
  <2>2. CASE ~FillTalk
    BY <1>1, <1>2, <2>2, MainWrites DEF Emptied, Handing, FillShare, FillWork
  <2>3. QED
    BY <2>1, <2>2
<1>8. (mpc = "fillWork" /\ mt \notin clash => share[mt] = NULL)'
  <2>1. CASE FillShare
    BY <1>1, <2>1, ClientsAssumption
    DEF FillShare, Typed, TypeOK, FramesTypeOK, MainTypeOK, Bounds, Frames
  <2>2. CASE ~FillShare
    BY <1>1, <1>2, <2>2, MainWrites DEF Emptied, FillWork, FillTalk, Attach
  <2>3. QED
    BY <2>1, <2>2
<1>9. QED
  BY <1>4, <1>6, <1>7, <1>8 DEF Emptied

LEMMA CoherentThread ==
  ASSUME Core, UidInv, OneThread, Coherent, NEW w \in Workers, SessionNext(w), UNCHANGED mainVars
  PROVE  Coherent'
<1>1. Typed /\ clash' = clash
  BY DEF Core, mainVars
<1>2. UNCHANGED <<pt, wf>> /\ Live(w) /\ wpc'[w] # "none" /\ wf[w] \in Frames
  BY <1>1, OwnFrameOnly, LastStep DEF Typed, TypeOK, FramesTypeOK
<1> SUFFICES ASSUME NEW v \in Workers
             PROVE  /\ wpc'[v] = "none" => ~logged'[v]
                    /\ Live(v)' /\ wf[v] \notin clash =>
                         /\ wpc'[v] \notin IdGone => (logged'[v] <=> id'[wf[v]] # 0)
                         /\ wpc'[v] = "recv" => sock'[v] = talk'[wf[v]]
  BY <1>1, <1>2 DEF Coherent
<1>3. CASE v # w
  <2>1. wpc'[v] = wpc[v] /\ logged'[v] = logged[v] /\ sock'[v] = sock[v]
    BY <1>1, <1>3, OthersStay, OthersKnow
  <2>2. QED
    BY <1>3, <2>1, Undisturbed DEF Coherent, Live
<1>4. CASE v = w
  <2> SUFFICES ASSUME Live(w)', wf[w] \notin clash
               PROVE  /\ wpc'[w] \notin IdGone => (logged'[w] <=> id'[wf[w]] # 0)
                      /\ wpc'[w] = "recv" => sock'[w] = talk'[wf[w]]
    BY <1>2, <1>4
  <2>1. ASSUME wpc'[w] \notin IdGone
        PROVE  logged'[w] <=> id'[wf[w]] # 0
    <3>1. wpc[w] \notin IdGone /\ (UNCHANGED <<logged, id>> \/ Logout(w) \/ SetId(w))
      BY <1>1, <2>1, OwnFrame DEF Live
    <3>2. logged \in [Workers -> BOOLEAN] /\ id \in [Frames -> Nat]
      BY <1>1 DEF Typed, TypeOK, FramesTypeOK, SessionTypeOK
    <3>3. CASE UNCHANGED <<logged, id>>
      BY <1>2, <3>1, <3>3 DEF Coherent
    <3>4. CASE Logout(w)
      BY <1>2, <3>2, <3>4 DEF Logout
    <3>5. CASE SetId(w)
      <4>1. cmd[w] # 0
        BY <3>5 DEF SetId, UidInv, Fresh, Found
      <4>2. QED
        BY <1>2, <3>2, <3>5, <4>1 DEF SetId
    <3>6. QED
      BY <3>1, <3>3, <3>4, <3>5
  <2>2. ASSUME wpc'[w] = "recv"
        PROVE  sock'[w] = talk'[wf[w]]
    BY <1>1, <2>2, OwnFrame DEF CallRecv, Talk, quiet, table, Typed, TypeOK, SessionTypeOK
  <2>3. QED
    BY <2>1, <2>2
<1>5. QED
  BY <1>3, <1>4

LEMMA CoherentMain ==
  ASSUME Core, OneThread, OneThread', Emptied, Coherent, MainNext, UNCHANGED sessionVars
  PROVE  Coherent'
<1>1. Typed /\ Started
  BY DEF Core
<1>2. UNCHANGED <<id, logged, sock>> /\ clash \subseteq clash'
  BY <1>1, MainWrites DEF sessionVars, localVars
<1> SUFFICES ASSUME NEW v \in Workers
             PROVE  /\ wpc'[v] = "none" => ~logged[v]
                    /\ Live(v)' /\ wf'[v] \notin clash' =>
                         /\ wpc'[v] \notin IdGone => (logged[v] <=> id[wf'[v]] # 0)
                         /\ wpc'[v] = "recv" => sock[v] = talk'[wf'[v]]
  BY <1>2 DEF Coherent
<1>3. CASE UNCHANGED <<wpc, wf>>
  <2>1. CASE FillTalk
    <3>1. Live(v) /\ wf[v] \notin clash' => wf[v] # mt
      BY <1>3, <2>1 DEF FillTalk, OneThread, Handing, Live
    <3>2. Live(v) /\ wf[v] \notin clash' => talk'[wf[v]] = talk[wf[v]]
      BY <1>1, <2>1, <3>1 DEF FillTalk, Typed, TypeOK, FramesTypeOK
    <3>3. QED
      BY <1>2, <1>3, <3>2 DEF Coherent, Live
  <2>2. CASE ~FillTalk
    BY <1>1, <1>2, <1>3, <2>2, MainWrites DEF Coherent, Live
  <2>3. QED
    BY <2>1, <2>2
<1>4. CASE FillWork /\ mpc' # mpc
  <2>1. PICK new \in Workers :
        /\ mt \in Frames /\ wpc[new] = "none"
        /\ wpc' = [wpc EXCEPT ![new] = "queued"] /\ wf' = [wf EXCEPT ![new] = mt]
    BY <1>1, <1>4, FillWorkStarts DEF Goto
  <2>2. wpc \in [Workers -> Places] /\ wf \in [Workers -> Frames] /\ UNCHANGED <<talk, clash>>
    BY <1>1, <1>4, MainWrites DEF Typed, TypeOK, FramesTypeOK, FillTalk, FillWork
  <2>3. CASE v = new
    <3>1. ~logged[v] /\ wpc'[v] = "queued" /\ wf'[v] = mt
      BY <2>1, <2>2, <2>3 DEF Coherent
    <3>2. mt \notin clash => id[mt] = 0
      BY <1>4, <2>1 DEF OneThread, Emptied, Vacant, Handing, FillWork
    <3>3. QED
      BY <2>2, <3>1, <3>2
  <2>4. CASE v # new
    BY <2>1, <2>2, <2>4 DEF Coherent, Live
  <2>5. QED
    BY <2>3, <2>4
<1>5. QED
  BY <1>1, <1>3, <1>4, MainWrites DEF FillWork

FrameInv == Emptied /\ Coherent

LEMMA FrameInvHolds == Spec => []FrameInv
<1>1. Init => FrameInv
  BY DEF Init, FramesInit, MainInit, SessionInit, FrameInv, Emptied, Coherent, Live, Handing,
     RoomGone, IdGone, ClosePlaces
<1>2. Core /\ UidInv /\ ItemInv /\ ItemInv' /\ FrameInv /\ [Next]_vars => FrameInv'
  <2> SUFFICES ASSUME Core, UidInv, OneThread, OneThread', FrameInv, [Next]_vars PROVE FrameInv'
    BY DEF ItemInv
  <2> USE DEF FrameInv
  <2>1. CASE MainNext /\ UNCHANGED sessionVars
    BY <2>1, EmptiedMain, CoherentMain
  <2>2. CASE \E w \in Workers : SessionNext(w) /\ UNCHANGED mainVars
    BY <2>2, EmptiedThread, CoherentThread
  <2>3. CASE UNCHANGED <<table, wpc, wf, mainVars, sessionVars>>
    BY <2>3 DEF Emptied, Coherent, Vacant, Live, Handing, table, mainVars, sessionVars, localVars
  <2>4. QED
    BY <2>1, <2>2, <2>3 DEF Next, PeerLeaves, vars, frameVars, table
<1>3. QED
  BY <1>1, <1>2, CoreHolds, UidInvHolds, ItemHolds, PTL DEF Spec

(* A frame that _main hands out brings neither uid nor room nor sockets of its
   former user along, although _main itself clears only the listener's.      *)
THEOREM RecycledFrameIsEmpty == Spec => []RecycledFrameEmpty
<1>1. ItemInv /\ FrameInv /\ Core => RecycledFrameEmpty
  BY ClientsAssumption
  DEF ItemInv, OneThread, FrameInv, Emptied, Vacant, Handing, Core, Typed, Bounds, TypeOK,
      MainTypeOK, Frames, RecycledFrameEmpty
<1>2. QED
  BY <1>1, CoreHolds, ItemHolds, FrameInvHolds, PTL

(* A thread that waits for a command takes its client for logged in exactly if
   the frame has a uid, and hears the frame's own socket: nobody touches the
   frame of a thread that is alone with it, and its own steps change logged
   and the uid together.                                                     *)
THEOREM SessionIsCoherent == Spec => []SessionCoherent
<1>1. FrameInv => SessionCoherent
  BY DEF FrameInv, Coherent, SessionCoherent, Live, IdGone, RoomGone, ClosePlaces
<1>2. QED
  BY <1>1, FrameInvHolds, PTL
===============================================================================

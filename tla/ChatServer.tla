------------------------------ MODULE ChatServer ------------------------------
(***************************************************************************)
(* The running server: the accept loop and the threads of the pool over    *)
(* one frame table, with clients that come, talk and go.                   *)
(***************************************************************************)
EXTENDS Acceptor, Session

vars == <<frameVars, mainVars, sessionVars>>

Init == FramesInit /\ MainInit /\ SessionInit

Next ==
  /\ running
  /\ \/ MainNext /\ UNCHANGED sessionVars
     \/ \E w \in Workers : SessionNext(w) /\ UNCHANGED mainVars
     \/ \E c \in Conns : PeerLeaves(c) /\ UNCHANGED <<mainVars, sessionVars>>

Spec == Init /\ [][Next]_vars

(* Every variable holds a value of the C type, or of the abstraction, that it
   stands for; places are the program points the modules name.               *)
TypeOK ==
  /\ FramesTypeOK /\ MainTypeOK /\ SessionTypeOK
  /\ wpc \in [Workers -> Places]

-------------------------------------------------------------------------------
(* No two frames carry the same uid: the listener that presents a uid belongs
   to one session.  The scan for a fresh uid and the assignment are two steps,
   and closeUserFrame and _main work on the table without the mutex.         *)
UidsUnique ==
  \A f, g \in Frames : f # g /\ id[f] = id[g] => id[f] = 0

(* searchFreeUF, which walks the table while other threads change it, always
   comes back with a frame: its -1, which _main would use as an index, is
   ruled out by the counter that limits talk connections.                    *)
FreeFrameFound == mpc = "fillTalk" => mt < MAX_CLIENTS

(* From composing a text to the last send of share(), the global buffer holds
   the text of the thread that is sending it.                                *)
BufferOwned == \A w \in Workers : wpc[w] \in InShare => buffer.by = w

(* No two accounts have names that LIKE takes for one another, and no account
   is there already when it is inserted (users, a set, would not show that):
   the SELECT and the INSERT of reg act as one step.                         *)
NamesUnique ==
  /\ \A r, s \in users : r.name \in Like[s.name] /\ s.name \in Like[r.name] => r = s
  /\ \A w \in Workers : wpc[w] = "insert" => cred[w] \notin users

(* The stream of a connected listener alternates lengths and texts: it is
   between the two only while a thread is, and it loses the boundary only if
   the listener was attached or detached in the middle of a broadcast.  The one
   word before them is the matter of ListenersGreetedFirst.                  *)
StreamsParse ==
  \A c \in Conns \ swapped :
    Up(c) => rx[c] = IF \E w \in Workers : wpc[w] = "body" /\ lenTo[w] = c
                       THEN "half" ELSE "whole"

(* A thread that waits for a command, on a frame that was never handed out
   twice, takes its client for logged in exactly if the frame has a uid, and
   listens to the socket the frame holds.                                    *)
SessionCoherent ==
  \A w \in Workers :
    wpc[w] \in {"top", "recv", "wait"} /\ wf[w] \notin clash =>
      /\ logged[w] <=> id[wf[w]] # 0
      /\ wpc[w] = "recv" => sock[w] = talk[wf[w]]

(* A frame that comes back to _main after its thread has returned brings no
   room and no uid of its former user along: _main itself clears neither.    *)
RecycledFrameEmpty ==
  mpc = "fillWork" /\ mt \notin clash =>
    /\ id[mt] = 0 /\ chat[mt] = NoRoom
    /\ share[mt] = NULL /\ talk[mt] = soc

(* closeUserFrame gives back a work item once, unless the frame was handed
   out while its thread still ran.                                           *)
WorkClosedOnce == \A w \in Workers : work[w] = "double" => wf[w] \in clash

(* Thread w passes one of the two sends of share() for the frame wt[w]. *)
Sends(w) ==
  \/ wpc[w] = "length" /\ wpc'[w] = "body"
  \/ wpc[w] = "body" /\ wpc'[w] = "share"

(* The user of frame f is in the room the text names, unless f has no user, or
   is losing it: closeUserFrame has cleared its room, its uid comes next.    *)
InRoomNamed(f) ==
  \/ chat[f] + 1 = buffer.room
  \/ id[f] = 0
  \/ \E v \in Workers : wf[v] = f /\ wpc[v] = "closeId"

(* Neither the length nor the text of what a client says, or announces on
   joining, goes to the listener of a user who is not in the room that the
   text names, although share() picks the room after the text was composed and
   looks at a frame's room (142) two reads before it sends (148, 149), while
   closeUserFrame and _main, which take no mutex, empty and refill the frame. *)
TextsStayInRoom ==
  [][\A w \in Workers :
       Sends(w) /\ buffer.what \in {"say", "join"} /\ wf[w] \notin clash
       => InRoomNamed(wt[w])]_vars

(* A text that says its user left a room goes to no listener of a user who is
   not in that room.                                                         *)
LeaveTextsStayInRoom ==
  [][\A w \in Workers :
       Sends(w) /\ buffer.what = "leave" /\ wf[w] \notin clash
       => InRoomNamed(wt[w])]_vars

(* The first word a listener gets is the answer to its uid: listen() takes
   whatever comes first for it, and says "server denay add connection" if it
   is anything but USER_OK (client.cpp 357-361).                             *)
ListenersGreetedFirst ==
  [][\A w \in Workers :
       Sends(w) => ~(mpc = "greet" /\ share[wt[w]] = soc)]_vars

(* The frame table keeps the promise of the abstract registry of uids. *)
Registry == INSTANCE UidRegistry WITH Slots <- Frames, Uids <- RandValues, held <- id
RegistryImplemented == Registry!Spec

-------------------------------------------------------------------------------
(***************************************************************************)
(* Fairness.  A thread that can take a step of its own takes it; a client  *)
(* that has begun a request or a connection finishes it or goes away (the  *)
(* reads inside Handler and MainNext), but need not send a command, and    *)
(* need not connect.  The sends of share() block while a listener's buffer *)
(* is full: that listeners read, or go away, is an assumption of its own.  *)
(* The kernel's mutex lets every waiting thread in, and rand() does not    *)
(* avoid the fresh values for ever.                                        *)
(***************************************************************************)
FreshDraw(w) ==
  /\ Draw(w)
  /\ cmd'[w] # 0 /\ \A f \in Frames : id[f] # cmd'[w]
  /\ UNCHANGED mainVars

Sending(w) == SendLength(w) \/ SendText(w)

ListenersRead == \A w \in Workers : WF_vars(running /\ UNCHANGED mainVars /\ Sending(w))

Fairness ==
  /\ ListenersRead
  /\ WF_vars(running /\ mpc # "accept" /\ MainNext /\ UNCHANGED sessionVars)
  /\ \A w \in Workers :
       /\ WF_vars(running /\ UNCHANGED mainVars
                  /\ \/ Start(w) \/ CallRecv(w) \/ RecvFails(w)
                     \/ Handler(w) /\ wpc[w] \notin {"length", "body"}
                     \/ CloseUserFrame(w) /\ UNCHANGED sessionVars)
       /\ SF_vars(running /\ Lock(w) /\ UNCHANGED mainVars)
       /\ SF_vars(running /\ FreshDraw(w))

FairSpec == Spec /\ Fairness

(* Whoever holds the mutex gives it back: no case of the switch, no scan and,
   if listeners read, no broadcast keeps it.                                 *)
MutexReleased == mm # 0 ~> mm = 0 \/ ~running

(* A thread whose client's connection was torn down, wherever that finds it,
   closes the frame and returns, unless the frame was handed to another one.  *)
ResetEndsSession ==
  \A w \in Workers :
    LET c == talk[wf[w]] IN
    wpc[w] \notin {"none", "queued", "done"} /\ c # NULL /\ conn[c] = "rst"
      ~> wpc[w] = "done" \/ wf[w] \in clash \/ ~running

(* The accept loop comes back to accept, or has ended. *)
AcceptReturns == mpc # "accept" ~> mpc \in {"accept", "ended"} \/ ~running
===============================================================================

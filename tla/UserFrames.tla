------------------------------ MODULE UserFrames ------------------------------
(***************************************************************************)
(* What the threads of the server share: the table duf[0..MAX_CLIENTS-1]   *)
(* of userFrames (server.h), the sockets the frames hold, and the work     *)
(* items of the Windows thread pool that run _user2.                       *)
(*                                                                         *)
(* A socket is named by the order in which it was accepted (handles are    *)
(* not recycled), 0 is the NULL handle.  A work item, and the thread that  *)
(* runs it, is named by the order in which it was created.                 *)
(***************************************************************************)
EXTENDS Integers, FiniteSets

CONSTANTS
  MAX_CLIENTS,  \* number of frames, and of talk connections ever taken
  MaxConn,      \* bound: how many connections the clients open
  Endings       \* the ways in which each may be ended, among "fin" and "rst"

ASSUME ClientsAssumption == MAX_CLIENTS \in Nat \ {0}
ASSUME ConnAssumption    == MaxConn \in Nat
Frames  == 0 .. (MAX_CLIENTS - 1)
Workers == 1 .. MAX_CLIENTS
Conns   == 1 .. MaxConn
NULL    == 0
NoRoom  == -1

ASSUME EndingAssumption  == Endings \in [Conns -> SUBSET {"fin", "rst"}]

VARIABLES
  id,       \* uf->id: uid of the frame's session, 0 if nobody is logged in
  chat,     \* uf->chat: index of the room, -1 for none
  share,    \* uf->share: socket of the client's listener
  talk,     \* uf->talk: socket the client sends its commands on
  pt,       \* uf->pt: work item
  conn,     \* what each socket is to a thread that uses it
  work,     \* what each work item is to the thread pool
  wpc,      \* where the thread of each work item is
  wf,       \* the frame handed to each work item (the void* argument)
  known,    \* the uids sent to clients so far
  running   \* FALSE once the process has exited

table      == <<id, chat, share, talk, pt>>
quiet      == <<table, conn, work, wf, known, running>>   \* all but the places
frameVars  == <<id, chat, share, talk, pt, conn, work, wpc, wf, known, running>>

(* A connection is "up" until the server has read all that its client sent;
   then it is "fin" if the client closed it in an orderly way (recv returns 0)
   or "rst" if it was torn down (recv returns SOCKET_ERROR).  It is "closed"
   after the server closed it itself.                                        *)
ConnState == {"unborn", "up", "fin", "rst", "closed"}
WorkState == {"none", "open", "closed", "double"}

Up(c) == c # NULL /\ conn[c] = "up"

CloseSocket(c) ==
  conn' = IF c = NULL THEN conn ELSE [conn EXCEPT ![c] = "closed"]

Goto(w, place) == wpc' = [wpc EXCEPT ![w] = place]

FramesInit ==
  /\ id    = [f \in Frames |-> 0]
  /\ chat  = [f \in Frames |-> NoRoom]
  /\ share = [f \in Frames |-> NULL]
  /\ talk  = [f \in Frames |-> NULL]
  /\ pt    = [f \in Frames |-> NULL]
  /\ conn  = [c \in Conns |-> "unborn"]
  /\ work  = [w \in Workers |-> "none"]
  /\ wpc   = [w \in Workers |-> "none"]
  /\ wf    = [w \in Workers |-> 0]
  /\ known = {}
  /\ running = TRUE

(* Every field of the table, and what the pool and the sockets are to it, has
   a value the C type or the abstraction of it allows.                       *)
FramesTypeOK ==
  /\ id \in [Frames -> Nat]
  /\ chat \in [Frames -> Int]
  /\ share \in [Frames -> Conns \cup {NULL}]
  /\ talk \in [Frames -> Conns \cup {NULL}]
  /\ pt \in [Frames -> Workers \cup {NULL}]
  /\ conn \in [Conns -> ConnState]
  /\ work \in [Workers -> WorkState]
  /\ wf \in [Workers -> Frames]
  /\ known \subseteq Nat
  /\ running \in BOOLEAN

(* The client on the other end of c goes away, and the server has read what
   it sent before.                                                           *)
PeerLeaves(c) ==
  /\ conn[c] = "up"
  /\ \E how \in Endings[c] : conn' = [conn EXCEPT ![c] = how]
  /\ UNCHANGED <<table, work, wpc, wf, known, running>>

(***************************************************************************)
(* closeUserFrame, run by the thread of w without the mutex: every field   *)
(* is a separate write, and each handle is closed before it is cleared.    *)
(***************************************************************************)
ClosePlaces == {"closeChat", "closeId", "closeTalk", "clearTalk",
                "closeShare", "clearShare", "closeWork"}

\* Mutant: the room is left in the frame.
CloseChatKeepsRoom(w) ==
  /\ wpc[w] = "closeChat"
  /\ Goto(w, "closeId")
  /\ UNCHANGED <<table, conn, work, wf, known, running>>

CloseChat(w) ==
  /\ wpc[w] = "closeChat"
  /\ chat' = [chat EXCEPT ![wf[w]] = NoRoom]
  /\ Goto(w, "closeId")
  /\ UNCHANGED <<id, share, talk, pt, conn, work, wf, known, running>>

CloseId(w) ==
  /\ wpc[w] = "closeId"
  /\ id' = [id EXCEPT ![wf[w]] = 0]
  /\ Goto(w, "closeTalk")
  /\ UNCHANGED <<chat, share, talk, pt, conn, work, wf, known, running>>

CloseTalk(w) ==
  \/ /\ wpc[w] = "closeTalk"
     /\ CloseSocket(talk[wf[w]])
     /\ Goto(w, "clearTalk")
     /\ UNCHANGED <<id, chat, share, talk, pt, work, wf, known, running>>
  \/ /\ wpc[w] = "clearTalk"
     /\ talk' = [talk EXCEPT ![wf[w]] = NULL]
     /\ Goto(w, "closeShare")
     /\ UNCHANGED <<id, chat, share, pt, conn, work, wf, known, running>>

CloseShare(w) ==
  \/ /\ wpc[w] = "closeShare"
     /\ CloseSocket(share[wf[w]])
     /\ Goto(w, "clearShare")
     /\ UNCHANGED <<id, chat, share, talk, pt, work, wf, known, running>>
  \/ /\ wpc[w] = "clearShare"
     /\ share' = [share EXCEPT ![wf[w]] = NULL]
     /\ Goto(w, "closeWork")
     /\ UNCHANGED <<id, chat, talk, pt, conn, work, wf, known, running>>

\* Mutant: the thread goes on with its loop (a "continue" without _work = false).
CloseWorkAndLoop(w) ==
  /\ wpc[w] = "closeWork"
  /\ work' = [work EXCEPT ![pt[wf[w]]] = IF @ = "open" THEN "closed" ELSE "double"]
  /\ Goto(w, "top")
  /\ UNCHANGED <<table, conn, wf, known, running>>

(* CloseThreadpoolWork(uf->pt), then _user2 returns.  Closing a work item
   a second time is undefined for the pool: it is recorded as "double".      *)
CloseWork(w) ==
  /\ wpc[w] = "closeWork"
  /\ work' = [work EXCEPT ![pt[wf[w]]] = IF @ = "open" THEN "closed" ELSE "double"]
  /\ Goto(w, "done")
  /\ UNCHANGED <<table, conn, wf, known, running>>

CloseUserFrame(w) ==
  CloseChat(w) \/ CloseId(w) \/ CloseTalk(w) \/ CloseShare(w) \/ CloseWork(w)
===============================================================================

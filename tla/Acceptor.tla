------------------------------- MODULE Acceptor -------------------------------
(***************************************************************************)
(* The accept loop of the server (_main, one thread).  It takes no mutex:  *)
(* it reads the ids and writes the sockets of the frames while the threads *)
(* of the pool use them.                                                   *)
(***************************************************************************)
EXTENDS UserFrames

VARIABLES
  mpc,      \* where the thread is
  soc,      \* the connection it accepted last
  uid,      \* its local _ib (the index a search returned is mt)
  mt,       \* the frame a search has reached; MAX_CLIENTS stands for -1
  counter,  \* talk connections taken so far; never decremented
  clash     \* history: frames handed out while a thread was still bound to them

mainVars == <<mpc, soc, uid, mt, counter, clash>>

Uninit  == -2   \* _ib before its first assignment
USER_OK == 0
USER_ACCESS_DENY == 1

MainPlaces == {"accept", "deny", "first", "scanFree", "fillTalk", "fillShare",
               "fillWork", "ack", "uid", "verify", "search", "attach", "greet",
               "ended"}

(* The accept loop's locals hold values of their kinds. *)
MainTypeOK ==
  /\ mpc \in MainPlaces
  /\ soc \in Conns \cup {NULL}
  /\ uid \in Int
  /\ mt \in 0 .. MAX_CLIENTS
  /\ counter \in 0 .. MAX_CLIENTS
  /\ clash \subseteq Frames

MainInit ==
  /\ mpc = "accept"
  /\ soc = NULL
  /\ uid = Uninit
  /\ mt = 0
  /\ counter = 0
  /\ clash = {}

\* Mutant: one connection too many.
FullTooLate == counter > MAX_CLIENTS

Full == counter >= MAX_CLIENTS

(* Once MAX_CLIENTS talk connections were taken, every new connection is on
   its way to a refusal, whatever it is for.  A failing accept ends the
   thread: the serverStart(-1) before the return does nothing, because
   _wsaInit is still 0 (a successful start never sets it).                   *)
Accept ==
  /\ mpc = "accept"
  /\ \/ /\ soc < MaxConn
        /\ soc' = soc + 1
        /\ conn' = [conn EXCEPT ![soc + 1] = "up"]
        /\ mpc' = IF Full THEN "deny" ELSE "first"
     \/ /\ mpc' = "ended"
        /\ UNCHANGED <<soc, conn>>
  /\ UNCHANGED <<table, work, wpc, wf, known, running, uid, mt, counter, clash>>

Deny ==
  /\ mpc = "deny"
  /\ CloseSocket(soc)
  /\ mpc' = "accept"
  /\ UNCHANGED <<table, work, wpc, wf, known, running, soc, uid, mt, counter, clash>>

(* The first word of a connection: SERVER_SET_CONNECTION, SERVER_ADD_CONNECTION
   or another, such as the 16 that accept left in ib when the client is gone,
   which no case handles: the socket is dropped without being closed.        *)
First ==
  /\ mpc = "first"
  /\ mpc' \in IF Up(soc) THEN {"scanFree", "uid", "accept"} ELSE {"accept"}
  /\ mt' = 0
  /\ UNCHANGED <<frameVars, soc, uid, counter, clash>>

(***************************************************************************)
(* SERVER_SET_CONNECTION: take the first frame whose id is 0, fill it, and *)
(* hand it to a new thread of the pool.                                    *)
(***************************************************************************)
SearchFreeUF ==
  /\ mpc = "scanFree"
  /\ IF mt = MAX_CLIENTS \/ (mt < MAX_CLIENTS /\ id[mt] = 0)
       THEN mpc' = "fillTalk" /\ UNCHANGED mt
       ELSE mt' = mt + 1 /\ UNCHANGED mpc
  /\ UNCHANGED <<frameVars, soc, uid, counter, clash>>

(* Threads that have not returned from _user2 on frame f. *)
BoundTo(f) == {w \in Workers : wpc[w] \notin {"none", "done"} /\ wf[w] = f}

(* The code guards the index with an empty "if (_ib >= MAX_CLIENTS)" and writes
   duf[-1] if the search failed; FreeFrameFound says that it never does.     *)
FillTalk ==
  /\ mpc = "fillTalk"
  /\ mt < MAX_CLIENTS
  /\ talk' = [talk EXCEPT ![mt] = soc]
  /\ clash' = IF BoundTo(mt) = {} THEN clash ELSE clash \cup {mt}
  /\ mpc' = "fillShare"
  /\ UNCHANGED <<id, chat, share, pt, conn, work, wpc, wf, known, running,
                 soc, uid, mt, counter>>

FillShare ==
  /\ mpc = "fillShare"
  /\ share' = [share EXCEPT ![mt] = NULL]
  /\ mpc' = "fillWork"
  /\ UNCHANGED <<id, chat, talk, pt, conn, work, wpc, wf, known, running,
                 soc, uid, mt, counter, clash>>

(* CreateThreadpoolWork and SubmitThreadpoolWork; if the pool has no work
   item to give, the process exits.                                          *)
FillWork ==
  /\ mpc = "fillWork"
  /\ \/ /\ pt' = [pt EXCEPT ![mt] = counter + 1]
        /\ work' = [work EXCEPT ![counter + 1] = "open"]
        /\ wf' = [wf EXCEPT ![counter + 1] = mt]
        /\ Goto(counter + 1, "queued")
        /\ mpc' = "ack"
        /\ UNCHANGED running
     \/ /\ running' = FALSE
        /\ UNCHANGED <<pt, work, wf, wpc, mpc>>
  /\ UNCHANGED <<id, chat, share, talk, conn, known, soc, uid, mt, counter, clash>>

Acknowledge ==
  /\ mpc = "ack"
  /\ uid' = USER_OK
  /\ counter' = counter + 1
  /\ mt' = 0
  /\ mpc' = "accept"
  /\ UNCHANGED <<frameVars, soc, clash>>

(***************************************************************************)
(* SERVER_ADD_CONNECTION: the client's listener presents the uid it was    *)
(* given; verifyUID and searchUID then walk the table one after the other. *)
(***************************************************************************)
ReadUid ==
  /\ mpc = "uid"
  /\ uid' \in IF Up(soc) THEN known \cup {0}
              ELSE IF uid = Uninit THEN known \cup {0, USER_ACCESS_DENY} ELSE {uid}
  /\ mt' = 0
  /\ mpc' = "verify"
  /\ UNCHANGED <<frameVars, soc, counter, clash>>

\* Mutant: a frame with another uid does not advance the walk.
VerifyUIDStuck ==
  /\ mpc = "verify"
  /\ mt < MAX_CLIENTS /\ id[mt] = uid
  /\ mpc' = "search" /\ mt' = 0
  /\ UNCHANGED <<frameVars, soc, uid, counter, clash>>

VerifyUID ==
  /\ mpc = "verify"
  /\ \/ /\ mt < MAX_CLIENTS /\ id[mt] = uid
        /\ mpc' = "search" /\ mt' = 0
        /\ UNCHANGED <<conn, uid>>
     \/ /\ mt < MAX_CLIENTS /\ id[mt] # uid
        /\ mt' = mt + 1
        /\ UNCHANGED <<mpc, conn, uid>>
     \/ /\ mt = MAX_CLIENTS
        /\ uid' = USER_ACCESS_DENY
        /\ CloseSocket(soc)
        /\ mpc' = "accept" /\ mt' = 0
  /\ UNCHANGED <<table, work, wpc, wf, known, running, soc, counter, clash>>

SearchUID ==
  /\ mpc = "search"
  /\ IF mt = MAX_CLIENTS \/ (mt < MAX_CLIENTS /\ id[mt] = uid)
       THEN mpc' = "attach" /\ UNCHANGED mt
       ELSE mt' = mt + 1 /\ UNCHANGED mpc
  /\ UNCHANGED <<frameVars, soc, uid, counter, clash>>

(* The index is -1 when the session ended between the two walks: the write
   falls before the table, where it may end the process or go unnoticed.     *)
Attach ==
  /\ mpc = "attach"
  /\ IF mt < MAX_CLIENTS
       THEN share' = [share EXCEPT ![mt] = soc] /\ UNCHANGED running
       ELSE running' \in BOOLEAN /\ UNCHANGED share
  /\ uid' = USER_OK
  /\ mpc' = "greet"
  /\ UNCHANGED <<id, chat, talk, pt, conn, work, wpc, wf, known,
                 soc, mt, counter, clash>>

(* USER_OK goes to the listener once the table already has its socket. *)
Greet ==
  /\ mpc = "greet"
  /\ mpc' = "accept"
  /\ mt' = 0
  /\ UNCHANGED <<frameVars, soc, uid, counter, clash>>

MainNext ==
  \/ Accept \/ Deny \/ First
  \/ SearchFreeUF \/ FillTalk \/ FillShare \/ FillWork \/ Acknowledge
  \/ ReadUid \/ VerifyUID \/ SearchUID \/ Attach \/ Greet
===============================================================================

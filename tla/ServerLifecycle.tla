---------------------------- MODULE ServerLifecycle ----------------------------
(***************************************************************************)
(* How the server starts and stops (serverStart, initUserFrames,           *)
(* releaseUserFrames and the server's main): what it acquires, what may    *)
(* fail, what it gives back, while _main and the sessions use it and call  *)
(* serverStart(-1) themselves.  Nothing here is under a lock.              *)
(***************************************************************************)
EXTENDS Integers

CONSTANT Sessions   \* the threads that run _user2

ASSUME SessionsAssumption == {"main", "accept"} \cap Sessions = {}

Resources == {"wsa", "frames", "db", "err", "mm", "pool", "cc", "thread"}
InTable   == {"frames", "db", "err", "mm", "pool"}   \* what releaseUserFrames gives back
Threads   == {"main", "accept"} \cup Sessions

VARIABLES
  wsaInit,     \* static _wsaInit
  duf,         \* static duf: does it point to a table (that may be freed)?
  res,         \* what each resource is: "none" yet, "held" or "freed"
  pc,          \* where each thread is
  running,     \* FALSE once the process has exited
  misused,     \* history: resources used or given back when not held
  poolFailed   \* history: has CreateThreadpool failed?

vars == <<wsaInit, duf, res, pc, running, misused, poolFailed>>

Init ==
  /\ wsaInit = 0
  /\ duf = FALSE
  /\ res = [r \in Resources |-> "none"]
  /\ pc = [t \in Threads |-> IF t = "main" THEN "startup" ELSE "none"]
  /\ running = TRUE
  /\ misused = {}
  /\ poolFailed = FALSE

Goto(t, place) == pc' = [pc EXCEPT ![t] = place]

Become(rs, state) == res' = [r \in Resources |-> IF r \in rs THEN state ELSE res[r]]

Use(rs) == misused' = misused \cup {r \in rs : res[r] # "held"}

Free(rs) == Become(rs, "freed") /\ Use(rs)

Exit == running' = FALSE

-------------------------------------------------------------------------------
(***************************************************************************)
(* serverStart(1), called once, by main, before there is another thread.   *)
(***************************************************************************)
\* Mutant: the start is remembered, as serverStart(-1) expects.
StartupRemembered ==
  /\ pc["main"] = "startup"
  /\ \/ Become({"wsa"}, "held") /\ wsaInit' = 1
     \/ UNCHANGED <<res, wsaInit>>
  /\ Goto("main", "open")
  /\ UNCHANGED <<duf, running, misused, poolFailed>>

(* WSAStartup.  Its error codes are positive and FAILED looks for negative
   ones, so a failure goes unnoticed; a success does not change _wsaInit.    *)
Startup ==
  /\ pc["main"] = "startup"
  /\ \/ Become({"wsa"}, "held")
     \/ UNCHANGED res
  /\ Goto("main", "open")
  /\ UNCHANGED <<wsaInit, duf, running, misused, poolFailed>>

(* A step of initUserFrames fails: rs is given back, serverStart returns -1,
   without WSACleanup because _wsaInit is not positive.                      *)
Abandon(rs) ==
  /\ Become(rs, "freed")
  /\ duf' = FALSE
  /\ wsaInit' = -1
  /\ Goto("main", "refused")

Proceed(place) == Goto("main", place) /\ UNCHANGED <<duf, wsaInit>>

OpenDatabase ==
  /\ pc["main"] = "open"
  /\ \/ Become({"frames", "db"}, "held") /\ Proceed("schema")
     \/ Abandon({"frames", "db"})
  /\ UNCHANGED <<running, misused, poolFailed>>

\* Mutant: the error buffer is forgotten when the table cannot be created.
CreateTableKeepsErr ==
  /\ pc["main"] = "schema"
  /\ \/ Become({"err"}, "held") /\ Proceed("mutex")
     \/ /\ res' = [res EXCEPT !["db"] = "freed", !["frames"] = "freed", !["err"] = "held"]
        /\ duf' = FALSE /\ wsaInit' = -1 /\ Goto("main", "refused")
  /\ UNCHANGED <<running, misused, poolFailed>>

CreateTable ==
  /\ pc["main"] = "schema"
  /\ \/ Become({"err"}, "held") /\ Proceed("mutex")
     \/ Abandon({"db", "err", "frames"})
  /\ UNCHANGED <<running, misused, poolFailed>>

CreateMutex ==
  /\ pc["main"] = "mutex"
  /\ \/ Become({"mm"}, "held") /\ Proceed("pool")
     \/ Abandon({"db", "err", "frames"})
  /\ UNCHANGED <<running, misused, poolFailed>>

(* The one failure without a return: the table is freed and then used. *)
CreateThreadpool ==
  /\ pc["main"] = "pool"
  /\ \/ Become({"pool"}, "held") /\ UNCHANGED poolFailed
     \/ Become({"db", "err", "mm", "frames"}, "freed") /\ poolFailed' = TRUE
  /\ Proceed("fill")
  /\ UNCHANGED <<running, misused>>

(* The pool's limits, the crypto container (whose initialisation may fail
   unnoticed), the frames.                                                   *)
FillTable ==
  /\ pc["main"] = "fill"
  /\ Use(InTable)
  /\ Become({"cc"}, "held")
  /\ duf' = TRUE
  /\ Goto("main", "spawn")
  /\ UNCHANGED <<wsaInit, running, poolFailed>>

(* releaseUserFrames; the NULL it assigns is its parameter's.  The sockets and
   work items of the frames are left out: there are none when it is called.  *)
ReleaseUserFrames == Free(InTable)

CreateMainThread ==
  /\ pc["main"] = "spawn"
  /\ \/ /\ Become({"thread"}, "held")
        /\ pc' = [pc EXCEPT !["main"] = "console", !["accept"] = "listen"]
        /\ UNCHANGED misused
     \/ /\ ReleaseUserFrames
        /\ Goto("main", "refused")
  /\ UNCHANGED <<wsaInit, duf, running, poolFailed>>

-------------------------------------------------------------------------------
(***************************************************************************)
(* serverStart(-1): by main on /stop, by _main before it returns ("stop")  *)
(* or exits ("halt"), by a session after a refused login.                  *)
(***************************************************************************)
AfterStop(t) == CASE t = "main"             -> "leave"
                  [] t = "accept"           -> IF pc[t] = "halt" THEN "leave" ELSE "gone"
                  [] OTHER                  -> "serve"

Stop(t) ==
  /\ pc[t] \in {"stop", "halt"}
  /\ IF wsaInit = 0
       THEN UNCHANGED <<res, misused>>
       ELSE Free({"thread", "wsa"} \cup IF duf THEN InTable ELSE {})
  /\ wsaInit' = 0
  /\ Goto(t, AfterStop(t))
  /\ UNCHANGED <<duf, running, poolFailed>>

(* main returns, after a failed start or /stop; _main calls exit. *)
Leave(t) ==
  /\ pc[t] \in {"refused", "leave"}
  /\ Exit
  /\ UNCHANGED <<wsaInit, duf, res, pc, misused, poolFailed>>

TypeStop ==
  /\ pc["main"] = "console"
  /\ Goto("main", "stop")
  /\ UNCHANGED <<wsaInit, duf, res, running, misused, poolFailed>>

(* _main: socket, bind and listen; a failure exits, and without a WSAStartup
   socket fails.                                                             *)
Listen ==
  /\ pc["accept"] = "listen"
  /\ \/ res["wsa"] = "held" /\ Goto("accept", "loop") /\ UNCHANGED running
     \/ Exit /\ UNCHANGED pc
  /\ UNCHANGED <<wsaInit, duf, res, misused, poolFailed>>

(* accept fails, or a work item cannot be created, or a session begins. *)
AcceptLoop ==
  /\ pc["accept"] = "loop"
  /\ \/ Goto("accept", "stop") /\ UNCHANGED misused
     \/ Goto("accept", "halt") /\ Use({"wsa", "frames"})
     \/ \E s \in Sessions : pc[s] = "none" /\ Goto(s, "serve") /\ Use({"wsa", "frames"})
  /\ UNCHANGED <<wsaInit, duf, res, running, poolFailed>>

(* One command; every refused login, for whatever reason, ends in
   serverStart(-1), because ib was overwritten before it is compared with 1. *)
Serve(s) ==
  /\ pc[s] = "serve"
  /\ Use({"wsa", "frames", "db", "err", "mm", "cc"})
  /\ \E place \in {"serve", "stop"} : Goto(s, place)
  /\ UNCHANGED <<wsaInit, duf, res, running, poolFailed>>

ServerStart ==
  \/ Startup \/ OpenDatabase \/ CreateTable \/ CreateMutex
  \/ CreateThreadpool \/ FillTable \/ CreateMainThread

Next ==
  /\ running
  /\ \/ ServerStart
     \/ TypeStop \/ Listen \/ AcceptLoop
     \/ \E t \in Threads : Stop(t) \/ Leave(t)
     \/ \E s \in Sessions : Serve(s)

Spec == Init /\ [][Next]_vars

-------------------------------------------------------------------------------
(* No thread uses or gives back what is not held, whichever steps of the start
   failed and although main, _main and every refused login call
   serverStart(-1) while the others go on; except after a CreateThreadpool
   that failed, from which initUserFrames does not return.                   *)
NothingMisused == poolFailed \/ misused = {}

(* When main says "server not started", all that initUserFrames and
   serverStart took is given back, but for Winsock and the crypto container,
   whichever step failed.                                                    *)
FailedStartReleases ==
  pc["main"] = "refused" =>
    \A r \in Resources \ {"wsa", "cc"} : res[r] # "held"
===============================================================================

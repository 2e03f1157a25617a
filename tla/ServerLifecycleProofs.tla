------------------------ MODULE ServerLifecycleProofs ------------------------
(***************************************************************************)
(* Proofs about ServerLifecycle, for every set of sessions.                *)
(***************************************************************************)
EXTENDS ServerLifecycle, TLAPS

StartPlaces == {"startup", "open", "schema", "mutex", "pool", "fill", "spawn"}
MainPlaces  == StartPlaces \cup {"refused", "console", "stop", "leave"}
LoopPlaces  == {"loop", "stop", "halt", "gone", "leave"}
ServePlaces == {"none", "serve", "stop"}

(* What the start has not come to when main is at place. *)
Pending(place) ==
  CASE place = "startup" -> Resources
    [] place = "open"    -> Resources \ {"wsa"}
    [] place = "schema"  -> Resources \ {"wsa", "frames", "db"}
    [] place = "mutex"   -> {"mm", "pool", "cc", "thread"}
    [] place = "pool"    -> {"pool", "cc", "thread"}
    [] place = "fill"    -> {"cc", "thread"}
    [] place = "spawn"   -> {"thread"}
    [] OTHER             -> {}

Typed ==
  /\ wsaInit \in {0, -1}
  /\ res \in [Resources -> {"none", "held", "freed"}]
  /\ misused \in SUBSET Resources
  /\ poolFailed \in BOOLEAN
  /\ pc \in [Threads -> MainPlaces \cup LoopPlaces \cup ServePlaces \cup {"listen"}]
  /\ pc["main"] \in MainPlaces
  /\ pc["accept"] \in LoopPlaces \cup {"none", "listen"}
  /\ \A s \in Sessions : pc[s] \in ServePlaces

(* Until main has started the accept loop there is no other thread, and none
   begins to serve before Winsock is known to work.                          *)
Alone ==
  /\ pc["main"] \in StartPlaces \cup {"refused"} => \A t \in Threads \ {"main"} : pc[t] = "none"
  /\ \A t \in Threads \ {"main"} : pc[t] \notin {"none", "listen"} => res["wsa"] = "held"

(* serverStart(-1) has nothing to do once the start has succeeded. *)
Forgotten == wsaInit = 0 \/ pc["main"] = "refused"

(* What the start has come to is held, unless the pool failed. *)
Acquired ==
  /\ \A r \in Pending(pc["main"]) : res[r] = "none"
  /\ ~poolFailed /\ pc["main"] # "refused" =>
       \A r \in Resources \ (Pending(pc["main"]) \cup {"wsa"}) : res[r] = "held"
  /\ ~poolFailed => misused = {}

LifeInv == Typed /\ Alone /\ Forgotten /\ Acquired /\ FailedStartReleases

(* The start begins with nothing, and alone. *)
LEMMA LifeInit == Init => LifeInv
  BY SessionsAssumption DEF Init, LifeInv, Typed, Alone, Forgotten, Acquired, FailedStartReleases,
     Resources, Threads, Pending, MainPlaces, StartPlaces, LoopPlaces, ServePlaces

(* A step of serverStart(1) acquires what is pending, or gives back what is
   not.                                                                      *)
LEMMA LifeStart == LifeInv /\ ServerStart => LifeInv'
<1> SUFFICES ASSUME LifeInv, ServerStart PROVE LifeInv'
    OBVIOUS
<1> USE SessionsAssumption DEF LifeInv, Typed, Alone, Forgotten, Acquired, FailedStartReleases,
      Resources, Threads, Pending, MainPlaces, StartPlaces, LoopPlaces, ServePlaces,
      Goto, Become, Abandon, Proceed
<1>1. CASE Startup          BY <1>1 DEF Startup
<1>2. CASE OpenDatabase     BY <1>2 DEF OpenDatabase
<1>3. CASE CreateTable      BY <1>3 DEF CreateTable
<1>4. CASE CreateMutex      BY <1>4 DEF CreateMutex
<1>5. CASE CreateThreadpool
    <2>1. pc["main"] = "pool" /\ pc' = [pc EXCEPT !["main"] = "fill"]
        BY <1>5 DEF CreateThreadpool
    <2>2. CASE Become({"pool"}, "held") /\ UNCHANGED poolFailed
        BY <1>5, <2>1, <2>2 DEF CreateThreadpool
    <2>3. CASE Become({"db", "err", "mm", "frames"}, "freed") /\ poolFailed' = TRUE
        BY <1>5, <2>1, <2>3 DEF CreateThreadpool
    <2>4. QED BY <1>5, <2>2, <2>3 DEF CreateThreadpool
<1>6. CASE FillTable        BY <1>6 DEF FillTable, Use, InTable
<1>7. CASE CreateMainThread BY <1>7 DEF CreateMainThread, ReleaseUserFrames, Free, Use, InTable
<1>8. QED BY <1>1, <1>2, <1>3, <1>4, <1>5, <1>6, <1>7 DEF ServerStart

(* serverStart(-1) finds _wsaInit 0. *)
LEMMA LifeStop == ASSUME LifeInv, NEW t \in Threads, Stop(t) PROVE LifeInv'
<1> USE SessionsAssumption DEF LifeInv, Typed, Alone, Forgotten, Acquired, FailedStartReleases,
      Threads, Pending, MainPlaces, StartPlaces, LoopPlaces, ServePlaces, Goto
<1>1. wsaInit = 0 /\ pc["main"] \in {"console", "stop", "leave"}
    BY DEF Stop
<1>2. UNCHANGED <<wsaInit, res, misused, poolFailed>>
    BY <1>1 DEF Stop
<1>3. CASE t = "main"   BY <1>1, <1>2, <1>3 DEF Stop, AfterStop
<1>4. CASE t = "accept" BY <1>1, <1>2, <1>4 DEF Stop, AfterStop
<1>5. CASE t \in Sessions BY <1>1, <1>2, <1>5 DEF Stop, AfterStop
<1>6. QED BY <1>3, <1>4, <1>5

(* The accept loop and the sessions use what a successful start holds. *)
LEMMA LifeRun ==
  LifeInv /\ (TypeStop \/ Listen \/ AcceptLoop \/ \E s \in Sessions : Serve(s)) => LifeInv'
<1> SUFFICES ASSUME LifeInv, TypeStop \/ Listen \/ AcceptLoop \/ \E s \in Sessions : Serve(s)
             PROVE  LifeInv'
    OBVIOUS
<1> USE SessionsAssumption DEF LifeInv, Typed, Alone, Forgotten, Acquired, FailedStartReleases,
      Resources, Threads, Pending, MainPlaces, StartPlaces, LoopPlaces, ServePlaces, Goto
<1>1. CASE TypeStop   BY <1>1 DEF TypeStop
<1>2. CASE Listen     BY <1>2 DEF Listen, Exit
<1>3. CASE AcceptLoop BY <1>3 DEF AcceptLoop, Use
<1>4. ASSUME NEW s \in Sessions, Serve(s) PROVE LifeInv'
    BY <1>4 DEF Serve, Use
<1>5. QED BY <1>1, <1>2, <1>3, <1>4

LEMMA LifeNext == LifeInv /\ [Next]_vars => LifeInv'
<1> SUFFICES ASSUME LifeInv, [Next]_vars PROVE LifeInv'
    OBVIOUS
<1>1. CASE ServerStart BY <1>1, LifeStart
<1>2. ASSUME NEW t \in Threads, Stop(t) PROVE LifeInv'
    BY <1>2, LifeStop
<1>3. ASSUME NEW t \in Threads, Leave(t) PROVE LifeInv'
    BY <1>3 DEF Leave, LifeInv, Typed, Alone, Forgotten, Acquired, FailedStartReleases
<1>4. CASE TypeStop \/ Listen \/ AcceptLoop \/ \E s \in Sessions : Serve(s)
    BY <1>4, LifeRun
<1>5. CASE UNCHANGED vars
    BY <1>5 DEF vars, LifeInv, Typed, Alone, Forgotten, Acquired, FailedStartReleases
<1>6. QED BY <1>1, <1>2, <1>3, <1>4, <1>5 DEF Next

LEMMA LifeAlways == Spec => []LifeInv
  BY LifeInit, LifeNext, PTL DEF Spec

(* No thread uses or gives back what is not held, for any number of sessions
   and whatever fails but the pool: NothingMisused.                          *)
THEOREM NothingIsMisused == Spec => []NothingMisused
<1>1. LifeInv => NothingMisused
    BY DEF LifeInv, Acquired, Typed, NothingMisused
<1>2. QED BY LifeAlways, <1>1, PTL

(* A start that fails gives back what it took: FailedStartReleases. *)
THEOREM FailedStartsRelease == Spec => []FailedStartReleases
<1>1. LifeInv => FailedStartReleases
    BY DEF LifeInv
<1>2. QED BY LifeAlways, <1>1, PTL
===============================================================================

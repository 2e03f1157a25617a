----------------------------- MODULE UidRegistry ------------------------------
(***************************************************************************)
(* What the server promises about uids, without threads, mutex, scan or    *)
(* sockets: every slot holds one uid or none, a slot is granted a uid that *)
(* no slot holds, and a uid never moves from one slot to another.          *)
(***************************************************************************)
EXTENDS Naturals

CONSTANTS Slots, Uids
VARIABLE held      \* held[s]: the uid of slot s, 0 for none

Init == held = [s \in Slots |-> 0]

Grant(s, u) ==
  /\ u # 0
  /\ \A t \in Slots : held[t] # u
  /\ held' = [held EXCEPT ![s] = u]

Release(s) == held' = [held EXCEPT ![s] = 0]

Next == \E s \in Slots : Release(s) \/ \E u \in Uids : Grant(s, u)

Spec == Init /\ [][Next]_held
===============================================================================

------------------------------- MODULE FifoQueue -------------------------------
(***************************************************************************)
(* What the threads of Viva Voce rely on when they share a SyncQueue: an   *)
(* atomic first-in first-out queue.  A thread puts an item, takes the      *)
(* oldest one, or is told that there is none, and it is told so only when  *)
(* the queue is empty at that moment.                                      *)
(***************************************************************************)
EXTENDS Sequences

CONSTANTS Thread, Item, NoItem

VARIABLES
    q,      \* the items, oldest first
    got     \* per thread: what its last completed call returned

Init == q = << >> /\ got = [t \in Thread |-> NoItem]

Put(d) == q' = Append(q, d) /\ UNCHANGED got

Take(t) == q # << >> /\ got' = [got EXCEPT ![t] = Head(q)] /\ q' = Tail(q)

TakeNone(t) == q = << >> /\ got' = [got EXCEPT ![t] = NoItem] /\ UNCHANGED q

Next ==
    \/ \E d \in Item : Put(d)
    \/ \E t \in Thread : Take(t) \/ TakeNone(t)

Spec == Init /\ [][Next]_<<q, got>>
================================================================================

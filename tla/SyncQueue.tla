------------------------------- MODULE SyncQueue -------------------------------
(***************************************************************************)
(* The queue through which all threads of Viva Voce talk (SyncQueue.cpp,   *)
(* the pthread build): a deque, a mutex, a condition variable and a count  *)
(* of the threads that wait.                                               *)
(*                                                                         *)
(* The mutex is held from the start of every operation to its end or to    *)
(* the wait on the condition variable, so each stretch between the two is  *)
(* one action.  A thread that waits leaves the condition variable because  *)
(* it is signalled, because its deadline passes or spuriously, and only    *)
(* later gets the mutex back (Relock): other threads run in between.       *)
(***************************************************************************)
EXTENDS Integers, Sequences, FiniteSets

CONSTANTS
    Thread,     \* the threads that share the queue
    Consumer,   \* those that call waitForData, at a work queue
    Item,       \* memos
    NoItem,     \* NULL
    Times,      \* the arguments of waitForData, in ms; 0 or less waits for ever
    Usecs       \* values of now.tv_usec

ASSUME ItemAssumption == NoItem \notin Item
ASSUME ThreadAssumption == IsFiniteSet(Thread) /\ Consumer \subseteq Thread
ASSUME TimeAssumption == Times \subseteq Int /\ Usecs \subseteq 0 .. 999999

VARIABLES
    dataQ,      \* the deque, front first
    waiting,    \* the count signalData looks at
    pc,         \* per thread: outside the queue, asleep on condvarAvailQ, or woken
    timed,      \* per thread: its current or last wait has a deadline
    got,        \* per thread: what its last completed call returned
    pool        \* whether the queue is that of a pool

vars == <<dataQ, waiting, pc, timed, got, pool>>

Init ==
    /\ dataQ = << >> /\ waiting = 0
    /\ pc = [t \in Thread |-> "out"]
    /\ timed = [t \in Thread |-> FALSE]
    /\ got = [t \in Thread |-> NoItem]
    /\ pool \in BOOLEAN

Asleep == {t \in Thread : pc[t] = "asleep"}
Woken == {t \in Thread : pc[t] = "woken"}

--------------------------------------------------------------------------------
(* pthread_cond_signal: one of the threads asleep, if there is any, wakes.  *)
CondSignal ==
    \/ Asleep = {} /\ UNCHANGED pc
    \/ \E t \in Asleep : pc' = [pc EXCEPT ![t] = "woken"]

(* push_back.  A memo is queued by the thread that holds it: it is not      *)
(* queued already.                                                          *)
Push(d) == d \notin {dataQ[i] : i \in DOMAIN dataQ} /\ dataQ' = Append(dataQ, d)

(* front() and pop_front(); t leaves the queue with the item.               *)
TakeFront(t) ==
    /\ dataQ # << >>
    /\ got' = [got EXCEPT ![t] = Head(dataQ)]
    /\ dataQ' = Tail(dataQ)
    /\ pc' = [pc EXCEPT ![t] = "out"]

(* t leaves the queue with NULL.                                            *)
LeaveEmpty(t) ==
    /\ got' = [got EXCEPT ![t] = NoItem]
    /\ pc' = [pc EXCEPT ![t] = "out"]
    /\ UNCHANGED dataQ

(* enQ signals nobody: it serves the pools, whose users call deQ.           *)
EnQ(t, d) ==
    /\ pc[t] = "out"
    /\ Push(d)
    /\ UNCHANGED <<waiting, pc, timed, got>>

DeQ(t) ==
    /\ pc[t] = "out"
    /\ TakeFront(t) \/ (dataQ = << >> /\ LeaveEmpty(t))
    /\ UNCHANGED <<waiting, timed>>

(* Mutant: the test of waiting is inverted.                                 *)
SignalDataIdle(t, d) ==
    /\ pc[t] = "out"
    /\ Push(d)
    /\ IF waiting = 0 THEN CondSignal ELSE UNCHANGED pc
    /\ UNCHANGED <<waiting, timed, got>>

SignalData(t, d) ==
    /\ pc[t] = "out"
    /\ Push(d)
    /\ IF waiting # 0 THEN CondSignal ELSE UNCHANGED pc
    /\ UNCHANGED <<waiting, timed, got>>

Signal(t) ==
    /\ pc[t] = "out"
    /\ CondSignal
    /\ UNCHANGED <<dataQ, waiting, timed, got>>

(* The deadline: the milliseconds of the timeout are added to the           *)
(* microseconds of the clock, and the sum is not carried into tv_sec.       *)
DeadlineNsec(time, usec) == usec * 1000 + (time - (time \div 1000) * 1000) * 1000000

(* pthread_cond_timedwait refuses tv_nsec >= 10^9 with EINVAL, at once and  *)
(* without releasing the mutex.                                             *)
Refused(time, usec) == DeadlineNsec(time, usec) >= 1000000000

(* Mutant: the refused wait is taken off a count it was never put on.       *)
WaitForDataUncounted(t, time, usec) ==
    /\ pc[t] = "out"
    /\ timed' = [timed EXCEPT ![t] = time > 0]
    /\ \/ TakeFront(t) /\ UNCHANGED waiting
       \/ /\ dataQ = << >> /\ time > 0 /\ Refused(time, usec)
          /\ LeaveEmpty(t) /\ waiting' = waiting - 1
       \/ /\ dataQ = << >> /\ (time > 0 => ~ Refused(time, usec))
          /\ waiting' = waiting + 1
          /\ pc' = [pc EXCEPT ![t] = "asleep"]
          /\ UNCHANGED <<dataQ, got>>

(* Mutant: a refused wait returns NULL although data is there.              *)
WaitForDataHasty(t, time, usec) ==
    /\ pc[t] = "out"
    /\ timed' = [timed EXCEPT ![t] = time > 0]
    /\ \/ TakeFront(t) /\ UNCHANGED waiting
       \/ time > 0 /\ Refused(time, usec) /\ LeaveEmpty(t) /\ UNCHANGED waiting
       \/ /\ dataQ = << >> /\ (time > 0 => ~ Refused(time, usec))
          /\ waiting' = waiting + 1
          /\ pc' = [pc EXCEPT ![t] = "asleep"]
          /\ UNCHANGED <<dataQ, got>>

(* waitForData, up to its return or to the wait.                            *)
WaitForData(t, time, usec) ==
    /\ pc[t] = "out"
    /\ timed' = [timed EXCEPT ![t] = time > 0]
    /\ \/ TakeFront(t) /\ UNCHANGED waiting
       \/ /\ dataQ = << >> /\ time > 0 /\ Refused(time, usec)
          /\ LeaveEmpty(t) /\ UNCHANGED waiting
       \/ /\ dataQ = << >> /\ (time > 0 => ~ Refused(time, usec))
          /\ waiting' = waiting + 1
          /\ pc' = [pc EXCEPT ![t] = "asleep"]
          /\ UNCHANGED <<dataQ, got>>

(* The deadline passes, or a spurious wakeup.                               *)
WakeUp(t) ==
    /\ pc[t] = "asleep"
    /\ pc' = [pc EXCEPT ![t] = "woken"]
    /\ UNCHANGED <<dataQ, waiting, timed, got>>

(* Mutants: a wait that is taken off the count before it starts again; a    *)
(* wait that polls until a second item has come.                            *)
RelockUncounted(t) ==
    /\ pc[t] = "woken"
    /\ \/ TakeFront(t) /\ waiting' = waiting - 1
       \/ dataQ = << >> /\ timed[t] /\ LeaveEmpty(t) /\ waiting' = waiting - 1
       \/ /\ dataQ = << >> /\ ~ timed[t]
          /\ pc' = [pc EXCEPT ![t] = "asleep"]
          /\ waiting' = waiting - 1
          /\ UNCHANGED <<dataQ, got>>
    /\ UNCHANGED timed

RelockPolls(t) ==
    /\ pc[t] = "woken"
    /\ \/ (Len(dataQ) > 1 \/ timed[t]) /\ TakeFront(t) /\ waiting' = waiting - 1
       \/ dataQ = << >> /\ timed[t] /\ LeaveEmpty(t) /\ waiting' = waiting - 1
       \/ /\ Len(dataQ) <= 1 /\ ~ timed[t]
          /\ UNCHANGED <<dataQ, waiting, pc, got>>
    /\ UNCHANGED timed

(* A woken thread has the mutex again: the timed wait looks at the queue    *)
(* once, the other one waits again while the queue is empty.                *)
Relock(t) ==
    /\ pc[t] = "woken"
    /\ \/ TakeFront(t) /\ waiting' = waiting - 1
       \/ dataQ = << >> /\ timed[t] /\ LeaveEmpty(t) /\ waiting' = waiting - 1
       \/ /\ dataQ = << >> /\ ~ timed[t]
          /\ pc' = [pc EXCEPT ![t] = "asleep"]
          /\ UNCHANGED <<dataQ, waiting, got>>
    /\ UNCHANGED timed

--------------------------------------------------------------------------------
(* A pool's queue (ResourceManager::memoQ) is used with enQ and deQ only; a *)
(* work queue (sendQ, codecQ, playQ, signalQ) with signalData, signal, deQ  *)
(* (emptyQueue) and waitForData.                                            *)
Consume(t) ==
    /\ ~ pool
    /\ \/ \E time \in Times, usec \in Usecs : WaitForData(t, time, usec)
       \/ Relock(t)
    /\ UNCHANGED pool

(* The threads that do not wait at this queue.                              *)
User == IF pool THEN Thread ELSE Thread \ Consumer

Next ==
    \/ /\ \E t \in User :
            \/ DeQ(t)
            \/ pool /\ \E d \in Item : EnQ(t, d)
            \/ ~ pool /\ (Signal(t) \/ \E d \in Item : SignalData(t, d))
       /\ UNCHANGED pool
    \/ \E t \in Consumer : Consume(t) \/ (WakeUp(t) /\ UNCHANGED pool)

Spec == Init /\ [][Next]_vars

(* A consumer calls waitForData again and again, and gets the mutex when it *)
(* is woken.  No deadline has to pass.                                      *)
FairSpec == Spec /\ \A t \in Consumer : WF_vars(Consume(t))

--------------------------------------------------------------------------------
(* The types of the variables.                                              *)
TypeOK ==
    /\ dataQ \in Seq(Item)
    /\ waiting \in Nat
    /\ pc \in [Thread -> {"out", "asleep", "woken"}]
    /\ timed \in [Thread -> BOOLEAN]
    /\ got \in [Thread -> Item \cup {NoItem}]
    /\ pool \in BOOLEAN

(* waiting counts the threads between waiting++ and waiting--, although a   *)
(* woken thread takes itself off the count long after it left the condition *)
(* variable (SyncQueue::waitForData).                                       *)
WaitingCounts == waiting = Cardinality(Asleep \cup Woken)

(* No wakeup is lost: while a thread sleeps, every item in the queue has a  *)
(* woken thread of its own on the way to it, although signalData signals    *)
(* only if waiting is not 0, other consumers and emptyQueue may take the    *)
(* item first, and a timed wait gives up its wakeup.                        *)
NoLostWakeup == Asleep # {} => Len(dataQ) <= Cardinality(Woken)

(* Every item of a work queue is taken in the end, even if no deadline ever *)
(* passes.                                                                  *)
ItemTaken ==
    ~ pool => \A d \in Item :
        (\E i \in DOMAIN dataQ : dataQ[i] = d) ~> (\A i \in DOMAIN dataQ : dataQ[i] # d)

(* To its users the queue is an atomic FIFO: no item is lost, repeated or   *)
(* overtaken, and NULL is returned only if the queue is empty.              *)
Fifo == INSTANCE FifoQueue WITH q <- dataQ

ImplementsFifo == Fifo!Spec
================================================================================

---------------------------- MODULE SyncQueueProofs ----------------------------
(***************************************************************************)
(* Proofs about SyncQueue for any finite set of threads, any number of     *)
(* consumers and any items, timeouts and clock values: the three           *)
(* invariants, inductive together, and the refinement of FifoQueue.        *)
(***************************************************************************)
EXTENDS SyncQueue, FiniteSetTheorems, SequenceTheorems, TLAPS

(* Only consumers wait, and nobody sleeps at the queue of a pool, where enQ *)
(* wakes nobody.                                                            *)
ConsumersWait == \A t \in Thread : pc[t] # "out" => t \in Consumer /\ ~ pool

Inv == TypeOK /\ ConsumersWait /\ WaitingCounts /\ NoLostWakeup

--------------------------------------------------------------------------------
(* The sets of threads asleep and woken.                                    *)

(* Threads asleep and threads woken are finite disjoint sets.               *)
LEMMA Sleepers ==
    /\ IsFiniteSet(Asleep) /\ IsFiniteSet(Woken) /\ IsFiniteSet(Asleep \cup Woken)
    /\ Cardinality(Asleep) \in Nat /\ Cardinality(Woken) \in Nat
    /\ Cardinality(Asleep \cup Woken) \in Nat
<1>1. Asleep \subseteq Thread /\ Woken \subseteq Thread
  BY DEF Asleep, Woken
<1>2. Asleep \cup Woken \subseteq Thread
  BY <1>1
<1>3. IsFiniteSet(Asleep) /\ IsFiniteSet(Woken) /\ IsFiniteSet(Asleep \cup Woken)
  BY <1>1, <1>2, ThreadAssumption, FS_Subset
<1> QED
  BY <1>3, FS_CardinalityType

(* A thread that leaves the condition variable is still counted, and one    *)
(* more thread is woken.                                                    *)
LEMMA WakeSets ==
    ASSUME TypeOK, NEW t \in Asleep, pc' = [pc EXCEPT ![t] = "woken"]
    PROVE  /\ Asleep' \cup Woken' = Asleep \cup Woken
           /\ Cardinality(Woken') = Cardinality(Woken) + 1
<1>1. t \in Thread /\ t \notin Woken /\ Woken' = Woken \cup {t} /\ Asleep' = Asleep \ {t}
  BY DEF TypeOK, Asleep, Woken
<1>2. Cardinality(Woken \cup {t}) = Cardinality(Woken) + 1
  BY <1>1, Sleepers, FS_AddElement
<1> QED
  BY <1>1, <1>2

(* A thread that goes to sleep is counted, and no other thread is woken.    *)
LEMMA SleepSets ==
    ASSUME TypeOK, NEW t \in Thread, pc[t] = "out", pc' = [pc EXCEPT ![t] = "asleep"]
    PROVE  /\ Cardinality(Asleep' \cup Woken') = Cardinality(Asleep \cup Woken) + 1
           /\ Woken' = Woken
<1>1. /\ t \notin Asleep \cup Woken /\ Woken' = Woken
      /\ Asleep' \cup Woken' = (Asleep \cup Woken) \cup {t}
  BY DEF TypeOK, Asleep, Woken
<1> QED
  BY <1>1, Sleepers, FS_AddElement

(* A woken thread that leaves the queue is counted no longer.               *)
LEMMA LeaveSets ==
    ASSUME TypeOK, NEW t \in Woken, pc' = [pc EXCEPT ![t] = "out"]
    PROVE  /\ Cardinality(Asleep' \cup Woken') = Cardinality(Asleep \cup Woken) - 1
           /\ Cardinality(Asleep \cup Woken) > 0
           /\ Asleep' = Asleep
           /\ Cardinality(Woken') = Cardinality(Woken) - 1
<1>1. /\ t \in Thread /\ Asleep' = Asleep /\ Woken' = Woken \ {t}
      /\ Asleep' \cup Woken' = (Asleep \cup Woken) \ {t}
  BY DEF TypeOK, Asleep, Woken
<1>2. Cardinality(Asleep' \cup Woken') = Cardinality(Asleep \cup Woken) - 1
  BY <1>1, Sleepers, FS_RemoveElement
<1>3. Cardinality(Woken') = Cardinality(Woken) - 1
  BY <1>1, Sleepers, FS_RemoveElement
<1>4. Cardinality(Asleep \cup Woken) # 0
  BY Sleepers, FS_EmptySet
<1> QED
  BY <1>1, <1>2, <1>3, <1>4, Sleepers

(* A thread outside that leaves the queue at once changes no set.           *)
LEMMA StayOut ==
    ASSUME TypeOK, NEW t \in Thread, pc[t] = "out", pc' = [pc EXCEPT ![t] = "out"]
    PROVE  pc' = pc
  BY DEF TypeOK

--------------------------------------------------------------------------------
(* The pieces of the actions.                                               *)

(* pthread_cond_signal: nobody slept, or one more thread is woken.          *)
LEMMA CondSignalSets ==
    ASSUME TypeOK, CondSignal
    PROVE  /\ pc' \in [Thread -> {"out", "asleep", "woken"}]
           /\ Cardinality(Asleep' \cup Woken') = Cardinality(Asleep \cup Woken)
           /\ \/ Asleep' = {}
              \/ Cardinality(Woken') = Cardinality(Woken) + 1
<1>1. CASE Asleep = {} /\ UNCHANGED pc
  BY <1>1 DEF TypeOK, Asleep, Woken
<1>2. CASE \E t \in Asleep : pc' = [pc EXCEPT ![t] = "woken"]
  <2> PICK t \in Asleep : pc' = [pc EXCEPT ![t] = "woken"]
    BY <1>2
  <2>1. pc' \in [Thread -> {"out", "asleep", "woken"}]
    BY DEF TypeOK
  <2> QED
    BY <2>1, WakeSets
<1> QED
  BY <1>1, <1>2 DEF CondSignal

(* Taking the front keeps the types and shortens the queue.                 *)
LEMMA TakeFrontType ==
    ASSUME TypeOK, NEW t \in Thread, TakeFront(t)
    PROVE  /\ dataQ' \in Seq(Item) /\ Len(dataQ') = Len(dataQ) - 1
           /\ Len(dataQ) \in Nat /\ Len(dataQ) > 0
           /\ pc' \in [Thread -> {"out", "asleep", "woken"}]
           /\ got' \in [Thread -> Item \cup {NoItem}]
<1>1. dataQ \in Seq(Item) /\ dataQ # << >>
  BY DEF TypeOK, TakeFront
<1>2. Head(dataQ) \in Item /\ Tail(dataQ) \in Seq(Item) /\ Len(Tail(dataQ)) = Len(dataQ) - 1
  BY <1>1, HeadTailProperties
<1>3. Len(dataQ) \in Nat /\ Len(dataQ) > 0
  BY <1>1, EmptySeq, LenProperties
<1>4. pc' \in [Thread -> {"out", "asleep", "woken"}] /\ got' \in [Thread -> Item \cup {NoItem}]
  BY <1>2 DEF TypeOK, TakeFront
<1> QED
  BY <1>2, <1>3, <1>4 DEF TakeFront

(* push_back keeps the types and lengthens the queue.                       *)
LEMMA PushType ==
    ASSUME TypeOK, NEW d \in Item, Push(d)
    PROVE  /\ dataQ' \in Seq(Item) /\ Len(dataQ') = Len(dataQ) + 1
           /\ Len(dataQ) \in Nat
<1>1. dataQ \in Seq(Item) /\ dataQ' = Append(dataQ, d)
  BY DEF TypeOK, Push
<1> QED
  BY <1>1, AppendProperties, LenProperties

--------------------------------------------------------------------------------
(* One lemma per action.                                                    *)

(* enQ: nobody sleeps at a pool's queue.                                    *)
LEMMA EnQInv ==
    ASSUME Inv, pool, NEW t \in Thread, NEW d \in Item, EnQ(t, d), pool' = pool
    PROVE  Inv'
<1>1. TypeOK /\ ConsumersWait /\ WaitingCounts
  BY DEF Inv
<1>2. TypeOK'
  BY <1>1, PushType DEF EnQ, TypeOK
<1>3. Asleep' = {} /\ Asleep' \cup Woken' = Asleep \cup Woken
  BY <1>1 DEF EnQ, Asleep, Woken, ConsumersWait
<1>4. ConsumersWait'
  BY <1>1 DEF EnQ, ConsumersWait
<1> QED
  BY <1>1, <1>2, <1>3, <1>4 DEF Inv, EnQ, WaitingCounts, NoLostWakeup

(* deQ: one item fewer, and the threads that wait stay where they are.      *)
LEMMA DeQInv ==
    ASSUME Inv, NEW t \in Thread, DeQ(t), pool' = pool
    PROVE  Inv'
<1>1. TypeOK /\ ConsumersWait /\ WaitingCounts /\ NoLostWakeup /\ pc[t] = "out"
  BY DEF Inv, DeQ
<1>2. pc' = pc /\ waiting' = waiting /\ timed' = timed
  BY <1>1, StayOut DEF DeQ, TakeFront, LeaveEmpty
<1>3. Asleep' = Asleep /\ Woken' = Woken /\ ConsumersWait' /\ WaitingCounts'
  BY <1>1, <1>2 DEF Asleep, Woken, ConsumersWait, WaitingCounts
<1>4. CASE TakeFront(t)
  <2>1. TypeOK' /\ Len(dataQ') = Len(dataQ) - 1 /\ Len(dataQ) \in Nat
    BY <1>1, <1>2, <1>4, TakeFrontType DEF TypeOK
  <2> QED
    BY <1>1, <1>3, <2>1, Sleepers DEF Inv, NoLostWakeup
<1>5. CASE dataQ = << >> /\ LeaveEmpty(t)
  <2>1. TypeOK' /\ dataQ' = dataQ
    BY <1>1, <1>2, <1>5 DEF TypeOK, LeaveEmpty
  <2> QED
    BY <1>1, <1>3, <2>1 DEF Inv, NoLostWakeup
<1> QED
  BY <1>4, <1>5 DEF DeQ

(* Signalling wakes consumers only.                                         *)
LEMMA CondSignalConsumers ==
    ASSUME TypeOK, ConsumersWait, CondSignal, pool' = pool
    PROVE  ConsumersWait'
  BY DEF TypeOK, ConsumersWait, CondSignal, Asleep

(* signalData: one item more, and a woken thread more if any thread slept.  *)
(* The count is 0 only if none did.                                         *)
LEMMA SignalDataInv ==
    ASSUME Inv, NEW t \in Thread, NEW d \in Item, SignalData(t, d), pool' = pool
    PROVE  Inv'
<1>1. TypeOK /\ ConsumersWait /\ WaitingCounts /\ NoLostWakeup
  BY DEF Inv
<1>2. dataQ' \in Seq(Item) /\ Len(dataQ') = Len(dataQ) + 1 /\ Len(dataQ) \in Nat
  BY <1>1, PushType DEF SignalData
<1>3. UNCHANGED <<waiting, timed, got>>
  BY DEF SignalData
<1>4. CASE waiting # 0 /\ CondSignal
  <2>1. /\ pc' \in [Thread -> {"out", "asleep", "woken"}]
        /\ Cardinality(Asleep' \cup Woken') = Cardinality(Asleep \cup Woken)
        /\ Asleep' = {} \/ Cardinality(Woken') = Cardinality(Woken) + 1
    BY <1>1, <1>4, CondSignalSets
  <2>2. TypeOK' /\ WaitingCounts' /\ ConsumersWait'
    BY <1>1, <1>2, <1>3, <1>4, <2>1, CondSignalConsumers DEF TypeOK, WaitingCounts
  <2>3. Asleep' # {} => Asleep # {}
    BY <1>1, <1>4 DEF CondSignal, Asleep, TypeOK
  <2>4. NoLostWakeup'
    BY <1>1, <1>2, <2>1, <2>3, Sleepers DEF NoLostWakeup
  <2> QED
    BY <2>2, <2>4 DEF Inv
<1>5. CASE waiting = 0 /\ UNCHANGED pc
  <2>1. Asleep' = Asleep /\ Woken' = Woken
    BY <1>5 DEF Asleep, Woken
  <2>2. Asleep = {}
    BY <1>1, <1>5, Sleepers, FS_EmptySet DEF WaitingCounts
  <2>3. TypeOK' /\ WaitingCounts' /\ ConsumersWait' /\ NoLostWakeup'
    BY <1>1, <1>2, <1>3, <1>5, <2>1, <2>2
    DEF TypeOK, WaitingCounts, ConsumersWait, NoLostWakeup
  <2> QED
    BY <2>3 DEF Inv
<1> QED
  BY <1>4, <1>5 DEF SignalData

(* signal: a wakeup without an item.                                        *)
LEMMA SignalInv ==
    ASSUME Inv, NEW t \in Thread, Signal(t), pool' = pool
    PROVE  Inv'
<1>1. TypeOK /\ ConsumersWait /\ WaitingCounts /\ NoLostWakeup
  BY DEF Inv
<1>2. UNCHANGED <<dataQ, waiting, timed, got>> /\ CondSignal
  BY DEF Signal
<1>3. /\ pc' \in [Thread -> {"out", "asleep", "woken"}]
      /\ Cardinality(Asleep' \cup Woken') = Cardinality(Asleep \cup Woken)
      /\ Asleep' = {} \/ Cardinality(Woken') = Cardinality(Woken) + 1
  BY <1>1, <1>2, CondSignalSets
<1>4. TypeOK' /\ WaitingCounts' /\ ConsumersWait'
  BY <1>1, <1>2, <1>3, CondSignalConsumers DEF TypeOK, WaitingCounts
<1>5. Asleep' # {} => Asleep # {}
  BY <1>1, <1>2 DEF CondSignal, Asleep, TypeOK
<1>6. Len(dataQ) \in Nat
  BY <1>1, LenProperties DEF TypeOK
<1>7. NoLostWakeup'
  BY <1>1, <1>2, <1>3, <1>5, <1>6, Sleepers DEF NoLostWakeup
<1> QED
  BY <1>4, <1>7 DEF Inv

(* waitForData: an item at once, NULL at once, or sleep on an empty queue.  *)
LEMMA WaitForDataInv ==
    ASSUME Inv, NEW t \in Consumer, NEW time \in Times, NEW usec \in Usecs,
           WaitForData(t, time, usec), ~ pool, pool' = pool
    PROVE  Inv'
<1>1. TypeOK /\ ConsumersWait /\ WaitingCounts /\ NoLostWakeup /\ pc[t] = "out" /\ t \in Thread
  BY ThreadAssumption DEF Inv, WaitForData
<1>2. timed' \in [Thread -> BOOLEAN]
  BY <1>1 DEF WaitForData, TypeOK
<1>3. CASE TakeFront(t) /\ UNCHANGED waiting
  <2>1. pc' = pc
    BY <1>1, <1>3, StayOut DEF TakeFront
  <2>2. Asleep' = Asleep /\ Woken' = Woken /\ ConsumersWait' /\ WaitingCounts'
    BY <1>1, <1>3, <2>1 DEF Asleep, Woken, ConsumersWait, WaitingCounts
  <2>3. TypeOK' /\ Len(dataQ') = Len(dataQ) - 1 /\ Len(dataQ) \in Nat
    BY <1>1, <1>2, <1>3, TakeFrontType DEF TypeOK
  <2> QED
    BY <1>1, <2>2, <2>3, Sleepers DEF Inv, NoLostWakeup
<1>4. CASE LeaveEmpty(t) /\ UNCHANGED waiting
  <2>1. pc' = pc
    BY <1>1, <1>4, StayOut DEF LeaveEmpty
  <2>2. Asleep' = Asleep /\ Woken' = Woken /\ ConsumersWait' /\ WaitingCounts'
    BY <1>1, <1>4, <2>1 DEF Asleep, Woken, ConsumersWait, WaitingCounts
  <2>3. TypeOK' /\ dataQ' = dataQ
    BY <1>1, <1>2, <1>4 DEF TypeOK, LeaveEmpty
  <2> QED
    BY <1>1, <2>2, <2>3 DEF Inv, NoLostWakeup
<1>5. CASE /\ dataQ = << >> /\ waiting' = waiting + 1
           /\ pc' = [pc EXCEPT ![t] = "asleep"] /\ UNCHANGED <<dataQ, got>>
  <2>1. TypeOK' /\ ConsumersWait'
    BY <1>1, <1>2, <1>5 DEF TypeOK, ConsumersWait
  <2>2. WaitingCounts'
    BY <1>1, <1>5, SleepSets DEF WaitingCounts
  <2>3. Woken' = Woken
    BY <1>1, <1>5, SleepSets
  <2>4. NoLostWakeup'
    BY <1>5, <2>3, Sleepers DEF NoLostWakeup
  <2> QED
    BY <2>1, <2>2, <2>4 DEF Inv
<1> QED
  BY <1>3, <1>4, <1>5 DEF WaitForData

(* A deadline or a spurious wakeup: a woken thread more, the count as it was. *)
LEMMA WakeUpInv ==
    ASSUME Inv, NEW t \in Consumer, WakeUp(t), pool' = pool
    PROVE  Inv'
<1>1. TypeOK /\ ConsumersWait /\ WaitingCounts /\ NoLostWakeup /\ t \in Asleep
  BY ThreadAssumption DEF Inv, WakeUp, Asleep
<1>2. UNCHANGED <<dataQ, waiting, timed, got>> /\ pc' = [pc EXCEPT ![t] = "woken"]
  BY DEF WakeUp
<1>3. TypeOK' /\ ConsumersWait'
  BY <1>1, <1>2 DEF TypeOK, ConsumersWait, Asleep
<1>4. Asleep' \cup Woken' = Asleep \cup Woken /\ Cardinality(Woken') = Cardinality(Woken) + 1
  BY <1>1, <1>2, WakeSets
<1>5. WaitingCounts'
  BY <1>1, <1>2, <1>4 DEF WaitingCounts
<1>6. Len(dataQ) \in Nat
  BY <1>1, LenProperties DEF TypeOK
<1>7. NoLostWakeup'
  BY <1>1, <1>2, <1>4, <1>6, Sleepers DEF NoLostWakeup
<1> QED
  BY <1>3, <1>5, <1>7 DEF Inv

(* A woken thread takes an item, gives up, or sleeps again; the last two    *)
(* only if no item needs it.                                                *)
LEMMA RelockInv ==
    ASSUME Inv, NEW t \in Consumer, Relock(t), ~ pool, pool' = pool
    PROVE  Inv'
<1>1. TypeOK /\ ConsumersWait /\ WaitingCounts /\ NoLostWakeup /\ t \in Woken /\ t \in Thread
  BY ThreadAssumption DEF Inv, Relock, Woken
<1>2. timed' = timed
  BY DEF Relock
<1>3. CASE TakeFront(t) /\ waiting' = waiting - 1
  <2>1. /\ Cardinality(Asleep' \cup Woken') = Cardinality(Asleep \cup Woken) - 1
        /\ Cardinality(Asleep \cup Woken) > 0
        /\ Asleep' = Asleep /\ Cardinality(Woken') = Cardinality(Woken) - 1
    BY <1>1, <1>3, LeaveSets DEF TakeFront
  <2>2. waiting' \in Nat /\ WaitingCounts'
    BY <1>1, <1>3, <2>1, Sleepers DEF WaitingCounts
  <2>3. TypeOK' /\ Len(dataQ') = Len(dataQ) - 1 /\ Len(dataQ) \in Nat
    BY <1>1, <1>2, <1>3, <2>2, TakeFrontType DEF TypeOK
  <2>4. ConsumersWait'
    BY <1>1, <1>3 DEF ConsumersWait, TakeFront, TypeOK
  <2>5. NoLostWakeup'
    BY <1>1, <2>1, <2>3, Sleepers DEF NoLostWakeup
  <2> QED
    BY <2>2, <2>3, <2>4, <2>5 DEF Inv
<1>4. CASE dataQ = << >> /\ LeaveEmpty(t) /\ waiting' = waiting - 1
  <2>1. /\ Cardinality(Asleep' \cup Woken') = Cardinality(Asleep \cup Woken) - 1
        /\ Cardinality(Asleep \cup Woken) > 0
        /\ Cardinality(Woken') = Cardinality(Woken) - 1
    BY <1>1, <1>4, LeaveSets DEF LeaveEmpty
  <2>2. waiting' \in Nat /\ WaitingCounts'
    BY <1>1, <1>4, <2>1, Sleepers DEF WaitingCounts
  <2>3. TypeOK' /\ ConsumersWait'
    BY <1>1, <1>2, <1>4, <2>2 DEF TypeOK, LeaveEmpty, ConsumersWait
  <2>4. Cardinality(Woken) # 0
    BY <1>1, Sleepers, FS_EmptySet
  <2>5. Len(dataQ') = 0 /\ 0 <= Cardinality(Woken')
    BY <1>4, <2>1, <2>4, Sleepers DEF LeaveEmpty
  <2>6. NoLostWakeup'
    BY <2>5 DEF NoLostWakeup
  <2> QED
    BY <2>2, <2>3, <2>6 DEF Inv
<1>5. CASE /\ dataQ = << >> /\ pc' = [pc EXCEPT ![t] = "asleep"]
           /\ UNCHANGED <<dataQ, waiting, got>>
  <2>1. TypeOK' /\ ConsumersWait'
    BY <1>1, <1>2, <1>5 DEF TypeOK, ConsumersWait
  <2>2. Asleep' \cup Woken' = Asleep \cup Woken /\ Woken' = Woken \ {t}
    BY <1>1, <1>5 DEF Asleep, Woken, TypeOK
  <2>3. Cardinality(Woken') \in Nat
    BY <2>2, Sleepers, FS_RemoveElement, FS_CardinalityType
  <2>4. WaitingCounts'
    BY <1>1, <1>5, <2>2 DEF WaitingCounts
  <2>5. Len(dataQ') = 0
    BY <1>5
  <2>6. NoLostWakeup'
    BY <2>3, <2>5 DEF NoLostWakeup
  <2> QED
    BY <2>1, <2>4, <2>6 DEF Inv
<1> QED
  BY <1>3, <1>4, <1>5 DEF Relock

--------------------------------------------------------------------------------
(* The invariants.                                                          *)

(* Nobody waits at the start, and the queue is empty.                       *)
LEMMA InitInv == Init => Inv
<1> SUFFICES ASSUME Init PROVE Inv
  OBVIOUS
<1>1. Asleep = {} /\ Woken = {}
  BY DEF Init, Asleep, Woken
<1>2. Asleep \cup Woken = {}
  BY <1>1
<1>3. Cardinality(Asleep \cup Woken) = 0
  BY <1>2, FS_EmptySet
<1>4. dataQ \in Seq(Item)
  BY DEF Init
<1> QED
  BY <1>1, <1>3, <1>4 DEF Init, Inv, TypeOK, ConsumersWait, WaitingCounts, NoLostWakeup

(* Every action preserves the invariant.                                    *)
LEMMA NextInv == Inv /\ [Next]_vars => Inv'
<1> SUFFICES ASSUME Inv, [Next]_vars PROVE Inv'
  OBVIOUS
<1>1. CASE UNCHANGED vars
  BY <1>1 DEF vars, Inv, TypeOK, ConsumersWait, WaitingCounts, NoLostWakeup, Asleep, Woken
<1>2. CASE pool' = pool /\ \E t \in Thread : DeQ(t)
  BY <1>2, DeQInv
<1>3. CASE pool' = pool /\ \E t \in Thread : pool /\ \E d \in Item : EnQ(t, d)
  BY <1>3, EnQInv
<1>4. CASE pool' = pool /\ \E t \in Thread : Signal(t)
  BY <1>4, SignalInv
<1>5. CASE pool' = pool /\ \E t \in Thread : \E d \in Item : SignalData(t, d)
  BY <1>5, SignalDataInv
<1>6. CASE /\ ~ pool /\ pool' = pool
           /\ \E t \in Consumer : \E time \in Times, usec \in Usecs : WaitForData(t, time, usec)
  BY <1>6, WaitForDataInv
<1>7. CASE ~ pool /\ pool' = pool /\ \E t \in Consumer : Relock(t)
  BY <1>7, RelockInv
<1>8. CASE pool' = pool /\ \E t \in Consumer : WakeUp(t)
  BY <1>8, WakeUpInv
<1> QED
  BY <1>1, <1>2, <1>3, <1>4, <1>5, <1>6, <1>7, <1>8 DEF Next, Consume, User

(* The three invariants are inductive together with ConsumersWait.          *)
LEMMA Invariance == Spec => []Inv
  BY InitInv, NextInv, PTL DEF Spec

(* The variables of the queue keep their types; the count is never          *)
(* negative.                                                                *)
THEOREM TypeCorrect == Spec => []TypeOK
<1>1. Inv => TypeOK
  BY DEF Inv
<1> QED
  BY Invariance, <1>1, PTL

(* The count signalData tests is the number of threads inside a wait.       *)
THEOREM CountCorrect == Spec => []WaitingCounts
<1>1. Inv => WaitingCounts
  BY DEF Inv
<1> QED
  BY Invariance, <1>1, PTL

(* No wakeup is lost, however many consumers there are and whatever their   *)
(* timeouts.                                                                *)
THEOREM WakeupCorrect == Spec => []NoLostWakeup
<1>1. Inv => NoLostWakeup
  BY DEF Inv
<1> QED
  BY Invariance, <1>1, PTL

--------------------------------------------------------------------------------
(* Refinement.                                                              *)

(* Every step of the queue is a step of the FIFO, or none.                  *)
LEMMA StepRefines == Inv /\ [Next]_vars => [Fifo!Next]_<<dataQ, got>>
<1> SUFFICES ASSUME Inv, [Next]_vars, ~ UNCHANGED <<dataQ, got>>
             PROVE  Fifo!Next
  OBVIOUS
<1> USE DEF Fifo!Next, Fifo!Put, Fifo!Take, Fifo!TakeNone
<1>1. ASSUME NEW t \in Thread, TakeFront(t) PROVE Fifo!Next
  BY <1>1 DEF TakeFront
<1>2. ASSUME NEW t \in Thread, dataQ = << >>, LeaveEmpty(t) PROVE Fifo!Next
  BY <1>2 DEF LeaveEmpty
<1>3. ASSUME NEW d \in Item, Push(d), UNCHANGED got PROVE Fifo!Next
  BY <1>3 DEF Push
<1>4. ~ UNCHANGED vars
  BY DEF vars
<1>5. CASE \E t \in Thread : DeQ(t)
  BY <1>5, <1>1, <1>2 DEF DeQ
<1>6. CASE \E t \in Thread, d \in Item : EnQ(t, d)
  BY <1>6, <1>3 DEF EnQ
<1>7. CASE \E t \in Thread : Signal(t)
  BY <1>7 DEF Signal
<1>8. CASE \E t \in Thread, d \in Item : SignalData(t, d)
  BY <1>8, <1>3 DEF SignalData
<1>9. CASE \E t \in Consumer : \E time \in Times, usec \in Usecs : WaitForData(t, time, usec)
  BY <1>9, <1>1, <1>2, ThreadAssumption DEF WaitForData
<1>10. CASE \E t \in Consumer : Relock(t)
  BY <1>10, <1>1, <1>2, ThreadAssumption DEF Relock
<1>11. CASE \E t \in Consumer : WakeUp(t)
  BY <1>11 DEF WakeUp
<1> QED
  BY <1>4, <1>5, <1>6, <1>7, <1>8, <1>9, <1>10, <1>11 DEF Next, Consume, User

(* To its users a SyncQueue is an atomic FIFO, with any number of threads.  *)
THEOREM FifoCorrect == Spec => ImplementsFifo
<1>1. Init => Fifo!Init
  BY DEF Init, Fifo!Init
<1> QED
  BY <1>1, Invariance, StepRefines, PTL DEF Spec, ImplementsFifo, Fifo!Spec
================================================================================

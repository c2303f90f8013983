----------------------------- MODULE MemoFlowProofs -----------------------------
(***************************************************************************)
(* Proofs about MemoFlow for any set of memos and any two pools: where a   *)
(* memo is, whose it is, and what the thread that meets it finds in it.    *)
(* Every step moves or deletes one memo at most; the invariant is therefore *)
(* stated memo by memo, and a step is judged by what it does to the memo   *)
(* it moves.                                                               *)
(***************************************************************************)
EXTENDS MemoFlow, SequenceTheorems, FiniteSetTheorems, TLAPS

(* No memo is twice in the sequence.                                        *)
Once(s) == \A i, j \in DOMAIN s : s[i] = s[j] => i = j

In(m, n) == m \in Elements(q[n])
Nowhere(m) == (\A n \in Queues : ~ In(m, n)) /\ (\A t \in Holders : hand[t] # m)

(* A memo has one place at most, and a deleted one none.                    *)
OnePlace(m) ==
    /\ \A n, k \in Queues : In(m, n) /\ In(m, k) => n = k
    /\ \A t, u \in Holders : hand[t] = m /\ hand[u] = m => t = u
    /\ \A n \in Queues, t \in Holders : In(m, n) => hand[t] # m
    /\ size[m] = "none" => Nowhere(m)

(* Where a memo may become the next SIP message, it has the size of one and *)
(* is for the peer.                                                         *)
SipReady(m) ==
    In(m, "sipRmg") \/ In(m, "signalQ") \/ hand["userAgent"] = m => size[m] = "sip" /\ ~ temp[m]

(* The codec knows the code of every memo it meets.                         *)
CodecKnows(m) == In(m, "codecQ") \/ hand["codec"] = m => code[m] \in DOMAIN CodecOut

(* UdpWriter knows the code of every memo it meets, and what it will put    *)
(* into sipRmg has the size of a SIP message.                               *)
SendFits(m) ==
    In(m, "sendQ") \/ hand["udpWriter"] = m =>
        code[m] \in DOMAIN UdpOut /\ (code[m] = "SIP_SEND" => size[m] = "sip")

LostUnparsed(m) == size[m] # "none" /\ Nowhere(m) => code[m] = "SIP_RCVD"

Sound(m) == OnePlace(m) /\ SipReady(m) /\ CodecKnows(m) /\ SendFits(m) /\ LostUnparsed(m)

AllOnce == \A n \in Queues : Once(q[n])
AllSound == \A m \in Memo : Sound(m)

(* The command 'w' asks at the work queues only.                            *)
Asked == {"signalQ", "sendQ", "codecQ", "playQ"}

(* cleanup() takes memos only from the queue it is emptying.                *)
Emptying == counted => phase # "run"

ControlOK ==
    /\ phase \in DOMAIN NextPhase \cup {"run"} /\ counted \in BOOLEAN /\ Emptying
    /\ writer \in Writing
    /\ isConnected \in BOOLEAN

Inv == TypeOK /\ Emptying /\ who \in Seq(Asked) /\ AllOnce /\ AllSound

--------------------------------------------------------------------------------
(* Sequences and the sets of their elements.                                *)

(* An element put at the end of a sequence without it occurs there once.    *)
LEMMA AppendElements ==
    ASSUME NEW S, NEW s \in Seq(S), NEW x \in S
    PROVE  /\ Append(s, x) \in Seq(S)
           /\ Elements(Append(s, x)) = Elements(s) \cup {x}
           /\ Once(s) /\ x \notin Elements(s) => Once(Append(s, x))
<1>1. /\ Append(s, x) \in Seq(S) /\ Len(Append(s, x)) = Len(s) + 1 /\ Len(s) \in Nat
      /\ DOMAIN s = 1 .. Len(s) /\ DOMAIN Append(s, x) = 1 .. Len(s) + 1
      /\ Append(s, x)[Len(s) + 1] = x
      /\ \A i \in 1 .. Len(s) : Append(s, x)[i] = s[i]
  BY AppendProperties, LenProperties
<1>2. Elements(Append(s, x)) = Elements(s) \cup {x}
  <2>1. ASSUME NEW y \in Elements(Append(s, x)) PROVE y \in Elements(s) \cup {x}
    <3>1. PICK i \in 1 .. Len(s) + 1 : y = Append(s, x)[i]
      BY <1>1, <2>1 DEF Elements
    <3>2. CASE i = Len(s) + 1
      BY <3>1, <3>2, <1>1
    <3>3. CASE i # Len(s) + 1
      <4>1. i \in 1 .. Len(s)
        BY <1>1, <3>3
      <4> QED
        BY <3>1, <4>1, <1>1 DEF Elements
    <3> QED
      BY <3>2, <3>3
  <2>2. ASSUME NEW y \in Elements(s) PROVE y \in Elements(Append(s, x))
    <3>1. PICK i \in 1 .. Len(s) : y = s[i]
      BY <1>1, <2>2 DEF Elements
    <3>2. i \in 1 .. Len(s) + 1 /\ y = Append(s, x)[i]
      BY <3>1, <1>1
    <3> QED
      BY <3>2, <1>1 DEF Elements
  <2>3. Len(s) + 1 \in 1 .. Len(s) + 1
    BY <1>1
  <2>4. x \in Elements(Append(s, x))
    BY <2>3, <1>1 DEF Elements
  <2> QED
    BY <2>1, <2>2, <2>4
<1>3. ASSUME Once(s), x \notin Elements(s) PROVE Once(Append(s, x))
  <2>1. SUFFICES ASSUME NEW i \in 1 .. Len(s) + 1, NEW j \in 1 .. Len(s) + 1,
                        Append(s, x)[i] = Append(s, x)[j]
                 PROVE  i = j
    BY <1>1 DEF Once
  <2>2. \A k \in 1 .. Len(s) : Append(s, x)[k] # x
    BY <1>1, <1>3 DEF Elements
  <2>3. CASE i \in 1 .. Len(s) /\ j \in 1 .. Len(s)
    BY <2>1, <2>3, <1>1, <1>3 DEF Once
  <2>4. CASE ~ (i \in 1 .. Len(s) /\ j \in 1 .. Len(s))
    BY <2>1, <2>2, <2>4, <1>1
  <2> QED
    BY <2>3, <2>4
<1> QED
  BY <1>1, <1>2, <1>3

(* The head of a sequence without repetitions is not in its tail.           *)
LEMMA TailElements ==
    ASSUME NEW S, NEW s \in Seq(S), s # << >>, Once(s)
    PROVE  /\ Tail(s) \in Seq(S) /\ Head(s) \in S /\ Head(s) \in Elements(s)
           /\ Elements(Tail(s)) = Elements(s) \ {Head(s)}
           /\ Once(Tail(s))
<1>1. /\ Tail(s) \in Seq(S) /\ Head(s) \in S /\ Head(s) = s[1]
      /\ Len(s) \in Nat \ {0} /\ DOMAIN s = 1 .. Len(s)
      /\ DOMAIN Tail(s) = 1 .. Len(s) - 1
      /\ \A i \in 1 .. Len(s) - 1 : Tail(s)[i] = s[i + 1]
  BY HeadTailProperties, LenProperties, EmptySeq
<1>2. 1 \in DOMAIN s
  BY <1>1
<1>3. Elements(Tail(s)) = Elements(s) \ {Head(s)}
  <2>1. ASSUME NEW y \in Elements(Tail(s)) PROVE y \in Elements(s) /\ y # Head(s)
    <3>1. PICK i \in 1 .. Len(s) - 1 : y = Tail(s)[i]
      BY <1>1, <2>1 DEF Elements
    <3>2. i + 1 \in DOMAIN s /\ i + 1 # 1 /\ y = s[i + 1]
      BY <3>1, <1>1
    <3> QED
      BY <3>2, <1>1, <1>2 DEF Once, Elements
  <2>2. ASSUME NEW y \in Elements(s), y # Head(s) PROVE y \in Elements(Tail(s))
    <3>1. PICK i \in 1 .. Len(s) : y = s[i]
      BY <1>1, <2>2 DEF Elements
    <3>2. i - 1 \in 1 .. Len(s) - 1 /\ (i - 1) + 1 = i
      BY <3>1, <1>1, <2>2
    <3>3. y = Tail(s)[i - 1]
      BY <3>1, <3>2, <1>1
    <3> QED
      BY <3>2, <3>3, <1>1 DEF Elements
  <2> QED
    BY <2>1, <2>2
<1>4. Once(Tail(s))
  <2>1. SUFFICES ASSUME NEW i \in 1 .. Len(s) - 1, NEW j \in 1 .. Len(s) - 1,
                        Tail(s)[i] = Tail(s)[j]
                 PROVE  i = j
    BY <1>1 DEF Once
  <2>2. i + 1 \in DOMAIN s /\ j + 1 \in DOMAIN s /\ s[i + 1] = s[j + 1]
    BY <2>1, <1>1
  <2>3. i + 1 = j + 1
    BY <2>2 DEF Once
  <2> QED
    BY <2>3
<1> QED
  BY <1>1, <1>2, <1>3, <1>4 DEF Elements

--------------------------------------------------------------------------------
(* What a step does to the places and the contents of memos.                *)

(* Memo m rests where it is, with what is in it.                            *)
Rests(m) ==
    /\ \A n \in Queues : In(m, n)' <=> In(m, n)
    /\ \A t \in Holders : hand'[t] = m <=> hand[t] = m

Kept(m) == size'[m] = size[m] /\ code'[m] = code[m] /\ temp'[m] = temp[m]

OthersRest(m) == \A x \in Memo \ {m} : Rests(x)
OthersKept(m) == \A x \in Memo \ {m} : Kept(x)

(* Memo m is then in queue n, in the hand of thread t, or nowhere.          *)
NowIn(m, n) == (\A k \in Queues : In(m, k)' <=> k = n) /\ (\A t \in Holders : hand'[t] # m)
NowWith(m, t) == (\A k \in Queues : ~ In(m, k)') /\ (\A u \in Holders : hand'[u] = m <=> u = t)

(* A memo that rests remains sound.                                         *)
LEMMA RestsSound ==
    ASSUME NEW m \in Memo, Sound(m), Rests(m), Kept(m)
    PROVE  Sound(m)'
<1>1. OnePlace(m)'
  BY DEF Sound, Rests, Kept, OnePlace, Nowhere
<1>2. SipReady(m)' /\ CodecKnows(m)' /\ SendFits(m)'
  BY DEF Sound, Rests, Kept, SipReady, CodecKnows, SendFits, Queues, Holders
<1>3. LostUnparsed(m)'
  BY DEF Sound, Rests, Kept, LostUnparsed, Nowhere
<1> QED
  BY <1>1, <1>2, <1>3 DEF Sound

(* If one memo moves and the others rest, it is enough to look at the one.  *)
LEMMA OneMoves ==
    ASSUME AllSound, NEW m \in Memo, OthersRest(m), OthersKept(m), Sound(m)'
    PROVE  AllSound'
<1>1. ASSUME NEW x \in Memo PROVE Sound(x)'
  BY <1>1, RestsSound DEF AllSound, OthersRest, OthersKept
<1> QED
  BY <1>1 DEF AllSound

(* A memo in a queue is sound if it is fit for the queue.                   *)
LEMMA QueuedSound ==
    ASSUME NEW m \in Memo, NEW n \in Queues, NowIn(m, n), size'[m] # "none",
           n \in {"sipRmg", "signalQ"} => size'[m] = "sip" /\ ~ temp'[m],
           n = "codecQ" => code'[m] \in DOMAIN CodecOut,
           n = "sendQ" =>
               code'[m] \in DOMAIN UdpOut /\ (code'[m] = "SIP_SEND" => size'[m] = "sip")
    PROVE  Sound(m)'
<1>1. OnePlace(m)'
  BY DEF NowIn, OnePlace
<1>2. SipReady(m)' /\ CodecKnows(m)' /\ SendFits(m)'
  BY DEF NowIn, SipReady, CodecKnows, SendFits, Queues, Holders
<1>3. LostUnparsed(m)'
  BY DEF NowIn, LostUnparsed, Nowhere
<1> QED
  BY <1>1, <1>2, <1>3 DEF Sound

(* A memo in a hand is sound if it is fit for the thread.                   *)
LEMMA HeldSound ==
    ASSUME NEW m \in Memo, NEW t \in Holders, NowWith(m, t), size'[m] # "none",
           t = "userAgent" => size'[m] = "sip" /\ ~ temp'[m],
           t = "codec" => code'[m] \in DOMAIN CodecOut,
           t = "udpWriter" =>
               code'[m] \in DOMAIN UdpOut /\ (code'[m] = "SIP_SEND" => size'[m] = "sip")
    PROVE  Sound(m)'
<1>1. OnePlace(m)'
  BY DEF NowWith, OnePlace
<1>2. SipReady(m)' /\ CodecKnows(m)' /\ SendFits(m)'
  BY DEF NowWith, SipReady, CodecKnows, SendFits, Queues, Holders
<1>3. LostUnparsed(m)'
  BY DEF NowWith, LostUnparsed, Nowhere
<1> QED
  BY <1>1, <1>2, <1>3 DEF Sound

--------------------------------------------------------------------------------
(* The queue operations.                                                    *)

(* The memo at the head of queue n goes to the end of queue k, be it the    *)
(* same one (allocMemo and signalData, emptyQueue).                         *)
LEMMA MoveEffect ==
    ASSUME TypeOK, AllOnce, AllSound, NEW n \in Queues, NEW k \in Queues, q[n] # << >>,
           NEW m, m = Head(q[n]), q' = Transfer(n, k), UNCHANGED hand
    PROVE  /\ q' \in [Queues -> Seq(Memo)] /\ AllOnce'
           /\ m \in Memo /\ In(m, n) /\ size[m] # "none" /\ NowIn(m, k)
           /\ OthersRest(m)
<1>1. q \in [Queues -> Seq(Memo)] /\ \A j \in Queues : q[j] \in Seq(Memo) /\ Once(q[j])
  BY DEF TypeOK, AllOnce
<1>2. /\ Tail(q[n]) \in Seq(Memo) /\ m \in Memo /\ m \in Elements(q[n])
      /\ Elements(Tail(q[n])) = Elements(q[n]) \ {m} /\ Once(Tail(q[n]))
  BY <1>1, TailElements
<1>3. OnePlace(m) /\ In(m, n)
  BY <1>2 DEF AllSound, Sound, In
<1>4. \A j \in Queues : j # n => m \notin Elements(q[j])
  BY <1>3 DEF OnePlace, In
<1>5. \A t \in Holders : hand[t] # m
  BY <1>3 DEF OnePlace
<1>6. size[m] # "none"
  BY <1>3 DEF OnePlace, Nowhere
<1> DEFINE base == IF k = n THEN Tail(q[n]) ELSE q[k]
<1>7. /\ base \in Seq(Memo) /\ m \notin Elements(base) /\ Once(base)
      /\ Elements(base) = Elements(q[k]) \ {m}
  BY <1>1, <1>2, <1>4
<1>8. /\ q'[k] = Append(base, m)
      /\ \A j \in Queues \ {k} : q'[j] = IF j = n THEN Tail(q[n]) ELSE q[j]
      /\ DOMAIN q' = Queues /\ q' = [j \in Queues |-> q'[j]]
  BY <1>1 DEF Transfer
<1>9. /\ q'[k] \in Seq(Memo) /\ Once(q'[k])
      /\ Elements(q'[k]) = (Elements(q[k]) \ {m}) \cup {m}
  <2>1. /\ Append(base, m) \in Seq(Memo) /\ Once(Append(base, m))
        /\ Elements(Append(base, m)) = Elements(base) \cup {m}
    <3> HIDE DEF base
    <3> QED
      BY <1>2, <1>7, AppendElements
  <2> HIDE DEF base
  <2> QED
    BY <1>7, <1>8, <2>1
<1>10. ASSUME NEW j \in Queues, j # k
       PROVE  q'[j] \in Seq(Memo) /\ Once(q'[j]) /\ Elements(q'[j]) = Elements(q[j]) \ {m}
  <2>1. CASE j = n
    BY <1>2, <1>8, <1>10, <2>1
  <2>2. CASE j # n
    BY <1>1, <1>4, <1>8, <1>10, <2>2
  <2> QED
    BY <2>1, <2>2
<1> HIDE DEF base
<1>11. \A j \in Queues : q'[j] \in Seq(Memo)
  BY <1>9, <1>10
<1>12. q' \in [Queues -> Seq(Memo)]
  BY <1>8, <1>11
<1>13. AllOnce'
  BY <1>9, <1>10 DEF AllOnce
<1>14. NowIn(m, k)
  <2>1. \A j \in Queues : m \in Elements(q'[j]) <=> j = k
    BY <1>9, <1>10
  <2> QED
    BY <1>5, <2>1 DEF NowIn, In
<1>15. OthersRest(m)
  BY <1>9, <1>10 DEF OthersRest, Rests, In
<1> QED
  BY <1>2, <1>3, <1>6, <1>12, <1>13, <1>14, <1>15

(* A memo that is in no place is put at the end of queue n.                 *)
LEMMA PutEffect ==
    ASSUME TypeOK, AllOnce, NEW n \in Queues, NEW m \in Memo, \A k \in Queues : ~ In(m, k),
           q' = [q EXCEPT ![n] = Append(@, m)], \A t \in Holders : hand'[t] # m,
           \A x \in Memo \ {m} : \A t \in Holders : hand'[t] = x <=> hand[t] = x
    PROVE  /\ q' \in [Queues -> Seq(Memo)] /\ AllOnce' /\ NowIn(m, n) /\ OthersRest(m)
<1>1. q \in [Queues -> Seq(Memo)] /\ \A j \in Queues : q[j] \in Seq(Memo) /\ Once(q[j])
  BY DEF TypeOK, AllOnce
<1>2. /\ q'[n] = Append(q[n], m) /\ \A j \in Queues \ {n} : q'[j] = q[j]
      /\ q' = [j \in Queues |-> q'[j]]
  BY <1>1
<1>3. q[n] \in Seq(Memo) /\ Once(q[n]) /\ m \notin Elements(q[n])
  BY <1>1 DEF In
<1>4. q'[n] \in Seq(Memo) /\ Once(q'[n]) /\ Elements(q'[n]) = Elements(q[n]) \cup {m}
  BY <1>2, <1>3, AppendElements
<1>5. \A j \in Queues : q'[j] \in Seq(Memo) /\ Once(q'[j])
  BY <1>1, <1>2, <1>4
<1>6. q' \in [Queues -> Seq(Memo)] /\ AllOnce'
  BY <1>2, <1>5 DEF AllOnce
<1>7. \A j \in Queues : m \in Elements(q'[j]) <=> j = n
  BY <1>2, <1>4 DEF In
<1>8. NowIn(m, n)
  BY <1>7 DEF NowIn, In
<1>9. OthersRest(m)
  BY <1>2, <1>4 DEF OthersRest, Rests, In
<1> QED
  BY <1>6, <1>8, <1>9

(* Thread t passes its memo on (Pass).                                      *)
LEMMA PassEffect ==
    ASSUME TypeOK, AllOnce, AllSound, NEW t \in Holders, NEW n \in Queues, NEW m \in Memo,
           hand[t] = m, Pass(t, n)
    PROVE  /\ q' \in [Queues -> Seq(Memo)] /\ hand' \in [Holders -> Memo \cup {NoMemo}]
           /\ AllOnce' /\ NowIn(m, n) /\ OthersRest(m) /\ size[m] # "none"
<1>1. OnePlace(m)
  BY DEF AllSound, Sound
<1>2. /\ \A k \in Queues : ~ In(m, k)
      /\ \A u \in Holders : hand[u] = m => u = t
      /\ size[m] # "none"
  BY <1>1 DEF OnePlace, Nowhere
<1>3. hand' = [hand EXCEPT ![t] = NoMemo] /\ hand \in [Holders -> Memo \cup {NoMemo}]
  BY DEF TypeOK, Pass
<1>4. hand' \in [Holders -> Memo \cup {NoMemo}] /\ \A u \in Holders : hand'[u] # m
  BY <1>2, <1>3, MemoAssumption
<1>5. \A x \in Memo \ {m} : \A u \in Holders : hand'[u] = x <=> hand[u] = x
  BY <1>3, MemoAssumption
<1>6. q' = [q EXCEPT ![n] = Append(@, m)]
  BY DEF Pass
<1> QED
  BY <1>2, <1>4, <1>5, <1>6, PutEffect

(* Thread t takes the memo at the head of queue n (Take).                   *)
LEMMA TakeEffect ==
    ASSUME TypeOK, AllOnce, AllSound, NEW t \in Holders, NEW n \in Queues, Take(t, n)
    PROVE  /\ q' \in [Queues -> Seq(Memo)] /\ hand' \in [Holders -> Memo \cup {NoMemo}]
           /\ AllOnce'
           /\ \E m \in Memo : In(m, n) /\ NowWith(m, t) /\ OthersRest(m) /\ size[m] # "none"
<1>1. /\ q \in [Queues -> Seq(Memo)] /\ \A j \in Queues : q[j] \in Seq(Memo) /\ Once(q[j])
      /\ hand \in [Holders -> Memo \cup {NoMemo}]
  BY DEF TypeOK, AllOnce
<1>2. PICK m : m = Head(q[n])
  OBVIOUS
<1>3. /\ hand[t] = NoMemo /\ q[n] # << >>
      /\ hand' = [hand EXCEPT ![t] = m] /\ q' = [q EXCEPT ![n] = Tail(@)]
  BY <1>2 DEF Take
<1>4. /\ Tail(q[n]) \in Seq(Memo) /\ m \in Memo /\ m \in Elements(q[n])
      /\ Elements(Tail(q[n])) = Elements(q[n]) \ {m} /\ Once(Tail(q[n]))
  BY <1>1, <1>2, <1>3, TailElements
<1>5. OnePlace(m) /\ In(m, n)
  BY <1>4 DEF AllSound, Sound, In
<1>6. /\ \A j \in Queues : j # n => m \notin Elements(q[j])
      /\ \A u \in Holders : hand[u] # m
      /\ size[m] # "none"
  BY <1>5 DEF OnePlace, Nowhere, In
<1>7. \A j \in Queues : /\ q'[j] \in Seq(Memo) /\ Once(q'[j])
                        /\ Elements(q'[j]) = Elements(q[j]) \ {m}
  BY <1>1, <1>3, <1>4, <1>6
<1>8. q' \in [Queues -> Seq(Memo)] /\ AllOnce'
  BY <1>1, <1>3, <1>4, <1>7 DEF AllOnce
<1>9. /\ hand' \in [Holders -> Memo \cup {NoMemo}]
      /\ \A u \in Holders : hand'[u] = IF u = t THEN m ELSE hand[u]
  BY <1>1, <1>3, <1>4
<1>10. NowWith(m, t)
  BY <1>6, <1>7, <1>9 DEF NowWith, In
<1>11. OthersRest(m)
  BY <1>3, <1>7, <1>9, MemoAssumption DEF OthersRest, Rests, In
<1> QED
  BY <1>4, <1>5, <1>6, <1>8, <1>9, <1>10, <1>11

(* A memo of the pool or a new one goes to queue n with code c (AllocTo).   *)
LEMMA AllocEffect ==
    ASSUME TypeOK, AllOnce, AllSound, NEW pool \in {"rmg", "sipRmg"}, NEW c \in Codes,
           NEW n \in Queues, AllocTo(pool, c, n), UNCHANGED hand
    PROVE  /\ size' \in [Memo -> {"none", "rtp", "sip"}] /\ code' \in [Memo -> Codes]
           /\ temp' \in [Memo -> BOOLEAN] /\ q' \in [Queues -> Seq(Memo)] /\ AllOnce'
           /\ \E m \in Memo :
                  /\ NowIn(m, n) /\ OthersRest(m) /\ OthersKept(m)
                  /\ size'[m] # "none" /\ code'[m] = c
                  /\ pool = "sipRmg" => size'[m] = "sip" /\ ~ temp'[m]
<1>1. /\ size \in [Memo -> {"none", "rtp", "sip"}] /\ code \in [Memo -> Codes]
      /\ temp \in [Memo -> BOOLEAN] /\ pool \in Queues
  BY DEF TypeOK, Queues
<1>2. CASE q[pool] # << >> /\ q' = Transfer(pool, n) /\ UNCHANGED <<size, temp>>
           /\ code' = [code EXCEPT ![Head(q[pool])] = c]
  <2>1. PICK m : m = Head(q[pool])
    OBVIOUS
  <2>2. /\ q' \in [Queues -> Seq(Memo)] /\ AllOnce'
        /\ m \in Memo /\ In(m, pool) /\ size[m] # "none" /\ NowIn(m, n) /\ OthersRest(m)
    BY <1>1, <1>2, <2>1, MoveEffect
  <2>3. code' = [code EXCEPT ![m] = c] /\ size' = size /\ temp' = temp
    BY <1>2, <2>1
  <2>4. code' \in [Memo -> Codes] /\ code'[m] = c /\ OthersKept(m)
    BY <1>1, <2>2, <2>3 DEF OthersKept, Kept
  <2>5. pool = "sipRmg" => size[m] = "sip" /\ ~ temp[m]
    BY <2>2 DEF AllSound, Sound, SipReady
  <2> QED
    BY <1>1, <2>2, <2>3, <2>4, <2>5
<1>3. ASSUME NEW m \in Memo, size[m] = "none", size' = [size EXCEPT ![m] = SizeOf(pool)],
             code' = [code EXCEPT ![m] = c], temp' = [temp EXCEPT ![m] = FALSE],
             q' = [q EXCEPT ![n] = Append(@, m)]
      PROVE  /\ size' \in [Memo -> {"none", "rtp", "sip"}] /\ code' \in [Memo -> Codes]
             /\ temp' \in [Memo -> BOOLEAN] /\ q' \in [Queues -> Seq(Memo)] /\ AllOnce'
             /\ NowIn(m, n) /\ OthersRest(m) /\ OthersKept(m)
             /\ size'[m] # "none" /\ code'[m] = c
             /\ pool = "sipRmg" => size'[m] = "sip" /\ ~ temp'[m]
  <2>1. Nowhere(m)
    BY <1>3 DEF AllSound, Sound, OnePlace
  <2>2. (\A k \in Queues : ~ In(m, k)) /\ (\A t \in Holders : hand'[t] # m)
    BY <2>1 DEF Nowhere
  <2>3. q' \in [Queues -> Seq(Memo)] /\ AllOnce' /\ NowIn(m, n) /\ OthersRest(m)
    BY <1>3, <2>2, PutEffect
  <2>4. /\ size' \in [Memo -> {"none", "rtp", "sip"}] /\ code' \in [Memo -> Codes]
        /\ temp' \in [Memo -> BOOLEAN]
    BY <1>1, <1>3 DEF SizeOf
  <2>5. OthersKept(m)
    BY <1>1, <1>3 DEF OthersKept, Kept
  <2>6. /\ size'[m] # "none" /\ code'[m] = c
        /\ pool = "sipRmg" => size'[m] = "sip" /\ ~ temp'[m]
    BY <1>1, <1>3 DEF SizeOf
  <2> QED
    BY <2>3, <2>4, <2>5, <2>6
<1> QED
  BY <1>2, <1>3 DEF AllocTo

--------------------------------------------------------------------------------
(* The threads keep the invariant.                                          *)

(* A thread that allocates a memo and queues it where it fits.              *)
LEMMA AllocKeeps ==
    ASSUME Inv, NEW pool \in {"rmg", "sipRmg"}, NEW c \in Codes, NEW n \in Queues,
           AllocTo(pool, c, n), UNCHANGED <<hand, cleaning, writer, isConnected>>,
           n \in {"sipRmg", "signalQ"} => pool = "sipRmg",
           n = "codecQ" => c \in DOMAIN CodecOut,
           n = "sendQ" => c \in DOMAIN UdpOut /\ (c = "SIP_SEND" => pool = "sipRmg"),
           who' \in Seq(Asked)
    PROVE  Inv'
<1>1. /\ size' \in [Memo -> {"none", "rtp", "sip"}] /\ code' \in [Memo -> Codes]
      /\ temp' \in [Memo -> BOOLEAN] /\ q' \in [Queues -> Seq(Memo)] /\ AllOnce'
  BY AllocEffect DEF Inv
<1>2. PICK m \in Memo : /\ NowIn(m, n) /\ OthersRest(m) /\ OthersKept(m)
                        /\ size'[m] # "none" /\ code'[m] = c
                        /\ pool = "sipRmg" => size'[m] = "sip" /\ ~ temp'[m]
  BY AllocEffect DEF Inv
<1>3. Sound(m)'
  BY <1>2, QueuedSound
<1>4. AllSound'
  BY <1>2, <1>3, OneMoves DEF Inv
<1>5. who' \in Seq(Queues)
  BY SeqMonotonic DEF Asked, Queues
<1>6. TypeOK' /\ Emptying'
  BY <1>1, <1>5 DEF Inv, TypeOK, cleaning, Emptying
<1> QED
  BY <1>1, <1>4, <1>6 DEF Inv

(* A thread that takes the memo of its queue.                               *)
LEMMA TakeKeeps ==
    ASSUME Inv, NEW t \in Holders, NEW n \in Queues, Take(t, n),
           <<t, n>> \in {<<"userAgent", "signalQ">>, <<"udpWriter", "sendQ">>,
                         <<"codec", "codecQ">>, <<"audioWriter", "playQ">>}
    PROVE  Inv'
<1>1. q' \in [Queues -> Seq(Memo)] /\ hand' \in [Holders -> Memo \cup {NoMemo}] /\ AllOnce'
  BY TakeEffect DEF Inv
<1>2. PICK m \in Memo : In(m, n) /\ NowWith(m, t) /\ OthersRest(m) /\ size[m] # "none"
  BY TakeEffect DEF Inv
<1>3. UNCHANGED <<size, code, temp, phase, counted, writer, who, isConnected>>
  BY DEF Take, cleaning
<1>4. SipReady(m) /\ CodecKnows(m) /\ SendFits(m)
  BY DEF Inv, AllSound, Sound
<1>5. /\ t = "userAgent" => size[m] = "sip" /\ ~ temp[m]
      /\ t = "codec" => code[m] \in DOMAIN CodecOut
      /\ t = "udpWriter" => code[m] \in DOMAIN UdpOut /\ (code[m] = "SIP_SEND" => size[m] = "sip")
  BY <1>2, <1>4 DEF SipReady, CodecKnows, SendFits
<1>6. Sound(m)'
  BY <1>2, <1>3, <1>5, HeldSound
<1>7. OthersKept(m)
  BY <1>3 DEF OthersKept, Kept
<1>8. AllSound'
  BY <1>2, <1>6, <1>7, OneMoves DEF Inv
<1>9. TypeOK' /\ Emptying'
  BY <1>1, <1>3 DEF Inv, TypeOK, Emptying
<1> QED
  BY <1>1, <1>3, <1>8, <1>9 DEF Inv

(* A thread that passes its memo on to a queue where it fits.               *)
LEMMA PassKeeps ==
    ASSUME Inv, NEW t \in Holders, NEW n \in Queues, NEW m \in Memo, hand[t] = m, Pass(t, n),
           OthersKept(m), size' = size,
           code' \in [Memo -> Codes], temp' \in [Memo -> BOOLEAN], ControlOK', UNCHANGED who,
           n \in {"sipRmg", "signalQ"} => size[m] = "sip" /\ ~ temp'[m],
           n = "codecQ" => code'[m] \in DOMAIN CodecOut,
           n = "sendQ" => code'[m] \in DOMAIN UdpOut /\ (code'[m] = "SIP_SEND" => size[m] = "sip")
    PROVE  Inv'
<1>1. /\ q' \in [Queues -> Seq(Memo)] /\ hand' \in [Holders -> Memo \cup {NoMemo}]
      /\ AllOnce' /\ NowIn(m, n) /\ OthersRest(m) /\ size[m] # "none"
  BY PassEffect DEF Inv
<1>2. Sound(m)'
  BY <1>1, QueuedSound
<1>3. AllSound'
  BY <1>1, <1>2, OneMoves DEF Inv
<1>4. TypeOK' /\ Emptying'
  BY <1>1 DEF Inv, TypeOK, ControlOK
<1> QED
  BY <1>1, <1>3, <1>4 DEF Inv

(* A step of a thread other than the user agent and UdpWriter.              *)
LEMMA ControlKept ==
    ASSUME Inv, UNCHANGED <<phase, counted, writer>>, isConnected' \in BOOLEAN
    PROVE  ControlOK'
BY DEF Inv, TypeOK, Emptying, ControlOK

(* A memo in a hand.                                                        *)
LEMMA HeldMemo ==
    ASSUME Inv, NEW t \in Holders, hand[t] # NoMemo
    PROVE  hand[t] \in Memo /\ Sound(hand[t])
BY DEF Inv, TypeOK, AllSound

(* main(), its commands.                                                    *)
LEMMA UserKeeps == Inv /\ User => Inv'
<1> SUFFICES ASSUME Inv, User PROVE Inv'
  OBVIOUS
<1>1. CASE TypeCommand
  BY <1>1, AllocKeeps DEF TypeCommand, Codes, Queues, Inv
<1>2. CASE TypeWho
  <2>1. who' \in Seq(Asked) /\ who' \in Seq(Queues)
    BY <1>2 DEF TypeWho, Asked, Queues
  <2>2. UNCHANGED <<size, code, temp, q, hand, phase, counted, writer, isConnected>>
    BY <1>2 DEF TypeWho, cleaning
  <2>3. AllSound'
    BY <2>2, RestsSound DEF Inv, AllSound, Rests, Kept, In
  <2> QED
    BY <2>1, <2>2, <2>3 DEF Inv, TypeOK, AllOnce, Emptying
<1>3. CASE Ask
  <2>1. /\ who \in Seq(Asked) /\ who # << >> /\ Head(who) \in Asked /\ who' = Tail(who)
        /\ Tail(who) \in Seq(Asked)
    BY <1>3, HeadTailProperties DEF Ask, Inv
  <2> DEFINE pool == IF Head(who) = "signalQ" THEN "sipRmg" ELSE "rmg"
  <2>2. AllocTo(pool, "RESPOND", Head(who)) /\ UNCHANGED <<hand, cleaning, writer, isConnected>>
    BY <1>3 DEF Ask
  <2>3. /\ pool \in {"rmg", "sipRmg"} /\ "RESPOND" \in Codes /\ Head(who) \in Queues
        /\ Head(who) \in {"sipRmg", "signalQ"} => pool = "sipRmg"
        /\ "RESPOND" \in DOMAIN CodecOut /\ "RESPOND" \in DOMAIN UdpOut /\ "RESPOND" # "SIP_SEND"
    BY <2>1 DEF Codes, Asked, Queues, CodecOut, UdpOut
  <2> HIDE DEF pool
  <2>4. PICK p, n : p = pool /\ n = Head(who)
    OBVIOUS
  <2> QED
    BY <2>1, <2>2, <2>3, <2>4, AllocKeeps
<1> QED
  BY <1>1, <1>2, <1>3 DEF User

(* The two threads that produce memos.                                      *)
LEMMA ReadersKeep == Inv /\ (AudioReader \/ UdpReader) => Inv'
<1> SUFFICES ASSUME Inv, AudioReader \/ UdpReader PROVE Inv'
  OBVIOUS
<1>1. UNCHANGED <<hand, cleaning, writer, isConnected>> /\ who' \in Seq(Asked)
  BY DEF AudioReader, UdpReader, Inv
<1>2. CASE AllocTo("rmg", "MSG_ENC", "codecQ")
  BY <1>1, <1>2, AllocKeeps DEF Codes, Queues, CodecOut
<1>3. CASE AllocTo("rmg", "MSG_DEC", "codecQ")
  BY <1>1, <1>3, AllocKeeps DEF Codes, Queues, CodecOut
<1>4. CASE \E n \in {"signalQ", "sipRmg"} : AllocTo("sipRmg", "SIP_RCVD", n)
  BY <1>1, <1>4, AllocKeeps DEF Codes, Queues
<1> QED
  BY <1>2, <1>3, <1>4 DEF AudioReader, UdpReader

(* AdpcmCodec::run: it knows the memo, and passes it on.                    *)
LEMMA CodecKeeps == Inv /\ Codec => Inv'
<1> SUFFICES ASSUME Inv, Codec PROVE Inv'
  OBVIOUS
<1>1. CASE Take("codec", "codecQ")
  BY <1>1, TakeKeeps DEF Holders, Queues
<1>2. CASE ~ Take("codec", "codecQ")
  <2>1. PICK m : m = hand["codec"]
    OBVIOUS
  <2>2. m \in Memo /\ Sound(m) /\ "codec" \in Holders
    BY <1>2, <2>1, HeldMemo DEF Codec, Holders
  <2>3. code[m] \in DOMAIN CodecOut
    BY <2>1, <2>2 DEF Sound, CodecKnows
  <2>4. /\ code' = [code EXCEPT ![m] = CodecOut[code[m]].code]
        /\ Pass("codec", CodecOut[code[m]].to)
        /\ UNCHANGED <<size, temp, phase, counted, writer, who, isConnected>>
    BY <1>2, <2>1, <2>3 DEF Codec, cleaning
  <2>5. PICK n, c : n = CodecOut[code[m]].to /\ c = CodecOut[code[m]].code
    OBVIOUS
  <2>6. /\ n \in {"sendQ", "playQ", "rmg"} /\ n \in Queues
        /\ c \in {"MSG_SEND", "MSG_PLAY", "RESPOND"} /\ c \in Codes
        /\ n = "sendQ" => c \in DOMAIN UdpOut
    BY <2>3, <2>5 DEF CodecOut, UdpOut, Queues, Codes
  <2>7. code \in [Memo -> Codes] /\ temp \in [Memo -> BOOLEAN] /\ ControlOK'
    BY <2>4, ControlKept DEF Inv, TypeOK
  <2>8. code' = [code EXCEPT ![m] = c] /\ Pass("codec", n)
    BY <2>4, <2>5
  <2>9. /\ code' \in [Memo -> Codes] /\ code'[m] = c /\ OthersKept(m)
    BY <2>2, <2>4, <2>6, <2>7, <2>8 DEF OthersKept, Kept
  <2> QED
    BY <2>1, <2>2, <2>4, <2>6, <2>7, <2>8, <2>9, PassKeeps
<1> QED
  BY <1>1, <1>2

(* AudioWriter::run: every memo goes back to rmg.                           *)
LEMMA AudioWriterKeeps == Inv /\ AudioWriter => Inv'
<1> SUFFICES ASSUME Inv, AudioWriter PROVE Inv'
  OBVIOUS
<1>1. CASE Take("audioWriter", "playQ")
  BY <1>1, TakeKeeps DEF Holders, Queues
<1>2. CASE ~ Take("audioWriter", "playQ")
  <2>1. PICK m : m = hand["audioWriter"]
    OBVIOUS
  <2>2. /\ m \in Memo /\ "audioWriter" \in Holders /\ "rmg" \in Queues
        /\ Pass("audioWriter", "rmg")
        /\ UNCHANGED <<size, code, temp, phase, counted, writer, who, isConnected>>
    BY <1>2, <2>1, HeldMemo DEF AudioWriter, Holders, Queues, cleaning
  <2>3. OthersKept(m)
    BY <2>2 DEF OthersKept, Kept
  <2>4. code \in [Memo -> Codes] /\ temp \in [Memo -> BOOLEAN] /\ ControlOK'
    BY <2>2, ControlKept DEF Inv, TypeOK
  <2> QED
    BY <2>1, <2>2, <2>3, <2>4, PassKeeps
<1> QED
  BY <1>1, <1>2

(* A step that moves no memo.                                               *)
LEMMA ControlKeeps ==
    ASSUME Inv, UNCHANGED <<size, code, temp, q, hand, who>>, ControlOK'
    PROVE  Inv'
<1>1. \A m \in Memo : Rests(m) /\ Kept(m)
  BY DEF Rests, Kept, In
<1>2. AllSound'
  BY <1>1, RestsSound DEF Inv, AllSound
<1> QED
  BY <1>2 DEF Inv, TypeOK, AllOnce, ControlOK

(* UdpWriter::run: what goes to sipRmg has the size of a SIP message and is *)
(* no longer for a third party.                                             *)
LEMMA UdpWriterKeeps == Inv /\ UdpWriter => Inv'
<1> SUFFICES ASSUME Inv, UdpWriter PROVE Inv'
  OBVIOUS
<1>1. CASE Take("udpWriter", "sendQ")
  BY <1>1, TakeKeeps DEF Holders, Queues
<1>2. CASE hand["udpWriter"] = NoMemo /\ ~ Take("udpWriter", "sendQ")
  <2>1. /\ UNCHANGED <<size, code, temp, q, hand, phase, counted, who, isConnected>>
        /\ writer' = [writer EXCEPT !.at = "report"]
    BY <1>2 DEF UdpWriter, cleaning
  <2>2. ControlOK'
    BY <2>1 DEF Inv, TypeOK, Emptying, ControlOK, Writing
  <2> QED
    BY <2>1, <2>2, ControlKeeps
<1>3. CASE hand["udpWriter"] # NoMemo
  <2>1. PICK m : m = hand["udpWriter"]
    OBVIOUS
  <2>2. m \in Memo /\ Sound(m) /\ "udpWriter" \in Holders /\ code[m] \in DOMAIN UdpOut
    <3>1. m \in Memo /\ Sound(m) /\ "udpWriter" \in Holders
      BY <1>3, <2>1, HeldMemo DEF Holders
    <3> QED
      BY <2>1, <3>1 DEF Sound, SendFits
  <2>3. /\ Pass("udpWriter", UdpOut[code[m]])
        /\ temp' = IF code[m] = "SIP_SEND" THEN [temp EXCEPT ![m] = FALSE] ELSE temp
        /\ isConnected' \in (IF code[m] = "MSG_SEND" THEN {isConnected, FALSE} ELSE {isConnected})
        /\ writer' = [writer EXCEPT !.at = "report"]
        /\ UNCHANGED <<size, code, phase, counted, who>>
    BY <1>3, <2>1, <2>2 DEF UdpWriter, Take, cleaning
  <2>4. code \in [Memo -> Codes] /\ temp \in [Memo -> BOOLEAN] /\ ControlOK'
    <3>1. isConnected' \in BOOLEAN /\ writer' \in Writing
      BY <2>3 DEF Inv, TypeOK, Writing
    <3> QED
      BY <2>3, <3>1 DEF Inv, TypeOK, Emptying, ControlOK
  <2>5. CASE code[m] = "SIP_SEND"
    <3>1. temp' = [temp EXCEPT ![m] = FALSE] /\ Pass("udpWriter", "sipRmg")
      BY <2>3, <2>5 DEF UdpOut
    <3>2. size[m] = "sip"
      BY <2>1, <2>2, <2>5 DEF Sound, SendFits
    <3>3. temp' \in [Memo -> BOOLEAN] /\ ~ temp'[m] /\ OthersKept(m)
      BY <2>2, <2>3, <2>4, <3>1 DEF OthersKept, Kept
    <3>4. "sipRmg" \in Queues
      BY DEF Queues
    <3> QED
      BY <2>1, <2>2, <2>3, <2>4, <3>1, <3>2, <3>3, <3>4, PassKeeps
  <2>6. CASE code[m] # "SIP_SEND"
    <3>1. Pass("udpWriter", "rmg") /\ temp' = temp
      BY <2>2, <2>3, <2>6 DEF UdpOut
    <3>2. OthersKept(m) /\ "rmg" \in Queues
      BY <2>2, <2>3, <3>1 DEF OthersKept, Kept, Queues
    <3> QED
      BY <2>1, <2>2, <2>3, <2>4, <3>1, <3>2, PassKeeps
  <2> QED
    BY <2>5, <2>6
<1> QED
  BY <1>1, <1>2, <1>3

--------------------------------------------------------------------------------
(* The sender report, and the pools it downsizes.                           *)

(* Where UdpWriter goes on when it is through with a pool.                  *)
LEMMA NextPoolType == NextPool \in Writing
<1>1. DOMAIN Pools = {"rmg", "sipRmg"} /\ 0 \in Nat
  BY PoolsAssumption
<1> QED
  BY <1>1 DEF NextPool, Waits, Writing

(* The memo that is deleted was in no other place.                          *)
LEMMA DeletedSound ==
    ASSUME Inv, NEW n \in {"rmg", "sipRmg"}, q[n] # << >>, NEW m, m = Head(q[n]),
           size' = [size EXCEPT ![m] = "none"], q' = [q EXCEPT ![n] = Tail(@)],
           UNCHANGED <<code, temp, hand>>
    PROVE  /\ size' \in [Memo -> {"none", "rtp", "sip"}] /\ q' \in [Queues -> Seq(Memo)]
           /\ AllOnce' /\ AllSound'
<1>1. /\ q \in [Queues -> Seq(Memo)] /\ \A j \in Queues : q[j] \in Seq(Memo) /\ Once(q[j])
      /\ size \in [Memo -> {"none", "rtp", "sip"}] /\ n \in Queues
  BY DEF Inv, TypeOK, AllOnce, Queues
<1>2. /\ Tail(q[n]) \in Seq(Memo) /\ m \in Memo /\ m \in Elements(q[n])
      /\ Elements(Tail(q[n])) = Elements(q[n]) \ {m} /\ Once(Tail(q[n]))
  BY <1>1, TailElements
<1>3. OnePlace(m) /\ In(m, n)
  BY <1>2 DEF Inv, AllSound, Sound, In
<1>4. /\ \A j \in Queues : j # n => m \notin Elements(q[j])
      /\ \A t \in Holders : hand'[t] # m
  BY <1>1, <1>3 DEF OnePlace, In
<1>5. \A j \in Queues : /\ q'[j] \in Seq(Memo) /\ Once(q'[j])
                        /\ Elements(q'[j]) = Elements(q[j]) \ {m}
  BY <1>1, <1>2, <1>4
<1>6. q' \in [Queues -> Seq(Memo)] /\ AllOnce'
  BY <1>1, <1>5 DEF AllOnce
<1>7. size' \in [Memo -> {"none", "rtp", "sip"}] /\ size'[m] = "none"
  BY <1>1, <1>2
<1>8. OthersRest(m) /\ OthersKept(m)
  BY <1>1, <1>5 DEF OthersRest, OthersKept, Rests, Kept, In
<1>9. OnePlace(m)' /\ LostUnparsed(m)'
  BY <1>4, <1>5, <1>7 DEF OnePlace, Nowhere, LostUnparsed, In
<1>10. SipReady(m)' /\ CodecKnows(m)' /\ SendFits(m)'
  BY <1>4, <1>5 DEF SipReady, CodecKnows, SendFits, In, Queues, Holders
<1>11. AllSound'
  BY <1>2, <1>8, <1>9, <1>10, OneMoves DEF Inv, Sound
<1> QED
  BY <1>6, <1>7, <1>11

(* UdpWriter::run after the memo, and ResourceManager::downsize.            *)
LEMMA DownsizeKeeps == Inv /\ (SenderReport \/ Downsize) => Inv'
<1> SUFFICES ASSUME Inv, SenderReport \/ Downsize PROVE Inv'
  OBVIOUS
<1>1. /\ writer \in Writing /\ writer.pool \in {"rmg", "sipRmg"} /\ writer.left \in Nat
      /\ DOMAIN Pools = {"rmg", "sipRmg"}
      /\ UNCHANGED <<code, temp, hand, phase, counted, who, isConnected>>
  <2>1. DOMAIN Pools = {"rmg", "sipRmg"}
    BY PoolsAssumption
  <2>2. UNCHANGED <<code, temp, hand, phase, counted, who, isConnected>>
    BY DEF SenderReport, Downsize, DownsizeAsks, DownsizeCounts, DownsizeDeletes, cleaning
  <2> QED
    BY <2>1, <2>2 DEF Inv, TypeOK, Writing
<1>2. ASSUME writer' \in Writing PROVE ControlOK'
  BY <1>1, <1>2 DEF Inv, TypeOK, Emptying, ControlOK
<1>3. CASE SenderReport
  <2>1. UNCHANGED <<size, q>> /\ writer' \in {Waits, [writer EXCEPT !.at = "ask"]}
    BY <1>3 DEF SenderReport
  <2>2. writer' \in Writing
    BY <1>1, <2>1 DEF Waits, Writing
  <2> QED
    BY <1>1, <1>2, <2>1, <2>2, ControlKeeps
<1>4. CASE DownsizeAsks
  <2>1. UNCHANGED <<size, q>> /\ writer' \in {NextPool, [writer EXCEPT !.at = "count"]}
    BY <1>4 DEF DownsizeAsks
  <2>2. writer' \in Writing
    BY <1>1, <2>1, NextPoolType DEF Writing
  <2> QED
    BY <1>1, <1>2, <2>1, <2>2, ControlKeeps
<1>5. CASE DownsizeCounts
  <2>1. PICK n : n = Len(q[writer.pool]) \div Share
    OBVIOUS
  <2>2. n \in Int
    <3>1. q[writer.pool] \in Seq(Memo)
      BY <1>1 DEF Inv, TypeOK, Queues
    <3>2. Len(q[writer.pool]) \in Nat
      BY <3>1, LenProperties
    <3> QED
      BY <2>1, <3>2, MemoAssumption
  <2>3. /\ UNCHANGED <<size, q>>
        /\ writer' = IF n > 0 THEN [writer EXCEPT !.at = "delete", !.left = n] ELSE NextPool
    BY <1>5, <2>1 DEF DownsizeCounts
  <2>4. writer' \in Writing
    <3>1. CASE n > 0
      <4>1. n \in Nat /\ "delete" \in {"wait", "report", "ask", "count", "delete"}
        BY <2>2, <3>1
      <4>2. writer' = [writer EXCEPT !.at = "delete", !.left = n]
        BY <2>3, <3>1
      <4> QED
        BY <1>1, <4>1, <4>2 DEF Writing
    <3> QED
      BY <2>3, <3>1, NextPoolType
  <2> QED
    BY <1>1, <1>2, <2>3, <2>4, ControlKeeps
<1>6. CASE DownsizeDeletes /\ q[writer.pool] = << >>
  <2>1. UNCHANGED <<size, q>> /\ writer' = NextPool
    BY <1>6 DEF DownsizeDeletes
  <2> QED
    BY <1>1, <1>2, <2>1, NextPoolType, ControlKeeps
<1>7. CASE DownsizeDeletes /\ q[writer.pool] # << >>
  <2>1. PICK n, m : n = writer.pool /\ m = Head(q[n])
    OBVIOUS
  <2>2. /\ size' = [size EXCEPT ![m] = "none"] /\ q' = [q EXCEPT ![n] = Tail(@)]
        /\ writer' = IF writer.left > 1 THEN [writer EXCEPT !.left = @ - 1] ELSE NextPool
    BY <1>7, <2>1 DEF DownsizeDeletes
  <2>3. writer' \in Writing
    BY <1>1, <2>2, NextPoolType DEF Writing
  <2>4. n \in {"rmg", "sipRmg"} /\ q[n] # << >>
    BY <1>1, <1>7, <2>1
  <2>5. /\ size' \in [Memo -> {"none", "rtp", "sip"}] /\ q' \in [Queues -> Seq(Memo)]
        /\ AllOnce' /\ AllSound'
    BY <1>1, <2>1, <2>2, <2>4, DeletedSound
  <2> QED
    BY <1>1, <1>2, <2>3, <2>5 DEF Inv, TypeOK, ControlOK
<1> QED
  BY <1>3, <1>4, <1>5, <1>6, <1>7 DEF Downsize

--------------------------------------------------------------------------------
(* The user agent.                                                          *)

(* A memo from signalQ is discarded, or carries the answer.                 *)
LEMMA UaHandleKeeps == Inv /\ UaHandle => Inv'
<1> SUFFICES ASSUME Inv, UaHandle PROVE Inv'
  OBVIOUS
<1>1. PICK m : m = hand["userAgent"]
  OBVIOUS
<1>2. /\ m \in Memo /\ Sound(m) /\ "userAgent" \in Holders
      /\ UNCHANGED <<size, phase, counted, writer, who>>
  BY <1>1, HeldMemo DEF UaHandle, Holders, cleaning
<1>3. size[m] = "sip" /\ ~ temp[m]
  BY <1>1, <1>2 DEF Sound, SipReady
<1>4. /\ code \in [Memo -> Codes] /\ temp \in [Memo -> BOOLEAN] /\ isConnected \in BOOLEAN
      /\ "SIP_SEND" \in Codes /\ "SIP_SEND" \in DOMAIN UdpOut
      /\ "sendQ" \in Queues /\ "sipRmg" \in Queues
  BY DEF Inv, TypeOK, Codes, Queues, UdpOut
<1>5. CASE Pass("userAgent", "sipRmg") /\ isConnected' \in BOOLEAN /\ UNCHANGED <<code, temp>>
  <2>1. OthersKept(m) /\ ControlOK'
    BY <1>2, <1>5, ControlKept DEF OthersKept, Kept
  <2> QED
    BY <1>1, <1>2, <1>3, <1>4, <1>5, <2>1, PassKeeps
<1>6. CASE /\ Pass("userAgent", "sendQ") /\ isConnected' \in BOOLEAN
           /\ code' = [code EXCEPT ![m] = "SIP_SEND"]
           /\ temp' = temp \/ temp' = [temp EXCEPT ![m] = TRUE]
  <2>1. OthersKept(m) /\ code' \in [Memo -> Codes] /\ temp' \in [Memo -> BOOLEAN] /\ ControlOK'
    BY <1>2, <1>4, <1>6, ControlKept DEF OthersKept, Kept
  <2> QED
    BY <1>1, <1>2, <1>3, <1>4, <1>6, <2>1, PassKeeps
<1> QED
  BY <1>1, <1>4, <1>5, <1>6 DEF UaHandle

(* A packet that does not parse: the memo is lost, with its code.           *)
LEMMA UaUnparsableKeeps == Inv /\ UaUnparsable => Inv'
<1> SUFFICES ASSUME Inv, UaUnparsable PROVE Inv'
  OBVIOUS
<1>1. PICK m : m = hand["userAgent"]
  OBVIOUS
<1>2. /\ m \in Memo /\ Sound(m) /\ "userAgent" \in Holders /\ code[m] = "SIP_RCVD"
      /\ hand' = [hand EXCEPT !["userAgent"] = NoMemo]
      /\ UNCHANGED <<size, code, temp, q, phase, counted, writer, who, isConnected>>
  BY <1>1, HeldMemo DEF UaUnparsable, Holders, cleaning
<1>3. hand \in [Holders -> Memo \cup {NoMemo}]
  BY DEF Inv, TypeOK
<1>4. /\ hand' \in [Holders -> Memo \cup {NoMemo}]
      /\ \A x \in Memo \ {m} : \A t \in Holders : hand'[t] = x <=> hand[t] = x
  BY <1>1, <1>2, <1>3, MemoAssumption
<1>5. OthersRest(m) /\ OthersKept(m)
  BY <1>2, <1>4 DEF OthersRest, OthersKept, Rests, Kept, In
<1>6. /\ \A t \in Holders : hand'[t] # m
      /\ \A n \in Queues : m \notin Elements(q'[n])
  <2>1. /\ \A t \in Holders : hand[t] = m => t = "userAgent"
        /\ \A n \in Queues : m \notin Elements(q[n])
    BY <1>1, <1>2 DEF Sound, OnePlace, In
  <2> QED
    BY <1>2, <1>3, <2>1, MemoAssumption
<1>7. OnePlace(m)' /\ LostUnparsed(m)'
  BY <1>2, <1>6 DEF OnePlace, Nowhere, LostUnparsed, In
<1>8. SipReady(m)' /\ CodecKnows(m)' /\ SendFits(m)'
  BY <1>6 DEF SipReady, CodecKnows, SendFits, In, Queues, Holders
<1>9. AllSound'
  BY <1>2, <1>5, <1>7, <1>8, OneMoves DEF Inv, Sound
<1> QED
  BY <1>2, <1>4, <1>9 DEF Inv, TypeOK, AllOnce, Emptying

(* cleanup(): the memos of the three queues go to rmg, one by one, and the  *)
(* memo of the OK to sipRmg.                                                *)
LEMMA UaFlushKeeps == Inv /\ UaFlush => Inv'
<1> SUFFICES ASSUME Inv, UaFlush PROVE Inv'
  OBVIOUS
<1>1. /\ phase \in {"sendQ", "codecQ", "playQ"} /\ phase \in Queues /\ isConnected \in BOOLEAN
      /\ code \in [Memo -> Codes] /\ temp \in [Memo -> BOOLEAN] /\ writer \in Writing
      /\ UNCHANGED <<size, code, temp, writer, who, isConnected>>
  BY DEF UaFlush, UaCounts, UaDequeues, Inv, Emptying, TypeOK, NextPhase, Queues
<1>2. CASE UaCounts
  <2>1. /\ \/ phase' = phase /\ counted' = TRUE
           \/ phase' = NextPhase[phase] /\ counted' = FALSE
        /\ phase' \in DOMAIN NextPhase \cup {"run"}
    BY <1>1, <1>2 DEF UaCounts, Inv, TypeOK, NextPhase
  <2>2. ControlOK'
    BY <1>1, <2>1 DEF ControlOK, Emptying
  <2>3. CASE UNCHANGED <<q, hand>>
    BY <1>1, <2>2, <2>3, ControlKeeps
  <2>4. CASE ~ UNCHANGED <<q, hand>>
    <3>1. PICK m : m = hand["userAgent"]
      OBVIOUS
    <3>2. /\ Pass("userAgent", "sipRmg") /\ m \in Memo /\ Sound(m)
          /\ "userAgent" \in Holders /\ "sipRmg" \in Queues
      BY <1>2, <2>4, <3>1, HeldMemo DEF UaCounts, Holders, Queues
    <3>3. size[m] = "sip" /\ ~ temp[m]
      BY <3>1, <3>2 DEF Sound, SipReady
    <3>4. OthersKept(m)
      BY <1>1 DEF OthersKept, Kept
    <3> QED
      BY <1>1, <2>2, <3>1, <3>2, <3>3, <3>4, PassKeeps
  <2> QED
    BY <2>3, <2>4
<1>3. CASE UaDequeues
  <2>1. /\ counted' = FALSE /\ UNCHANGED <<phase, hand>> /\ "rmg" \in Queues
        /\ q' = IF q[phase] = << >> THEN q ELSE Transfer(phase, "rmg")
    BY <1>3 DEF UaDequeues, Queues
  <2>2. ControlOK'
    BY <1>1, <2>1 DEF Inv, TypeOK, ControlOK, Emptying
  <2>3. CASE q[phase] = << >>
    BY <1>1, <2>1, <2>2, <2>3, ControlKeeps
  <2>4. CASE q[phase] # << >>
    <3>1. PICK m : m = Head(q[phase])
      OBVIOUS
    <3>2. q' = Transfer(phase, "rmg")
      BY <2>1, <2>4
    <3>3. /\ q' \in [Queues -> Seq(Memo)] /\ AllOnce'
          /\ m \in Memo /\ size[m] # "none" /\ NowIn(m, "rmg") /\ OthersRest(m)
      BY <1>1, <2>1, <2>4, <3>1, <3>2, MoveEffect DEF Inv
    <3>4. Sound(m)' /\ OthersKept(m)
      BY <1>1, <2>1, <3>3, QueuedSound DEF OthersKept, Kept
    <3>5. AllSound'
      BY <3>3, <3>4, OneMoves DEF Inv
    <3> QED
      BY <1>1, <2>1, <2>2, <3>3, <3>5 DEF Inv, TypeOK, ControlOK
  <2> QED
    BY <2>3, <2>4
<1> QED
  BY <1>2, <1>3 DEF UaFlush

(* UserAgent::run.                                                          *)
LEMMA UserAgentKeeps == Inv /\ UserAgent => Inv'
<1> SUFFICES ASSUME Inv, UserAgent PROVE Inv'
  OBVIOUS
<1>1. CASE Take("userAgent", "signalQ")
  BY <1>1, TakeKeeps DEF Holders, Queues
<1>2. CASE UaRepeat
  BY <1>2, AllocKeeps DEF UaRepeat, Codes, Queues, UdpOut, Inv
<1>3. CASE UaCleanup
  <2>1. /\ UNCHANGED <<size, code, temp, q, hand, counted, writer, who>>
        /\ isConnected' = FALSE /\ phase' = "sendQ"
    BY <1>3 DEF UaCleanup
  <2>2. ControlOK'
    BY <2>1 DEF Inv, TypeOK, NextPhase, ControlOK, Emptying
  <2> QED
    BY <2>1, <2>2, ControlKeeps
<1> QED
  BY <1>1, <1>2, <1>3, UaHandleKeeps, UaUnparsableKeeps, UaFlushKeeps DEF UserAgent

--------------------------------------------------------------------------------
(* The theorems.                                                            *)

(* ResourceManager::init leaves every memo it creates in one pool.          *)
LEMMA InitSound == Init => Inv
<1> SUFFICES ASSUME Init PROVE Inv
  OBVIOUS
<1>1. /\ DOMAIN Pools = {"rmg", "sipRmg"} /\ Pools["rmg"] \in Seq(Memo)
      /\ Pools["sipRmg"] \in Seq(Memo)
      /\ \A n, k \in {"rmg", "sipRmg"} : \A i \in DOMAIN Pools[n], j \in DOMAIN Pools[k] :
            Pools[n][i] = Pools[k][j] => n = k /\ i = j
  BY PoolsAssumption
<1>2. /\ q["rmg"] = Pools["rmg"] /\ q["sipRmg"] = Pools["sipRmg"]
      /\ \A n \in Queues \ {"rmg", "sipRmg"} : q[n] = << >>
      /\ q = [n \in Queues |-> q[n]]
  BY <1>1 DEF Init, Queues
<1>3. /\ \A n \in Queues : q[n] \in Seq(Memo)
      /\ \A S : << >> \in Seq(S)
  BY <1>1, <1>2, EmptySeq
<1>4. TypeOK /\ Emptying
  <2>1. q \in [Queues -> Seq(Memo)] /\ who \in Seq(Queues)
    BY <1>2, <1>3 DEF Init
  <2>2. /\ hand \in [Holders -> Memo \cup {NoMemo}]
        /\ phase \in DOMAIN NextPhase \cup {"run"} /\ counted \in BOOLEAN /\ Emptying
    BY DEF Init, Emptying
  <2>3. /\ size \in [Memo -> {"none", "rtp", "sip"}] /\ code \in [Memo -> Codes]
        /\ temp \in [Memo -> BOOLEAN] /\ isConnected \in BOOLEAN /\ writer \in Writing
    BY <1>1 DEF Init, Codes, Waits, Writing
  <2> QED
    BY <2>1, <2>2, <2>3 DEF TypeOK
<1>5. DOMAIN << >> = {} /\ Elements(<< >>) = {}
  <2>1. Len(<< >>) = 0 /\ << >> \in Seq(Memo)
    BY EmptySeq
  <2>2. DOMAIN << >> = {}
    BY <2>1, LenProperties
  <2> QED
    BY <2>2 DEF Elements
<1>6. AllOnce
  BY <1>1, <1>2, <1>5 DEF AllOnce, Once
<1>7. ASSUME NEW m \in Memo PROVE Sound(m)
  <2>1. /\ In(m, "rmg") <=> m \in Elements(Pools["rmg"])
        /\ In(m, "sipRmg") <=> m \in Elements(Pools["sipRmg"])
        /\ \A n \in Queues \ {"rmg", "sipRmg"} : ~ In(m, n)
    BY <1>2, <1>5 DEF In
  <2>2. ~ (In(m, "rmg") /\ In(m, "sipRmg"))
    BY <1>1, <2>1 DEF Elements
  <2>3. \A t \in Holders : hand[t] # m
    BY MemoAssumption DEF Init
  <2>4. /\ size[m] = "none" => ~ In(m, "rmg") /\ ~ In(m, "sipRmg")
        /\ size[m] # "none" => In(m, "rmg") \/ In(m, "sipRmg")
        /\ In(m, "sipRmg") => size[m] = "sip"
        /\ ~ temp[m]
    BY <2>1, <2>2 DEF Init
  <2>5. OnePlace(m) /\ LostUnparsed(m)
    BY <2>1, <2>2, <2>3, <2>4 DEF OnePlace, LostUnparsed, Nowhere, Queues
  <2>6. SipReady(m) /\ CodecKnows(m) /\ SendFits(m)
    BY <2>1, <2>3, <2>4 DEF SipReady, CodecKnows, SendFits, Queues, Holders
  <2> QED
    BY <2>5, <2>6 DEF Sound
<1>8. who \in Seq(Asked)
  BY <1>3 DEF Init
<1> QED
  BY <1>4, <1>6, <1>7, <1>8 DEF Inv, AllSound

(* The invariant holds in every behaviour.                                  *)
THEOREM Invariance == Spec => []Inv
<1>1. Init => Inv
  BY InitSound
<1>2. Inv /\ [Next]_vars => Inv'
  <2> SUFFICES ASSUME Inv, [Next]_vars PROVE Inv'
    OBVIOUS
  <2>1. CASE UNCHANGED vars
    BY <2>1, ControlKept, ControlKeeps DEF vars, cleaning, Inv, TypeOK
  <2> QED
    BY <2>1, UserKeeps, ReadersKeep, CodecKeeps, AudioWriterKeeps, UdpWriterKeeps,
       DownsizeKeeps, UserAgentKeeps DEF Next
<1> QED
  BY <1>1, <1>2, PTL DEF Spec

(* A memo is in one place at most, and then it exists.                      *)
LEMMA PlacesOfSound ==
    ASSUME NEW m \in Memo, Sound(m), AllOnce
    PROVE  Cardinality(Places(m)) <= (IF size[m] = "none" THEN 0 ELSE 1)
<1>1. OnePlace(m)
  BY DEF Sound
<1>2. ASSUME NEW x \in Places(m) PROVE Places(m) = {x} /\ size[m] # "none"
  <2>1. \/ \E n \in Queues : \E i \in DOMAIN q[n] : x = <<n, i>> /\ q[n][i] = m
        \/ \E t \in Holders : x = <<"hand", t>> /\ hand[t] = m
    BY <1>2 DEF Places
  <2>2. ASSUME NEW y \in Places(m) PROVE y = x
    <3>1. \/ \E n \in Queues : \E i \in DOMAIN q[n] : y = <<n, i>> /\ q[n][i] = m
          \/ \E t \in Holders : y = <<"hand", t>> /\ hand[t] = m
      BY <2>2 DEF Places
    <3>2. CASE (\E t \in Holders : x = <<"hand", t>> /\ hand[t] = m)
               /\ (\E t \in Holders : y = <<"hand", t>> /\ hand[t] = m)
      BY <1>1, <3>2 DEF OnePlace
    <3>3. ASSUME NEW n \in Queues, NEW i \in DOMAIN q[n], q[n][i] = m,
                 NEW t \in Holders, hand[t] = m
          PROVE  FALSE
      BY <1>1, <3>3 DEF OnePlace, In, Elements
    <3>4. ASSUME NEW n \in Queues, NEW i \in DOMAIN q[n], q[n][i] = m,
                 NEW k \in Queues, NEW j \in DOMAIN q[k], q[k][j] = m
          PROVE  n = k /\ i = j
      <4>1. n = k
        BY <1>1, <3>4 DEF OnePlace, In, Elements
      <4> QED
        BY <3>4, <4>1 DEF AllOnce, Once
    <3>5. ASSUME NEW n \in Queues, NEW i \in DOMAIN q[n], x = <<n, i>>, q[n][i] = m PROVE y = x
      <4>1. PICK k \in Queues : \E j \in DOMAIN q[k] : y = <<k, j>> /\ q[k][j] = m
        BY <3>1, <3>3, <3>5
      <4> QED
        BY <3>4, <3>5, <4>1
    <3> QED
      BY <2>1, <3>1, <3>2, <3>3, <3>5
  <2>3. size[m] # "none"
    BY <1>1, <2>1 DEF OnePlace, Nowhere, In, Elements
  <2> QED
    BY <1>2, <2>2, <2>3
<1>3. CASE Places(m) = {}
  BY <1>3, FS_EmptySet
<1>4. ASSUME NEW x \in Places(m) PROVE Cardinality(Places(m)) = 1 /\ size[m] # "none"
  BY <1>2, <1>4, FS_Singleton
<1> QED
  BY <1>3, <1>4, FS_EmptySet

(* Types.                                                                   *)
THEOREM TypeCorrect == Spec => []TypeOK
<1>1. Inv => TypeOK
  BY DEF Inv
<1> QED
  BY <1>1, Invariance, PTL

(* No two threads use a memo at the same time, and none uses a deleted one. *)
THEOREM Ownership == Spec => []OneOwner
<1>1. Inv => OneOwner
  BY PlacesOfSound DEF Inv, AllSound, OneOwner
<1> QED
  BY <1>1, Invariance, PTL

(* A memo is lost only with a packet that does not parse.                   *)
THEOREM OnlyUnparsedAreLost == Spec => []OnlyUnparsedLost
<1>1. ASSUME NEW m \in Memo, Places(m) = {} PROVE Nowhere(m)
  <2>1. ASSUME NEW n \in Queues, In(m, n) PROVE FALSE
    <3>1. PICK i \in DOMAIN q[n] : q[n][i] = m
      BY <2>1 DEF In, Elements
    <3>2. <<n, i>> \in Places(m)
      BY <3>1 DEF Places
    <3> QED
      BY <1>1, <3>2
  <2>2. ASSUME NEW t \in Holders, hand[t] = m PROVE FALSE
    <3>1. <<"hand", t>> \in Places(m)
      BY <2>2 DEF Places
    <3> QED
      BY <1>1, <3>1
  <2> QED
    BY <2>1, <2>2 DEF Nowhere
<1>2. Inv => OnlyUnparsedLost
  BY <1>1 DEF Inv, AllSound, Sound, LostUnparsed, OnlyUnparsedLost
<1> QED
  BY <1>2, Invariance, PTL

(* Where a SIP message is written, there is room for it.                    *)
THEOREM SipMemosAlwaysFit == Spec => []SipMemosFit
<1>1. Inv => SipMemosFit
  <2> SUFFICES ASSUME Inv,
                      NEW m \in Elements(q["sipRmg"]) \cup Elements(q["signalQ"])
                                   \cup ({hand["userAgent"]} \cap Memo)
               PROVE  size[m] = "sip"
    BY DEF SipMemosFit
  <2>1. m \in Memo
    BY DEF Inv, TypeOK, Elements, Queues
  <2>2. SipReady(m)
    BY <2>1 DEF Inv, AllSound, Sound
  <2> QED
    BY <2>2 DEF SipReady, In
<1> QED
  BY <1>1, Invariance, PTL

(* No memo that may carry the next message to the peer is addressed to a    *)
(* third party.                                                             *)
THEOREM TempOnlyMarksBusy == Spec => []TempOnlyForBusy
<1>1. Inv => TempOnlyForBusy
  <2> SUFFICES ASSUME Inv,
                      NEW m \in Elements(q["sipRmg"]) \cup Elements(q["signalQ"])
                                   \cup ({hand["userAgent"]} \cap Memo)
               PROVE  ~ temp[m]
    BY DEF TempOnlyForBusy
  <2>1. m \in Memo
    BY DEF Inv, TypeOK, Elements, Queues
  <2>2. SipReady(m)
    BY <2>1 DEF Inv, AllSound, Sound
  <2> QED
    BY <2>2 DEF SipReady, In
<1> QED
  BY <1>1, Invariance, PTL
===============================================================================

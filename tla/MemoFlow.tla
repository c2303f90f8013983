-------------------------------- MODULE MemoFlow --------------------------------
(***************************************************************************)
(* How memos travel between the threads of one Viva Voce process.  Two     *)
(* ResourceManagers own them, rmg for audio and sipRmg for signalling.  A  *)
(* thread allocates a memo, fills it and puts it on a work queue; the      *)
(* thread behind the queue changes its code and passes it on, or releases  *)
(* it:                                                                     *)
(*                                                                         *)
(*   AudioReader --codecQ--> AdpcmCodec --sendQ--> UdpWriter --> rmg       *)
(*   UdpReader   --codecQ--> AdpcmCodec --playQ--> AudioWriter --> rmg     *)
(*   UdpReader, main() --signalQ--> UserAgent --sendQ--> UdpWriter --> sipRmg *)
(*                                                                         *)
(* The user agent's cleanup() empties sendQ, codecQ and playQ while all    *)
(* other threads run.  What the user agent decides is left open here       *)
(* (UserAgent says when it answers, discards or cleans up); what each      *)
(* outcome does with the memo is not.  A queue operation is atomic         *)
(* (SyncQueue); a thread that holds a memo between two of them holds it in *)
(* its variable.                                                           *)
(***************************************************************************)
EXTENDS Naturals, Sequences, FiniteSets

CONSTANTS
    Memo,       \* memo objects; bound: no more exist at a time
    NoMemo,     \* a NULL memo pointer
    Pools,      \* the memos ResourceManager::init creates in rmg and in sipRmg
    Share       \* downsize deletes one memo in Share, 20 in the code

ASSUME PoolsAssumption ==
    /\ Pools \in [{"rmg", "sipRmg"} -> Seq(Memo)]
    /\ \A n, k \in DOMAIN Pools : \A i \in DOMAIN Pools[n], j \in DOMAIN Pools[k] :
           Pools[n][i] = Pools[k][j] => n = k /\ i = j
ASSUME MemoAssumption == NoMemo \notin Memo /\ Share \in Nat \ {0}

VARIABLES
    size,       \* per memo: the pool whose size it was created with, or "none"
    code,       \* per memo: memo->code
    temp,       \* per memo: memo->data2, TRUE for the BUSY to a third party
    q,          \* the pools' and the work queues, by name
    hand,       \* per thread: the memo in its variable
    phase,      \* the queue cleanup() is emptying, or "run"
    counted,    \* cleanup() has found that queue not empty
    writer,     \* where UdpWriter is in its loop
    who,        \* the queues to which the command 'w' still owes a memo
    isConnected

cleaning == <<phase, counted>>
vars == <<size, code, temp, q, hand, cleaning, writer, who, isConnected>>

Queues == {"rmg", "sipRmg", "signalQ", "sendQ", "codecQ", "playQ"}
Holders == {"userAgent", "udpWriter", "codec", "audioWriter"}

(* COMMAND stands for SIP_INVITE, SIP_ACCEPT, SIP_REJECT and SIP_BYE.       *)
Codes == {"NONE", "COMMAND", "SIP_RCVD", "SIP_SEND", "MSG_ENC", "MSG_DEC", "MSG_SEND",
          "MSG_PLAY", "RESPOND"}

Elements(s) == {s[i] : i \in DOMAIN s}

(* UdpWriter waits for a memo, then it may report, and after a report it    *)
(* downsizes one pool, then the other: it asks whether the pool is too      *)
(* large, counts what it is to delete, and deletes so many.                 *)
Writing == [at : {"wait", "report", "ask", "count", "delete"}, pool : DOMAIN Pools, left : Nat]
Waits == [at |-> "wait", pool |-> "rmg", left |-> 0]

(* ResourceManager::init for both pools; all queues are empty.              *)
Init ==
    /\ size = [m \in Memo |-> IF m \in Elements(Pools.rmg) THEN "rtp"
                              ELSE IF m \in Elements(Pools.sipRmg) THEN "sip" ELSE "none"]
    /\ code = [m \in Memo |-> "NONE"]
    /\ temp = [m \in Memo |-> FALSE]
    /\ q = [n \in Queues |-> IF n \in DOMAIN Pools THEN Pools[n] ELSE << >>]
    /\ hand = [t \in Holders |-> NoMemo]
    /\ phase = "run" /\ counted = FALSE
    /\ writer = Waits
    /\ who = << >>
    /\ isConnected = FALSE

--------------------------------------------------------------------------------
(* ResourceManager: allocMemo takes the oldest memo of the pool or creates  *)
(* one.  AllocTo(pool, c, n) allocates a memo, gives it code c and puts it  *)
(* on queue n.                                                              *)
(* Mutant: memo->size is never assigned.                                    *)
SizeUnset(pool) == "unset"

SizeOf(pool) == IF pool = "rmg" THEN "rtp" ELSE "sip"

(* The oldest memo of queue a goes to the end of queue b, which may be the  *)
(* same queue.                                                              *)
Transfer(a, b) == [[q EXCEPT ![a] = Tail(@)] EXCEPT ![b] = Append(@, Head(q[a]))]

AllocTo(pool, c, n) ==
    \/ /\ q[pool] # << >>
       /\ code' = [code EXCEPT ![Head(q[pool])] = c]
       /\ q' = Transfer(pool, n)
       /\ UNCHANGED <<size, temp>>
    \/ /\ q[pool] = << >>
       /\ \E m \in {x \in Memo : size[x] = "none"} :
          /\ size' = [size EXCEPT ![m] = SizeOf(pool)]
          /\ code' = [code EXCEPT ![m] = c]
          /\ temp' = [temp EXCEPT ![m] = FALSE]
          /\ q' = [q EXCEPT ![n] = Append(@, m)]

--------------------------------------------------------------------------------
(* The threads.                                                             *)

(* main(): a command that is signalled to the user agent.                   *)
TypeCommand ==
    /\ who = << >>
    /\ AllocTo("sipRmg", "COMMAND", "signalQ")
    /\ UNCHANGED <<hand, cleaning, writer, who, isConnected>>

(* main(): the command 'w' asks the threads behind the queues whether they  *)
(* are alive, one after the other.                                          *)
TypeWho ==
    /\ who = << >>
    /\ who' = <<"signalQ", "sendQ", "codecQ", "playQ">>
    /\ UNCHANGED <<size, code, temp, q, hand, cleaning, writer, isConnected>>

(* Mutant: all four memos are taken from rmg.                               *)
AskFromRmg ==
    /\ who # << >>
    /\ AllocTo("rmg", "RESPOND", Head(who))
    /\ who' = Tail(who)
    /\ UNCHANGED <<hand, cleaning, writer, isConnected>>

Ask ==
    /\ who # << >>
    /\ AllocTo(IF Head(who) = "signalQ" THEN "sipRmg" ELSE "rmg", "RESPOND", Head(who))
    /\ who' = Tail(who)
    /\ UNCHANGED <<hand, cleaning, writer, isConnected>>

(* AudioReader::run: a captured fragment.                                   *)
AudioReader ==
    /\ isConnected
    /\ AllocTo("rmg", "MSG_ENC", "codecQ")
    /\ UNCHANGED <<hand, cleaning, writer, who, isConnected>>

(* UdpReader::run: a SIP packet, or an RTP packet while connected.  A read  *)
(* that fails puts the SIP memo back.                                       *)
UdpReader ==
    /\ \/ \E n \in {"signalQ", "sipRmg"} : AllocTo("sipRmg", "SIP_RCVD", n)
       \/ isConnected /\ AllocTo("rmg", "MSG_DEC", "codecQ")
    /\ UNCHANGED <<hand, cleaning, writer, who, isConnected>>

(* waitForData gives thread t the oldest memo of queue n.                   *)
Take(t, n) ==
    /\ hand[t] = NoMemo /\ q[n] # << >>
    /\ hand' = [hand EXCEPT ![t] = Head(q[n])]
    /\ q' = [q EXCEPT ![n] = Tail(@)]
    /\ UNCHANGED <<size, code, temp, cleaning, writer, who, isConnected>>

(* Thread t passes its memo on to queue n (signalData or releaseMemo).      *)
Pass(t, n) ==
    /\ q' = [q EXCEPT ![n] = Append(@, hand[t])]
    /\ hand' = [hand EXCEPT ![t] = NoMemo]

(* Mutant: the codec forgets the memo of 'w'.                               *)
CodecOutForgets ==
    [MSG_ENC |-> [code |-> "MSG_SEND", to |-> "sendQ"],
     MSG_DEC |-> [code |-> "MSG_PLAY", to |-> "playQ"]]

(* AdpcmCodec::run.  A memo of any other code would be lost.                *)
CodecOut ==
    [MSG_ENC |-> [code |-> "MSG_SEND", to |-> "sendQ"],
     MSG_DEC |-> [code |-> "MSG_PLAY", to |-> "playQ"],
     RESPOND |-> [code |-> "RESPOND", to |-> "rmg"]]

Codec ==
    \/ Take("codec", "codecQ")
    \/ LET m == hand["codec"] IN
       /\ m # NoMemo
       /\ IF code[m] \in DOMAIN CodecOut
          THEN /\ code' = [code EXCEPT ![m] = CodecOut[code[m]].code]
               /\ Pass("codec", CodecOut[code[m]].to)
          ELSE hand' = [hand EXCEPT !["codec"] = NoMemo] /\ UNCHANGED <<q, code>>
       /\ UNCHANGED <<size, temp, cleaning, writer, who, isConnected>>

(* Mutant: only a memo that is played goes back.                            *)
AudioWriterHolds ==
    \/ Take("audioWriter", "playQ")
    \/ /\ hand["audioWriter"] # NoMemo /\ isConnected
       /\ Pass("audioWriter", "rmg")
       /\ UNCHANGED <<size, code, temp, cleaning, writer, who, isConnected>>

(* AudioWriter::run: played or dropped, the memo goes back.                 *)
AudioWriter ==
    \/ Take("audioWriter", "playQ")
    \/ /\ hand["audioWriter"] # NoMemo
       /\ Pass("audioWriter", "rmg")
       /\ UNCHANGED <<size, code, temp, cleaning, writer, who, isConnected>>

(* UdpWriter::run, the memo: the pool it goes back to.  A memo of any other *)
(* code would be lost.  An error on the RTP socket ends the call.           *)
UdpOut == [SIP_SEND |-> "sipRmg", MSG_SEND |-> "rmg", RESPOND |-> "rmg"]

(* The wait that brought none has timed out.                                *)
UdpWriter ==
    \/ writer.at = "wait" /\ Take("udpWriter", "sendQ")
    \/ /\ writer.at = "wait" /\ hand["udpWriter"] = NoMemo /\ q["sendQ"] = << >>
       /\ writer' = [writer EXCEPT !.at = "report"]
       /\ UNCHANGED <<size, code, temp, q, hand, cleaning, who, isConnected>>
    \/ LET m == hand["udpWriter"] IN
       /\ m # NoMemo
       /\ IF code[m] \in DOMAIN UdpOut THEN Pass("udpWriter", UdpOut[code[m]])
          ELSE hand' = [hand EXCEPT !["udpWriter"] = NoMemo] /\ UNCHANGED q
       /\ temp' = IF code[m] = "SIP_SEND" THEN [temp EXCEPT ![m] = FALSE] ELSE temp
       /\ isConnected' \in (IF code[m] = "MSG_SEND" THEN {isConnected, FALSE} ELSE {isConnected})
       /\ writer' = [writer EXCEPT !.at = "report"]
       /\ UNCHANGED <<size, code, cleaning, who>>

(* UdpWriter::run, after the memo: if the call is connected, it may be time *)
(* for a sender report, and then both pools are downsized.                  *)
SenderReport ==
    /\ writer.at = "report"
    /\ writer' \in {Waits} \cup (IF isConnected THEN {[writer EXCEPT !.at = "ask"]} ELSE {})
    /\ UNCHANGED <<size, code, temp, q, hand, cleaning, who, isConnected>>

NextPool ==
    IF writer.pool = "rmg" THEN [at |-> "ask", pool |-> "sipRmg", left |-> 0] ELSE Waits

(* downsize looks twice at the size of the pool, which others use           *)
(* meanwhile.  Nothing is to be done for a pool of no more than twice its   *)
(* initial count; otherwise it gives up a share, if that is anything.       *)
DownsizeAsks ==
    /\ writer.at = "ask"
    /\ writer' = IF Len(q[writer.pool]) > 2 * Len(Pools[writer.pool])
               THEN [writer EXCEPT !.at = "count"] ELSE NextPool
    /\ UNCHANGED <<size, code, temp, q, hand, cleaning, who, isConnected>>

DownsizeCounts ==
    /\ writer.at = "count"
    /\ LET n == Len(q[writer.pool]) \div Share IN
       writer' = IF n > 0 THEN [writer EXCEPT !.at = "delete", !.left = n] ELSE NextPool
    /\ UNCHANGED <<size, code, temp, q, hand, cleaning, who, isConnected>>

(* It deletes the oldest memo of the pool, and ends when there is none.     *)
DownsizeDeletes ==
    /\ writer.at = "delete"
    /\ IF q[writer.pool] = << >> THEN writer' = NextPool /\ UNCHANGED <<size, q>>
       ELSE /\ size' = [size EXCEPT ![Head(q[writer.pool])] = "none"]
            /\ q' = [q EXCEPT ![writer.pool] = Tail(@)]
            /\ writer' = IF writer.left > 1 THEN [writer EXCEPT !.left = @ - 1] ELSE NextPool
    /\ UNCHANGED <<code, temp, hand, cleaning, who, isConnected>>

Downsize == DownsizeAsks \/ DownsizeCounts \/ DownsizeDeletes

--------------------------------------------------------------------------------
(* The user agent.                                                          *)

(* Mutant: the memo of the answer is released as well.                      *)
UaHandleReleases ==
    LET m == hand["userAgent"] IN
    /\ m # NoMemo /\ phase = "run"
    /\ code' = [code EXCEPT ![m] = "SIP_SEND"]
    /\ q' = [q EXCEPT !["sendQ"] = Append(@, m), !["sipRmg"] = Append(@, m)]
    /\ hand' = [hand EXCEPT !["userAgent"] = NoMemo]
    /\ UNCHANGED <<size, temp, cleaning, writer, who, isConnected>>

(* A memo from signalQ is discarded, or it carries the answer: to the peer, *)
(* or (sendBusy) to a third party.  Answering and discarding may connect or *)
(* disconnect the call.                                                     *)
UaHandle ==
    LET m == hand["userAgent"] IN
    /\ m # NoMemo /\ phase = "run"
    /\ \/ /\ Pass("userAgent", "sipRmg")
          /\ isConnected' \in (IF code[m] = "SIP_RCVD" THEN BOOLEAN ELSE {isConnected})
          /\ UNCHANGED <<code, temp>>
       \/ /\ code[m] # "RESPOND"
          /\ code' = [code EXCEPT ![m] = "SIP_SEND"]
          /\ Pass("userAgent", "sendQ")
          /\ isConnected' \in BOOLEAN
          /\ UNCHANGED temp
       \/ /\ code[m] = "SIP_RCVD"
          /\ code' = [code EXCEPT ![m] = "SIP_SEND"]
          /\ temp' = [temp EXCEPT ![m] = TRUE]
          /\ Pass("userAgent", "sendQ")
          /\ UNCHANGED isConnected
    /\ UNCHANGED <<size, cleaning, writer, who>>

(* A packet that does not parse: the memo is neither used nor released.     *)
UaUnparsable ==
    /\ hand["userAgent"] # NoMemo /\ phase = "run"
    /\ code[hand["userAgent"]] = "SIP_RCVD"
    /\ hand' = [hand EXCEPT !["userAgent"] = NoMemo]
    /\ UNCHANGED <<size, code, temp, q, cleaning, writer, who, isConnected>>

(* The wait timed out: RINGING or BYE is repeated.                          *)
UaRepeat ==
    /\ hand["userAgent"] = NoMemo /\ q["signalQ"] = << >> /\ phase = "run"
    /\ AllocTo("sipRmg", "SIP_SEND", "sendQ")
    /\ UNCHANGED <<hand, cleaning, writer, who, isConnected>>

(* Mutant: cleanup() leaves the call connected.                             *)
UaCleanupConnected ==
    /\ phase = "run"
    /\ IF hand["userAgent"] = NoMemo THEN q["signalQ"] = << >>
                                       ELSE code[hand["userAgent"]] = "SIP_RCVD"
    /\ phase' = "sendQ"
    /\ UNCHANGED <<size, code, temp, q, hand, counted, writer, who, isConnected>>

(* cleanup(), on a timeout or on the OK that answers BYE.                   *)
UaCleanup ==
    /\ phase = "run"
    /\ IF hand["userAgent"] = NoMemo THEN q["signalQ"] = << >>
                                       ELSE code[hand["userAgent"]] = "SIP_RCVD"
    /\ isConnected' = FALSE
    /\ phase' = "sendQ"
    /\ UNCHANGED <<size, code, temp, q, hand, counted, writer, who>>

NextPhase == [sendQ |-> "codecQ", codecQ |-> "playQ", playQ |-> "run"]

(* emptyQueue on the three queues in turn: it asks whether the queue is     *)
(* empty, and takes a memo, which is NULL if another thread was faster.     *)
(* Then the memo of the OK is released.                                     *)
UaCounts ==
    /\ phase # "run" /\ ~ counted
    /\ IF q[phase] # << >> THEN counted' = TRUE /\ UNCHANGED <<phase, q, hand>>
       ELSE /\ phase' = NextPhase[phase]
            /\ IF phase = "playQ" /\ hand["userAgent"] # NoMemo
               THEN Pass("userAgent", "sipRmg") ELSE UNCHANGED <<q, hand>>
            /\ UNCHANGED counted
    /\ UNCHANGED <<size, code, temp, writer, who, isConnected>>

(* Mutant: sendQ is emptied into the pool of its signalling memos.          *)
UaDequeuesHome ==
    /\ counted
    /\ counted' = FALSE
    /\ q' = IF q[phase] = << >> THEN q
            ELSE Transfer(phase, IF size[Head(q[phase])] = "sip" THEN "sipRmg" ELSE "rmg")
    /\ UNCHANGED <<size, code, temp, hand, phase, writer, who, isConnected>>

(* Every memo goes to rmg, those of signalling in sendQ too.                *)
UaDequeues ==
    /\ counted
    /\ counted' = FALSE
    /\ q' = IF q[phase] = << >> THEN q ELSE Transfer(phase, "rmg")
    /\ UNCHANGED <<size, code, temp, hand, phase, writer, who, isConnected>>

UaFlush == UaCounts \/ UaDequeues

UserAgent ==
    \/ phase = "run" /\ Take("userAgent", "signalQ")
    \/ UaHandle \/ UaUnparsable \/ UaRepeat \/ UaCleanup \/ UaFlush

User == TypeCommand \/ TypeWho \/ Ask

Next == \/ User \/ AudioReader \/ UdpReader \/ Codec \/ AudioWriter
        \/ UdpWriter \/ SenderReport \/ Downsize \/ UserAgent

Spec == Init /\ [][Next]_vars

(* The threads behind the queues keep running.  The threads that produce    *)
(* memos owe nothing, and the user does not type for ever.                  *)
FairSpec ==
    /\ Spec
    /\ WF_vars(Codec) /\ WF_vars(AudioWriter) /\ WF_vars(UdpWriter)
    /\ WF_vars(SenderReport) /\ WF_vars(Downsize)
    /\ WF_vars(UaHandle) /\ WF_vars(UaFlush)
    /\ <>[][~ User]_vars

--------------------------------------------------------------------------------
(* The types of the variables, and the names a code and a queue can have.   *)
TypeOK ==
    /\ size \in [Memo -> {"none", "rtp", "sip"}]
    /\ code \in [Memo -> Codes]
    /\ temp \in [Memo -> BOOLEAN]
    /\ q \in [Queues -> Seq(Memo)]
    /\ hand \in [Holders -> Memo \cup {NoMemo}]
    /\ phase \in DOMAIN NextPhase \cup {"run"} /\ counted \in BOOLEAN
    /\ writer \in Writing
    /\ who \in Seq(Queues)
    /\ isConnected \in BOOLEAN

(* The places where memo m is: positions in queues, and hands.              *)
Places(m) ==
    (UNION {{n} \X {i \in DOMAIN q[n] : q[n][i] = m} : n \in Queues})
        \cup ({"hand"} \X {t \in Holders : hand[t] = m})

(* No two threads use a memo at the same time: it is in one place at most,  *)
(* although every thread hands memos on without a lock, and cleanup() takes *)
(* them from queues that others fill and empty.  A memo that was deleted is *)
(* in no place.                                                             *)
OneOwner ==
    \A m \in Memo : Cardinality(Places(m)) <= (IF size[m] = "none" THEN 0 ELSE 1)

(* Memos are lost only with a packet that does not parse: neither the codec *)
(* nor any other thread meets a memo it does not know how to pass on.       *)
OnlyUnparsedLost ==
    \A m \in Memo : (size[m] # "none" /\ Places(m) = {}) => code[m] = "SIP_RCVD"

(* A SIP message is written only into memos of the size of SIP messages:    *)
(* no audio memo gets into sipRmg, signalQ or the hands of the user agent,  *)
(* although memos of signalling do get into rmg.                            *)
SipMemosFit ==
    \A m \in Elements(q["sipRmg"]) \cup Elements(q["signalQ"]) \cup ({hand["userAgent"]} \cap Memo) :
        size[m] = "sip"

(* Only sendBusy sets data2, and only UdpWriter clears it: no memo that may *)
(* carry the next message to the peer still says that it is for a third     *)
(* party, not even one whose BUSY was never sent.                           *)
TempOnlyForBusy ==
    \A m \in Elements(q["sipRmg"]) \cup Elements(q["signalQ"]) \cup ({hand["userAgent"]} \cap Memo) :
        ~ temp[m]

(* cleanup() comes to an end, although other threads may refill the queues  *)
(* it empties: it has cleared isConnected, which stops them.                *)
CleanupEnds == (phase # "run") ~> (phase = "run")

(* A memo that is queued or held goes back to a pool, unless it is lost.    *)
MemoReturns ==
    \A m \in Memo :
        (\E n \in {"sendQ", "codecQ", "playQ"} : m \in Elements(q[n]))
            ~> (m \in Elements(q["rmg"]) \cup Elements(q["sipRmg"]))
================================================================================

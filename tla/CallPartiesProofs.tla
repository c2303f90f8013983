--------------------------- MODULE CallPartiesProofs ---------------------------
(***************************************************************************)
(* Proofs about SipCalls that follow a call through several agents: who    *)
(* takes part in it, which call the user's answer goes to, and that the    *)
(* agents implement PhoneCalls.                                            *)
(*                                                                         *)
(* First every pass of UserAgent::run is sorted into a few outcomes; the   *)
(* invariants are then proved outcome by outcome.                          *)
(***************************************************************************)
EXTENDS SipCallsProofs, CallHistory

--------------------------------------------------------------------------------
(* What a pass of the loop makes of the agent's record u.                  *)

SameCall(u, v) == v.callId = u.callId /\ v.callIdHost = u.callIdHost

Writes(u, v, types) ==
    \E m \in SendMemo : m.type \in types /\ v.sendQ = Append(u.sendQ, m)

(* An OK names the call the agent takes part in.                           *)
WritesOk(u, v) ==
    v.sendQ = Append(u.sendQ, [type |-> "OK", callId |-> u.callId, temp |-> FALSE])

Stay(u, v) ==
    /\ v.state = u.state /\ SameCall(u, v)
    /\ v.sendQ = u.sendQ \/ Writes(u, v, {"BUSY", "RING", "BYE"})

Answer(u, v) ==
    /\ u.state = "RCVD_INV" /\ SameCall(u, v)
    /\ \/ v.state = "ACCEPTED" /\ WritesOk(u, v)
       \/ v.state = "REJECTED" /\ Writes(u, v, {"DECLINE"})

Acked(u, v) ==
    /\ u.state = "ACCEPTED" /\ v.state = "IN_CALL"
    /\ SameCall(u, v) /\ v.sendQ = u.sendQ

Connect(u, v) ==
    /\ u.state = "SENT_INV" /\ v.state = "IN_CALL"
    /\ SameCall(u, v) /\ Writes(u, v, {"ACK"})

RingAgain(u, v) ==
    /\ u.state = "ACCEPTED" /\ v.state = "RCVD_INV"
    /\ SameCall(u, v) /\ Writes(u, v, {"RING"})

HangUp(u, v) ==
    /\ u.state = "IN_CALL" /\ v.state = "SENT_BYE"
    /\ SameCall(u, v) /\ Writes(u, v, {"BYE"})

Over(u, v) ==
    /\ v.state = "DISCONNECTED"
    /\ v.sendQ \in {u.sendQ, << >>} \/ (u.state = "IN_CALL" /\ WritesOk(u, v))

StartCall(u, v, c) ==
    /\ u.state = "DISCONNECTED" /\ v.state = "SENT_INV"
    /\ v.callId = c /\ v.callIdHost = "local"
    /\ v.sendQ = Append(u.sendQ, [type |-> "INVITE", callId |-> c, temp |-> FALSE])

StartRing(u, v, c) ==
    /\ u.state = "DISCONNECTED" /\ v.state = "RCVD_INV"
    /\ v.callId = c /\ v.callIdHost = "heap"
    /\ Writes(u, v, {"RING"})

(* The memo of a pass has left signalQ.                                    *)
Took(a) == signalQ[a] # << >> /\ signalQ' = [signalQ EXCEPT ![a] = Tail(@)]

Packeted(a) == Head(signalQ[a]).code = "SIP_RCVD"

(* A pass with a memo, or without one.                                     *)
Outcome(a, v) ==
    LET u == ua[a]
        m == Head(signalQ[a]) IN
    \/ /\ signalQ[a] = << >> /\ UNCHANGED <<signalQ, drawn>>
       /\ Stay(u, v) \/ RingAgain(u, v) \/ Over(u, v)
    \/ /\ Took(a) /\ UNCHANGED drawn
       /\ \/ Stay(u, v)
          \/ Over(u, v) /\ u.state # "RCVD_INV"
          \/ HangUp(u, v)
          \/ Answer(u, v) /\ m.code \in {"SIP_ACCEPT", "SIP_REJECT"}
          \/ Connect(u, v) /\ Packeted(a) /\ m.pkt.type = "OK" /\ m.pkt.callId = u.callId
          \/ Acked(u, v) /\ Packeted(a) /\ m.pkt.type = "ACK" /\ m.pkt.callId = u.callId
          \/ /\ StartRing(u, v, m.pkt.callId)
             /\ Packeted(a) /\ m.pkt.type = "INVITE"
    \/ /\ Took(a)
       /\ \E c \in CallId \ drawn : drawn' = drawn \cup {c} /\ StartCall(u, v, c)

--------------------------------------------------------------------------------
(* The functions of the user agent, as outcomes.                           *)

(* Writing a packet appends one memo and changes nothing else.             *)
LEMMA EnqueueWrites ==
    ASSUME NEW u \in UARecord, NEW t \in {"INVITE", "ACK", "BYE"} \cup Responses,
           NEW c \in CallId \cup {NoCall}, NEW b \in BOOLEAN
    PROVE  /\ Writes(u, Enqueue(u, t, c, b), {t})
           /\ Enqueue(u, t, c, b).sendQ
                = Append(u.sendQ, [type |-> t, callId |-> c, temp |-> b])
           /\ Enqueue(u, t, c, b).state = u.state
           /\ SameCall(u, Enqueue(u, t, c, b))
           /\ Enqueue(u, t, c, b) \in UARecord
<1> DEFINE m == [type |-> t, callId |-> c, temp |-> b]
<1>1. m \in SendMemo /\ m.type \in {t}
  BY DEF SendMemo
<1>2. /\ Enqueue(u, t, c, b).sendQ = Append(u.sendQ, m)
      /\ Enqueue(u, t, c, b).state = u.state
      /\ SameCall(u, Enqueue(u, t, c, b))
  BY DEF Enqueue, UARecord, SameCall
<1> QED
  BY <1>1, <1>2, EnqueueType DEF Writes

LEMMA WritesOkWrites ==
    ASSUME NEW u \in UARecord, NEW v, WritesOk(u, v)
    PROVE  Writes(u, v, {"OK"})
<1>1. [type |-> "OK", callId |-> u.callId, temp |-> FALSE] \in SendMemo
  BY DEF UARecord, SendMemo, Responses
<1> QED
  BY <1>1 DEF WritesOk, Writes

(* sendBusy leaves the agent where it is.                                  *)
LEMMA CheckSrcStays ==
    ASSUME NEW u, NEW q, Good(u), q \in UARecord, NEW p \in Packet,
           q.state = u.state, SameCall(u, q), q.sendQ = u.sendQ
    PROVE  Stay(u, CheckSrc(q, p))
<1>1. CASE p.callId = q.callId
  BY <1>1 DEF CheckSrc, Stay
<1>2. CASE p.callId # q.callId
  <2> DEFINE v == Enqueue(q, "BUSY", p.callId, TRUE)
             r == Resolve(v.tempAddr, p.from)
  <2>1. "BUSY" \in Responses /\ p.callId \in CallId \cup {NoCall}
    BY DEF Responses, Packet
  <2>2. /\ v \in UARecord /\ v.state = q.state /\ SameCall(q, v)
        /\ Writes(q, v, {"BUSY"})
    BY <2>1, EnqueueWrites
  <2> HIDE DEF v, r
  <2> DEFINE w == [v EXCEPT !.sendCallId = p.callId, !.tempAddr = r]
  <2>3. w.state = v.state /\ SameCall(v, w) /\ w.sendQ = v.sendQ
    BY <2>2 DEF UARecord, SameCall
  <2>4. CheckSrc(q, p) = w
    BY <1>2 DEF CheckSrc, SendBusy, v, r
  <2>5. w.state = u.state /\ SameCall(u, w) /\ Writes(u, w, {"BUSY", "RING", "BYE"})
    BY <2>2, <2>3 DEF SameCall, Writes
  <2> QED
    BY <2>4, <2>5 DEF Stay
<1> QED
  BY <1>1, <1>2

(* Parsing a packet, and any change of other fields, leaves the call alone. *)
LEMMA ParsedSame ==
    ASSUME NEW u \in UARecord, NEW p \in Packet
    PROVE  /\ Parsed(u, p) \in UARecord
           /\ Parsed(u, p).state = u.state
           /\ SameCall(u, Parsed(u, p))
           /\ Parsed(u, p).sendQ = u.sendQ
           /\ Parsed(u, p).sendCallId = u.sendCallId
<1>1. p.from \in Host
  BY DEF Packet
<1> QED
  BY <1>1 DEF Parsed, UARecord, SameCall

(* cleanup() ends the call.                                                *)
LEMMA CleanupOver ==
    ASSUME NEW u, NEW q \in UARecord
    PROVE  Over(u, Cleanup(q))
  BY DEF Over, Cleanup, UARecord

(* sendRinging writes RINGING for the call it finds.                       *)
LEMMA SendRingingWrites ==
    ASSUME NEW u \in UARecord
    PROVE  /\ SendRinging(u).state = "RCVD_INV"
           /\ SameCall(u, SendRinging(u))
           /\ Writes(u, SendRinging(u), {"RING"})
<1> DEFINE v == Enqueue(u, "RING", u.callId, FALSE)
           r == Resolve(v.sipAddr, u.remoteHost)
           s == Resolve(v.rtpAddr, u.remoteHost)
<1>1. "RING" \in Responses /\ u.callId \in CallId \cup {NoCall}
  BY DEF Responses, UARecord
<1>2. v \in UARecord /\ SameCall(u, v) /\ Writes(u, v, {"RING"})
  BY <1>1, EnqueueWrites
<1> HIDE DEF v, r, s
<1> DEFINE w == [v EXCEPT !.sendCallId = u.callId, !.sipAddr = r, !.rtpAddr = s,
                          !.remoteHost = u.contact, !.state = "RCVD_INV",
                          !.isRinging = TRUE, !.defaultAction = "SEND_RING"]
<1>3. w.state = "RCVD_INV" /\ SameCall(v, w) /\ w.sendQ = v.sendQ
  BY <1>2 DEF UARecord, SameCall
<1>4. SendRinging(u) = w
  BY DEF SendRinging, v, r, s
<1> QED
  BY <1>2, <1>3, <1>4 DEF SameCall, Writes

(* sendBye writes BYE and waits for the answer.                            *)
LEMMA SendByeWrites ==
    ASSUME NEW u \in UARecord
    PROVE  /\ SendBye(u).state = "SENT_BYE"
           /\ SameCall(u, SendBye(u))
           /\ Writes(u, SendBye(u), {"BYE"})
<1> DEFINE v == Enqueue(u, "BYE", u.sendCallId, FALSE)
<1>1. u.sendCallId \in CallId \cup {NoCall}
  BY DEF UARecord
<1>2. v \in UARecord /\ SameCall(u, v) /\ Writes(u, v, {"BYE"})
  BY <1>1, EnqueueWrites
<1> HIDE DEF v
<1> DEFINE w == [v EXCEPT !.state = "SENT_BYE", !.defaultAction = "BYE"]
<1>3. w.state = "SENT_BYE" /\ SameCall(v, w) /\ w.sendQ = v.sendQ
  BY <1>2 DEF UARecord, SameCall
<1>4. SendBye(u) = w
  BY DEF SendBye, v
<1> QED
  BY <1>2, <1>3, <1>4 DEF SameCall, Writes

(* A timeout repeats RINGING or BYE, goes back to ringing, or ends the call *)
(* for good: the default actions fit the states (AgentInv).                *)
LEMMA TimeoutOutcome ==
    ASSUME NEW u, Good(u), u.defaultAction # "NONE"
    PROVE  LET v == DefaultAction(u) IN
           Stay(u, v) \/ RingAgain(u, v) \/ Over(u, v)
<1>1. u \in UARecord /\ u.state \in PendingStates[u.defaultAction]
  BY DEF Good, AgentInv
<1>2. CASE u.defaultAction \in {"DISCONN", "CONN", "INCOMING"}
  BY <1>1, <1>2, CleanupOver DEF DefaultAction
<1>3. ASSUME Repeats(u)
      PROVE  /\ Counted(u) \in UARecord /\ Counted(u).state = u.state
             /\ SameCall(u, Counted(u)) /\ Counted(u).sendQ = u.sendQ
  <2>1. u.rptCount \in 0 .. RptLimit /\ u.rptCount + 1 \in 0 .. RptLimit
    BY <1>1, <1>3, RptAssumption DEF UARecord, Repeats
  <2> QED
    BY <1>1, <2>1 DEF UARecord, Counted, SameCall
<1>4. CASE u.defaultAction = "BYE"
  <2>1. u.state = "SENT_BYE"
    BY <1>1, <1>4 DEF PendingStates
  <2>2. CASE Repeats(u)
    <3>1. /\ SendBye(Counted(u)).state = u.state
          /\ SameCall(u, SendBye(Counted(u)))
          /\ Writes(u, SendBye(Counted(u)), {"BUSY", "RING", "BYE"})
      BY <1>3, <2>1, <2>2, SendByeWrites DEF SameCall, Writes
    <3> QED
      BY <1>4, <2>2, <3>1 DEF DefaultAction, Stay
  <2>3. CASE ~ Repeats(u)
    <3>1. DefaultAction(u) = [u EXCEPT !.rptCount = 0, !.state = "DISCONNECTED",
                                       !.defaultAction = "DISCONN"]
      BY <1>4, <2>3 DEF DefaultAction
    <3> QED
      BY <1>1, <3>1 DEF UARecord, Over
  <2> QED
    BY <2>2, <2>3
<1>5. CASE u.defaultAction = "SEND_RING"
  <2>1. u.state \in {"RCVD_INV", "ACCEPTED"}
    BY <1>1, <1>5 DEF PendingStates
  <2>2. CASE Repeats(u)
    <3>1. /\ SendRinging(Counted(u)).state = "RCVD_INV"
          /\ SameCall(u, SendRinging(Counted(u)))
          /\ Writes(u, SendRinging(Counted(u)), {"RING"})
          /\ Writes(u, SendRinging(Counted(u)), {"BUSY", "RING", "BYE"})
      BY <1>3, <2>2, SendRingingWrites DEF SameCall, Writes
    <3> QED
      BY <1>5, <2>1, <2>2, <3>1 DEF DefaultAction, Stay, RingAgain
  <2>3. CASE ~ Repeats(u)
    <3>1. DefaultAction(u) = [u EXCEPT !.rptCount = 0, !.defaultAction = "INCOMING"]
      BY <1>5, <2>3 DEF DefaultAction
    <3> QED
      BY <1>1, <3>1 DEF UARecord, Stay, SameCall
  <2> QED
    BY <2>2, <2>3
<1> QED
  BY <1>1, <1>2, <1>4, <1>5 DEF UARecord, DefaultActions

(* VIVOCE_SIP_ACCEPT and VIVOCE_SIP_REJECT while a call rings.             *)
LEMMA AnswerOutcome ==
    ASSUME NEW u \in UARecord, u.state = "RCVD_INV"
    PROVE  /\ Answer(u, [SendOk(u) EXCEPT !.state = "ACCEPTED", !.isRinging = FALSE])
           /\ Answer(u, [SendDecline(u) EXCEPT !.isRinging = FALSE])
<1>1. u.callId \in CallId \cup {NoCall} /\ u.sendCallId \in CallId \cup {NoCall}
  BY DEF UARecord
<1>2. "OK" \in Responses /\ "DECLINE" \in Responses
  BY DEF Responses
<1>3. Answer(u, [SendOk(u) EXCEPT !.state = "ACCEPTED", !.isRinging = FALSE])
  <2> DEFINE v == Enqueue(u, "OK", u.callId, FALSE)
             w == [[v EXCEPT !.sendCallId = u.callId]
                      EXCEPT !.state = "ACCEPTED", !.isRinging = FALSE]
  <2>1. v \in UARecord /\ SameCall(u, v) /\ Writes(u, v, {"OK"})
    BY <1>1, <1>2, EnqueueWrites
  <2>2. [SendOk(u) EXCEPT !.state = "ACCEPTED", !.isRinging = FALSE] = w
    BY DEF SendOk
  <2> HIDE DEF v
  <2>3. w.state = "ACCEPTED" /\ SameCall(v, w) /\ w.sendQ = v.sendQ
    BY <2>1 DEF UARecord, SameCall
  <2>4. SameCall(u, w)
    BY <2>1, <2>3 DEF SameCall
  <2>5. WritesOk(u, w)
    BY <1>1, <1>2, <2>3, EnqueueWrites DEF v, WritesOk
  <2> QED
    BY <2>2, <2>3, <2>4, <2>5 DEF Answer
<1>4. Answer(u, [SendDecline(u) EXCEPT !.isRinging = FALSE])
  <2> DEFINE v == Enqueue(u, "DECLINE", u.sendCallId, FALSE)
             w == [[v EXCEPT !.state = "REJECTED", !.defaultAction = "DISCONN"]
                      EXCEPT !.isRinging = FALSE]
  <2>1. v \in UARecord /\ SameCall(u, v) /\ Writes(u, v, {"DECLINE"})
    BY <1>1, <1>2, EnqueueWrites
  <2>2. [SendDecline(u) EXCEPT !.isRinging = FALSE] = w
    BY DEF SendDecline
  <2> HIDE DEF v
  <2>3. w.state = "REJECTED" /\ SameCall(v, w) /\ w.sendQ = v.sendQ
    BY <2>1 DEF UARecord, SameCall
  <2>4. SameCall(u, w) /\ Writes(u, w, {"DECLINE"})
    BY <2>1, <2>3 DEF SameCall, Writes
  <2> QED
    BY <2>2, <2>3, <2>4 DEF Answer
<1> QED
  BY <1>3, <1>4

(* OK on a waiting caller, whose parsed record is q.                       *)
LEMMA ConnectOutcome ==
    ASSUME NEW u \in UARecord, NEW q \in UARecord, u.state = "SENT_INV",
           SameCall(u, q), q.sendQ = u.sendQ
    PROVE  Connect(u, [SendAck([q EXCEPT !.rtpAddr = Resolve(@, q.remoteHost)])
                          EXCEPT !.isRinging = FALSE])
<1> DEFINE r == Resolve(q.rtpAddr, q.remoteHost)
           t == [q EXCEPT !.rtpAddr = r]
           v == Enqueue(t, "ACK", t.sendCallId, FALSE)
           w == [[v EXCEPT !.state = "IN_CALL", !.isConnected = TRUE,
                           !.defaultAction = "NONE"] EXCEPT !.isRinging = FALSE]
<1>1. r \in Host \cup {NoHost}
  BY ResolveType DEF UARecord
<1>2. [SendAck([q EXCEPT !.rtpAddr = Resolve(@, q.remoteHost)]) EXCEPT !.isRinging = FALSE] = w
  BY DEF SendAck
<1> HIDE DEF r
<1>3. t \in UARecord /\ SameCall(q, t) /\ t.sendQ = q.sendQ
  BY <1>1 DEF UARecord, SameCall
<1> HIDE DEF t
<1>4. v \in UARecord /\ SameCall(t, v) /\ Writes(t, v, {"ACK"})
  <2>1. t.sendCallId \in CallId \cup {NoCall}
    BY <1>3 DEF UARecord
  <2> QED
    BY <1>3, <2>1, EnqueueWrites
<1> HIDE DEF v
<1>5. w.state = "IN_CALL" /\ SameCall(v, w) /\ w.sendQ = v.sendQ
  BY <1>4 DEF UARecord, SameCall
<1>6. SameCall(u, w) /\ Writes(u, w, {"ACK"})
  BY <1>3, <1>4, <1>5 DEF SameCall, Writes
<1> QED
  BY <1>2, <1>5, <1>6 DEF Connect

(* BYE in a call, received (q is the parsed record) or typed.              *)
LEMMA ByeOutcome ==
    ASSUME NEW u \in UARecord, NEW q \in UARecord, u.state = "IN_CALL",
           SameCall(u, q), q.sendQ = u.sendQ
    PROVE  /\ Over(u, [SendOk(q) EXCEPT !.isConnected = FALSE, !.defaultAction = "DISCONN",
                                        !.state = "DISCONNECTED"])
           /\ HangUp(u, SendBye([u EXCEPT !.isConnected = FALSE, !.rptCount = 0]))
<1>1. Over(u, [SendOk(q) EXCEPT !.isConnected = FALSE, !.defaultAction = "DISCONN",
                                !.state = "DISCONNECTED"])
  <2> DEFINE v == Enqueue(q, "OK", q.callId, FALSE)
             w == [[v EXCEPT !.sendCallId = q.callId]
                      EXCEPT !.isConnected = FALSE, !.defaultAction = "DISCONN",
                             !.state = "DISCONNECTED"]
  <2>1. q.callId \in CallId \cup {NoCall} /\ "OK" \in Responses
    BY DEF UARecord, Responses
  <2>2. /\ v \in UARecord
        /\ v.sendQ = Append(q.sendQ, [type |-> "OK", callId |-> q.callId, temp |-> FALSE])
    BY <2>1, EnqueueWrites
  <2>3. [SendOk(q) EXCEPT !.isConnected = FALSE, !.defaultAction = "DISCONN",
                          !.state = "DISCONNECTED"] = w
    BY DEF SendOk
  <2> HIDE DEF v
  <2>4. w.state = "DISCONNECTED" /\ w.sendQ = v.sendQ
    BY <2>2 DEF UARecord
  <2>5. WritesOk(u, w)
    BY <2>2, <2>4 DEF WritesOk, SameCall
  <2> QED
    BY <2>3, <2>4, <2>5 DEF Over
<1>2. HangUp(u, SendBye([u EXCEPT !.isConnected = FALSE, !.rptCount = 0]))
  <2> DEFINE t == [u EXCEPT !.isConnected = FALSE, !.rptCount = 0]
  <2>1. t \in UARecord /\ SameCall(u, t) /\ t.sendQ = u.sendQ
    <3>1. 0 \in 0 .. RptLimit
      BY RptAssumption
    <3> QED
      BY <3>1 DEF UARecord, SameCall
  <2> HIDE DEF t
  <2>2. /\ SendBye(t).state = "SENT_BYE" /\ SameCall(t, SendBye(t))
        /\ Writes(t, SendBye(t), {"BYE"})
    BY <2>1, SendByeWrites
  <2>3. SameCall(u, SendBye(t)) /\ Writes(u, SendBye(t), {"BYE"})
    BY <2>1, <2>2 DEF SameCall, Writes
  <2> QED
    BY <2>2, <2>3 DEF HangUp, t
<1> QED
  BY <1>1, <1>2

(* VIVOCE_SIP_INVITE on an idle agent, and an INVITE that reaches one.     *)
LEMMA StartOutcome ==
    ASSUME NEW u \in UARecord, u.state = "DISCONNECTED"
    PROVE  /\ \A h \in Host \cup {BadHost, NoHost}, c \in CallId :
                 StartCall(u, [SendInvite([u EXCEPT !.remoteHost = h], c)
                                  EXCEPT !.isConnected = FALSE], c)
           /\ \A q \in UARecord, p \in Packet :
                 q.sendQ = u.sendQ =>
                   StartRing(u, SendRinging([q EXCEPT !.callId = p.callId,
                                                 !.callIdHost = "heap",
                                                 !.remoteHost = p.from]), p.callId)
<1>1. ASSUME NEW h \in Host \cup {BadHost, NoHost}, NEW c \in CallId
      PROVE  StartCall(u, [SendInvite([u EXCEPT !.remoteHost = h], c)
                              EXCEPT !.isConnected = FALSE], c)
  <2> DEFINE t == [u EXCEPT !.remoteHost = h]
             v == Enqueue(t, "INVITE", c, FALSE)
             r == Resolve(v.sipAddr, t.remoteHost)
             w == [[v EXCEPT !.callId = c, !.callIdHost = "local", !.sendCallId = c,
                       !.sipAddr = r, !.state = "SENT_INV", !.defaultAction = "CONN"]
                     EXCEPT !.isConnected = FALSE]
  <2>1. t \in UARecord /\ t.sendQ = u.sendQ
    BY DEF UARecord
  <2>2. [SendInvite(t, c) EXCEPT !.isConnected = FALSE] = w
    BY DEF SendInvite
  <2> HIDE DEF t
  <2>3. /\ v \in UARecord
        /\ v.sendQ = Append(t.sendQ, [type |-> "INVITE", callId |-> c, temp |-> FALSE])
    BY <2>1, EnqueueWrites
  <2> HIDE DEF v, r
  <2>4. /\ w.state = "SENT_INV" /\ w.callId = c /\ w.callIdHost = "local"
        /\ w.sendQ = v.sendQ
    BY <2>3 DEF UARecord
  <2>5. StartCall(u, w, c)
    BY <2>1, <2>3, <2>4 DEF StartCall
  <2> QED
    BY <2>2, <2>5 DEF t
<1>2. ASSUME NEW q \in UARecord, NEW p \in Packet, q.sendQ = u.sendQ
      PROVE  StartRing(u, SendRinging([q EXCEPT !.callId = p.callId, !.callIdHost = "heap",
                                                !.remoteHost = p.from]), p.callId)
  <2> DEFINE t == [q EXCEPT !.callId = p.callId, !.callIdHost = "heap", !.remoteHost = p.from]
  <2>1. p.callId \in CallId \cup {NoCall} /\ p.from \in Host /\ "heap" \in HostPointers
    BY DEF Packet, HostPointers
  <2>2. /\ t \in UARecord /\ t.callId = p.callId /\ t.callIdHost = "heap"
        /\ t.sendQ = u.sendQ
    BY <1>2, <2>1 DEF UARecord
  <2> HIDE DEF t
  <2>3. /\ SendRinging(t).state = "RCVD_INV" /\ SameCall(t, SendRinging(t))
        /\ Writes(t, SendRinging(t), {"RING"})
    BY <2>2, SendRingingWrites
  <2>4. StartRing(u, SendRinging(t), p.callId)
    BY <2>2, <2>3 DEF StartRing, SameCall, Writes
  <2> QED
    BY <2>4 DEF t
<1> QED
  BY <1>1, <1>2

(* Every pass of the user agent thread has one of the outcomes.            *)
LEMMA StepOutcome ==
    ASSUME IndInv, NEW a \in Agent, UserAgentStep(a)
    PROVE  \E v : ua' = [ua EXCEPT ![a] = v] /\ Outcome(a, v)
<1> DEFINE u == ua[a]
           m == Head(signalQ[a])
           p == m.pkt
           q == Parsed(u, p)
<1>1. Good(u) /\ u \in UARecord
  BY DEF IndInv, TypeOK, PendingActionFits, Good
<1>2. Stay(u, u)
  BY DEF Stay, SameCall
<1>3. ASSUME NEW v, Handle(a, v), signalQ[a] # << >>
      PROVE  ua' = [ua EXCEPT ![a] = v] /\ Took(a)
  BY <1>3 DEF Handle, Took
<1>4. ASSUME signalQ[a] # << >>, m.code = "SIP_RCVD"
      PROVE  /\ p \in Packet /\ q \in UARecord /\ q.state = u.state
             /\ SameCall(u, q) /\ q.sendQ = u.sendQ
             /\ Stay(u, CheckSrc(q, p)) /\ Stay(u, q) /\ Packeted(a)
  <2>1. p \in Packet
    BY <1>4, HeadMemo DEF IndInv
  <2>2. q \in UARecord /\ q.state = u.state /\ SameCall(u, q) /\ q.sendQ = u.sendQ
    BY <1>1, <2>1, ParsedSame
  <2> HIDE DEF q, u, p
  <2>3. Stay(u, CheckSrc(q, p))
    BY <1>1, <2>1, <2>2, CheckSrcStays
  <2>4. Stay(u, q)
    BY <2>2 DEF Stay
  <2> QED
    BY <1>4, <2>1, <2>2, <2>3, <2>4 DEF Packeted
<1>5. CASE CmdInvite(a)
  <2>1. signalQ[a] # << >> /\ m.host \in Host \cup {NoHost, BadHost}
    BY <1>5, HeadMemo DEF CmdInvite, HasMemo, IndInv
  <2>2. CASE Handle(a, u) /\ UNCHANGED drawn
    BY <1>2, <1>3, <2>1, <2>2 DEF Outcome
  <2>3. ASSUME u.state = "DISCONNECTED", NEW c \in CallId \ drawn, drawn' = drawn \cup {c},
               Handle(a, [SendInvite([u EXCEPT !.remoteHost = m.host], c)
                             EXCEPT !.isConnected = FALSE])
        PROVE  \E v : ua' = [ua EXCEPT ![a] = v] /\ Outcome(a, v)
    <3> DEFINE v == [SendInvite([u EXCEPT !.remoteHost = m.host], c)
                        EXCEPT !.isConnected = FALSE]
    <3>1. StartCall(u, v, c)
      BY <1>1, <2>1, <2>3, StartOutcome
    <3>2. ua' = [ua EXCEPT ![a] = v] /\ Took(a)
      BY <1>3, <2>1, <2>3
    <3> HIDE DEF v
    <3>3. Outcome(a, v)
      BY <2>3, <3>1, <3>2 DEF Outcome
    <3> QED
      BY <3>2, <3>3
  <2> QED
    BY <1>5, <2>2, <2>3 DEF CmdInvite, FreshCallIds
<1>6. CASE CmdBye(a)
  <2>1. signalQ[a] # << >> /\ UNCHANGED drawn
    BY <1>6 DEF CmdBye, HasMemo
  <2>2. CASE Handle(a, u)
    BY <1>2, <1>3, <2>1, <2>2 DEF Outcome
  <2>3. ASSUME u.isConnected,
               Handle(a, SendBye([u EXCEPT !.isConnected = FALSE, !.rptCount = 0]))
        PROVE  \E v : ua' = [ua EXCEPT ![a] = v] /\ Outcome(a, v)
    <3> DEFINE v == SendBye([u EXCEPT !.isConnected = FALSE, !.rptCount = 0])
    <3>1. u.state = "IN_CALL"
      BY <1>1, <2>3 DEF Good, AgentInv
    <3>2. HangUp(u, v)
      BY <1>1, <3>1, ByeOutcome DEF SameCall
    <3>3. ua' = [ua EXCEPT ![a] = v] /\ Took(a)
      BY <1>3, <2>1, <2>3
    <3> HIDE DEF v
    <3> QED
      BY <2>1, <3>2, <3>3 DEF Outcome
  <2> QED
    BY <1>6, <2>2, <2>3 DEF CmdBye
<1>7. CASE CmdAccept(a)
  <2>1. signalQ[a] # << >> /\ m.code = "SIP_ACCEPT" /\ UNCHANGED drawn
    BY <1>7 DEF CmdAccept, HasMemo
  <2>2. CASE Handle(a, u)
    BY <1>2, <1>3, <2>1, <2>2 DEF Outcome
  <2>3. CASE u.state = "RCVD_INV"
             /\ Handle(a, [SendOk(u) EXCEPT !.state = "ACCEPTED", !.isRinging = FALSE])
    BY <1>1, <1>3, <2>1, <2>3, AnswerOutcome DEF Outcome
  <2> QED
    BY <1>7, <2>2, <2>3 DEF CmdAccept
<1>8. CASE CmdReject(a)
  <2>1. signalQ[a] # << >> /\ m.code = "SIP_REJECT" /\ UNCHANGED drawn
    BY <1>8 DEF CmdReject, HasMemo
  <2>2. CASE Handle(a, u)
    BY <1>2, <1>3, <2>1, <2>2 DEF Outcome
  <2>3. CASE u.state = "RCVD_INV" /\ Handle(a, [SendDecline(u) EXCEPT !.isRinging = FALSE])
    BY <1>1, <1>3, <2>1, <2>3, AnswerOutcome DEF Outcome
  <2> QED
    BY <1>8, <2>2, <2>3 DEF CmdReject
<1>9. CASE RcvdUnparsable(a)
  <2>1. signalQ[a] # << >> /\ UNCHANGED drawn
    BY <1>9 DEF RcvdUnparsable, HasMemo
  <2>2. PICK h \in {u.contact, BadHost, p.from} : Handle(a, [u EXCEPT !.contact = h])
    BY <1>9 DEF RcvdUnparsable
  <2>3. Stay(u, [u EXCEPT !.contact = h])
    BY <1>1 DEF Stay, SameCall, UARecord
  <2> QED
    BY <1>3, <2>1, <2>2, <2>3 DEF Outcome
<1>10. CASE RcvdDisconnected(a)
  <2>1. /\ signalQ[a] # << >> /\ m.code = "SIP_RCVD" /\ u.state = "DISCONNECTED"
        /\ UNCHANGED drawn
    BY <1>10 DEF RcvdDisconnected, Received, HasMemo
  <2>2. CASE Handle(a, q)
    BY <1>3, <1>4, <2>1, <2>2 DEF Outcome
  <2>3. ASSUME p.type = "INVITE",
               Handle(a, SendRinging([q EXCEPT !.callId = p.callId, !.callIdHost = "heap",
                                               !.remoteHost = p.from]))
        PROVE  \E v : ua' = [ua EXCEPT ![a] = v] /\ Outcome(a, v)
    <3> DEFINE v == SendRinging([q EXCEPT !.callId = p.callId, !.callIdHost = "heap",
                                          !.remoteHost = p.from])
    <3>1. StartRing(u, v, p.callId)
      BY <1>1, <1>4, <2>1, StartOutcome
    <3>2. ua' = [ua EXCEPT ![a] = v] /\ Took(a)
      BY <1>3, <2>1, <2>3
    <3> HIDE DEF v
    <3> QED
      BY <1>4, <2>1, <2>3, <3>1, <3>2 DEF Outcome
  <2> QED
    BY <1>10, <2>2, <2>3 DEF RcvdDisconnected
<1>11. CASE RcvdSentInv(a)
  <2>1. /\ signalQ[a] # << >> /\ m.code = "SIP_RCVD" /\ u.state = "SENT_INV"
        /\ UNCHANGED drawn
    BY <1>11 DEF RcvdSentInv, Received, HasMemo
  <2>2. /\ Stay(u, [q EXCEPT !.isRinging = TRUE, !.defaultAction = "CONN"])
        /\ Stay(u, [q EXCEPT !.isRinging = FALSE, !.defaultAction = "DISCONN"])
    BY <1>4, <2>1 DEF Stay, SameCall, UARecord
  <2>3. Connect(u, [SendAck([q EXCEPT !.rtpAddr = Resolve(@, q.remoteHost)])
                       EXCEPT !.isRinging = FALSE])
    BY <1>1, <1>4, <2>1, ConnectOutcome
  <2>4. \/ Handle(a, q) \/ Handle(a, CheckSrc(q, p))
        \/ Handle(a, [q EXCEPT !.isRinging = TRUE, !.defaultAction = "CONN"])
        \/ Handle(a, [q EXCEPT !.isRinging = FALSE, !.defaultAction = "DISCONN"])
        \/ /\ p.type = "OK" /\ p.callId = u.callId
           /\ Handle(a, [SendAck([q EXCEPT !.rtpAddr = Resolve(@, q.remoteHost)])
                            EXCEPT !.isRinging = FALSE])
    BY <1>4, <1>11, <2>1 DEF RcvdSentInv, Answers, SameCall
  <2> QED
    BY <1>3, <1>4, <2>1, <2>2, <2>3, <2>4 DEF Outcome
<1>12. CASE RcvdSentBye(a)
  <2>1. /\ signalQ[a] # << >> /\ m.code = "SIP_RCVD" /\ u.state = "SENT_BYE"
        /\ UNCHANGED drawn
    BY <1>12 DEF RcvdSentBye, Received, HasMemo
  <2>2. Over(u, Cleanup(q)) /\ u.state # "RCVD_INV"
    BY <1>4, <2>1, CleanupOver
  <2>3. Handle(a, q) \/ Handle(a, CheckSrc(q, p)) \/ Handle(a, Cleanup(q))
    BY <1>12 DEF RcvdSentBye
  <2> QED
    BY <1>3, <1>4, <2>1, <2>2, <2>3 DEF Outcome
<1>13. CASE RcvdAccepted(a)
  <2>1. /\ signalQ[a] # << >> /\ m.code = "SIP_RCVD" /\ u.state = "ACCEPTED"
        /\ UNCHANGED drawn
    BY <1>13 DEF RcvdAccepted, Received, HasMemo
  <2>2. Acked(u, [q EXCEPT !.isConnected = TRUE, !.isRinging = FALSE,
                           !.defaultAction = "NONE", !.state = "IN_CALL"])
    BY <1>4, <2>1 DEF Acked, SameCall, UARecord
  <2>3. \/ Handle(a, CheckSrc(q, p))
        \/ /\ p.type = "ACK" /\ p.callId = u.callId
           /\ Handle(a, [q EXCEPT !.isConnected = TRUE, !.isRinging = FALSE,
                                  !.defaultAction = "NONE", !.state = "IN_CALL"])
    BY <1>4, <1>13, <2>1 DEF RcvdAccepted, SameCall
  <2> QED
    BY <1>3, <1>4, <2>1, <2>2, <2>3 DEF Outcome
<1>14. CASE RcvdRejected(a)
  <2>1. /\ signalQ[a] # << >> /\ m.code = "SIP_RCVD" /\ u.state = "REJECTED"
        /\ UNCHANGED drawn
    BY <1>14 DEF RcvdRejected, Received, HasMemo
  <2>2. Stay(u, [q EXCEPT !.isConnected = FALSE, !.isRinging = FALSE,
                          !.defaultAction = "DISCONN"])
    BY <1>4, <2>1 DEF Stay, SameCall, UARecord
  <2>3. \/ Handle(a, CheckSrc(q, p))
        \/ Handle(a, [q EXCEPT !.isConnected = FALSE, !.isRinging = FALSE,
                               !.defaultAction = "DISCONN"])
    BY <1>14 DEF RcvdRejected
  <2> QED
    BY <1>3, <1>4, <2>1, <2>2, <2>3 DEF Outcome
<1>15. CASE RcvdInCall(a)
  <2>1. /\ signalQ[a] # << >> /\ m.code = "SIP_RCVD" /\ u.state = "IN_CALL"
        /\ UNCHANGED drawn
    BY <1>15 DEF RcvdInCall, Received, HasMemo
  <2>2. Over(u, [SendOk(q) EXCEPT !.isConnected = FALSE, !.defaultAction = "DISCONN",
                                  !.state = "DISCONNECTED"]) /\ u.state # "RCVD_INV"
    BY <1>1, <1>4, <2>1, ByeOutcome
  <2>3. \/ Handle(a, CheckSrc(q, p))
        \/ Handle(a, [SendOk(q) EXCEPT !.isConnected = FALSE, !.defaultAction = "DISCONN",
                                       !.state = "DISCONNECTED"])
    BY <1>15 DEF RcvdInCall
  <2> QED
    BY <1>3, <1>4, <2>1, <2>2, <2>3 DEF Outcome
<1>16. CASE RcvdRinging(a)
  <2>1. /\ signalQ[a] # << >> /\ m.code = "SIP_RCVD" /\ UNCHANGED drawn
        /\ Handle(a, CheckSrc(q, p))
    BY <1>16 DEF RcvdRinging, Received, HasMemo
  <2> QED
    BY <1>3, <1>4, <2>1 DEF Outcome
<1>17. CASE Timeout(a)
  <2>1. /\ ua' = [ua EXCEPT ![a] = DefaultAction(u)] /\ UNCHANGED <<signalQ, drawn>>
        /\ signalQ[a] = << >> /\ u.defaultAction # "NONE"
    BY <1>17 DEF Timeout
  <2> DEFINE v == DefaultAction(u)
  <2>2. Stay(u, v) \/ RingAgain(u, v) \/ Over(u, v)
    BY <1>1, <2>1, TimeoutOutcome
  <2> HIDE DEF v
  <2>3. Outcome(a, v)
    BY <2>1, <2>2 DEF Outcome
  <2> QED
    BY <2>1, <2>3 DEF v
<1> QED
  BY <1>5, <1>6, <1>7, <1>8, <1>9, <1>10, <1>11, <1>12, <1>13, <1>14, <1>15, <1>16, <1>17
     DEF UserAgentStep

--------------------------------------------------------------------------------
(* Who takes part in a call.                                               *)

IsInvite(p, c) == p.type = "INVITE" /\ p.callId = c

TakesPart(u, host, c) == u.state \in Active /\ u.callIdHost = host /\ u.callId = c

(* a made call c; the INVITE of c waits in a's sendQ; the INVITE has been  *)
(* sent to a, waits in its signalQ, or is the call a takes part in.        *)
Made(a, c) == TakesPart(ua[a], "local", c)

Asks(q, c) == \E i \in DOMAIN q : IsInvite(q[i], c)

Called(a, c) ==
    \/ TakesPart(ua[a], "heap", c)
    \/ \E n \in net : n.to = a /\ IsInvite(n.pkt, c)
    \/ \E i \in DOMAIN signalQ[a] :
          signalQ[a][i].code = "SIP_RCVD" /\ IsInvite(signalQ[a][i].pkt, c)

AsksOnce(q, c) == \A i, j \in DOMAIN q : IsInvite(q[i], c) /\ IsInvite(q[j], c) => i = j

(* A call has one caller and one callee: the INVITE is in one place, unless *)
(* the network repeats it, and always on its way to one agent.             *)
OneParty(c) ==
    /\ \A a \in Agent : Made(a, c) \/ Asks(ua[a].sendQ, c) \/ Called(a, c) => c \in drawn
    /\ \A a, b \in Agent : Made(a, c) /\ Made(b, c) => a = b
    /\ \A a, b \in Agent : Called(a, c) /\ Called(b, c) => a = b
    /\ \A a, b \in Agent : Asks(ua[a].sendQ, c) /\ Asks(ua[b].sendQ, c) => a = b
    /\ \A a, b \in Agent : ~ (Asks(ua[a].sendQ, c) /\ Called(b, c))
    /\ \A a \in Agent : AsksOnce(ua[a].sendQ, c)

CallInv == \A c \in CallId \cup {NoCall} : OneParty(c)

(* The answers that ConsentedCall is about.                                *)
Sure(m) == m.code \in {"SIP_ACCEPT", "SIP_REJECT"} /\ m.alone /\ m.heard # NoCall

(* Such an answer waits in signalQ behind packets only, and the call it was *)
(* typed for rings until the answer is taken.                              *)
AnswerWaits(a) ==
    \A i \in DOMAIN signalQ[a] :
        Sure(signalQ[a][i]) =>
            /\ \A j \in DOMAIN signalQ[a] : j < i => signalQ[a][j].code = "SIP_RCVD"
            /\ ua[a].state = "RCVD_INV" /\ ua[a].callId = signalQ[a][i].heard

AnswerInv == \A a \in Agent : AnswerWaits(a)

(* What appending to sendQ and taking from it do to the INVITEs in it.     *)
LEMMA AppendAsks ==
    ASSUME NEW q \in Seq(SendMemo), NEW m \in SendMemo, NEW c
    PROVE  /\ Asks(Append(q, m), c) => Asks(q, c) \/ IsInvite(m, c)
           /\ (AsksOnce(q, c) /\ (IsInvite(m, c) => ~ Asks(q, c)))
                 => AsksOnce(Append(q, m), c)
<1> DEFINE r == Append(q, m)
<1>1. /\ Len(q) \in Nat /\ DOMAIN q = 1 .. Len(q) /\ DOMAIN r = 1 .. Len(q) + 1
      /\ \A i \in DOMAIN q : r[i] = q[i]
      /\ r[Len(q) + 1] = m
  BY AppendProperties
<1> HIDE DEF r
<1>2. \A i \in DOMAIN r : IsInvite(r[i], c) =>
         \/ i \in DOMAIN q /\ IsInvite(q[i], c)
         \/ i = Len(q) + 1 /\ IsInvite(m, c)
  BY <1>1
<1>3. Asks(r, c) => Asks(q, c) \/ IsInvite(m, c)
  BY <1>2 DEF Asks
<1>4. ASSUME AsksOnce(q, c), IsInvite(m, c) => ~ Asks(q, c)
      PROVE  AsksOnce(r, c)
  BY <1>2, <1>4 DEF AsksOnce, Asks
<1> QED
  BY <1>3, <1>4 DEF r

LEMMA TailAsks ==
    ASSUME NEW q \in Seq(SendMemo), q # << >>, NEW c
    PROVE  /\ Asks(Tail(q), c) => Asks(q, c)
           /\ IsInvite(Head(q), c) => Asks(q, c)
           /\ AsksOnce(q, c) => AsksOnce(Tail(q), c)
           /\ AsksOnce(q, c) /\ IsInvite(Head(q), c) => ~ Asks(Tail(q), c)
<1> DEFINE t == Tail(q)
<1>1. /\ Len(q) \in Nat \ {0} /\ DOMAIN q = 1 .. Len(q) /\ DOMAIN t = 1 .. Len(q) - 1
      /\ \A i \in 1 .. Len(q) - 1 : t[i] = q[i + 1]
      /\ Head(q) = q[1]
  BY HeadTailProperties, EmptySeq
<1> HIDE DEF t
<1>2. \A i \in DOMAIN t : i \in Nat /\ i + 1 \in DOMAIN q /\ t[i] = q[i + 1] /\ i + 1 # 1
  BY <1>1
<1>3. 1 \in DOMAIN q
  BY <1>1
<1>4. Asks(t, c) => Asks(q, c)
  BY <1>2 DEF Asks
<1>5. IsInvite(Head(q), c) => Asks(q, c)
  BY <1>1, <1>3 DEF Asks
<1>6. AsksOnce(q, c) => AsksOnce(t, c)
  <2> SUFFICES ASSUME AsksOnce(q, c), NEW i \in DOMAIN t, NEW j \in DOMAIN t,
                      IsInvite(t[i], c), IsInvite(t[j], c)
               PROVE  i = j
    BY DEF AsksOnce
  <2>1. i + 1 = j + 1
    BY <1>2 DEF AsksOnce
  <2> QED
    BY <1>2, <2>1
<1>7. AsksOnce(q, c) /\ IsInvite(Head(q), c) => ~ Asks(t, c)
  BY <1>1, <1>2, <1>3 DEF AsksOnce, Asks
<1> QED
  BY <1>4, <1>5, <1>6, <1>7 DEF t

(* The tail of signalQ holds no memo that signalQ did not hold.            *)
LEMMA TailHolds ==
    ASSUME NEW q \in Seq(Signal), q # << >>
    PROVE  /\ \A i \in DOMAIN Tail(q) :
                 i \in Nat /\ i + 1 \in DOMAIN q /\ Tail(q)[i] = q[i + 1] /\ i + 1 # 1
           /\ 1 \in DOMAIN q /\ Head(q) = q[1]
<1> DEFINE t == Tail(q)
<1>1. /\ Len(q) \in Nat \ {0} /\ DOMAIN q = 1 .. Len(q) /\ DOMAIN t = 1 .. Len(q) - 1
      /\ \A i \in 1 .. Len(q) - 1 : t[i] = q[i + 1]
      /\ Head(q) = q[1]
  BY HeadTailProperties, EmptySeq
<1> HIDE DEF t
<1> QED
  BY <1>1 DEF t

(* A step that moves or drops what is there of call c keeps OneParty(c).   *)
LEMMA Shrink ==
    ASSUME NEW c, OneParty(c), drawn \subseteq drawn',
           \A a \in Agent : /\ Made(a, c)' => Made(a, c)
                            /\ Called(a, c)' => Called(a, c)
                            /\ Asks(ua[a].sendQ, c)' => Asks(ua[a].sendQ, c)
                            /\ AsksOnce(ua[a].sendQ, c)'
    PROVE  OneParty(c)'
<1>1. (\A a \in Agent : Made(a, c) \/ Asks(ua[a].sendQ, c) \/ Called(a, c) => c \in drawn)'
  BY DEF OneParty
<1>2. (\A a, b \in Agent : Made(a, c) /\ Made(b, c) => a = b)'
  BY DEF OneParty
<1>3. (\A a, b \in Agent : Called(a, c) /\ Called(b, c) => a = b)'
  BY DEF OneParty
<1>4. (\A a, b \in Agent : Asks(ua[a].sendQ, c) /\ Asks(ua[b].sendQ, c) => a = b)'
  BY DEF OneParty
<1>5. (\A a, b \in Agent : ~ (Asks(ua[a].sendQ, c) /\ Called(b, c)))'
  BY DEF OneParty
<1> QED
  BY <1>1, <1>2, <1>3, <1>4, <1>5 DEF OneParty

(* Writing a packet that is no INVITE, or clearing sendQ, adds no INVITE.  *)
LEMMA WritesAsks ==
    ASSUME NEW u \in UARecord, NEW v, NEW c, AsksOnce(u.sendQ, c),
           \/ v.sendQ \in {u.sendQ, << >>}
           \/ Writes(u, v, {"BUSY", "RING", "BYE", "OK", "DECLINE", "ACK"})
    PROVE  (Asks(v.sendQ, c) => Asks(u.sendQ, c)) /\ AsksOnce(v.sendQ, c)
<1>1. u.sendQ \in Seq(SendMemo)
  BY DEF UARecord
<1>2. CASE v.sendQ = u.sendQ
  BY <1>2
<1>3. CASE v.sendQ = << >>
  <2>1. DOMAIN v.sendQ = {}
    BY <1>3
  <2> QED
    BY <2>1 DEF Asks, AsksOnce
<1>4. ASSUME NEW m \in SendMemo, v.sendQ = Append(u.sendQ, m),
             m.type \in {"BUSY", "RING", "BYE", "OK", "DECLINE", "ACK"}
      PROVE  (Asks(v.sendQ, c) => Asks(u.sendQ, c)) /\ AsksOnce(v.sendQ, c)
  <2>1. ~ IsInvite(m, c)
    BY <1>4 DEF IsInvite
  <2> QED
    BY <1>1, <1>4, <2>1, AppendAsks
<1> QED
  BY <1>2, <1>3, <1>4 DEF Writes

(* All outcomes but the start of a call leave the call as it was, or end it.*)
LEMMA OutcomeShrinks ==
    ASSUME NEW u \in UARecord, NEW v, NEW c, AsksOnce(u.sendQ, c),
           \/ Stay(u, v) \/ Answer(u, v) \/ Acked(u, v) \/ Connect(u, v)
           \/ RingAgain(u, v) \/ HangUp(u, v) \/ Over(u, v)
    PROVE  /\ \A h : TakesPart(v, h, c) => TakesPart(u, h, c)
           /\ Asks(v.sendQ, c) => Asks(u.sendQ, c)
           /\ AsksOnce(v.sendQ, c)
<1>1. \/ v.state \notin Active
      \/ u.state \in Active /\ SameCall(u, v)
  BY DEF Stay, Answer, Acked, Connect, RingAgain, HangUp, Over, Active, UAStates
<1>2. \A h : TakesPart(v, h, c) => TakesPart(u, h, c)
  BY <1>1 DEF TakesPart, SameCall
<1>3. \/ v.sendQ \in {u.sendQ, << >>}
      \/ Writes(u, v, {"BUSY", "RING", "BYE", "OK", "DECLINE", "ACK"})
  BY WritesOkWrites DEF Stay, Answer, Acked, Connect, RingAgain, HangUp, Over, Writes
<1> QED
  BY <1>2, <1>3, WritesAsks

(* A pass of the loop adds nothing to signalQ.                             *)
LEMMA SignalsKept ==
    ASSUME IndInv, NEW a \in Agent, signalQ' = signalQ \/ Took(a)
    PROVE  \A b \in Agent : \A i \in DOMAIN signalQ'[b] :
              \E j \in DOMAIN signalQ[b] : signalQ'[b][i] = signalQ[b][j]
<1>1. CASE signalQ' = signalQ
  BY <1>1
<1>2. CASE Took(a)
  <2>1. signalQ \in [Agent -> Seq(Signal)]
    BY DEF IndInv, TypeOK
  <2>2. signalQ'[a] = Tail(signalQ[a]) /\ signalQ[a] # << >> /\ signalQ[a] \in Seq(Signal)
        /\ \A b \in Agent \ {a} : signalQ'[b] = signalQ[b]
    BY <1>2, <2>1 DEF Took
  <2>3. \A i \in DOMAIN signalQ'[a] :
           \E j \in DOMAIN signalQ[a] : signalQ'[a][i] = signalQ[a][j]
    BY <2>2, TailHolds
  <2> QED
    BY <2>2, <2>3
<1> QED
  BY <1>1, <1>2

(* A pass of the user agent thread that starts no call of its own.         *)
LEMMA ShrinkStep ==
    ASSUME IndInv, NEW c, OneParty(c), NEW a \in Agent, NEW v,
           ua' = [ua EXCEPT ![a] = v], UNCHANGED net, drawn \subseteq drawn',
           signalQ' = signalQ \/ Took(a),
           TakesPart(v, "local", c) => Made(a, c),
           TakesPart(v, "heap", c) => Called(a, c),
           Asks(v.sendQ, c) => Asks(ua[a].sendQ, c),
           AsksOnce(v.sendQ, c)
    PROVE  OneParty(c)'
<1>1. ua'[a] = v /\ \A b \in Agent \ {a} : ua'[b] = ua[b]
  BY DEF IndInv, TypeOK
<1>2. \A b \in Agent : \A i \in DOMAIN signalQ'[b] :
         \E j \in DOMAIN signalQ[b] : signalQ'[b][i] = signalQ[b][j]
  BY SignalsKept
<1>3. ASSUME NEW b \in Agent
      PROVE  /\ Made(b, c)' => Made(b, c)
             /\ Called(b, c)' => Called(b, c)
             /\ Asks(ua[b].sendQ, c)' => Asks(ua[b].sendQ, c)
             /\ AsksOnce(ua[b].sendQ, c)'
  <2>1. CASE b = a
    <3>1. (TakesPart(ua[b], "local", c))' => Made(b, c)
      BY <1>1, <2>1 DEF TakesPart
    <3>2. (TakesPart(ua[b], "heap", c))' => Called(b, c)
      BY <1>1, <2>1 DEF TakesPart
    <3>3. /\ Asks(ua[b].sendQ, c)' => Asks(ua[b].sendQ, c)
          /\ AsksOnce(ua[b].sendQ, c)'
      BY <1>1, <2>1 DEF Asks, AsksOnce, IsInvite
    <3>4. Called(b, c)' => Called(b, c)
      BY <1>2, <3>2 DEF Called, IsInvite
    <3> QED
      BY <3>1, <3>3, <3>4 DEF Made
  <2>2. CASE b # a
    <3>1. ua'[b] = ua[b] /\ AsksOnce(ua[b].sendQ, c)
      BY <1>1, <2>2 DEF OneParty
    <3>2. Called(b, c)' => Called(b, c)
      BY <1>2, <3>1 DEF Called, IsInvite, TakesPart
    <3> QED
      BY <3>1, <3>2 DEF Made, TakesPart, Asks, AsksOnce, IsInvite
  <2> QED
    BY <2>1, <2>2
<1> QED
  BY <1>3, Shrink

(* A user agent that starts a call draws an id nobody has seen.            *)
LEMMA FreshStep ==
    ASSUME IndInv, NEW c \in CallId \ drawn, OneParty(c), NEW a \in Agent, NEW v,
           ua' = [ua EXCEPT ![a] = v], UNCHANGED net, drawn' = drawn \cup {c},
           Took(a), StartCall(ua[a], v, c)
    PROVE  OneParty(c)'
<1>1. ua'[a] = v /\ \A b \in Agent \ {a} : ua'[b] = ua[b]
  BY DEF IndInv, TypeOK
<1>2. \A b \in Agent : ~ Made(b, c) /\ ~ Asks(ua[b].sendQ, c) /\ ~ Called(b, c)
  BY DEF OneParty
<1>3. ua[a] \in UARecord /\ ua[a].sendQ \in Seq(SendMemo)
  BY DEF IndInv, TypeOK, UARecord
<1>4. \A b \in Agent : \A i \in DOMAIN signalQ'[b] :
         \E j \in DOMAIN signalQ[b] : signalQ'[b][i] = signalQ[b][j]
  BY SignalsKept
<1>5. ASSUME NEW b \in Agent PROVE ~ TakesPart(ua[b], "heap", c)'
  <2>1. ~ TakesPart(v, "heap", c)
    BY DEF TakesPart, StartCall
  <2>2. b # a => ~ TakesPart(ua[b], "heap", c)
    BY <1>2 DEF Called
  <2> QED
    BY <1>1, <2>1, <2>2 DEF TakesPart
<1>6. \A b \in Agent : \A i \in DOMAIN signalQ'[b] :
         ~ (signalQ'[b][i].code = "SIP_RCVD" /\ IsInvite(signalQ'[b][i].pkt, c))
  BY <1>2, <1>4 DEF Called, IsInvite
<1>7. \A b \in Agent : ~ Called(b, c)'
  BY <1>2, <1>5, <1>6 DEF Called, IsInvite
<1>8. \A b \in Agent \ {a} : ~ Made(b, c)' /\ ~ Asks(ua[b].sendQ, c)'
  BY <1>1, <1>2 DEF Made, TakesPart, Asks, IsInvite
<1>9. \A b \in Agent : AsksOnce(ua[b].sendQ, c)'
  <2> DEFINE m == [type |-> "INVITE", callId |-> c, temp |-> FALSE]
  <2>1. m \in SendMemo
    BY DEF SendMemo
  <2>2. v.sendQ = Append(ua[a].sendQ, m)
    BY DEF StartCall
  <2> HIDE DEF m
  <2>3. AsksOnce(v.sendQ, c)
    BY <1>2, <1>3, <2>1, <2>2, AppendAsks DEF OneParty
  <2>4. AsksOnce(ua[a].sendQ, c)'
    BY <1>1, <2>3 DEF AsksOnce, IsInvite
  <2>5. \A b \in Agent \ {a} : AsksOnce(ua[b].sendQ, c)'
    BY <1>1 DEF OneParty, AsksOnce, IsInvite
  <2> QED
    BY <2>4, <2>5
<1>10. c \in drawn'
  OBVIOUS
<1> QED
  BY <1>7, <1>8, <1>9, <1>10 DEF OneParty

(* Every pass of the user agent thread.                                    *)
LEMMA AgentParty ==
    ASSUME IndInv, CallInv, NEW a \in Agent, UserAgentStep(a), UNCHANGED net
    PROVE  CallInv'
<1>1. PICK v : ua' = [ua EXCEPT ![a] = v] /\ Outcome(a, v)
  BY StepOutcome
<1>2. ua[a] \in UARecord
  BY DEF IndInv, TypeOK
<1> SUFFICES ASSUME NEW c \in CallId \cup {NoCall} PROVE OneParty(c)'
  BY DEF CallInv
<1>3. OneParty(c) /\ AsksOnce(ua[a].sendQ, c)
  BY DEF CallInv, OneParty
<1>5. CASE /\ UNCHANGED drawn /\ (signalQ' = signalQ \/ Took(a))
           /\ \/ Stay(ua[a], v) \/ Answer(ua[a], v) \/ Acked(ua[a], v) \/ Connect(ua[a], v)
              \/ RingAgain(ua[a], v) \/ HangUp(ua[a], v) \/ Over(ua[a], v)
  <2>1. /\ \A h : TakesPart(v, h, c) => TakesPart(ua[a], h, c)
        /\ Asks(v.sendQ, c) => Asks(ua[a].sendQ, c)
        /\ AsksOnce(v.sendQ, c)
    BY <1>2, <1>3, <1>5, OutcomeShrinks
  <2>2. TakesPart(v, "local", c) => Made(a, c)
    BY <2>1 DEF Made
  <2>3. TakesPart(v, "heap", c) => Called(a, c)
    BY <2>1 DEF Called
  <2> QED
    BY <1>1, <1>3, <1>5, <2>1, <2>2, <2>3, ShrinkStep
<1>6. ASSUME Took(a), UNCHANGED drawn, Packeted(a), Head(signalQ[a]).pkt.type = "INVITE",
             StartRing(ua[a], v, Head(signalQ[a]).pkt.callId)
      PROVE  OneParty(c)'
  <2>1. signalQ[a] \in Seq(Signal) /\ signalQ[a] # << >>
    BY <1>6 DEF IndInv, TypeOK, Took
  <2>2. TakesPart(v, "heap", c) => Called(a, c)
    BY <1>6, <2>1, TailHolds DEF TakesPart, StartRing, Packeted, Called, IsInvite
  <2>3. ~ TakesPart(v, "local", c)
    BY <1>6 DEF TakesPart, StartRing
  <2>4. Writes(ua[a], v, {"BUSY", "RING", "BYE", "OK", "DECLINE", "ACK"})
    BY <1>6 DEF StartRing, Writes
  <2>5. (Asks(v.sendQ, c) => Asks(ua[a].sendQ, c)) /\ AsksOnce(v.sendQ, c)
    BY <1>2, <1>3, <2>4, WritesAsks
  <2> QED
    BY <1>1, <1>3, <1>6, <2>2, <2>3, <2>5, ShrinkStep
<1>7. ASSUME Took(a), NEW d \in CallId \ drawn, drawn' = drawn \cup {d},
             StartCall(ua[a], v, d)
      PROVE  OneParty(c)'
  <2>1. CASE c = d
    BY <1>1, <1>3, <1>7, <2>1, FreshStep
  <2>2. CASE c # d
    <3> DEFINE m == [type |-> "INVITE", callId |-> d, temp |-> FALSE]
    <3>1. m \in SendMemo /\ ~ IsInvite(m, c) /\ ua[a].sendQ \in Seq(SendMemo)
      BY <1>2, <2>2 DEF SendMemo, IsInvite, UARecord
    <3>2. v.sendQ = Append(ua[a].sendQ, m)
      BY <1>7 DEF StartCall
    <3> HIDE DEF m
    <3>3. (Asks(v.sendQ, c) => Asks(ua[a].sendQ, c)) /\ AsksOnce(v.sendQ, c)
      BY <1>3, <3>1, <3>2, AppendAsks
    <3>4. ~ TakesPart(v, "local", c) /\ ~ TakesPart(v, "heap", c)
      BY <1>7, <2>2 DEF TakesPart, StartCall
    <3> QED
      BY <1>1, <1>3, <1>7, <3>3, <3>4, ShrinkStep
  <2> QED
    BY <2>1, <2>2
<1> QED
  BY <1>1, <1>5, <1>6, <1>7 DEF Outcome

(* A memo queued for an agent is its last, and the others stay.            *)
LEMMA Queued ==
    ASSUME IndInv, NEW a \in Agent, NEW m \in Signal,
           signalQ' = [signalQ EXCEPT ![a] = Append(@, m)]
    PROVE  /\ \A b \in Agent : \A i \in DOMAIN signalQ'[b] :
                 \/ i \in DOMAIN signalQ[b] /\ signalQ'[b][i] = signalQ[b][i]
                 \/ b = a /\ i = Len(signalQ[a]) + 1 /\ signalQ'[b][i] = m
           /\ Len(signalQ[a]) + 1 \notin DOMAIN signalQ[a]
<1>1. signalQ \in [Agent -> Seq(Signal)] /\ signalQ[a] \in Seq(Signal)
  BY DEF IndInv, TypeOK
<1>2. /\ Len(signalQ[a]) \in Nat /\ DOMAIN signalQ[a] = 1 .. Len(signalQ[a])
      /\ DOMAIN Append(signalQ[a], m) = 1 .. Len(signalQ[a]) + 1
      /\ \A i \in DOMAIN signalQ[a] : Append(signalQ[a], m)[i] = signalQ[a][i]
      /\ Append(signalQ[a], m)[Len(signalQ[a]) + 1] = m
  BY <1>1, AppendProperties
<1>3. /\ signalQ'[a] = Append(signalQ[a], m)
      /\ \A b \in Agent \ {a} : signalQ'[b] = signalQ[b]
  BY <1>1
<1>4. \A i \in DOMAIN signalQ'[a] :
         \/ i \in DOMAIN signalQ[a] /\ signalQ'[a][i] = signalQ[a][i]
         \/ i = Len(signalQ[a]) + 1 /\ signalQ'[a][i] = m
  BY <1>2, <1>3
<1>5. Len(signalQ[a]) + 1 \notin DOMAIN signalQ[a]
  BY <1>2
<1> QED
  BY <1>3, <1>4, <1>5

(* Every command is a memo that brings no packet.                          *)
LEMMA Typed ==
    ASSUME IndInv, NEW a \in Agent, User(a)
    PROVE  /\ UNCHANGED <<ua, drawn, net>>
           /\ \E m \in Signal :
                 /\ signalQ' = [signalQ EXCEPT ![a] = Append(@, m)]
                 /\ m.code # "SIP_RCVD"
                 /\ m.code \in {"SIP_ACCEPT", "SIP_REJECT"} =>
                       m.heard = Heard(ua[a]) /\ m.alone = (Waiting(a) = {})
                 /\ m.code = "SIP_INVITE" => m.host # a
<1>1. CASE TypeInvite(a)
  <2>1. PICK h \in Dials[a] \ {a} : Type(a, [code |-> "SIP_INVITE", host |-> h])
    BY <1>1 DEF TypeInvite
  <2>2. [code |-> "SIP_INVITE", host |-> h] \in Signal
    BY EnvironmentAssumption DEF Signal
  <2> QED
    BY <2>1, <2>2 DEF Type
<1>2. CASE TypeAccept(a) \/ TypeReject(a)
  <2>1. Heard(ua[a]) \in CallId \cup {NoCall}
    BY DEF IndInv, TypeOK, UARecord, Heard
  <2>2. AnswerMemo(a, "SIP_ACCEPT") \in Signal /\ AnswerMemo(a, "SIP_REJECT") \in Signal
    BY <2>1 DEF Signal, AnswerMemo
  <2>3. \A code : LET m == AnswerMemo(a, code) IN
           m.code = code /\ m.heard = Heard(ua[a]) /\ m.alone = (Waiting(a) = {})
    BY DEF AnswerMemo
  <2> QED
    BY <1>2, <2>2, <2>3 DEF TypeAccept, TypeReject, Type
<1>3. CASE TypeBye(a)
  <2>1. [code |-> "SIP_BYE"] \in Signal
    BY DEF Signal
  <2> QED
    BY <1>3, <2>1 DEF TypeBye, Type
<1> QED
  BY <1>1, <1>2, <1>3 DEF User

(* A command brings no INVITE.                                             *)
LEMMA UserParty ==
    ASSUME IndInv, CallInv, NEW a \in Agent, User(a)
    PROVE  CallInv'
<1> SUFFICES ASSUME NEW c \in CallId \cup {NoCall} PROVE OneParty(c)'
  BY DEF CallInv
<1>1. OneParty(c)
  BY DEF CallInv
<1>2. PICK m \in Signal : /\ signalQ' = [signalQ EXCEPT ![a] = Append(@, m)]
                          /\ m.code # "SIP_RCVD"
  BY Typed
<1>3. ua' = ua /\ net' = net /\ drawn' = drawn
  BY Typed
<1>4. ASSUME NEW b \in Agent
      PROVE  /\ Made(b, c)' => Made(b, c)
             /\ Called(b, c)' => Called(b, c)
             /\ Asks(ua[b].sendQ, c)' => Asks(ua[b].sendQ, c)
             /\ AsksOnce(ua[b].sendQ, c)'
  <2>1. \A i \in DOMAIN signalQ'[b] : signalQ'[b][i].code = "SIP_RCVD" =>
           i \in DOMAIN signalQ[b] /\ signalQ'[b][i] = signalQ[b][i]
    BY <1>2, Queued
  <2>2. Called(b, c)' => Called(b, c)
    BY <1>3, <2>1 DEF Called, IsInvite, TakesPart
  <2> QED
    BY <1>1, <1>3, <2>2 DEF OneParty, Made, TakesPart, Asks, AsksOnce, IsInvite
<1> QED
  BY <1>1, <1>3, <1>4, Shrink

(* A packet received is no longer on the way, or a copy of it is.          *)
LEMMA UdpReaderParty ==
    ASSUME IndInv, CallInv, NEW a \in Agent, UdpReader(a)
    PROVE  CallInv'
<1> SUFFICES ASSUME NEW c \in CallId \cup {NoCall} PROVE OneParty(c)'
  BY DEF CallInv
<1>1. OneParty(c)
  BY DEF CallInv
<1>2. PICK n \in net :
         /\ n.to = a
         /\ signalQ' = [signalQ EXCEPT ![a] = Append(@, [code |-> "SIP_RCVD", pkt |-> n.pkt])]
         /\ Take(n)
  BY DEF UdpReader
<1>3. ua' = ua /\ drawn' = drawn /\ net' \subseteq net
  BY <1>2 DEF UdpReader, Take
<1> DEFINE m == [code |-> "SIP_RCVD", pkt |-> n.pkt]
<1>4. m \in Signal
  BY DEF IndInv, TypeOK, Signal
<1>5. ASSUME NEW b \in Agent
      PROVE  /\ Made(b, c)' => Made(b, c)
             /\ Called(b, c)' => Called(b, c)
             /\ Asks(ua[b].sendQ, c)' => Asks(ua[b].sendQ, c)
             /\ AsksOnce(ua[b].sendQ, c)'
  <2>1. \A i \in DOMAIN signalQ'[b] :
           \/ i \in DOMAIN signalQ[b] /\ signalQ'[b][i] = signalQ[b][i]
           \/ b = a /\ signalQ'[b][i] = m
    BY <1>2, <1>4, Queued
  <2>2. m.pkt = n.pkt
    OBVIOUS
  <2> HIDE DEF m
  <2>3. Called(b, c)' => Called(b, c)
    BY <1>2, <1>3, <2>1, <2>2 DEF Called, IsInvite, TakesPart
  <2> QED
    BY <1>1, <1>3, <2>3 DEF OneParty, Made, TakesPart, Asks, AsksOnce, IsInvite
<1> QED
  BY <1>1, <1>3, <1>5, Shrink

(* The INVITE that UdpWriter sends has left sendQ, and goes to one agent.  *)
LEMMA UdpWriterParty ==
    ASSUME IndInv, CallInv, NEW a \in Agent, UdpWriter(a)
    PROVE  CallInv'
<1> SUFFICES ASSUME NEW c \in CallId \cup {NoCall} PROVE OneParty(c)'
  BY DEF CallInv
<1> DEFINE m == Head(ua[a].sendQ)
           t == Tail(ua[a].sendQ)
           pkt == [type |-> m.type, callId |-> m.callId, from |-> a,
                   sdp |-> m.type \in {"INVITE", "OK"}]
<1>1. OneParty(c)
  BY DEF CallInv
<1>2. /\ ua \in [Agent -> UARecord] /\ ua[a] \in UARecord
      /\ ua[a].sendQ \in Seq(SendMemo) /\ ua[a].sendQ # << >>
  BY DEF IndInv, TypeOK, UARecord, UdpWriter
<1>3. signalQ' = signalQ /\ drawn' = drawn /\ ua' = [ua EXCEPT ![a].sendQ = t]
  BY DEF UdpWriter
<1>4. PICK to : Send(to, pkt)
  BY DEF UdpWriter
<1>5. /\ pkt.type = m.type /\ pkt.callId = m.callId
      /\ IsInvite(pkt, c) <=> IsInvite(m, c)
  BY DEF IsInvite
<1>6. /\ Asks(t, c) => Asks(ua[a].sendQ, c)
      /\ IsInvite(m, c) => Asks(ua[a].sendQ, c)
      /\ AsksOnce(t, c)
      /\ IsInvite(m, c) => ~ Asks(t, c)
  BY <1>1, <1>2, TailAsks DEF OneParty
<1> HIDE DEF m, t, pkt
<1>7. \A n \in net' : n \in net \/ (n.to = to /\ n.pkt = pkt)
  BY <1>4 DEF Send
<1>8. /\ ua'[a].sendQ = t
      /\ \A b \in Agent : /\ ua'[b].state = ua[b].state
                          /\ ua'[b].callId = ua[b].callId
                          /\ ua'[b].callIdHost = ua[b].callIdHost
                          /\ b # a => ua'[b].sendQ = ua[b].sendQ
  BY <1>2, <1>3 DEF UARecord
<1>9. \A b \in Agent : Made(b, c)' => Made(b, c)
  BY <1>8 DEF Made, TakesPart
<1>10. \A b \in Agent : /\ Asks(ua[b].sendQ, c)' => Asks(ua[b].sendQ, c)
                        /\ AsksOnce(ua[b].sendQ, c)'
  <2>1. \A b \in Agent : AsksOnce(ua[b].sendQ, c)
    BY <1>1 DEF OneParty
  <2> QED
    BY <1>6, <1>8, <2>1 DEF Asks, AsksOnce, IsInvite
<1>11. \A b \in Agent : Called(b, c)' => Called(b, c) \/ (b = to /\ IsInvite(m, c))
  <2>1. \A b \in Agent : TakesPart(ua[b], "heap", c)' => TakesPart(ua[b], "heap", c)
    BY <1>8 DEF TakesPart
  <2> QED
    BY <1>3, <1>5, <1>7, <2>1 DEF Called, IsInvite
<1>12. CASE ~ IsInvite(m, c)
  BY <1>1, <1>3, <1>9, <1>10, <1>11, <1>12, Shrink
<1>13. CASE IsInvite(m, c)
  <2>1. Asks(ua[a].sendQ, c) /\ ~ Asks(ua[a].sendQ, c)'
    BY <1>6, <1>8, <1>13 DEF Asks, IsInvite
  <2>2. \A b \in Agent : ~ Asks(ua[b].sendQ, c)'
    BY <1>1, <1>10, <2>1 DEF OneParty
  <2>3. \A b \in Agent : ~ Called(b, c)
    BY <1>1, <2>1 DEF OneParty
  <2>4. \A b \in Agent : Called(b, c)' => b = to
    BY <1>11, <2>3
  <2>5. c \in drawn'
    BY <1>1, <1>3, <2>1 DEF OneParty
  <2>6. \A b, d \in Agent : Made(b, c)' /\ Made(d, c)' => b = d
    BY <1>1, <1>9 DEF OneParty
  <2> QED
    BY <1>10, <2>2, <2>4, <2>5, <2>6 DEF OneParty
<1> QED
  BY <1>12, <1>13

(* A stranger calls one agent, with an id of its own.                      *)
LEMMA StrangerParty ==
    ASSUME IndInv, CallInv, NEW h \in Host, StrangerSends(h)
    PROVE  CallInv'
<1> SUFFICES ASSUME NEW c \in CallId \cup {NoCall} PROVE OneParty(c)'
  BY DEF CallInv
<1>1. OneParty(c)
  BY DEF CallInv
<1>2. PICK a \in Agent, t \in StrangerPackets, d \in CallId, sdp \in BOOLEAN :
         /\ t = "INVITE" => d \notin drawn
         /\ drawn' = drawn \cup {d}
         /\ net' = net \cup {[to |-> a, pkt |-> [type |-> t, callId |-> d, from |-> h, sdp |-> sdp]]}
  BY DEF StrangerSends
<1>3. ua' = ua /\ signalQ' = signalQ
  BY DEF StrangerSends
<1>4. \A b \in Agent : Called(b, c)' => Called(b, c) \/ (b = a /\ c = d /\ t = "INVITE")
  BY <1>2, <1>3 DEF Called, IsInvite, TakesPart
<1>5. \A b \in Agent : /\ Made(b, c)' => Made(b, c)
                       /\ Asks(ua[b].sendQ, c)' => Asks(ua[b].sendQ, c)
                       /\ AsksOnce(ua[b].sendQ, c)'
  BY <1>1, <1>3 DEF OneParty, Made, TakesPart, Asks, AsksOnce, IsInvite
<1>6. CASE c = d /\ t = "INVITE"
  <2>1. \A b \in Agent : ~ Made(b, c) /\ ~ Asks(ua[b].sendQ, c) /\ ~ Called(b, c)
    BY <1>1, <1>2, <1>6 DEF OneParty
  <2>2. /\ \A b \in Agent : ~ Made(b, c)' /\ ~ Asks(ua[b].sendQ, c)'
        /\ \A b \in Agent : Called(b, c)' => b = a
        /\ c \in drawn'
    BY <1>2, <1>4, <1>5, <1>6, <2>1
  <2> QED
    BY <1>5, <2>2 DEF OneParty
<1>7. CASE ~ (c = d /\ t = "INVITE")
  BY <1>1, <1>2, <1>4, <1>5, <1>7, Shrink
<1> QED
  BY <1>6, <1>7

(* Nobody has called when the agents start.                                *)
LEMMA InitParty == Init => CallInv
<1> SUFFICES ASSUME Init, NEW c \in CallId \cup {NoCall} PROVE OneParty(c)
  BY DEF CallInv
<1>1. \A a \in Agent : /\ ua[a].state = "DISCONNECTED" /\ ua[a].sendQ = << >>
                       /\ signalQ[a] = << >>
  BY DEF Init, InitUA
<1>2. net = {}
  BY DEF Init
<1>3. \A a \in Agent : /\ ~ Made(a, c) /\ ~ Called(a, c)
                       /\ ~ Asks(ua[a].sendQ, c) /\ AsksOnce(ua[a].sendQ, c)
  <2>9. DOMAIN << >> = {}
    OBVIOUS
  <2>1. \A a \in Agent : DOMAIN ua[a].sendQ = {} /\ DOMAIN signalQ[a] = {}
    BY <1>1, <2>9
  <2>2. \A a \in Agent : ua[a].state \notin Active
    BY <1>1 DEF Active
  <2> QED
    BY <1>2, <2>1, <2>2 DEF Made, Called, TakesPart, Asks, AsksOnce
<1> QED
  BY <1>3 DEF OneParty

(* Every step keeps CallInv.                                               *)
LEMMA NextParty == IndInv /\ CallInv /\ [Next]_vars => CallInv'
<1> SUFFICES ASSUME IndInv, CallInv, [Next]_vars PROVE CallInv'
  OBVIOUS
<1>1. CASE Agents
  BY <1>1, AgentParty DEF Agents
<1>2. ASSUME NEW a \in Agent, User(a) \/ UdpWriter(a) \/ UdpReader(a)
      PROVE  CallInv'
  BY <1>2, UserParty, UdpWriterParty, UdpReaderParty
<1>3. ASSUME NEW h \in Host \ Agent, StrangerSends(h)
      PROVE  CallInv'
  BY <1>3, StrangerParty
<1>4. CASE UNCHANGED vars
  BY <1>4 DEF vars, CallInv, OneParty, Made, Called, TakesPart, Asks, AsksOnce, IsInvite
<1> QED
  BY <1>1, <1>2, <1>3, <1>4 DEF Next

(* However packets are lost, repeated, reordered or sent by strangers, two *)
(* agents in the same call are its caller and its callee.                  *)
THEOREM PartiesCorrect == Spec => []TwoPartyCalls
<1>1. IndInv /\ CallInv => TwoPartyCalls
  <2> SUFFICES ASSUME IndInv, CallInv, NEW a \in Agent, NEW b \in Agent, a # b,
                      ua[a].state \in Active, ua[b].state \in Active,
                      ua[a].callId = ua[b].callId
               PROVE  ua[a].callIdHost # ua[b].callIdHost
    BY DEF TwoPartyCalls
  <2> DEFINE c == ua[a].callId
  <2>1. c \in CallId \cup {NoCall}
    BY DEF IndInv, TypeOK, UARecord
  <2>2. OneParty(c)
    BY <2>1 DEF CallInv
  <2>3. ua[a].callIdHost \in {"local", "heap"}
    BY DEF IndInv, PendingActionFits, AgentInv, Active
  <2>4. ~ (Made(a, c) /\ Made(b, c)) /\ ~ (Called(a, c) /\ Called(b, c))
    BY <2>2 DEF OneParty
  <2> QED
    BY <2>3, <2>4 DEF Made, Called, TakesPart
<1> QED
  BY InitInv, NextInv, InitParty, NextParty, <1>1, PTL DEF Spec

--------------------------------------------------------------------------------
(* Which call the user's answer goes to.                                   *)

(* A pass of the loop keeps AnswerInv: while an answer waits behind a      *)
(* packet, the packet changes neither RCVD_INV nor the call id.            *)
LEMMA AgentAnswer ==
    ASSUME IndInv, AnswerInv, NEW a \in Agent, UserAgentStep(a)
    PROVE  AnswerInv'
<1>1. PICK v : ua' = [ua EXCEPT ![a] = v] /\ Outcome(a, v)
  BY StepOutcome
<1>2. /\ ua'[a] = v /\ \A b \in Agent \ {a} : ua'[b] = ua[b]
      /\ signalQ \in [Agent -> Seq(Signal)]
  BY <1>1 DEF IndInv, TypeOK
<1>3. \A b \in Agent : AnswerWaits(b)
  BY DEF AnswerInv
<1>4. signalQ' = signalQ \/ Took(a)
  BY <1>1 DEF Outcome
<1>5. \A b \in Agent \ {a} : signalQ'[b] = signalQ[b]
  BY <1>2, <1>4 DEF Took
<1>6. \A b \in Agent \ {a} : AnswerWaits(b)'
  BY <1>2, <1>3, <1>5 DEF AnswerWaits
<1>7. AnswerWaits(a)'
  <2>1. CASE signalQ[a] = << >> /\ signalQ' = signalQ
    <3>1. DOMAIN << >> = {}
      OBVIOUS
    <3>2. DOMAIN signalQ'[a] = {}
      BY <2>1, <3>1
    <3> QED
      BY <3>2 DEF AnswerWaits
  <2>2. CASE Took(a)
    <3> DEFINE q == signalQ[a]
    <3>1. q \in Seq(Signal) /\ q # << >> /\ signalQ'[a] = Tail(q)
      BY <1>2, <2>2 DEF Took
    <3>2. /\ \A i \in DOMAIN Tail(q) :
                i \in Nat /\ i + 1 \in DOMAIN q /\ Tail(q)[i] = q[i + 1] /\ i + 1 # 1
          /\ 1 \in DOMAIN q /\ Head(q) = q[1]
      BY <3>1, TailHolds
    <3>3. \A i \in DOMAIN q : Sure(q[i]) =>
             /\ \A j \in DOMAIN q : j < i => q[j].code = "SIP_RCVD"
             /\ ua[a].state = "RCVD_INV" /\ ua[a].callId = q[i].heard
      BY <1>3 DEF AnswerWaits
    <3>4. Outcome(a, v) /\ Head(signalQ[a]) = Head(q) /\ signalQ[a] # << >>
      BY <1>1, <3>1
    <3> HIDE DEF q
    <3>5. ASSUME NEW i \in DOMAIN Tail(q), Sure(Tail(q)[i])
          PROVE  /\ \A j \in DOMAIN Tail(q) : j < i => Tail(q)[j].code = "SIP_RCVD"
                 /\ v.state = "RCVD_INV" /\ v.callId = Tail(q)[i].heard
      <4>1. /\ ua[a].state = "RCVD_INV" /\ ua[a].callId = Tail(q)[i].heard
            /\ \A j \in DOMAIN q : j < i + 1 => q[j].code = "SIP_RCVD"
        BY <3>2, <3>3, <3>5
      <4>2. 1 < i + 1
        <5>1. 1 \in Nat /\ Len(q) \in Nat /\ i \in 1 .. Len(Tail(q))
          BY <3>1, HeadTailProperties
        <5> QED
          BY <5>1
      <4>3. Head(q).code = "SIP_RCVD"
        BY <3>2, <4>1, <4>2
      <4>4. Stay(ua[a], v)
        BY <3>4, <4>1, <4>3
           DEF Outcome, HangUp, Answer, Connect, Acked, StartRing, StartCall
      <4>5. ASSUME NEW j \in DOMAIN Tail(q), j < i PROVE Tail(q)[j].code = "SIP_RCVD"
        <5>1. j + 1 < i + 1 /\ j + 1 \in DOMAIN q /\ Tail(q)[j] = q[j + 1]
          BY <3>2, <4>5
        <5> QED
          BY <4>1, <5>1
      <4> QED
        BY <4>1, <4>4, <4>5 DEF Stay, SameCall
    <3> QED
      BY <1>2, <3>1, <3>5 DEF AnswerWaits
  <2> QED
    BY <1>1, <2>1, <2>2 DEF Outcome
<1> QED
  BY <1>6, <1>7 DEF AnswerInv

(* A command that is typed goes behind what waits; it is an answer that     *)
(* ConsentedCall is about only when all of that are packets.               *)
LEMMA UserAnswer ==
    ASSUME IndInv, AnswerInv, NEW a \in Agent, User(a)
    PROVE  AnswerInv'
<1>1. PICK m \in Signal :
         /\ signalQ' = [signalQ EXCEPT ![a] = Append(@, m)]
         /\ m.code \in {"SIP_ACCEPT", "SIP_REJECT"} =>
               m.heard = Heard(ua[a]) /\ m.alone = (Waiting(a) = {})
  BY Typed
<1>2. ua' = ua
  BY Typed
<1>3. Sure(m) => /\ \A i \in DOMAIN signalQ[a] : signalQ[a][i].code = "SIP_RCVD"
                 /\ ua[a].state = "RCVD_INV" /\ ua[a].callId = m.heard
  <2> SUFFICES ASSUME Sure(m)
               PROVE  /\ \A i \in DOMAIN signalQ[a] : signalQ[a][i].code = "SIP_RCVD"
                      /\ ua[a].state = "RCVD_INV" /\ ua[a].callId = m.heard
    OBVIOUS
  <2>1. Waiting(a) = {}
    BY <1>1 DEF Sure
  <2>2. m.heard = Heard(ua[a]) /\ m.heard # NoCall
    BY <1>1 DEF Sure
  <2> QED
    BY <2>1, <2>2 DEF Waiting, Heard
<1> SUFFICES ASSUME NEW b \in Agent PROVE AnswerWaits(b)'
  BY DEF AnswerInv
<1>4. AnswerWaits(b)
  BY DEF AnswerInv
<1>5. \A i \in DOMAIN signalQ'[b] :
         \/ i \in DOMAIN signalQ[b] /\ signalQ'[b][i] = signalQ[b][i]
         \/ b = a /\ i = Len(signalQ[a]) + 1 /\ signalQ'[b][i] = m
  BY <1>1, Queued
<1>6. ASSUME NEW i \in DOMAIN signalQ'[b], Sure(signalQ'[b][i]),
             NEW j \in DOMAIN signalQ'[b], j < i
      PROVE  signalQ'[b][j].code = "SIP_RCVD"
  <2>1. Len(signalQ[b]) \in Nat /\ DOMAIN signalQ[b] = 1 .. Len(signalQ[b])
    BY DEF IndInv, TypeOK
  <2>2. j \in DOMAIN signalQ[b] /\ signalQ'[b][j] = signalQ[b][j]
    <3>1. i \in 1 .. Len(signalQ[b]) + 1
      BY <1>5, <2>1
    <3>2. j # Len(signalQ[b]) + 1
      BY <1>6, <2>1, <3>1
    <3> QED
      BY <1>5, <3>2
  <2> QED
    BY <1>3, <1>4, <1>5, <1>6, <2>2 DEF AnswerWaits
<1>7. ASSUME NEW i \in DOMAIN signalQ'[b], Sure(signalQ'[b][i])
      PROVE  ua'[b].state = "RCVD_INV" /\ ua'[b].callId = signalQ'[b][i].heard
  BY <1>2, <1>3, <1>4, <1>5, <1>7 DEF AnswerWaits
<1> QED
  BY <1>6, <1>7 DEF AnswerWaits

(* The other steps change neither the state of an agent nor its commands.  *)
LEMMA OtherAnswer ==
    ASSUME IndInv, AnswerInv,
           \/ \E a \in Agent : UdpWriter(a) \/ UdpReader(a)
           \/ \E h \in Host \ Agent : StrangerSends(h)
           \/ UNCHANGED vars
    PROVE  AnswerInv' /\ \A b \in Agent : ua'[b].state = ua[b].state
<1>1. ASSUME signalQ' = signalQ,
             \A b \in Agent : ua'[b].state = ua[b].state /\ ua'[b].callId = ua[b].callId
      PROVE  AnswerInv'
  BY <1>1 DEF AnswerInv, AnswerWaits
<1>2. ASSUME NEW a \in Agent, UdpWriter(a)
      PROVE  AnswerInv' /\ \A b \in Agent : ua'[b].state = ua[b].state
  <2>1. signalQ' = signalQ /\ ua' = [ua EXCEPT ![a].sendQ = Tail(@)]
    BY <1>2 DEF UdpWriter
  <2>2. \A b \in Agent : ua'[b].state = ua[b].state /\ ua'[b].callId = ua[b].callId
    BY <2>1 DEF IndInv, TypeOK, UARecord
  <2> QED
    BY <1>1, <2>1, <2>2
<1>3. ASSUME NEW a \in Agent, UdpReader(a)
      PROVE  AnswerInv' /\ \A b \in Agent : ua'[b].state = ua[b].state
  <2>1. ua' = ua
    BY <1>3 DEF UdpReader
  <2>2. PICK n \in net :
           signalQ' = [signalQ EXCEPT ![a] = Append(@, [code |-> "SIP_RCVD", pkt |-> n.pkt])]
    BY <1>3 DEF UdpReader
  <2>3. [code |-> "SIP_RCVD", pkt |-> n.pkt] \in Signal
    BY DEF IndInv, TypeOK, Signal
  <2>4. \A b \in Agent : \A i \in DOMAIN signalQ'[b] :
           \/ i \in DOMAIN signalQ[b] /\ signalQ'[b][i] = signalQ[b][i]
           \/ signalQ'[b][i].code = "SIP_RCVD"
    BY <2>2, <2>3, Queued
  <2>5. \A b \in Agent : AnswerWaits(b)
    BY DEF AnswerInv
  <2>6. ASSUME NEW b \in Agent PROVE AnswerWaits(b)'
    <3>1. \A i \in DOMAIN signalQ'[b] : Sure(signalQ'[b][i]) =>
             i \in DOMAIN signalQ[b] /\ signalQ'[b][i] = signalQ[b][i]
      BY <2>4 DEF Sure
    <3> QED
      BY <2>1, <2>4, <2>5, <3>1 DEF AnswerWaits
  <2> QED
    BY <2>1, <2>6 DEF AnswerInv
<1>4. ASSUME NEW h \in Host \ Agent, StrangerSends(h)
      PROVE  AnswerInv' /\ \A b \in Agent : ua'[b].state = ua[b].state
  <2>1. signalQ' = signalQ /\ ua' = ua
    BY <1>4 DEF StrangerSends
  <2> QED
    BY <1>1, <2>1
<1>5. CASE UNCHANGED vars
  <2>1. signalQ' = signalQ /\ ua' = ua
    BY <1>5 DEF vars
  <2> QED
    BY <1>1, <2>1
<1> QED
  BY <1>2, <1>3, <1>4, <1>5

LEMMA InitAnswer == Init => AnswerInv
<1> SUFFICES ASSUME Init, NEW a \in Agent PROVE AnswerWaits(a)
  BY DEF AnswerInv
<1>1. DOMAIN << >> = {}
  OBVIOUS
<1>2. DOMAIN signalQ[a] = {}
  BY <1>1 DEF Init
<1> QED
  BY <1>2 DEF AnswerWaits

LEMMA NextAnswer == IndInv /\ AnswerInv /\ [Next]_vars => AnswerInv'
<1> SUFFICES ASSUME IndInv, AnswerInv, [Next]_vars PROVE AnswerInv'
  OBVIOUS
<1>1. CASE Agents
  BY <1>1, AgentAnswer DEF Agents
<1>2. ASSUME NEW a \in Agent, User(a) PROVE AnswerInv'
  BY <1>2, UserAnswer
<1> QED
  BY <1>1, <1>2, OtherAnswer DEF Next

(* An agent accepts or declines only in a pass that takes an answer.       *)
LEMMA AnsweredBy ==
    ASSUME IndInv, AnswerInv, [Next]_vars, NEW a \in Agent,
           ua[a].state # ua'[a].state, ua'[a].state \in {"ACCEPTED", "REJECTED"}
    PROVE  /\ Sure(Head(signalQ[a])) => ua'[a].callId = Head(signalQ[a]).heard
           /\ Head(signalQ[a]).code \in {"SIP_ACCEPT", "SIP_REJECT"}
<1>1. PICK b \in Agent : UserAgentStep(b)
  <2>1. ASSUME NEW b \in Agent, User(b) PROVE FALSE
    <3>1. ua' = ua
      BY <2>1, Typed
    <3> QED
      BY <3>1
  <2> QED
    BY <2>1, OtherAnswer DEF Next, Agents
<1>2. PICK v : ua' = [ua EXCEPT ![b] = v] /\ Outcome(b, v)
  BY <1>1, StepOutcome
<1>3. b = a /\ ua'[a] = v
  BY <1>2 DEF IndInv, TypeOK
<1>4. /\ Answer(ua[a], v) /\ Took(a)
      /\ Head(signalQ[a]).code \in {"SIP_ACCEPT", "SIP_REJECT"}
  BY <1>2, <1>3
     DEF Outcome, Stay, HangUp, Connect, Acked, StartRing, StartCall, Over, RingAgain
<1>5. signalQ[a] \in Seq(Signal) /\ signalQ[a] # << >>
  BY <1>4 DEF IndInv, TypeOK, Took
<1>6. 1 \in DOMAIN signalQ[a] /\ Head(signalQ[a]) = signalQ[a][1]
  BY <1>5, TailHolds
<1>7. Sure(Head(signalQ[a])) => ua[a].callId = Head(signalQ[a]).heard
  BY <1>6 DEF AnswerInv, AnswerWaits
<1> QED
  BY <1>3, <1>4, <1>7 DEF Answer, SameCall

(* An answer typed while an incoming call rings and no other command waits *)
(* never goes to another call, however long it waits, whatever packets are *)
(* ahead of it, and whatever is typed after it.                            *)
THEOREM AnswersConsented == Spec => ConsentedCall
<1> DEFINE Consent ==
       \A a \in Agent :
          (/\ ua[a].state # ua'[a].state /\ ua'[a].state \in {"ACCEPTED", "REJECTED"}
           /\ Head(signalQ[a]).alone /\ Head(signalQ[a]).heard # NoCall)
            => ua'[a].callId = Head(signalQ[a]).heard
<1>1. IndInv /\ AnswerInv /\ [Next]_vars => [Consent]_vars
  BY AnsweredBy DEF Sure
<1> QED
  BY InitInv, NextInv, InitAnswer, NextAnswer, <1>1, PTL DEF Spec, ConsentedCall

--------------------------------------------------------------------------------
(* Every call id in use was drawn, and no agent has its own address.       *)

Known == drawn \cup {NoCall}

SaneRecord(K, a, u) ==
    /\ u.callId \in K /\ u.sendCallId \in K
    /\ \A i \in DOMAIN u.sendQ : u.sendQ[i].callId \in K
    /\ u.remoteHost # a /\ u.contact # a /\ u.sipAddr # a /\ u.tempAddr # a

SaneMemo(a, m) ==
    /\ m.code = "SIP_RCVD" => m.pkt.callId \in Known /\ m.pkt.from # a
    /\ m.code = "SIP_INVITE" => m.host # a

SaneInv ==
    /\ \A a \in Agent : SaneRecord(Known, a, ua[a])
    /\ \A a \in Agent : \A i \in DOMAIN signalQ[a] : SaneMemo(a, signalQ[a][i])
    /\ \A n \in net : n.pkt.callId \in Known /\ n.pkt.from # n.to

LEMMA ResolveSane ==
    ASSUME NEW a, NEW addr, NEW name, addr # a, name # a
    PROVE  Resolve(addr, name) # a
  BY DEF Resolve

LEMMA EnqueueSane ==
    ASSUME NEW K, NEW a, NEW u \in UARecord, SaneRecord(K, a, u), NEW b \in BOOLEAN,
           NEW t \in {"INVITE", "ACK", "BYE"} \cup Responses,
           NEW c \in CallId \cup {NoCall}, c \in K
    PROVE  SaneRecord(K, a, Enqueue(u, t, c, b)) /\ Enqueue(u, t, c, b) \in UARecord
<1> DEFINE m == [type |-> t, callId |-> c, temp |-> b]
           v == Enqueue(u, t, c, b)
<1>1. m \in SendMemo /\ m.callId = c /\ u.sendQ \in Seq(SendMemo)
  BY DEF SendMemo, UARecord
<1>2. /\ v.sendQ = Append(u.sendQ, m) /\ v.callId = u.callId /\ v.sendCallId = u.sendCallId
      /\ v.remoteHost = u.remoteHost /\ v.contact = u.contact
      /\ v.sipAddr = u.sipAddr /\ v.tempAddr = u.tempAddr
  BY DEF Enqueue, UARecord
<1>3. v \in UARecord
  BY EnqueueType
<1> HIDE DEF m, v
<1>4. \A i \in DOMAIN v.sendQ : v.sendQ[i] = m \/ (i \in DOMAIN u.sendQ /\ v.sendQ[i] = u.sendQ[i])
  BY <1>1, <1>2, AppendProperties
<1> QED
  BY <1>1, <1>2, <1>3, <1>4 DEF SaneRecord, v

LEMMA CheckSrcSane ==
    ASSUME NEW K, NEW a, NEW u \in UARecord, SaneRecord(K, a, u), NEW p \in Packet,
           p.callId \in K, p.from # a
    PROVE  SaneRecord(K, a, CheckSrc(u, p))
<1> DEFINE v == Enqueue(u, "BUSY", p.callId, TRUE)
           r == Resolve(v.tempAddr, p.from)
           w == [v EXCEPT !.sendCallId = p.callId, !.tempAddr = r]
<1>1. "BUSY" \in Responses /\ p.callId \in CallId \cup {NoCall}
  BY DEF Responses, Packet
<1>2. SaneRecord(K, a, v) /\ v \in UARecord
  BY <1>1, EnqueueSane
<1>3. SendBusy(u, p) = w
  BY DEF SendBusy
<1>4. r # a
  BY <1>2, ResolveSane DEF SaneRecord
<1> HIDE DEF v, r
<1>5. SaneRecord(K, a, w)
  BY <1>2, <1>4 DEF UARecord, SaneRecord
<1> QED
  BY <1>3, <1>5 DEF CheckSrc

LEMMA SendRingingSane ==
    ASSUME NEW K, NEW a, NEW u \in UARecord, SaneRecord(K, a, u)
    PROVE  SaneRecord(K, a, SendRinging(u))
<1> DEFINE v == Enqueue(u, "RING", u.callId, FALSE)
           r == Resolve(v.sipAddr, u.remoteHost)
           s == Resolve(v.rtpAddr, u.remoteHost)
           w == [v EXCEPT !.sendCallId = u.callId, !.sipAddr = r, !.rtpAddr = s,
                          !.remoteHost = u.contact, !.state = "RCVD_INV",
                          !.isRinging = TRUE, !.defaultAction = "SEND_RING"]
<1>1. "RING" \in Responses /\ u.callId \in CallId \cup {NoCall} /\ u.callId \in K
      /\ u.contact # a /\ u.remoteHost # a
  BY DEF Responses, UARecord, SaneRecord
<1>2. SaneRecord(K, a, v) /\ v \in UARecord
  BY <1>1, EnqueueSane
<1>3. SendRinging(u) = w
  BY DEF SendRinging
<1>4. r # a
  BY <1>1, <1>2, ResolveSane DEF SaneRecord
<1> HIDE DEF v, r, s
<1>5. SaneRecord(K, a, w)
  BY <1>1, <1>2, <1>4 DEF UARecord, SaneRecord
<1> QED
  BY <1>3, <1>5

LEMMA WritersSane ==
    ASSUME NEW K, NEW a, NEW u \in UARecord, SaneRecord(K, a, u)
    PROVE  /\ SaneRecord(K, a, SendBye(u))
           /\ SaneRecord(K, a, SendOk(u)) /\ SendOk(u) \in UARecord
           /\ SaneRecord(K, a, SendDecline(u)) /\ SendDecline(u) \in UARecord
           /\ SaneRecord(K, a, SendAck(u)) /\ SendAck(u) \in UARecord
<1>1. /\ u.callId \in CallId \cup {NoCall} /\ u.callId \in K
      /\ u.sendCallId \in CallId \cup {NoCall} /\ u.sendCallId \in K
      /\ "OK" \in Responses /\ "DECLINE" \in Responses
  BY DEF UARecord, Responses, SaneRecord
<1>2. SaneRecord(K, a, SendBye(u))
  <2> DEFINE v == Enqueue(u, "BYE", u.sendCallId, FALSE)
  <2>1. SaneRecord(K, a, v) /\ v \in UARecord
    BY <1>1, EnqueueSane
  <2>2. SendBye(u) = [v EXCEPT !.state = "SENT_BYE", !.defaultAction = "BYE"]
    BY DEF SendBye
  <2> HIDE DEF v
  <2> QED
    BY <2>1, <2>2 DEF UARecord, SaneRecord
<1>3. SaneRecord(K, a, SendOk(u)) /\ SendOk(u) \in UARecord
  <2> DEFINE v == Enqueue(u, "OK", u.callId, FALSE)
  <2>1. SaneRecord(K, a, v) /\ v \in UARecord
    BY <1>1, EnqueueSane
  <2>2. SendOk(u) = [v EXCEPT !.sendCallId = u.callId]
    BY DEF SendOk
  <2> HIDE DEF v
  <2> QED
    BY <1>1, <2>1, <2>2 DEF UARecord, SaneRecord
<1>4. SaneRecord(K, a, SendDecline(u)) /\ SendDecline(u) \in UARecord
  <2> DEFINE v == Enqueue(u, "DECLINE", u.sendCallId, FALSE)
  <2>1. SaneRecord(K, a, v) /\ v \in UARecord
    BY <1>1, EnqueueSane
  <2>2. SendDecline(u) = [v EXCEPT !.state = "REJECTED", !.defaultAction = "DISCONN"]
    BY DEF SendDecline
  <2>3. "REJECTED" \in UAStates /\ "DISCONN" \in DefaultActions
    BY DEF UAStates, DefaultActions
  <2> HIDE DEF v
  <2> QED
    BY <2>1, <2>2, <2>3 DEF UARecord, SaneRecord
<1>5. SaneRecord(K, a, SendAck(u)) /\ SendAck(u) \in UARecord
  <2> DEFINE v == Enqueue(u, "ACK", u.sendCallId, FALSE)
  <2>1. SaneRecord(K, a, v) /\ v \in UARecord
    BY <1>1, EnqueueSane
  <2>2. SendAck(u) = [v EXCEPT !.state = "IN_CALL", !.isConnected = TRUE,
                               !.defaultAction = "NONE"]
    BY DEF SendAck
  <2>3. "IN_CALL" \in UAStates /\ "NONE" \in DefaultActions
    BY DEF UAStates, DefaultActions
  <2> HIDE DEF v
  <2> QED
    BY <2>1, <2>2, <2>3 DEF UARecord, SaneRecord
<1> QED
  BY <1>2, <1>3, <1>4, <1>5

(* cleanup(), and fields that SaneRecord does not speak of.                *)
LEMMA CleanupSane ==
    ASSUME NEW K, NoCall \in K, NEW a \in Agent, NEW u \in UARecord, SaneRecord(K, a, u)
    PROVE  SaneRecord(K, a, Cleanup(u))
<1>1. NoHost # a /\ NoCall \in K /\ DOMAIN << >> = {}
  BY HostAssumption
<1>2. /\ Cleanup(u).callId = NoCall /\ Cleanup(u).sendCallId = NoCall
      /\ Cleanup(u).sendQ = << >> /\ Cleanup(u).remoteHost = NoHost
      /\ Cleanup(u).contact = u.contact
      /\ Cleanup(u).sipAddr = u.sipAddr /\ Cleanup(u).tempAddr = u.tempAddr
  BY DEF Cleanup, UARecord
<1> QED
  BY <1>1, <1>2 DEF SaneRecord

LEMMA SameSane ==
    ASSUME NEW K, NEW a, NEW u, NEW v, SaneRecord(K, a, u),
           v.callId = u.callId, v.sendCallId = u.sendCallId, v.sendQ = u.sendQ,
           v.remoteHost = u.remoteHost, v.contact = u.contact,
           v.sipAddr = u.sipAddr, v.tempAddr = u.tempAddr
    PROVE  SaneRecord(K, a, v)
  BY DEF SaneRecord

LEMMA DefaultActionSane ==
    ASSUME NEW K, NoCall \in K, NEW a \in Agent, NEW u \in UARecord, SaneRecord(K, a, u)
    PROVE  SaneRecord(K, a, DefaultAction(u))
<1>1. ASSUME Repeats(u)
      PROVE  Counted(u) \in UARecord /\ SaneRecord(K, a, Counted(u))
  <2>1. u.rptCount + 1 \in 0 .. RptLimit
    BY <1>1, RptAssumption DEF UARecord, Repeats
  <2>2. Counted(u) \in UARecord
    BY <2>1 DEF UARecord, Counted
  <2>3. SaneRecord(K, a, Counted(u))
    BY SameSane DEF UARecord, Counted
  <2> QED
    BY <2>2, <2>3
<1>2. CASE u.defaultAction \in {"DISCONN", "CONN", "INCOMING"}
  BY <1>2, CleanupSane DEF DefaultAction
<1>3. CASE u.defaultAction = "BYE"
  <2>1. CASE Repeats(u)
    BY <1>1, <1>3, <2>1, WritersSane DEF DefaultAction
  <2>2. CASE ~ Repeats(u)
    <3>1. DefaultAction(u) = [u EXCEPT !.rptCount = 0, !.state = "DISCONNECTED",
                                       !.defaultAction = "DISCONN"]
      BY <1>3, <2>2 DEF DefaultAction
    <3> QED
      BY <3>1, SameSane DEF UARecord
  <2> QED
    BY <2>1, <2>2
<1>4. CASE u.defaultAction = "SEND_RING"
  <2>1. CASE Repeats(u)
    BY <1>1, <1>4, <2>1, SendRingingSane DEF DefaultAction
  <2>2. CASE ~ Repeats(u)
    <3>1. DefaultAction(u) = [u EXCEPT !.rptCount = 0, !.defaultAction = "INCOMING"]
      BY <1>4, <2>2 DEF DefaultAction
    <3> QED
      BY <3>1, SameSane DEF UARecord
  <2> QED
    BY <2>1, <2>2
<1>5. CASE u.defaultAction = "NONE"
  BY <1>5 DEF DefaultAction
<1> QED
  BY <1>2, <1>3, <1>4, <1>5 DEF UARecord, DefaultActions

(* A pass of the loop that leaves the agent's own record sane.             *)
LEMMA PassSane ==
    ASSUME IndInv, SaneInv, NEW a \in Agent, NEW v,
           ua' = [ua EXCEPT ![a] = v], signalQ' = signalQ \/ Took(a), UNCHANGED net,
           drawn \subseteq drawn', SaneRecord(drawn' \cup {NoCall}, a, v)
    PROVE  SaneInv'
<1>1. ua'[a] = v /\ \A b \in Agent \ {a} : ua'[b] = ua[b]
  BY DEF IndInv, TypeOK
<1>2. \A b \in Agent : \A i \in DOMAIN signalQ'[b] :
         \E j \in DOMAIN signalQ[b] : signalQ'[b][i] = signalQ[b][j]
  BY SignalsKept
<1>3. \A c : c \in drawn \cup {NoCall} => c \in drawn' \cup {NoCall}
  OBVIOUS
<1>4. (\A b \in Agent : SaneRecord(Known, b, ua[b]))'
  <2> SUFFICES ASSUME NEW b \in Agent PROVE SaneRecord(drawn' \cup {NoCall}, b, ua'[b])
    BY DEF SaneRecord, Known
  <2>1. SaneRecord(drawn \cup {NoCall}, b, ua[b])
    BY DEF SaneInv, Known
  <2> QED
    BY <1>1, <1>3, <2>1 DEF SaneRecord
<1>5. (\A b \in Agent : \A i \in DOMAIN signalQ[b] : SaneMemo(b, signalQ[b][i]))'
  <2> SUFFICES ASSUME NEW b \in Agent, NEW i \in DOMAIN signalQ'[b]
               PROVE  SaneMemo(b, signalQ[b][i])'
    OBVIOUS
  <2>1. PICK j \in DOMAIN signalQ[b] : signalQ'[b][i] = signalQ[b][j]
    BY <1>2
  <2>2. SaneMemo(b, signalQ[b][j])
    BY DEF SaneInv
  <2> QED
    BY <1>3, <2>1, <2>2 DEF SaneMemo, Known
<1>6. (\A n \in net : n.pkt.callId \in Known /\ n.pkt.from # n.to)'
  BY <1>3 DEF SaneInv, Known
<1> QED
  BY <1>4, <1>5, <1>6 DEF SaneInv

(* The packet or the host that a memo brings.                              *)
LEMMA HeadSane ==
    ASSUME IndInv, SaneInv, NEW a \in Agent, signalQ[a] # << >>
    PROVE  SaneMemo(a, Head(signalQ[a]))
<1>1. signalQ[a] \in Seq(Signal)
  BY DEF IndInv, TypeOK
<1>2. 1 \in DOMAIN signalQ[a] /\ Head(signalQ[a]) = signalQ[a][1]
  BY <1>1, TailHolds
<1>3. SaneMemo(a, signalQ[a][1])
  BY <1>2 DEF SaneInv
<1> QED
  BY <1>2, <1>3 DEF SaneMemo

(* sendInvite: the host is another one, the call id has just been drawn.   *)
LEMMA SendInviteSane ==
    ASSUME NEW K, NEW a, NEW u \in UARecord, SaneRecord(K, a, u),
           NEW h \in Host \cup {NoHost, BadHost}, h # a, NEW c \in CallId, c \in K
    PROVE  SaneRecord(K, a, [SendInvite([u EXCEPT !.remoteHost = h], c)
                                EXCEPT !.isConnected = FALSE])
<1> DEFINE t == [u EXCEPT !.remoteHost = h]
           v == Enqueue(t, "INVITE", c, FALSE)
           r == Resolve(v.sipAddr, t.remoteHost)
           w == [[v EXCEPT !.callId = c, !.callIdHost = "local", !.sendCallId = c,
                     !.sipAddr = r, !.state = "SENT_INV", !.defaultAction = "CONN"]
                   EXCEPT !.isConnected = FALSE]
<1>1. t \in UARecord /\ SaneRecord(K, a, t) /\ t.remoteHost = h
  BY DEF UARecord, SaneRecord
<1>2. [SendInvite(t, c) EXCEPT !.isConnected = FALSE] = w
  BY DEF SendInvite
<1> HIDE DEF t
<1>3. SaneRecord(K, a, v) /\ v \in UARecord
  BY <1>1, EnqueueSane
<1>4. r # a
  BY <1>1, <1>3, ResolveSane DEF SaneRecord
<1> HIDE DEF v, r
<1>5. SaneRecord(K, a, w)
  BY <1>3, <1>4 DEF UARecord, SaneRecord
<1> QED
  BY <1>2, <1>5 DEF t

(* Every pass of the user agent thread, one case per action.               *)
LEMMA AgentSane ==
    ASSUME IndInv, SaneInv, NEW a \in Agent, UserAgentStep(a), UNCHANGED net
    PROVE  SaneInv'
<1> DEFINE u == ua[a]
           m == Head(signalQ[a])
           p == m.pkt
           q == Parsed(u, p)
           K == drawn \cup {NoCall}
<1>1. u \in UARecord /\ SaneRecord(K, a, u)
  BY DEF IndInv, TypeOK, SaneInv, Known
<1>2. ASSUME NEW v, Handle(a, v), signalQ[a] # << >>, UNCHANGED drawn, SaneRecord(K, a, v)
      PROVE  SaneInv'
  <2>1. ua' = [ua EXCEPT ![a] = v] /\ Took(a)
    BY <1>2 DEF Handle, Took
  <2>2. SaneRecord(drawn' \cup {NoCall}, a, v)
    BY <1>2
  <2> QED
    BY <1>2, <2>1, <2>2, PassSane
<1>3. ASSUME signalQ[a] # << >>, m.code = "SIP_RCVD"
      PROVE  /\ p \in Packet /\ p.callId \in K /\ p.from # a
             /\ q \in UARecord /\ SaneRecord(K, a, q) /\ SaneRecord(K, a, CheckSrc(q, p))
  <2>1. p \in Packet
    BY <1>3, HeadMemo DEF IndInv
  <2>2. p.callId \in K /\ p.from # a
    BY <1>3, HeadSane DEF SaneMemo, Known
  <2>3. p.from \in Host
    BY <2>1 DEF Packet
  <2> HIDE DEF p, u, K
  <2>4. q \in UARecord /\ SaneRecord(K, a, q)
    BY <1>1, <2>2, <2>3 DEF Parsed, UARecord, SaneRecord
  <2> HIDE DEF q
  <2>5. SaneRecord(K, a, CheckSrc(q, p))
    BY <2>1, <2>2, <2>4, CheckSrcSane
  <2> QED
    BY <2>1, <2>2, <2>4, <2>5
<1>4. NoCall \in K
  OBVIOUS
<1>5. CASE CmdInvite(a)
  <2>1. signalQ[a] # << >> /\ m.host \in Host \cup {NoHost, BadHost} /\ m.host # a
    BY <1>5, HeadMemo, HeadSane DEF CmdInvite, HasMemo, IndInv, SaneMemo
  <2>2. CASE Handle(a, u) /\ UNCHANGED drawn
    BY <1>1, <1>2, <2>1, <2>2
  <2>3. ASSUME NEW c \in CallId \ drawn, drawn' = drawn \cup {c},
               Handle(a, [SendInvite([u EXCEPT !.remoteHost = m.host], c)
                             EXCEPT !.isConnected = FALSE])
        PROVE  SaneInv'
    <3> DEFINE L == drawn' \cup {NoCall}
    <3>1. c \in L /\ K \subseteq L
      BY <2>3
    <3> HIDE DEF K, L
    <3>2. SaneRecord(L, a, u)
      BY <1>1, <3>1 DEF SaneRecord
    <3> HIDE DEF u
    <3>3. SaneRecord(L, a, [SendInvite([u EXCEPT !.remoteHost = m.host], c)
                               EXCEPT !.isConnected = FALSE])
      BY <1>1, <2>1, <3>1, <3>2, SendInviteSane
    <3> DEFINE v == [SendInvite([u EXCEPT !.remoteHost = m.host], c) EXCEPT !.isConnected = FALSE]
    <3>4. Handle(a, v)
      BY <2>3 DEF u
    <3>5. SaneRecord(L, a, v)
      BY <3>3
    <3> HIDE DEF v
    <3>6. ua' = [ua EXCEPT ![a] = v] /\ Took(a)
      BY <2>1, <3>4 DEF Handle, Took
    <3> QED
      BY <2>3, <3>5, <3>6, PassSane DEF L
  <2> QED
    BY <1>5, <2>2, <2>3 DEF CmdInvite, FreshCallIds
<1>6. CASE CmdBye(a)
  <2>1. signalQ[a] # << >> /\ UNCHANGED drawn
    BY <1>6 DEF CmdBye, HasMemo
  <2> DEFINE t == [u EXCEPT !.isConnected = FALSE, !.rptCount = 0]
  <2>2. 0 \in 0 .. RptLimit
    BY RptAssumption
  <2>3. t \in UARecord /\ SaneRecord(K, a, t)
    BY <1>1, <2>2 DEF UARecord, SaneRecord
  <2>4. Handle(a, u) \/ Handle(a, SendBye(t))
    BY <1>6 DEF CmdBye
  <2> HIDE DEF t, u, K
  <2>5. SaneRecord(K, a, SendBye(t))
    BY <2>3, WritersSane
  <2> QED
    BY <1>1, <1>2, <2>1, <2>4, <2>5
<1>7. CASE CmdAccept(a)
  <2>1. signalQ[a] # << >> /\ UNCHANGED drawn
    BY <1>7 DEF CmdAccept, HasMemo
  <2> DEFINE v == [SendOk(u) EXCEPT !.state = "ACCEPTED", !.isRinging = FALSE]
  <2>2. Handle(a, u) \/ Handle(a, v)
    BY <1>7 DEF CmdAccept
  <2> HIDE DEF u, K
  <2>3. SaneRecord(K, a, SendOk(u)) /\ SendOk(u) \in UARecord
    BY <1>1, WritersSane
  <2>4. SaneRecord(K, a, v)
    BY <2>3, SameSane DEF UARecord
  <2> QED
    BY <1>1, <1>2, <2>1, <2>2, <2>4
<1>8. CASE CmdReject(a)
  <2>1. signalQ[a] # << >> /\ UNCHANGED drawn
    BY <1>8 DEF CmdReject, HasMemo
  <2> DEFINE v == [SendDecline(u) EXCEPT !.isRinging = FALSE]
  <2>2. Handle(a, u) \/ Handle(a, v)
    BY <1>8 DEF CmdReject
  <2> HIDE DEF u, K
  <2>3. SaneRecord(K, a, SendDecline(u)) /\ SendDecline(u) \in UARecord
    BY <1>1, WritersSane
  <2>4. SaneRecord(K, a, v)
    BY <2>3, SameSane DEF UARecord
  <2> QED
    BY <1>1, <1>2, <2>1, <2>2, <2>4
<1>9. CASE RcvdUnparsable(a)
  <2>1. signalQ[a] # << >> /\ UNCHANGED drawn
    BY <1>9 DEF RcvdUnparsable, HasMemo
  <2>2. PICK h \in {u.contact, BadHost, p.from} : Handle(a, [u EXCEPT !.contact = h])
    BY <1>9 DEF RcvdUnparsable
  <2>5. p.from # a
    BY <1>3, <1>9 DEF RcvdUnparsable, HasMemo
  <2>3. h # a
    BY <1>1, <2>2, <2>5, HostAssumption DEF SaneRecord
  <2>4. SaneRecord(K, a, [u EXCEPT !.contact = h])
    BY <1>1, <2>3 DEF UARecord, SaneRecord
  <2> QED
    BY <1>2, <2>1, <2>2, <2>4
<1>10. CASE RcvdDisconnected(a)
  <2>1. signalQ[a] # << >> /\ m.code = "SIP_RCVD" /\ UNCHANGED drawn
    BY <1>10 DEF RcvdDisconnected, Received, HasMemo
  <2> DEFINE t == [q EXCEPT !.callId = p.callId, !.callIdHost = "heap", !.remoteHost = p.from]
  <2>2. Handle(a, q) \/ Handle(a, SendRinging(t))
    BY <1>10 DEF RcvdDisconnected
  <2>3. /\ p.callId \in CallId \cup {NoCall} /\ p.from \in Host \cup {NoHost, BadHost}
        /\ "heap" \in HostPointers /\ p.callId \in K /\ p.from # a
        /\ q \in UARecord /\ SaneRecord(K, a, q)
    BY <1>3, <2>1 DEF Packet, HostPointers
  <2> HIDE DEF p, q, K, u
  <2>4. t \in UARecord
    BY <2>3 DEF UARecord
  <2>5. SaneRecord(K, a, t)
    BY <2>3 DEF UARecord, SaneRecord
  <2> HIDE DEF t
  <2>6. SaneRecord(K, a, SendRinging(t))
    BY <2>4, <2>5, SendRingingSane
  <2> QED
    BY <1>2, <2>1, <2>2, <2>3, <2>6
<1>11. CASE RcvdSentInv(a)
  <2>1. signalQ[a] # << >> /\ m.code = "SIP_RCVD" /\ UNCHANGED drawn
    BY <1>11 DEF RcvdSentInv, Received, HasMemo
  <2> DEFINE r == Resolve(q.rtpAddr, q.remoteHost)
             t == [q EXCEPT !.rtpAddr = r]
             v == [SendAck(t) EXCEPT !.isRinging = FALSE]
  <2>2. \/ Handle(a, q) \/ Handle(a, CheckSrc(q, p)) \/ Handle(a, v)
        \/ Handle(a, [q EXCEPT !.isRinging = TRUE, !.defaultAction = "CONN"])
        \/ Handle(a, [q EXCEPT !.isRinging = FALSE, !.defaultAction = "DISCONN"])
    BY <1>11 DEF RcvdSentInv
  <2>3. q \in UARecord /\ SaneRecord(K, a, q) /\ SaneRecord(K, a, CheckSrc(q, p))
    BY <1>3, <2>1
  <2> HIDE DEF p, q, K, u
  <2>4. /\ SaneRecord(K, a, [q EXCEPT !.isRinging = TRUE, !.defaultAction = "CONN"])
        /\ SaneRecord(K, a, [q EXCEPT !.isRinging = FALSE, !.defaultAction = "DISCONN"])
    BY <2>3, SameSane DEF UARecord
  <2>5. r \in Host \cup {NoHost}
    BY <2>3, ResolveType DEF UARecord
  <2> HIDE DEF r
  <2>6. t \in UARecord
    BY <2>3, <2>5 DEF UARecord
  <2>7. SaneRecord(K, a, t)
    BY <2>3, SameSane DEF UARecord
  <2> HIDE DEF t
  <2>8. SaneRecord(K, a, SendAck(t)) /\ SendAck(t) \in UARecord
    BY <2>6, <2>7, WritersSane
  <2>9. SaneRecord(K, a, v)
    BY <2>8, SameSane DEF UARecord
  <2> QED
    BY <1>2, <2>1, <2>2, <2>3, <2>4, <2>9
<1>12. CASE RcvdSentBye(a)
  <2>1. signalQ[a] # << >> /\ m.code = "SIP_RCVD" /\ UNCHANGED drawn
    BY <1>12 DEF RcvdSentBye, Received, HasMemo
  <2>2. Handle(a, q) \/ Handle(a, CheckSrc(q, p)) \/ Handle(a, Cleanup(q))
    BY <1>12 DEF RcvdSentBye
  <2>3. q \in UARecord /\ SaneRecord(K, a, q) /\ SaneRecord(K, a, CheckSrc(q, p))
    BY <1>3, <2>1
  <2> HIDE DEF p, q, K, u
  <2>4. SaneRecord(K, a, Cleanup(q))
    BY <1>4, <2>3, CleanupSane
  <2> QED
    BY <1>2, <2>1, <2>2, <2>3, <2>4
<1>13. CASE RcvdAccepted(a)
  <2>1. signalQ[a] # << >> /\ m.code = "SIP_RCVD" /\ UNCHANGED drawn
    BY <1>13 DEF RcvdAccepted, Received, HasMemo
  <2> DEFINE v == [q EXCEPT !.isConnected = TRUE, !.isRinging = FALSE,
                            !.defaultAction = "NONE", !.state = "IN_CALL"]
  <2>2. Handle(a, CheckSrc(q, p)) \/ Handle(a, v)
    BY <1>13 DEF RcvdAccepted
  <2>3. q \in UARecord /\ SaneRecord(K, a, q) /\ SaneRecord(K, a, CheckSrc(q, p))
    BY <1>3, <2>1
  <2> HIDE DEF p, q, K, u
  <2>4. SaneRecord(K, a, v)
    BY <2>3, SameSane DEF UARecord
  <2> QED
    BY <1>2, <2>1, <2>2, <2>3, <2>4
<1>14. CASE RcvdRejected(a)
  <2>1. signalQ[a] # << >> /\ m.code = "SIP_RCVD" /\ UNCHANGED drawn
    BY <1>14 DEF RcvdRejected, Received, HasMemo
  <2> DEFINE v == [q EXCEPT !.isConnected = FALSE, !.isRinging = FALSE,
                            !.defaultAction = "DISCONN"]
  <2>2. Handle(a, CheckSrc(q, p)) \/ Handle(a, v)
    BY <1>14 DEF RcvdRejected
  <2>3. q \in UARecord /\ SaneRecord(K, a, q) /\ SaneRecord(K, a, CheckSrc(q, p))
    BY <1>3, <2>1
  <2> HIDE DEF p, q, K, u
  <2>4. SaneRecord(K, a, v)
    BY <2>3, SameSane DEF UARecord
  <2> QED
    BY <1>2, <2>1, <2>2, <2>3, <2>4
<1>15. CASE RcvdInCall(a)
  <2>1. signalQ[a] # << >> /\ m.code = "SIP_RCVD" /\ UNCHANGED drawn
    BY <1>15 DEF RcvdInCall, Received, HasMemo
  <2> DEFINE v == [SendOk(q) EXCEPT !.isConnected = FALSE, !.defaultAction = "DISCONN",
                                    !.state = "DISCONNECTED"]
  <2>2. Handle(a, CheckSrc(q, p)) \/ Handle(a, v)
    BY <1>15 DEF RcvdInCall
  <2>3. q \in UARecord /\ SaneRecord(K, a, q) /\ SaneRecord(K, a, CheckSrc(q, p))
    BY <1>3, <2>1
  <2> HIDE DEF p, q, K, u
  <2>4. SaneRecord(K, a, SendOk(q)) /\ SendOk(q) \in UARecord
    BY <2>3, WritersSane
  <2>5. SaneRecord(K, a, v)
    BY <2>4, SameSane DEF UARecord
  <2> QED
    BY <1>2, <2>1, <2>2, <2>3, <2>5
<1>16. CASE RcvdRinging(a)
  <2>1. /\ signalQ[a] # << >> /\ m.code = "SIP_RCVD" /\ UNCHANGED drawn
        /\ Handle(a, CheckSrc(q, p))
    BY <1>16 DEF RcvdRinging, Received, HasMemo
  <2> QED
    BY <1>2, <1>3, <2>1
<1>17. CASE Timeout(a)
  <2> DEFINE v == DefaultAction(u)
  <2>1. ua' = [ua EXCEPT ![a] = v] /\ signalQ' = signalQ /\ drawn' = drawn
    BY <1>17 DEF Timeout
  <2>2. SaneRecord(K, a, v)
    BY <1>1, <1>4, DefaultActionSane
  <2> HIDE DEF v
  <2>3. SaneRecord(drawn' \cup {NoCall}, a, v)
    BY <2>1, <2>2
  <2> QED
    BY <2>1, <2>3, PassSane
<1> QED
  BY <1>5, <1>6, <1>7, <1>8, <1>9, <1>10, <1>11, <1>12, <1>13, <1>14, <1>15, <1>16, <1>17
     DEF UserAgentStep

(* main() never invites the agent itself.                                  *)
LEMMA UserSane ==
    ASSUME IndInv, SaneInv, NEW a \in Agent, User(a)
    PROVE  SaneInv'
<1>1. PICK m \in Signal : /\ signalQ' = [signalQ EXCEPT ![a] = Append(@, m)]
                          /\ m.code # "SIP_RCVD"
                          /\ m.code = "SIP_INVITE" => m.host # a
  BY Typed
<1>2. ua' = ua /\ net' = net /\ drawn' = drawn
  BY Typed
<1>3. (\A b \in Agent : \A i \in DOMAIN signalQ[b] : SaneMemo(b, signalQ[b][i]))'
  <2> SUFFICES ASSUME NEW b \in Agent, NEW i \in DOMAIN signalQ'[b]
               PROVE  SaneMemo(b, signalQ[b][i])'
    OBVIOUS
  <2>1. \/ i \in DOMAIN signalQ[b] /\ signalQ'[b][i] = signalQ[b][i]
        \/ b = a /\ signalQ'[b][i] = m
    BY <1>1, Queued
  <2>2. i \in DOMAIN signalQ[b] => SaneMemo(b, signalQ[b][i])
    BY DEF SaneInv
  <2> QED
    BY <1>1, <1>2, <2>1, <2>2 DEF SaneMemo, Known
<1>4. (\A b \in Agent : SaneRecord(Known, b, ua[b]))'
  BY <1>2 DEF SaneInv, SaneRecord, Known
<1>5. (\A n \in net : n.pkt.callId \in Known /\ n.pkt.from # n.to)'
  BY <1>2 DEF SaneInv, Known
<1> QED
  BY <1>3, <1>4, <1>5 DEF SaneInv

(* A packet in flight comes from another host than it goes to.             *)
LEMMA UdpReaderSane ==
    ASSUME IndInv, SaneInv, NEW a \in Agent, UdpReader(a)
    PROVE  SaneInv'
<1>1. PICK n \in net :
         /\ n.to = a
         /\ signalQ' = [signalQ EXCEPT ![a] = Append(@, [code |-> "SIP_RCVD", pkt |-> n.pkt])]
         /\ Take(n)
  BY DEF UdpReader
<1>2. ua' = ua /\ drawn' = drawn /\ net' \subseteq net
  BY <1>1 DEF UdpReader, Take
<1> DEFINE m == [code |-> "SIP_RCVD", pkt |-> n.pkt]
<1>3. m \in Signal
  BY DEF IndInv, TypeOK, Signal
<1>4. m.pkt = n.pkt /\ m.code = "SIP_RCVD" /\ n.pkt.callId \in Known /\ n.pkt.from # a
  BY <1>1 DEF SaneInv
<1>5. signalQ' = [signalQ EXCEPT ![a] = Append(@, m)]
  BY <1>1
<1> HIDE DEF m
<1>6. (\A b \in Agent : \A i \in DOMAIN signalQ[b] : SaneMemo(b, signalQ[b][i]))'
  <2> SUFFICES ASSUME NEW b \in Agent, NEW i \in DOMAIN signalQ'[b]
               PROVE  SaneMemo(b, signalQ[b][i])'
    OBVIOUS
  <2>1. \/ i \in DOMAIN signalQ[b] /\ signalQ'[b][i] = signalQ[b][i]
        \/ b = a /\ signalQ'[b][i] = m
    BY <1>3, <1>5, Queued
  <2>2. i \in DOMAIN signalQ[b] => SaneMemo(b, signalQ[b][i])
    BY DEF SaneInv
  <2> QED
    BY <1>2, <1>4, <2>1, <2>2 DEF SaneMemo, Known
<1>7. (\A b \in Agent : SaneRecord(Known, b, ua[b]))'
  BY <1>2 DEF SaneInv, SaneRecord, Known
<1>8. (\A k \in net : k.pkt.callId \in Known /\ k.pkt.from # k.to)'
  BY <1>2 DEF SaneInv, Known
<1> QED
  BY <1>6, <1>7, <1>8 DEF SaneInv

(* The tail of sendQ holds no memo that sendQ did not hold.                *)
LEMMA SendTail ==
    ASSUME NEW q \in Seq(SendMemo), q # << >>
    PROVE  /\ \A i \in DOMAIN Tail(q) : \E j \in DOMAIN q : Tail(q)[i] = q[j]
           /\ \E j \in DOMAIN q : Head(q) = q[j]
<1> DEFINE t == Tail(q)
<1>1. /\ Len(q) \in Nat \ {0} /\ DOMAIN q = 1 .. Len(q) /\ DOMAIN t = 1 .. Len(q) - 1
      /\ \A i \in 1 .. Len(q) - 1 : t[i] = q[i + 1]
      /\ Head(q) = q[1]
  BY HeadTailProperties, EmptySeq
<1> HIDE DEF t
<1>2. \A i \in DOMAIN t : i + 1 \in DOMAIN q /\ t[i] = q[i + 1]
  BY <1>1
<1>3. 1 \in DOMAIN q
  BY <1>1
<1> QED
  BY <1>1, <1>2, <1>3 DEF t

(* The only new packet in flight is one from a's sendQ, to another host.   *)
Departs(a, to, pkt) ==
    /\ \A n \in net' : n \in net \/ (n.to = to /\ n.pkt = pkt)
    /\ to # a /\ pkt.from = a
    /\ \E j \in DOMAIN ua[a].sendQ :
          pkt.type = ua[a].sendQ[j].type /\ pkt.callId = ua[a].sendQ[j].callId

(* What UdpWriter changes: sendQ loses its head, which may be on its way.  *)
LEMMA Written ==
    ASSUME IndInv, SaneInv, NEW a \in Agent, UdpWriter(a)
    PROVE  /\ signalQ' = signalQ /\ drawn' = drawn
           /\ ua' = [ua EXCEPT ![a].sendQ = Tail(ua[a].sendQ)]
           /\ \E to, pkt : Departs(a, to, pkt)
<1> DEFINE m == Head(ua[a].sendQ)
           pkt == [type |-> m.type, callId |-> m.callId, from |-> a,
                   sdp |-> m.type \in {"INVITE", "OK"}]
           to == IF m.temp THEN ua[a].tempAddr ELSE ua[a].sipAddr
<1>1. ua[a].sendQ \in Seq(SendMemo) /\ ua[a].sendQ # << >>
  BY DEF IndInv, TypeOK, UARecord, UdpWriter
<1>2. /\ signalQ' = signalQ /\ drawn' = drawn
      /\ ua' = [ua EXCEPT ![a].sendQ = Tail(ua[a].sendQ)]
      /\ Send(to, pkt)
  BY DEF UdpWriter
<1>3. PICK j \in DOMAIN ua[a].sendQ : m = ua[a].sendQ[j]
  BY <1>1, SendTail
<1>4. to # a
  BY DEF SaneInv, SaneRecord
<1>5. pkt.from = a /\ pkt.type = m.type /\ pkt.callId = m.callId
  OBVIOUS
<1> HIDE DEF m, pkt, to
<1>6. \A n \in net' : n \in net \/ (n.to = to /\ n.pkt = pkt)
  BY <1>2 DEF Send
<1>7. Departs(a, to, pkt)
  BY <1>3, <1>4, <1>5, <1>6 DEF Departs
<1> QED
  BY <1>2, <1>7

LEMMA UdpWriterSane ==
    ASSUME IndInv, SaneInv, NEW a \in Agent, UdpWriter(a)
    PROVE  SaneInv'
<1>1. /\ signalQ' = signalQ /\ drawn' = drawn
      /\ ua' = [ua EXCEPT ![a].sendQ = Tail(ua[a].sendQ)]
  BY Written
<1>2. PICK to, pkt : Departs(a, to, pkt)
  BY Written
<1>3. ua[a] \in UARecord /\ ua[a].sendQ \in Seq(SendMemo) /\ ua[a].sendQ # << >>
  BY DEF IndInv, TypeOK, UARecord, UdpWriter
<1>4. \A i \in DOMAIN ua[a].sendQ : ua[a].sendQ[i].callId \in Known
  BY DEF SaneInv, SaneRecord
<1>5. (\A n \in net : n.pkt.callId \in Known /\ n.pkt.from # n.to)'
  BY <1>1, <1>2, <1>4 DEF SaneInv, Known, Departs
<1>6. (\A b \in Agent : \A i \in DOMAIN signalQ[b] : SaneMemo(b, signalQ[b][i]))'
  BY <1>1 DEF SaneInv, SaneMemo, Known
<1> DEFINE t == Tail(ua[a].sendQ)
           v == [ua[a] EXCEPT !.sendQ = t]
<1>7. \A i \in DOMAIN t : t[i].callId \in Known
  BY <1>3, <1>4, SendTail
<1>8. ua' = [ua EXCEPT ![a] = v]
  BY <1>1
<1> HIDE DEF t
<1>9. SaneRecord(Known, a, v)
  <2>1. SaneRecord(Known, a, ua[a])
    BY DEF SaneInv
  <2> QED
    BY <1>3, <1>7, <2>1 DEF UARecord, SaneRecord
<1> HIDE DEF v
<1>10. ua'[a] = v /\ \A b \in Agent \ {a} : ua'[b] = ua[b]
  BY <1>8 DEF IndInv, TypeOK
<1>11. (\A b \in Agent : SaneRecord(Known, b, ua[b]))'
  <2> SUFFICES ASSUME NEW b \in Agent PROVE SaneRecord(Known, b, ua'[b])
    BY <1>1 DEF SaneRecord, Known
  <2> QED
    BY <1>9, <1>10 DEF SaneInv
<1> QED
  BY <1>5, <1>6, <1>11 DEF SaneInv

(* A stranger is no agent, and names a call that is known by then.         *)
LEMMA StrangerSane ==
    ASSUME IndInv, SaneInv, NEW h \in Host \ Agent, StrangerSends(h)
    PROVE  SaneInv'
<1>1. PICK a \in Agent, t \in StrangerPackets, d \in CallId, sdp \in BOOLEAN :
         /\ drawn' = drawn \cup {d}
         /\ net' = net \cup {[to |-> a, pkt |-> [type |-> t, callId |-> d, from |-> h, sdp |-> sdp]]}
  BY DEF StrangerSends
<1>2. ua' = ua /\ signalQ' = signalQ
  BY DEF StrangerSends
<1>3. \A c : c \in drawn \cup {NoCall} => c \in drawn' \cup {NoCall}
  BY <1>1
<1>4. (\A b \in Agent : SaneRecord(Known, b, ua[b]))'
  BY <1>2, <1>3 DEF SaneInv, SaneRecord, Known
<1>5. (\A b \in Agent : \A i \in DOMAIN signalQ[b] : SaneMemo(b, signalQ[b][i]))'
  BY <1>2, <1>3 DEF SaneInv, SaneMemo, Known
<1>6. (\A n \in net : n.pkt.callId \in Known /\ n.pkt.from # n.to)'
  <2> SUFFICES ASSUME NEW n \in net'
               PROVE  n.pkt.callId \in drawn' \cup {NoCall} /\ n.pkt.from # n.to
    BY DEF Known
  <2>1. CASE n \in net
    BY <1>3, <2>1 DEF SaneInv, Known
  <2>2. CASE n = [to |-> a, pkt |-> [type |-> t, callId |-> d, from |-> h, sdp |-> sdp]]
    BY <1>1, <2>2
  <2> QED
    BY <1>1, <2>1, <2>2
<1> QED
  BY <1>4, <1>5, <1>6 DEF SaneInv

LEMMA InitSane == Init => SaneInv
<1> SUFFICES ASSUME Init PROVE SaneInv
  OBVIOUS
<1>1. /\ net = {}
      /\ \A a \in Agent : ua[a] = InitUA /\ signalQ[a] = << >>
  BY DEF Init
<1>2. DOMAIN << >> = {}
  OBVIOUS
<1>3. ASSUME NEW a \in Agent PROVE SaneRecord(Known, a, InitUA)
  <2>1. NoHost # a /\ NoCall \in Known
    BY HostAssumption DEF Known
  <2> QED
    BY <1>2, <2>1 DEF InitUA, SaneRecord
<1> QED
  BY <1>1, <1>2, <1>3 DEF SaneInv

(* Every step keeps SaneInv.                                               *)
LEMMA NextSane == IndInv /\ SaneInv /\ [Next]_vars => SaneInv'
<1> SUFFICES ASSUME IndInv, SaneInv, [Next]_vars PROVE SaneInv'
  OBVIOUS
<1>1. CASE Agents
  BY <1>1, AgentSane DEF Agents
<1>2. ASSUME NEW a \in Agent, User(a) \/ UdpWriter(a) \/ UdpReader(a)
      PROVE  SaneInv'
  BY <1>2, UserSane, UdpWriterSane, UdpReaderSane
<1>3. ASSUME NEW h \in Host \ Agent, StrangerSends(h)
      PROVE  SaneInv'
  BY <1>3, StrangerSane
<1>4. CASE UNCHANGED vars
  BY <1>4 DEF vars, SaneInv, SaneRecord, SaneMemo, Known
<1> QED
  BY <1>1, <1>2, <1>3, <1>4 DEF Next

--------------------------------------------------------------------------------
(* A callee is connected only after its caller.                            *)

IsAck(p, c) == p.type = "ACK" /\ p.callId = c

(* a waits for the answer to its call c: b has no ACK of it yet, and none  *)
(* is on its way to b.                                                     *)
NotYet(a, b, c) ==
    /\ ~ (ua[b].state \in {"IN_CALL", "SENT_INV"} /\ ua[b].callId = c)
    /\ \A i \in DOMAIN ua[a].sendQ : ~ IsAck(ua[a].sendQ[i], c)
    /\ \A n \in net : n.to = b => ~ IsAck(n.pkt, c)
    /\ \A i \in DOMAIN signalQ[b] :
          signalQ[b][i].code = "SIP_RCVD" => ~ IsAck(signalQ[b][i].pkt, c)

EarlyInv ==
    \A a, b \in Agent :
        a # b /\ ua[a].state = "SENT_INV" => NotYet(a, b, ua[a].callId)

(* A step that leaves a waiting for call c and makes no ACK of it.         *)
LEMMA NotYetKept ==
    ASSUME NEW a \in Agent, NEW b \in Agent, NEW c, NotYet(a, b, c),
           ~ (ua'[b].state \in {"IN_CALL", "SENT_INV"} /\ ua'[b].callId = c),
           \A i \in DOMAIN ua'[a].sendQ :
              \/ \E j \in DOMAIN ua[a].sendQ : ua'[a].sendQ[i] = ua[a].sendQ[j]
              \/ ua'[a].sendQ[i].type # "ACK",
           \A n \in net' : n \in net \/ (n.to = b => ~ IsAck(n.pkt, c)),
           \A i \in DOMAIN signalQ'[b] :
              \/ \E j \in DOMAIN signalQ[b] : signalQ'[b][i] = signalQ[b][j]
              \/ signalQ'[b][i].code # "SIP_RCVD"
              \/ ~ IsAck(signalQ'[b][i].pkt, c)
    PROVE  NotYet(a, b, c)'
<1>1. ~ (ua'[b].state \in {"IN_CALL", "SENT_INV"} /\ ua'[b].callId = c)
  OBVIOUS
<1>2. \A i \in DOMAIN ua'[a].sendQ : ~ IsAck(ua'[a].sendQ[i], c)
  BY DEF NotYet, IsAck
<1>3. \A n \in net' : n.to = b => ~ IsAck(n.pkt, c)
  BY DEF NotYet
<1>4. \A i \in DOMAIN signalQ'[b] :
         signalQ'[b][i].code = "SIP_RCVD" => ~ IsAck(signalQ'[b][i].pkt, c)
  BY DEF NotYet
<1> QED
  BY <1>1, <1>2, <1>3, <1>4 DEF NotYet, IsAck

(* The memos of sendQ after a pass that writes one packet or none.         *)
LEMMA WrittenMemos ==
    ASSUME NEW u \in UARecord, NEW v, NEW types,
           v.sendQ = u.sendQ \/ Writes(u, v, types), "ACK" \notin types
    PROVE  \A i \in DOMAIN v.sendQ :
              \/ \E j \in DOMAIN u.sendQ : v.sendQ[i] = u.sendQ[j]
              \/ v.sendQ[i].type # "ACK"
<1>1. u.sendQ \in Seq(SendMemo)
  BY DEF UARecord
<1>2. CASE v.sendQ = u.sendQ
  BY <1>2
<1>3. ASSUME NEW m \in SendMemo, m.type \in types, v.sendQ = Append(u.sendQ, m)
      PROVE  \A i \in DOMAIN v.sendQ :
                \/ \E j \in DOMAIN u.sendQ : v.sendQ[i] = u.sendQ[j]
                \/ v.sendQ[i].type # "ACK"
  <2>1. \A i \in DOMAIN v.sendQ :
           v.sendQ[i] = m \/ (i \in DOMAIN u.sendQ /\ v.sendQ[i] = u.sendQ[i])
    BY <1>1, <1>3, AppendProperties
  <2> QED
    BY <1>3, <2>1
<1> QED
  BY <1>2, <1>3 DEF Writes

(* A call id that nobody knows is in no packet and no record.              *)
LEMMA FreshNotYet ==
    ASSUME SaneInv, NEW a \in Agent, NEW b \in Agent, NEW c \in CallId \ drawn
    PROVE  NotYet(a, b, c)
<1>1. c \notin Known
  BY CallIdAssumption DEF Known
<1>2. ua[b].callId # c
  BY <1>1 DEF SaneInv, SaneRecord
<1>3. \A i \in DOMAIN ua[a].sendQ : ua[a].sendQ[i].callId # c
  BY <1>1 DEF SaneInv, SaneRecord
<1>4. \A n \in net : n.pkt.callId # c
  BY <1>1 DEF SaneInv
<1>5. \A i \in DOMAIN signalQ[b] :
         signalQ[b][i].code = "SIP_RCVD" => signalQ[b][i].pkt.callId # c
  BY <1>1 DEF SaneInv, SaneMemo
<1> QED
  BY <1>2, <1>3, <1>4, <1>5 DEF NotYet, IsAck

(* A pass of the caller, of the callee, or of another agent.               *)
LEMMA AgentEarly ==
    ASSUME IndInv, SaneInv, EarlyInv, NEW x \in Agent, UserAgentStep(x), UNCHANGED net
    PROVE  EarlyInv'
<1>1. PICK v : ua' = [ua EXCEPT ![x] = v] /\ Outcome(x, v)
  BY StepOutcome
<1>2. ua'[x] = v /\ \A y \in Agent \ {x} : ua'[y] = ua[y]
  BY <1>1 DEF IndInv, TypeOK
<1>3. ua[x] \in UARecord
  BY DEF IndInv, TypeOK
<1>4. \A y \in Agent : \A i \in DOMAIN signalQ'[y] :
         \E j \in DOMAIN signalQ[y] : signalQ'[y][i] = signalQ[y][j]
  BY <1>1, SignalsKept DEF Outcome
<1> SUFFICES ASSUME NEW a \in Agent, NEW b \in Agent, a # b, ua'[a].state = "SENT_INV",
                    NEW c, c = ua'[a].callId
             PROVE  NotYet(a, b, c)'
  BY DEF EarlyInv, NotYet
<1>5. CASE x = a
  <2>1. ua'[b] = ua[b]
    BY <1>2, <1>5
  <2>2. CASE Stay(ua[a], v)
    <3>1. NotYet(a, b, c)
      BY <1>2, <1>5, <2>2 DEF EarlyInv, Stay, SameCall
    <3>2. \A i \in DOMAIN v.sendQ :
             \/ \E j \in DOMAIN ua[a].sendQ : v.sendQ[i] = ua[a].sendQ[j]
             \/ v.sendQ[i].type # "ACK"
      BY <1>3, <1>5, <2>2, WrittenMemos DEF Stay
    <3>3. ~ (ua'[b].state \in {"IN_CALL", "SENT_INV"} /\ ua'[b].callId = c)
      BY <2>1, <3>1 DEF NotYet
    <3> QED
      BY <1>2, <1>4, <1>5, <3>1, <3>2, <3>3, NotYetKept
  <2>3. ASSUME NEW d \in CallId \ drawn, StartCall(ua[a], v, d)
        PROVE  NotYet(a, b, c)'
    <3>1. c = d
      BY <1>2, <1>5, <2>3 DEF StartCall
    <3>2. NotYet(a, b, c)
      BY <2>3, <3>1, FreshNotYet
    <3> DEFINE m == [type |-> "INVITE", callId |-> d, temp |-> FALSE]
    <3>3. m \in SendMemo /\ m.type \in {"INVITE"} /\ "ACK" \notin {"INVITE"}
      BY DEF SendMemo
    <3>4. v.sendQ = Append(ua[a].sendQ, m)
      BY <2>3 DEF StartCall
    <3> HIDE DEF m
    <3>5. Writes(ua[a], v, {"INVITE"})
      BY <3>3, <3>4 DEF Writes
    <3>6. \A i \in DOMAIN v.sendQ :
             \/ \E j \in DOMAIN ua[a].sendQ : v.sendQ[i] = ua[a].sendQ[j]
             \/ v.sendQ[i].type # "ACK"
      BY <1>3, <1>5, <3>3, <3>5, WrittenMemos
    <3>7. ~ (ua'[b].state \in {"IN_CALL", "SENT_INV"} /\ ua'[b].callId = c)
      BY <2>1, <3>2 DEF NotYet
    <3> QED
      BY <1>2, <1>4, <1>5, <3>2, <3>6, <3>7, NotYetKept
  <2>4. v.state = "SENT_INV"
    BY <1>2, <1>5
  <2> QED
    BY <1>1, <1>5, <2>2, <2>3, <2>4
       DEF Outcome, Answer, Acked, Connect, RingAgain, HangUp, Over, StartRing
<1>6. CASE x # a
  <2>1. ua'[a] = ua[a]
    BY <1>2, <1>6
  <2>2. NotYet(a, b, c)
    BY <2>1 DEF EarlyInv
  <2>3. c \in Known
    BY <2>1 DEF SaneInv, SaneRecord
  <2>4. ~ (ua'[b].state \in {"IN_CALL", "SENT_INV"} /\ ua'[b].callId = c)
    <3>1. CASE x # b
      BY <1>2, <2>2, <3>1 DEF NotYet
    <3>2. CASE x = b
      <4> SUFFICES ASSUME v.state \in {"IN_CALL", "SENT_INV"}, v.callId = c PROVE FALSE
        BY <1>2, <3>2
      <4>1. ~ (ua[b].state \in {"IN_CALL", "SENT_INV"} /\ ua[b].callId = c)
        BY <2>2 DEF NotYet
      <4>2. ~ Stay(ua[b], v) /\ ~ Connect(ua[b], v)
        BY <4>1 DEF Stay, Connect, SameCall
      <4>3. ~ \E d \in CallId \ drawn : StartCall(ua[b], v, d)
        BY <2>3, CallIdAssumption DEF StartCall, Known
      <4>4. ~ (/\ Acked(ua[b], v) /\ Packeted(b) /\ Took(b)
               /\ Head(signalQ[b]).pkt.type = "ACK"
               /\ Head(signalQ[b]).pkt.callId = ua[b].callId)
        <5> SUFFICES ASSUME Acked(ua[b], v), Packeted(b), Took(b),
                            Head(signalQ[b]).pkt.type = "ACK",
                            Head(signalQ[b]).pkt.callId = ua[b].callId
                     PROVE  FALSE
          OBVIOUS
        <5>1. signalQ[b] \in Seq(Signal) /\ signalQ[b] # << >>
          BY DEF IndInv, TypeOK, Took
        <5>2. 1 \in DOMAIN signalQ[b] /\ Head(signalQ[b]) = signalQ[b][1]
          BY <5>1, TailHolds
        <5>3. ua[b].callId = c
          BY DEF Acked, SameCall
        <5> QED
          BY <2>2, <5>2, <5>3 DEF NotYet, IsAck, Packeted
      <4> QED
        BY <1>1, <3>2, <4>2, <4>3, <4>4
           DEF Outcome, Answer, RingAgain, HangUp, Over, StartRing
    <3> QED
      BY <3>1, <3>2
  <2> QED
    BY <1>4, <2>1, <2>2, <2>4, NotYetKept
<1> QED
  BY <1>5, <1>6

(* Commands, UdpReader and strangers leave every agent's record alone.     *)
LEMMA OtherEarly ==
    ASSUME IndInv, EarlyInv, TwoAgents,
           \/ \E x \in Agent : User(x) \/ UdpReader(x)
           \/ \E h \in Host : StrangerSends(h)
    PROVE  EarlyInv'
<1>1. ua' = ua
  <2>1. ASSUME NEW x \in Agent, User(x) PROVE ua' = ua
    BY <2>1, Typed
  <2> QED
    BY <2>1 DEF UdpReader, StrangerSends
<1> SUFFICES ASSUME NEW a \in Agent, NEW b \in Agent, a # b, ua'[a].state = "SENT_INV",
                    NEW c, c = ua'[a].callId
             PROVE  NotYet(a, b, c)'
  BY DEF EarlyInv, NotYet
<1>2. NotYet(a, b, c)
  BY <1>1 DEF EarlyInv
<1>3. ~ (ua'[b].state \in {"IN_CALL", "SENT_INV"} /\ ua'[b].callId = c)
  BY <1>1, <1>2 DEF NotYet
<1>4. ASSUME NEW x \in Agent, User(x)
      PROVE  NotYet(a, b, c)'
  <2>1. PICK m \in Signal : /\ signalQ' = [signalQ EXCEPT ![x] = Append(@, m)]
                            /\ m.code # "SIP_RCVD"
    BY <1>4, Typed
  <2>2. net' = net
    BY <1>4, Typed
  <2>3. \A i \in DOMAIN signalQ'[b] :
           \/ \E j \in DOMAIN signalQ[b] : signalQ'[b][i] = signalQ[b][j]
           \/ signalQ'[b][i].code # "SIP_RCVD"
    BY <2>1, Queued
  <2> QED
    BY <1>1, <1>2, <1>3, <2>2, <2>3, NotYetKept
<1>5. ASSUME NEW x \in Agent, UdpReader(x)
      PROVE  NotYet(a, b, c)'
  <2>1. PICK n \in net :
           /\ n.to = x
           /\ signalQ' = [signalQ EXCEPT ![x] = Append(@, [code |-> "SIP_RCVD", pkt |-> n.pkt])]
           /\ Take(n)
    BY <1>5 DEF UdpReader
  <2>2. net' \subseteq net
    BY <2>1 DEF Take
  <2> DEFINE m == [code |-> "SIP_RCVD", pkt |-> n.pkt]
  <2>3. m \in Signal
    BY DEF IndInv, TypeOK, Signal
  <2>4. m.pkt = n.pkt /\ signalQ' = [signalQ EXCEPT ![x] = Append(@, m)]
    BY <2>1
  <2> HIDE DEF m
  <2>5. \A i \in DOMAIN signalQ'[b] :
           \/ \E j \in DOMAIN signalQ[b] : signalQ'[b][i] = signalQ[b][j]
           \/ x = b /\ signalQ'[b][i] = m
    BY <2>3, <2>4, Queued
  <2>6. x = b => ~ IsAck(m.pkt, c)
    BY <1>2, <2>1, <2>4 DEF NotYet
  <2> QED
    BY <1>1, <1>2, <1>3, <2>2, <2>5, <2>6, NotYetKept
<1>6. ASSUME NEW h \in Host, StrangerSends(h)
      PROVE  NotYet(a, b, c)'
  <2>1. PICK y \in Agent, t \in StrangerPackets, d \in CallId, sdp \in BOOLEAN :
           net' = net \cup {[to |-> y, pkt |-> [type |-> t, callId |-> d, from |-> h, sdp |-> sdp]]}
    BY <1>6 DEF StrangerSends
  <2>2. t # "ACK"
    BY DEF TwoAgents
  <2>3. \A n \in net' : n \in net \/ ~ IsAck(n.pkt, c)
    BY <2>1, <2>2 DEF IsAck
  <2>4. signalQ' = signalQ
    BY <1>6 DEF StrangerSends
  <2> QED
    BY <1>1, <1>2, <1>3, <2>3, <2>4, NotYetKept
<1> QED
  BY <1>4, <1>5, <1>6

(* What UdpWriter sends to b comes from a, which has no ACK to send.       *)
LEMMA UdpWriterEarly ==
    ASSUME IndInv, SaneInv, EarlyInv, TwoAgents, NEW x \in Agent, UdpWriter(x)
    PROVE  EarlyInv'
<1>1. /\ signalQ' = signalQ
      /\ ua' = [ua EXCEPT ![x].sendQ = Tail(ua[x].sendQ)]
  BY Written
<1>2. PICK to, pkt : Departs(x, to, pkt)
  BY Written
<1>3. ua \in [Agent -> UARecord] /\ ua[x].sendQ \in Seq(SendMemo) /\ ua[x].sendQ # << >>
  BY DEF IndInv, TypeOK, UARecord, UdpWriter
<1>4. /\ ua'[x].sendQ = Tail(ua[x].sendQ)
      /\ \A y \in Agent : /\ ua'[y].state = ua[y].state /\ ua'[y].callId = ua[y].callId
                          /\ y # x => ua'[y].sendQ = ua[y].sendQ
  BY <1>1, <1>3 DEF UARecord
<1>5. \A y \in Agent : \A i \in DOMAIN ua'[y].sendQ :
         \E j \in DOMAIN ua[y].sendQ : ua'[y].sendQ[i] = ua[y].sendQ[j]
  <2> DEFINE t == Tail(ua[x].sendQ)
  <2>1. \A i \in DOMAIN t : \E j \in DOMAIN ua[x].sendQ : t[i] = ua[x].sendQ[j]
    BY <1>3, SendTail
  <2>2. ua'[x].sendQ = t /\ \A y \in Agent : y # x => ua'[y].sendQ = ua[y].sendQ
    BY <1>4
  <2> HIDE DEF t
  <2> QED
    BY <2>1, <2>2
<1> SUFFICES ASSUME NEW a \in Agent, NEW b \in Agent, a # b, ua'[a].state = "SENT_INV",
                    NEW c, c = ua'[a].callId
             PROVE  NotYet(a, b, c)'
  BY DEF EarlyInv, NotYet
<1>6. NotYet(a, b, c)
  BY <1>4 DEF EarlyInv
<1>7. ~ (ua'[b].state \in {"IN_CALL", "SENT_INV"} /\ ua'[b].callId = c)
  BY <1>4, <1>6 DEF NotYet
<1>8. to = b => ~ IsAck(pkt, c)
  <2> SUFFICES ASSUME to = b, IsAck(pkt, c) PROVE FALSE
    OBVIOUS
  <2>1. x # b
    BY <1>2 DEF Departs
  <2>2. x = a
    BY <2>1 DEF TwoAgents
  <2> QED
    BY <1>2, <1>6, <2>2 DEF Departs, NotYet, IsAck
<1>9. \A n \in net' : n \in net \/ (n.to = b => ~ IsAck(n.pkt, c))
  BY <1>2, <1>8 DEF Departs
<1> QED
  BY <1>1, <1>5, <1>6, <1>7, <1>9, NotYetKept

(* Nobody waits for an answer when the agents start.                       *)
LEMMA InitEarly == Init => EarlyInv
<1> SUFFICES ASSUME Init PROVE EarlyInv
  OBVIOUS
<1>1. \A a \in Agent : ua[a].state # "SENT_INV"
  BY DEF Init, InitUA
<1> QED
  BY <1>1 DEF EarlyInv

(* Every step keeps EarlyInv, between two agents.                          *)
LEMMA NextEarly == IndInv /\ SaneInv /\ EarlyInv /\ TwoAgents /\ [Next]_vars => EarlyInv'
<1> SUFFICES ASSUME IndInv, SaneInv, EarlyInv, TwoAgents, [Next]_vars PROVE EarlyInv'
  OBVIOUS
<1>1. CASE Agents
  BY <1>1, AgentEarly DEF Agents
<1>2. ASSUME NEW a \in Agent, User(a) \/ UdpWriter(a) \/ UdpReader(a)
      PROVE  EarlyInv'
  BY <1>2, OtherEarly, UdpWriterEarly
<1>3. ASSUME NEW h \in Host \ Agent, StrangerSends(h)
      PROVE  EarlyInv'
  BY <1>3, OtherEarly
<1>4. CASE UNCHANGED vars
  BY <1>4 DEF vars, EarlyInv, NotYet, IsAck
<1> QED
  BY <1>1, <1>2, <1>3, <1>4 DEF Next

(* Between two agents, whatever packets are lost, repeated or reordered and *)
(* whatever strangers send except ACK, the callee is connected only once   *)
(* its caller has stopped waiting for the answer.                          *)
THEOREM ConnectedInOrder ==
    ASSUME TwoAgents
    PROVE  Spec => []NoEarlyConnect
<1>1. IndInv /\ EarlyInv => NoEarlyConnect
  <2> SUFFICES ASSUME IndInv, EarlyInv, NEW a \in Agent, NEW b \in Agent,
                      ua[a].state = "IN_CALL", ua[b].state = "SENT_INV"
               PROVE  ua[a].callId # ua[b].callId
    BY DEF NoEarlyConnect
  <2>1. a # b
    OBVIOUS
  <2>2. NotYet(b, a, ua[b].callId)
    BY <2>1 DEF EarlyInv
  <2> QED
    BY <2>2 DEF NotYet
<1>2. IndInv /\ SaneInv /\ EarlyInv /\ [Next]_vars => EarlyInv'
  BY NextEarly
<1> QED
  BY InitInv, NextInv, InitSane, NextSane, InitEarly, <1>1, <1>2, PTL DEF Spec

--------------------------------------------------------------------------------
(* The record of the past.                                                 *)

Did(x, deed, c) == <<x, deed, c>> \in past

(* What goes on record when agent a is in the state of u.                  *)
Does(a, u, e) ==
    \/ u.state = "SENT_INV" /\ e = <<a, "placed", u.callId>>
    \/ u.state = "RCVD_INV" /\ e = <<a, "heard", u.callId>>
    \/ u.state = "ACCEPTED" /\ e = <<a, "accepted", u.callId>>

(* What goes on record when another phone says that it accepted a call.    *)
Claims(n, e) ==
    /\ n.pkt.type = "OK" /\ n.pkt.from \notin Agent
    /\ e = <<n.pkt.from, "accepted", n.pkt.callId>>

(* What Deeds puts on record, now and after a step.                        *)
LEMMA DeedsAre ==
    /\ \A e : e \in Deeds <=>
          (\E a \in Agent : Does(a, ua[a], e)) \/ \E n \in net : Claims(n, e)
    /\ \A e : e \in Deeds' <=>
          (\E a \in Agent : Does(a, ua'[a], e)) \/ \E n \in net' : Claims(n, e)
<1>1. \A e : e \in Deeds <=>
         (\E a \in Agent : Does(a, ua[a], e)) \/ \E n \in net : Claims(n, e)
  BY DEF Deeds, Seen, Does, Claims
<1>2. \A e : e \in Deeds' <=>
         (\E a \in Agent : Does(a, ua'[a], e)) \/ \E n \in net' : Claims(n, e)
  BY DEF Deeds, Seen, Does, Claims
<1> QED
  BY <1>1, <1>2

(* What is the case now is on record, and whoever has accepted has heard.  *)
Kept ==
    /\ Deeds \subseteq past
    /\ \A a \in Agent : ua[a].state = "ACCEPTED" => Did(a, "heard", ua[a].callId)

(* A pass of the loop puts on record what the agent does after it.         *)
LEMMA PassDeeds ==
    ASSUME IndInv, Kept, NEW a \in Agent, NEW v, ua' = [ua EXCEPT ![a] = v],
           net' \subseteq net, past' = past \cup Deeds'
    PROVE  \A e : e \in past' <=> e \in past \/ Does(a, v, e)
<1>1. ua'[a] = v /\ \A b \in Agent \ {a} : ua'[b] = ua[b]
  BY DEF IndInv, TypeOK
<1>2. \A e : e \in Deeds' => e \in Deeds \/ Does(a, v, e)
  BY <1>1, DeedsAre
<1>3. \A e : Does(a, v, e) => e \in Deeds'
  BY <1>1, DeedsAre
<1> QED
  BY <1>2, <1>3 DEF Kept

(* Only the start of a call, its ringing and its acceptance are new.       *)
LEMMA OutcomeDeeds ==
    ASSUME IndInv, Kept, NEW a \in Agent, NEW v, ua' = [ua EXCEPT ![a] = v],
           net' \subseteq net, past' = past \cup Deeds'
    PROVE  LET u == ua[a] IN
           /\ \/ Stay(u, v) \/ Over(u, v) \/ HangUp(u, v) \/ Connect(u, v) \/ Acked(u, v)
              \/ RingAgain(u, v) \/ (Answer(u, v) /\ v.state = "REJECTED")
              => past' = past
           /\ Answer(u, v) /\ v.state = "ACCEPTED" =>
                 past' = past \cup {<<a, "accepted", u.callId>>}
           /\ \A c : StartCall(u, v, c) => past' = past \cup {<<a, "placed", c>>}
           /\ \A c : StartRing(u, v, c) => past' = past \cup {<<a, "heard", c>>}
<1> DEFINE u == ua[a]
<1>1. \A e : e \in past' <=> e \in past \/ Does(a, v, e)
  BY PassDeeds
<1>2. \A e : Does(a, u, e) => e \in past
  BY DeedsAre DEF Kept
<1>4. ASSUME RingAgain(u, v) PROVE past' = past
  <2>1. Did(a, "heard", u.callId)
    BY <1>4 DEF Kept, RingAgain
  <2> QED
    BY <1>1, <1>4, <2>1 DEF RingAgain, SameCall, Does, Did
<1>5. ASSUME \/ Over(u, v) \/ HangUp(u, v) \/ Connect(u, v) \/ Acked(u, v)
             \/ (Answer(u, v) /\ v.state = "REJECTED")
      PROVE  past' = past
  <2>1. v.state \in {"DISCONNECTED", "SENT_BYE", "IN_CALL", "REJECTED"}
    BY <1>5 DEF Over, HangUp, Connect, Acked
  <2> QED
    BY <1>1, <2>1 DEF Does
<1>6. ASSUME Answer(u, v), v.state = "ACCEPTED"
      PROVE  past' = past \cup {<<a, "accepted", u.callId>>}
  BY <1>1, <1>6 DEF Answer, SameCall, Does
<1>7. ASSUME NEW c, StartCall(u, v, c) PROVE past' = past \cup {<<a, "placed", c>>}
  BY <1>1, <1>7 DEF StartCall, Does
<1>8. ASSUME NEW c, StartRing(u, v, c) PROVE past' = past \cup {<<a, "heard", c>>}
  BY <1>1, <1>8 DEF StartRing, Does
<1>3. Stay(u, v) => past' = past
  BY <1>1, <1>2 DEF Stay, SameCall, Does
<1> HIDE DEF u
<1>9. /\ \/ Stay(u, v) \/ Over(u, v) \/ HangUp(u, v) \/ Connect(u, v) \/ Acked(u, v)
         \/ RingAgain(u, v) \/ (Answer(u, v) /\ v.state = "REJECTED")
         => past' = past
      /\ Answer(u, v) /\ v.state = "ACCEPTED" =>
            past' = past \cup {<<a, "accepted", u.callId>>}
      /\ \A c : StartCall(u, v, c) => past' = past \cup {<<a, "placed", c>>}
      /\ \A c : StartRing(u, v, c) => past' = past \cup {<<a, "heard", c>>}
  BY <1>3, <1>4, <1>5, <1>6, <1>7, <1>8
<1> QED
  BY <1>9 DEF u

(* The other threads of an agent leave the record alone.                   *)
LEMMA OtherDeeds ==
    ASSUME IndInv, SaneInv, Kept, NEW a \in Agent, User(a) \/ UdpReader(a) \/ UdpWriter(a),
           past' = past \cup Deeds'
    PROVE  past' = past
<1>1. \A b \in Agent : ua'[b].state = ua[b].state /\ ua'[b].callId = ua[b].callId
  <2>1. CASE User(a) \/ UdpReader(a)
    BY <2>1, Typed DEF UdpReader
  <2>2. CASE UdpWriter(a)
    <3>1. ua' = [ua EXCEPT ![a].sendQ = Tail(ua[a].sendQ)]
      BY <2>2, Written
    <3> QED
      BY <3>1 DEF IndInv, TypeOK, UARecord
  <2> QED
    BY <2>1, <2>2
<1>2. \A n \in net' : n \in net \/ n.pkt.from \in Agent
  <2>1. CASE User(a)
    BY <2>1, Typed
  <2>2. CASE UdpReader(a)
    BY <2>2 DEF UdpReader, Take
  <2>3. CASE UdpWriter(a)
    BY <2>3, Written DEF Departs
  <2> QED
    BY <2>1, <2>2, <2>3
<1>3. \A e : \A b \in Agent : Does(b, ua'[b], e) => Does(b, ua[b], e)
  BY <1>1 DEF Does
<1>4. \A e : \A n \in net' : Claims(n, e) => n \in net
  BY <1>2 DEF Claims
<1>5. Deeds' \subseteq Deeds
  BY <1>3, <1>4, DeedsAre
<1> QED
  BY <1>5 DEF Kept

(* What a stranger does is its own.                                        *)
LEMMA StrangerDeeds ==
    ASSUME IndInv, Kept, NEW h \in Host \ Agent, StrangerSends(h), past' = past \cup Deeds'
    PROVE  \E c \in CallId :
              /\ drawn' = drawn \cup {c}
              /\ past' \in {past, past \cup {<<h, "accepted", c>>}}
              /\ \A n \in net' : n \in net \/ /\ n.pkt.callId = c /\ n.pkt.from = h
                                              /\ n.pkt.type = "INVITE" => c \notin drawn
                                              /\ n.pkt.type = "OK" => Did(h, "accepted", c)'
<1>1. PICK y \in Agent, t \in StrangerPackets, c \in CallId, sdp \in BOOLEAN :
         /\ t = "INVITE" => c \notin drawn
         /\ drawn' = drawn \cup {c}
         /\ net' = net \cup {[to |-> y, pkt |-> [type |-> t, callId |-> c, from |-> h, sdp |-> sdp]]}
  BY DEF StrangerSends
<1> DEFINE k == [to |-> y, pkt |-> [type |-> t, callId |-> c, from |-> h, sdp |-> sdp]]
<1>2. k.pkt.type = t /\ k.pkt.callId = c /\ k.pkt.from = h /\ net' = net \cup {k}
  BY <1>1
<1> HIDE DEF k
<1>3. ua' = ua
  BY DEF StrangerSends
<1>4. \A e : e \in Deeds' <=> e \in Deeds \/ Claims(k, e)
  BY <1>2, <1>3, DeedsAre
<1>5. \A e : Claims(k, e) <=> t = "OK" /\ e = <<h, "accepted", c>>
  BY <1>2 DEF Claims
<1>6. \A e : e \in past' <=> e \in past \/ (t = "OK" /\ e = <<h, "accepted", c>>)
  BY <1>4, <1>5 DEF Kept
<1>7. past' \in {past, past \cup {<<h, "accepted", c>>}}
  BY <1>6
<1>8. t = "OK" => Did(h, "accepted", c)'
  BY <1>6 DEF Did
<1> QED
  BY <1>1, <1>2, <1>7, <1>8

(* The record is complete after every step.                                *)
LEMMA NextKept ==
    ASSUME IndInv, SaneInv, Kept, [HistoryNext]_<<vars, past>>
    PROVE  Kept'
<1>1. CASE UNCHANGED <<vars, past>>
  <2>1. Deeds' = Deeds
    BY <1>1, DeedsAre DEF vars
  <2> QED
    BY <1>1, <2>1 DEF vars, Kept, Did
<1>2. ASSUME Next, past' = past \cup Deeds'
      PROVE  Kept'
  <2>1. ASSUME \A a \in Agent : ua'[a].state = ua[a].state /\ ua'[a].callId = ua[a].callId
        PROVE  Kept'
    BY <1>2, <2>1 DEF Kept, Did
  <2>2. ASSUME NEW a \in Agent, UserAgentStep(a), UNCHANGED net
        PROVE  Kept'
    <3>1. PICK v : ua' = [ua EXCEPT ![a] = v] /\ Outcome(a, v)
      BY <2>2, StepOutcome
    <3>2. ua'[a] = v /\ \A b \in Agent \ {a} : ua'[b] = ua[b]
      BY <3>1 DEF IndInv, TypeOK
    <3>3. ASSUME v.state = "ACCEPTED" PROVE Did(a, "heard", v.callId)
      <4>1. ua[a].state \in {"RCVD_INV", "ACCEPTED"} /\ v.callId = ua[a].callId
        BY <3>1, <3>3 DEF Outcome, Stay, Answer, Acked, Connect, RingAgain, HangUp, Over,
                          StartCall, StartRing, SameCall
      <4>2. ua[a].state = "RCVD_INV" => Did(a, "heard", ua[a].callId)
        BY DeedsAre DEF Kept, Did, Does
      <4> QED
        BY <4>1, <4>2 DEF Kept
    <3> QED
      BY <1>2, <3>2, <3>3 DEF Kept, Did
  <2>3. ASSUME NEW a \in Agent, User(a) \/ UdpReader(a)
        PROVE  Kept'
    BY <2>1, <2>3, Typed DEF UdpReader
  <2>4. ASSUME NEW a \in Agent, UdpWriter(a)
        PROVE  Kept'
    <3>1. ua' = [ua EXCEPT ![a].sendQ = Tail(ua[a].sendQ)]
      BY <2>4, Written
    <3> QED
      BY <2>1, <3>1 DEF IndInv, TypeOK, UARecord
  <2>5. ASSUME NEW h \in Host \ Agent, StrangerSends(h)
        PROVE  Kept'
    BY <2>1, <2>5 DEF StrangerSends
  <2> QED
    BY <1>2, <2>2, <2>3, <2>4, <2>5 DEF Next, Agents
<1> QED
  BY <1>1, <1>2 DEF HistoryNext

--------------------------------------------------------------------------------
(* A call rings where its INVITE goes.                                     *)

Waits(q, c) == \E i \in DOMAIN q : q[i].code = "SIP_RCVD" /\ IsInvite(q[i].pkt, c)

Arriving(a, c) ==
    \/ \E n \in net : n.to = a /\ IsInvite(n.pkt, c)
    \/ Waits(signalQ[a], c)

(* Only calls with an id are placed or heard; nobody but its caller knows  *)
(* of a call whose INVITE is still in sendQ; no INVITE is on its way to the *)
(* caller, and whoever has heard of a call is the one its INVITE goes to.  *)
Traced(c) ==
    /\ \A a \in Agent : Did(a, "placed", c) \/ Did(a, "heard", c) => c \in drawn
    /\ \A a \in Agent : Asks(ua[a].sendQ, c) =>
          \A b \in Agent : ~ Did(b, "heard", c) /\ (Did(b, "placed", c) => b = a)
    /\ \A a \in Agent : Arriving(a, c) =>
          ~ Did(a, "placed", c) /\ \A b \in Agent : Did(b, "heard", c) => b = a

TraceInv == \A c \in CallId : Traced(c)

(* A step in which nobody is seen placing or hearing call c.               *)
LEMMA TracedKept ==
    ASSUME NEW c, Traced(c), drawn \subseteq drawn',
           \A a \in Agent : /\ Did(a, "placed", c)' => Did(a, "placed", c)
                            /\ Did(a, "heard", c)' => Did(a, "heard", c)
                            /\ Asks(ua[a].sendQ, c)' => Asks(ua[a].sendQ, c) \/ c \notin drawn
                            /\ Arriving(a, c)' =>
                                  \/ Arriving(a, c) \/ c \notin drawn
                                  \/ \E b \in Agent \ {a} : Asks(ua[b].sendQ, c)
    PROVE  Traced(c)'
<1>1. (\A a \in Agent : Did(a, "placed", c) \/ Did(a, "heard", c) => c \in drawn)'
  BY DEF Traced
<1>2. (\A a \in Agent : Asks(ua[a].sendQ, c) =>
          \A b \in Agent : ~ Did(b, "heard", c) /\ (Did(b, "placed", c) => b = a))'
  BY DEF Traced
<1>3. (\A a \in Agent : Arriving(a, c) =>
          ~ Did(a, "placed", c) /\ \A b \in Agent : Did(b, "heard", c) => b = a)'
  BY DEF Traced
<1> QED
  BY <1>1, <1>2, <1>3 DEF Traced

(* The INVITEs in sendQ after a pass of the loop, and those on their way.  *)
LEMMA PassAsks ==
    ASSUME IndInv, CallInv, NEW a \in Agent, NEW v, ua' = [ua EXCEPT ![a] = v],
           Outcome(a, v), UNCHANGED net, NEW c \in CallId
    PROVE  /\ \A b \in Agent : Asks(ua[b].sendQ, c)' =>
                 Asks(ua[b].sendQ, c) \/ (b = a /\ StartCall(ua[a], v, c) /\ c \notin drawn)
           /\ \A b \in Agent : Arriving(b, c)' => Arriving(b, c)
<1>1. ua'[a] = v /\ \A b \in Agent \ {a} : ua'[b] = ua[b]
  BY DEF IndInv, TypeOK
<1>2. ua[a] \in UARecord /\ ua[a].sendQ \in Seq(SendMemo) /\ AsksOnce(ua[a].sendQ, c)
  BY DEF IndInv, TypeOK, UARecord, CallInv, OneParty
<1>3. Asks(v.sendQ, c) =>
         Asks(ua[a].sendQ, c) \/ (StartCall(ua[a], v, c) /\ c \notin drawn)
  <2>1. CASE \/ Stay(ua[a], v) \/ Answer(ua[a], v) \/ Acked(ua[a], v) \/ Connect(ua[a], v)
             \/ RingAgain(ua[a], v) \/ HangUp(ua[a], v) \/ Over(ua[a], v)
    BY <1>2, <2>1, OutcomeShrinks
  <2>2. ASSUME NEW d, StartRing(ua[a], v, d)
        PROVE  Asks(v.sendQ, c) => Asks(ua[a].sendQ, c)
    <3>1. Writes(ua[a], v, {"BUSY", "RING", "BYE", "OK", "DECLINE", "ACK"})
      BY <2>2 DEF StartRing, Writes
    <3> QED
      BY <1>2, <3>1, WritesAsks
  <2>3. ASSUME NEW d \in CallId \ drawn, StartCall(ua[a], v, d)
        PROVE  Asks(v.sendQ, c) =>
                  Asks(ua[a].sendQ, c) \/ (StartCall(ua[a], v, c) /\ c \notin drawn)
    <3> DEFINE m == [type |-> "INVITE", callId |-> d, temp |-> FALSE]
    <3>1. m \in SendMemo /\ (IsInvite(m, c) <=> d = c)
      BY DEF SendMemo, IsInvite
    <3>2. v.sendQ = Append(ua[a].sendQ, m)
      BY <2>3 DEF StartCall
    <3> HIDE DEF m
    <3> QED
      BY <1>2, <2>3, <3>1, <3>2, AppendAsks
  <2> QED
    BY <2>1, <2>2, <2>3 DEF Outcome
<1>4. \A b \in Agent : \A i \in DOMAIN signalQ'[b] :
         \E j \in DOMAIN signalQ[b] : signalQ'[b][i] = signalQ[b][j]
  BY SignalsKept DEF Outcome
<1>5. \A b \in Agent : Arriving(b, c)' => Arriving(b, c)
  BY <1>4 DEF Arriving, Waits, IsInvite
<1>6. \A b \in Agent : Asks(ua[b].sendQ, c)' <=> Asks(ua'[b].sendQ, c)
  BY DEF Asks, IsInvite
<1> QED
  BY <1>1, <1>3, <1>5, <1>6

(* Every pass of the user agent thread.                                    *)
LEMMA AgentTraced ==
    ASSUME IndInv, CallInv, Kept, TraceInv, NEW a \in Agent, UserAgentStep(a), UNCHANGED net,
           past' = past \cup Deeds'
    PROVE  TraceInv'
<1>1. PICK v : ua' = [ua EXCEPT ![a] = v] /\ Outcome(a, v)
  BY StepOutcome
<1> SUFFICES ASSUME NEW c \in CallId PROVE Traced(c)'
  BY DEF TraceInv
<1>2. Traced(c) /\ OneParty(c)
  BY DEF TraceInv, CallInv
<1>3. /\ \A b \in Agent : Asks(ua[b].sendQ, c)' =>
            Asks(ua[b].sendQ, c) \/ (b = a /\ StartCall(ua[a], v, c) /\ c \notin drawn)
      /\ \A b \in Agent : Arriving(b, c)' => Arriving(b, c)
  BY <1>1, PassAsks
<1>4. drawn \subseteq drawn'
  BY <1>1 DEF Outcome
<1>5. CASE \A b \in Agent : /\ Did(b, "placed", c)' => Did(b, "placed", c)
                            /\ Did(b, "heard", c)' => Did(b, "heard", c)
  BY <1>2, <1>3, <1>4, <1>5, TracedKept
<1>6. ASSUME StartCall(ua[a], v, c), c \notin drawn, drawn' = drawn \cup {c}
      PROVE  Traced(c)'
  <2>1. past' = past \cup {<<a, "placed", c>>}
    BY <1>1, <1>6, OutcomeDeeds
  <2>2. \A b \in Agent : ~ Did(b, "placed", c) /\ ~ Did(b, "heard", c)
    BY <1>2, <1>6 DEF Traced
  <2>3. \A b \in Agent : (Did(b, "placed", c)' => b = a) /\ ~ Did(b, "heard", c)'
    BY <2>1, <2>2 DEF Did
  <2>4. \A b \in Agent : ~ Asks(ua[b].sendQ, c) /\ ~ Called(b, c)
    BY <1>2, <1>6 DEF OneParty
  <2>5. \A b \in Agent : ~ Arriving(b, c)'
    BY <1>3, <2>4 DEF Arriving, Waits, Called
  <2>6. \A b \in Agent : Asks(ua[b].sendQ, c)' => b = a
    BY <1>3, <2>4
  <2>7. c \in drawn'
    BY <1>6
  <2> QED
    BY <2>3, <2>5, <2>6, <2>7 DEF Traced
<1>7. ASSUME StartRing(ua[a], v, c), Took(a), Packeted(a), IsInvite(Head(signalQ[a]).pkt, c)
      PROVE  Traced(c)'
  <2>1. past' = past \cup {<<a, "heard", c>>}
    BY <1>1, <1>7, OutcomeDeeds
  <2>2. \A b \in Agent : /\ Did(b, "placed", c)' => Did(b, "placed", c)
                         /\ Did(b, "heard", c)' => Did(b, "heard", c) \/ b = a
    BY <2>1 DEF Did
  <2>3. Arriving(a, c)
    <3>1. signalQ[a] \in Seq(Signal) /\ signalQ[a] # << >>
      BY <1>7 DEF IndInv, TypeOK, Took
    <3> QED
      BY <1>7, <3>1, TailHolds DEF Arriving, Waits, Packeted
  <2>4. Called(a, c) /\ \A b \in Agent : Arriving(b, c) => b = a
    BY <1>2, <2>3 DEF OneParty, Called, Arriving, Waits
  <2>5. \A b \in Agent : ~ Asks(ua[b].sendQ, c)
    BY <1>2, <2>4 DEF OneParty
  <2>6. \A b \in Agent : ~ Asks(ua[b].sendQ, c)'
    BY <1>3, <1>7, <2>5 DEF StartCall, StartRing
  <2>7. c \in drawn'
    BY <1>2, <1>4, <2>4 DEF OneParty
  <2>8. ~ Did(a, "placed", c)' /\ \A b \in Agent : Did(b, "heard", c)' => b = a
    BY <1>2, <2>2, <2>3 DEF Traced
  <2>9. \A b \in Agent : Arriving(b, c)' => b = a
    BY <1>3, <2>4
  <2> QED
    BY <2>6, <2>7, <2>8, <2>9 DEF Traced
<1> QED
  <2>1. CASE past' = past
    BY <1>5, <2>1 DEF Did
  <2>2. CASE \E e : past' = past \cup {<<a, "accepted", e>>}
    BY <1>5, <2>2 DEF Did
  <2>3. ASSUME NEW d \in CallId \ drawn, StartCall(ua[a], v, d), drawn' = drawn \cup {d}
        PROVE  Traced(c)'
    <3>1. past' = past \cup {<<a, "placed", d>>}
      BY <1>1, <2>3, OutcomeDeeds
    <3>2. CASE d # c
      BY <1>5, <3>1, <3>2 DEF Did
    <3> QED
      BY <1>6, <2>3, <3>2
  <2>4. ASSUME Took(a), Packeted(a), Head(signalQ[a]).pkt.type = "INVITE",
               NEW d, d = Head(signalQ[a]).pkt.callId, StartRing(ua[a], v, d)
        PROVE  Traced(c)'
    <3>1. past' = past \cup {<<a, "heard", d>>}
      BY <1>1, <2>4, OutcomeDeeds
    <3>2. CASE d # c
      BY <1>5, <3>1, <3>2 DEF Did
    <3> QED
      BY <1>7, <2>4, <3>2 DEF IsInvite
  <2>5. ASSUME Answer(ua[a], v) PROVE Traced(c)'
    <3>1. v.state \in {"ACCEPTED", "REJECTED"}
      BY <2>5 DEF Answer
    <3> QED
      BY <1>1, <2>1, <2>2, <2>5, <3>1, OutcomeDeeds
  <2>6. CASE \/ Stay(ua[a], v) \/ Over(ua[a], v) \/ HangUp(ua[a], v) \/ Connect(ua[a], v)
             \/ Acked(ua[a], v) \/ RingAgain(ua[a], v)
    BY <1>1, <2>1, <2>6, OutcomeDeeds
  <2> QED
    BY <1>1, <2>3, <2>4, <2>5, <2>6 DEF Outcome

(* The console, the UDP threads and strangers: where an INVITE may come to. *)
LEMMA OtherArrives ==
    ASSUME IndInv, SaneInv, NEW a \in Agent, User(a) \/ UdpReader(a) \/ UdpWriter(a),
           NEW c \in CallId
    PROVE  /\ drawn' = drawn
           /\ \A b \in Agent : Asks(ua[b].sendQ, c)' => Asks(ua[b].sendQ, c)
           /\ \A b \in Agent : Arriving(b, c)' =>
                 Arriving(b, c) \/ (a # b /\ UdpWriter(a) /\ Asks(ua[a].sendQ, c))
<1>1. CASE User(a)
  <2>1. PICK m \in Signal : /\ signalQ' = [signalQ EXCEPT ![a] = Append(@, m)]
                            /\ m.code # "SIP_RCVD"
    BY <1>1, Typed
  <2>2. ua' = ua /\ net' = net /\ drawn' = drawn
    BY <1>1, Typed
  <2>3. \A b \in Agent : \A i \in DOMAIN signalQ'[b] : signalQ'[b][i].code = "SIP_RCVD" =>
           i \in DOMAIN signalQ[b] /\ signalQ'[b][i] = signalQ[b][i]
    BY <2>1, Queued
  <2>4. \A b \in Agent : Arriving(b, c)' => Arriving(b, c)
    BY <2>2, <2>3 DEF Arriving, Waits, IsInvite
  <2> QED
    BY <2>2, <2>4 DEF Asks, IsInvite
<1>2. CASE UdpReader(a)
  <2>1. PICK n \in net :
           /\ n.to = a
           /\ signalQ' = [signalQ EXCEPT ![a] = Append(@, [code |-> "SIP_RCVD", pkt |-> n.pkt])]
           /\ Take(n)
    BY <1>2 DEF UdpReader
  <2>2. ua' = ua /\ drawn' = drawn /\ net' \subseteq net
    BY <1>2, <2>1 DEF UdpReader, Take
  <2> DEFINE m == [code |-> "SIP_RCVD", pkt |-> n.pkt]
  <2>3. m \in Signal
    BY DEF IndInv, TypeOK, Signal
  <2>4. m.pkt = n.pkt /\ signalQ' = [signalQ EXCEPT ![a] = Append(@, m)]
    BY <2>1
  <2> HIDE DEF m
  <2>5. \A b \in Agent : \A i \in DOMAIN signalQ'[b] :
           \/ i \in DOMAIN signalQ[b] /\ signalQ'[b][i] = signalQ[b][i]
           \/ b = a /\ signalQ'[b][i] = m
    BY <2>3, <2>4, Queued
  <2>6. \A b \in Agent : Arriving(b, c)' => Arriving(b, c)
    BY <2>1, <2>2, <2>4, <2>5 DEF Arriving, Waits, IsInvite
  <2> QED
    BY <2>2, <2>6 DEF Asks, IsInvite
<1>3. CASE UdpWriter(a)
  <2>1. /\ signalQ' = signalQ /\ drawn' = drawn
        /\ ua' = [ua EXCEPT ![a].sendQ = Tail(ua[a].sendQ)]
    BY <1>3, Written
  <2>2. PICK to, pkt : Departs(a, to, pkt)
    BY <1>3, Written
  <2>3. ua \in [Agent -> UARecord] /\ ua[a].sendQ \in Seq(SendMemo) /\ ua[a].sendQ # << >>
    BY <1>3 DEF IndInv, TypeOK, UARecord, UdpWriter
  <2> DEFINE t == Tail(ua[a].sendQ)
  <2>4. ua'[a].sendQ = t /\ \A b \in Agent \ {a} : ua'[b] = ua[b]
    BY <2>1, <2>3 DEF UARecord
  <2>5. \A i \in DOMAIN t : \E j \in DOMAIN ua[a].sendQ : t[i] = ua[a].sendQ[j]
    BY <2>3, SendTail
  <2> HIDE DEF t
  <2>6. \A b \in Agent : Asks(ua[b].sendQ, c)' => Asks(ua[b].sendQ, c)
    BY <2>4, <2>5 DEF Asks, IsInvite
  <2>7. \A b \in Agent : Arriving(b, c)' =>
           Arriving(b, c) \/ (a # b /\ Asks(ua[a].sendQ, c))
    BY <2>1, <2>2 DEF Arriving, Waits, IsInvite, Departs, Asks
  <2> QED
    BY <1>3, <2>1, <2>6, <2>7
<1> QED
  BY <1>1, <1>2, <1>3

(* Every step keeps TraceInv.                                              *)
LEMMA NextTraced ==
    ASSUME IndInv, SaneInv, CallInv, Kept, TraceInv, [HistoryNext]_<<vars, past>>
    PROVE  TraceInv'
<1>1. CASE UNCHANGED <<vars, past>>
  BY <1>1 DEF vars, TraceInv, Traced, Did, Asks, Arriving, Waits, IsInvite
<1>2. ASSUME Next, past' = past \cup Deeds'
      PROVE  TraceInv'
  <2>1. ASSUME NEW a \in Agent, User(a) \/ UdpReader(a) \/ UdpWriter(a)
        PROVE  TraceInv'
    <3> SUFFICES ASSUME NEW c \in CallId PROVE Traced(c)'
      BY DEF TraceInv
    <3>1. Traced(c)
      BY DEF TraceInv
    <3>2. past' = past
      BY <1>2, <2>1, OtherDeeds
    <3>3. /\ drawn' = drawn
          /\ \A b \in Agent : Asks(ua[b].sendQ, c)' => Asks(ua[b].sendQ, c)
          /\ \A b \in Agent : Arriving(b, c)' =>
                Arriving(b, c) \/ (a # b /\ UdpWriter(a) /\ Asks(ua[a].sendQ, c))
      BY <2>1, OtherArrives
    <3>4. \A b \in Agent : /\ Did(b, "placed", c)' => Did(b, "placed", c)
                           /\ Did(b, "heard", c)' => Did(b, "heard", c)
      BY <3>2 DEF Did
    <3> QED
      BY <3>1, <3>3, <3>4, TracedKept
  <2>2. ASSUME NEW h \in Host \ Agent, StrangerSends(h)
        PROVE  TraceInv'
    <3> SUFFICES ASSUME NEW c \in CallId PROVE Traced(c)'
      BY DEF TraceInv
    <3>1. Traced(c)
      BY DEF TraceInv
    <3>2. PICK d \in CallId :
             /\ drawn' = drawn \cup {d}
             /\ past' \in {past, past \cup {<<h, "accepted", d>>}}
             /\ \A n \in net' : n \in net \/ /\ n.pkt.callId = d /\ n.pkt.from = h
                                             /\ n.pkt.type = "INVITE" => d \notin drawn
                                             /\ n.pkt.type = "OK" => Did(h, "accepted", d)'
      BY <1>2, <2>2, StrangerDeeds
    <3>3. ua' = ua /\ signalQ' = signalQ
      BY <2>2 DEF StrangerSends
    <3>4. \A b \in Agent : Arriving(b, c)' => Arriving(b, c) \/ c \notin drawn
      BY <3>2, <3>3 DEF Arriving, Waits, IsInvite
    <3>5. \A b \in Agent : /\ Did(b, "placed", c)' => Did(b, "placed", c)
                           /\ Did(b, "heard", c)' => Did(b, "heard", c)
      BY <3>2 DEF Did
    <3>6. \A b \in Agent : Asks(ua[b].sendQ, c)' => Asks(ua[b].sendQ, c)
      BY <3>3 DEF Asks, IsInvite
    <3> QED
      BY <3>1, <3>2, <3>4, <3>5, <3>6, TracedKept
  <2> QED
    BY <1>2, <2>1, <2>2, AgentTraced DEF Next, Agents
<1> QED
  BY <1>1, <1>2 DEF HistoryNext

--------------------------------------------------------------------------------
(* A network that repeats nothing delivers an INVITE once.                 *)

WaitsOnce(q, c) ==
    \A i, j \in DOMAIN q :
        (/\ q[i].code = "SIP_RCVD" /\ IsInvite(q[i].pkt, c)
         /\ q[j].code = "SIP_RCVD" /\ IsInvite(q[j].pkt, c)) => i = j

OnTheWay(c) == {n \in net : n.to \in Agent /\ IsInvite(n.pkt, c)}

(* The INVITE is in one place, and nobody has heard of the call yet.       *)
Sole(c) ==
    /\ \A a, b \in Agent : ~ (Arriving(a, c) /\ Did(b, "heard", c))
    /\ \A n, k \in OnTheWay(c) : n = k
    /\ OnTheWay(c) # {} => \A a \in Agent : ~ Waits(signalQ[a], c)
    /\ \A a \in Agent : WaitsOnce(signalQ[a], c)

SoleInv == ~ Duplicating => \A c \in CallId : Sole(c)

(* What appending to signalQ and taking from it do to the INVITEs in it.   *)
LEMMA AppendWaits ==
    ASSUME NEW q \in Seq(Signal), NEW m \in Signal, NEW c
    PROVE  LET r == Append(q, m)
               new == m.code = "SIP_RCVD" /\ IsInvite(m.pkt, c) IN
           /\ Waits(r, c) => Waits(q, c) \/ new
           /\ (WaitsOnce(q, c) /\ (new => ~ Waits(q, c))) => WaitsOnce(r, c)
<1> DEFINE r == Append(q, m)
           new == m.code = "SIP_RCVD" /\ IsInvite(m.pkt, c)
<1>1. /\ Len(q) \in Nat /\ DOMAIN q = 1 .. Len(q) /\ DOMAIN r = 1 .. Len(q) + 1
      /\ \A i \in DOMAIN q : r[i] = q[i]
      /\ r[Len(q) + 1] = m
  BY AppendProperties
<1> HIDE DEF r
<1>2. \A i \in DOMAIN r : r[i].code = "SIP_RCVD" /\ IsInvite(r[i].pkt, c) =>
         \/ i \in DOMAIN q /\ q[i].code = "SIP_RCVD" /\ IsInvite(q[i].pkt, c)
         \/ i = Len(q) + 1 /\ new
  BY <1>1
<1> HIDE DEF new
<1>3. Waits(r, c) => Waits(q, c) \/ new
  BY <1>2 DEF Waits
<1>4. ASSUME WaitsOnce(q, c), new => ~ Waits(q, c)
      PROVE  WaitsOnce(r, c)
  BY <1>2, <1>4 DEF WaitsOnce, Waits
<1> QED
  BY <1>3, <1>4 DEF r, new

(* Taking the first item of signalQ: what still waits waited before.       *)
LEMMA TailWaits ==
    ASSUME NEW q \in Seq(Signal), q # << >>, NEW c
    PROVE  /\ Waits(Tail(q), c) => Waits(q, c)
           /\ WaitsOnce(q, c) => WaitsOnce(Tail(q), c)
           /\ Head(q).code = "SIP_RCVD" /\ IsInvite(Head(q).pkt, c) =>
                 Waits(q, c) /\ (WaitsOnce(q, c) => ~ Waits(Tail(q), c))
<1> DEFINE t == Tail(q)
<1>1. /\ \A i \in DOMAIN t : i \in Nat /\ i + 1 \in DOMAIN q /\ t[i] = q[i + 1] /\ i + 1 # 1
      /\ 1 \in DOMAIN q /\ Head(q) = q[1]
  BY TailHolds
<1> HIDE DEF t
<1>2. Waits(t, c) => Waits(q, c)
  BY <1>1 DEF Waits
<1>3. WaitsOnce(q, c) => WaitsOnce(t, c)
  <2> SUFFICES ASSUME WaitsOnce(q, c), NEW i \in DOMAIN t, NEW j \in DOMAIN t,
                      t[i].code = "SIP_RCVD", IsInvite(t[i].pkt, c),
                      t[j].code = "SIP_RCVD", IsInvite(t[j].pkt, c)
               PROVE  i = j
    BY DEF WaitsOnce
  <2>1. i + 1 = j + 1
    BY <1>1 DEF WaitsOnce
  <2> QED
    BY <1>1, <2>1
<1>4. Head(q).code = "SIP_RCVD" /\ IsInvite(Head(q).pkt, c) =>
         Waits(q, c) /\ (WaitsOnce(q, c) => ~ Waits(t, c))
  BY <1>1 DEF Waits, WaitsOnce
<1> QED
  BY <1>2, <1>3, <1>4 DEF t

(* A step that makes no INVITE of call c, and lets nobody hear of it.      *)
LEMMA SoleKept ==
    ASSUME NEW c, Sole(c), OnTheWay(c)' \subseteq OnTheWay(c),
           \A a \in Agent : /\ Did(a, "heard", c)' => Did(a, "heard", c)
                            /\ Waits(signalQ[a], c)' => Waits(signalQ[a], c)
                            /\ WaitsOnce(signalQ[a], c)'
    PROVE  Sole(c)'
<1>1. \A a \in Agent : Arriving(a, c)' => Arriving(a, c)
  BY DEF Arriving, OnTheWay, IsInvite
<1>2. (\A a, b \in Agent : ~ (Arriving(a, c) /\ Did(b, "heard", c)))'
  BY <1>1 DEF Sole
<1>3. (\A n, k \in OnTheWay(c) : n = k)'
  BY DEF Sole
<1>4. (OnTheWay(c) # {} => \A a \in Agent : ~ Waits(signalQ[a], c))'
  BY DEF Sole
<1> QED
  BY <1>2, <1>3, <1>4 DEF Sole

(* A packet is the first sign of call c.                                   *)
LEMMA SoleNew ==
    ASSUME NEW c, NEW p, UNCHANGED signalQ,
           \A a \in Agent : ~ Arriving(a, c) /\ ~ Did(a, "heard", c)',
           \A n \in net' : n \in net \/ n = p
    PROVE  Sole(c)'
<1>1. OnTheWay(c) = {}
  BY DEF Arriving, OnTheWay
<1>2. \A a \in Agent : ~ Waits(signalQ'[a], c)
  BY DEF Arriving, Waits, IsInvite
<1>3. (\A n, k \in OnTheWay(c) : n = k)'
  BY <1>1 DEF OnTheWay, IsInvite
<1>4. (\A a \in Agent : WaitsOnce(signalQ[a], c) /\ ~ Waits(signalQ[a], c))'
  BY <1>2 DEF Waits, WaitsOnce, IsInvite
<1>5. (\A a, b \in Agent : ~ (Arriving(a, c) /\ Did(b, "heard", c)))'
  OBVIOUS
<1> QED
  BY <1>3, <1>4, <1>5 DEF Sole

(* A pass of the loop takes the INVITE of the call that starts to ring.    *)
LEMMA AgentSole ==
    ASSUME IndInv, CallInv, Kept, SoleInv, NEW a \in Agent, UserAgentStep(a), UNCHANGED net,
           past' = past \cup Deeds'
    PROVE  SoleInv'
<1>1. PICK v : ua' = [ua EXCEPT ![a] = v] /\ Outcome(a, v)
  BY StepOutcome
<1> SUFFICES ASSUME ~ Duplicating, NEW c \in CallId PROVE Sole(c)'
  BY DEF SoleInv
<1>2. Sole(c) /\ OneParty(c)
  BY DEF SoleInv, CallInv
<1>3. signalQ \in [Agent -> Seq(Signal)] /\ signalQ[a] \in Seq(Signal)
  BY DEF IndInv, TypeOK
<1>4. OnTheWay(c)' = OnTheWay(c)
  BY DEF OnTheWay, IsInvite
<1>5. \A b \in Agent : /\ Waits(signalQ'[b], c) => Waits(signalQ[b], c)
                       /\ WaitsOnce(signalQ'[b], c)
  <2>1. CASE signalQ' = signalQ
    BY <1>2, <2>1 DEF Sole
  <2>2. CASE Took(a)
    <3>1. /\ signalQ'[a] = Tail(signalQ[a]) /\ signalQ[a] # << >>
          /\ \A b \in Agent \ {a} : signalQ'[b] = signalQ[b]
      BY <1>3, <2>2 DEF Took
    <3>2. /\ Waits(Tail(signalQ[a]), c) => Waits(signalQ[a], c)
          /\ WaitsOnce(Tail(signalQ[a]), c)
      BY <1>2, <1>3, <3>1, TailWaits DEF Sole
    <3> QED
      BY <1>2, <3>1, <3>2 DEF Sole
  <2> QED
    BY <1>1, <2>1, <2>2 DEF Outcome
<1>6. \A b \in Agent : /\ Waits(signalQ[b], c)' <=> Waits(signalQ'[b], c)
                       /\ WaitsOnce(signalQ[b], c)' <=> WaitsOnce(signalQ'[b], c)
  BY DEF Waits, WaitsOnce, IsInvite
<1>7. CASE \A b \in Agent : Did(b, "heard", c)' => Did(b, "heard", c)
  BY <1>2, <1>4, <1>5, <1>6, <1>7, SoleKept
<1>8. ASSUME Took(a), Packeted(a), IsInvite(Head(signalQ[a]).pkt, c)
      PROVE  Sole(c)'
  <2>1. signalQ[a] # << >> /\ signalQ'[a] = Tail(signalQ[a])
    BY <1>3, <1>8 DEF Took
  <2>2. Waits(signalQ[a], c) /\ ~ Waits(signalQ'[a], c)
    BY <1>2, <1>3, <1>8, <2>1, TailWaits DEF Sole, Packeted
  <2>3. OnTheWay(c) = {}
    BY <1>2, <2>2 DEF Sole
  <2>4. \A b \in Agent : Waits(signalQ[b], c) => b = a
    BY <1>2, <2>2 DEF OneParty, Called, Waits
  <2>5. \A b \in Agent : ~ Waits(signalQ[b], c)'
    BY <1>5, <1>6, <2>2, <2>4
  <2>6. \A b \in Agent : ~ Arriving(b, c)'
    BY <1>4, <2>3, <2>5 DEF Arriving, OnTheWay, IsInvite
  <2>7. (\A x, y \in Agent : ~ (Arriving(x, c) /\ Did(y, "heard", c)))'
    BY <2>6
  <2>8. (\A n, k \in OnTheWay(c) : n = k)' /\ OnTheWay(c)' = {}
    BY <1>4, <2>3
  <2>9. (\A b \in Agent : WaitsOnce(signalQ[b], c))'
    BY <1>5, <1>6
  <2> QED
    BY <2>7, <2>8, <2>9 DEF Sole
<1> QED
  <2>1. CASE \E d, e : past' \in {past, past \cup {<<a, "accepted", e>>},
                                  past \cup {<<a, "placed", e>>}}
    BY <1>7, <2>1 DEF Did
  <2>2. ASSUME NEW d \in CallId \ drawn, StartCall(ua[a], v, d)
        PROVE  Sole(c)'
    BY <1>1, <2>1, <2>2, OutcomeDeeds
  <2>3. ASSUME Took(a), Packeted(a), Head(signalQ[a]).pkt.type = "INVITE",
               NEW d, d = Head(signalQ[a]).pkt.callId, StartRing(ua[a], v, d)
        PROVE  Sole(c)'
    <3>1. past' = past \cup {<<a, "heard", d>>}
      BY <1>1, <2>3, OutcomeDeeds
    <3>2. CASE d # c
      BY <1>7, <3>1, <3>2 DEF Did
    <3> QED
      BY <1>8, <2>3, <3>2 DEF IsInvite
  <2>4. ASSUME Answer(ua[a], v) PROVE Sole(c)'
    <3>1. v.state \in {"ACCEPTED", "REJECTED"}
      BY <2>4 DEF Answer
    <3> QED
      BY <1>1, <2>1, <2>4, <3>1, OutcomeDeeds
  <2>5. CASE \/ Stay(ua[a], v) \/ Over(ua[a], v) \/ HangUp(ua[a], v) \/ Connect(ua[a], v)
             \/ Acked(ua[a], v) \/ RingAgain(ua[a], v)
    BY <1>1, <2>1, <2>5, OutcomeDeeds
  <2> QED
    BY <1>1, <2>2, <2>3, <2>4, <2>5 DEF Outcome

(* Commands, the UDP threads and strangers.                                *)
LEMMA OtherSole ==
    ASSUME IndInv, SaneInv, CallInv, Kept, TraceInv, SoleInv, NEW a \in Agent,
           User(a) \/ UdpReader(a) \/ UdpWriter(a), past' = past \cup Deeds'
    PROVE  SoleInv'
<1> SUFFICES ASSUME ~ Duplicating, NEW c \in CallId PROVE Sole(c)'
  BY DEF SoleInv
<1>1. Sole(c) /\ OneParty(c) /\ Traced(c)
  BY DEF SoleInv, CallInv, TraceInv
<1>2. past' = past /\ \A b \in Agent : Did(b, "heard", c)' => Did(b, "heard", c)
  BY OtherDeeds DEF Did
<1>3. signalQ \in [Agent -> Seq(Signal)]
  BY DEF IndInv, TypeOK
<1>4. \A b \in Agent : /\ Waits(signalQ[b], c)' <=> Waits(signalQ'[b], c)
                       /\ WaitsOnce(signalQ[b], c)' <=> WaitsOnce(signalQ'[b], c)
  BY DEF Waits, WaitsOnce, IsInvite
<1>5. CASE User(a)
  <2>1. PICK m \in Signal : /\ signalQ' = [signalQ EXCEPT ![a] = Append(@, m)]
                            /\ m.code # "SIP_RCVD"
    BY <1>5, Typed
  <2>2. OnTheWay(c)' = OnTheWay(c)
    BY <1>5, Typed DEF OnTheWay, IsInvite
  <2>3. /\ signalQ'[a] = Append(signalQ[a], m)
        /\ \A b \in Agent \ {a} : signalQ'[b] = signalQ[b]
    BY <1>3, <2>1
  <2>4. \A b \in Agent : /\ Waits(signalQ'[b], c) => Waits(signalQ[b], c)
                         /\ WaitsOnce(signalQ'[b], c)
    BY <1>1, <1>3, <2>1, <2>3, AppendWaits DEF Sole
  <2> QED
    BY <1>1, <1>2, <1>4, <2>2, <2>4, SoleKept
<1>6. CASE UdpReader(a)
  <2>1. PICK n \in net :
           /\ n.to = a
           /\ signalQ' = [signalQ EXCEPT ![a] = Append(@, [code |-> "SIP_RCVD", pkt |-> n.pkt])]
           /\ Take(n)
    BY <1>6 DEF UdpReader
  <2>2. net' = net \ {n}
    BY <2>1 DEF Take
  <2> DEFINE m == [code |-> "SIP_RCVD", pkt |-> n.pkt]
  <2>3. m \in Signal
    BY DEF IndInv, TypeOK, Signal
  <2>4. m.pkt = n.pkt /\ m.code = "SIP_RCVD" /\ signalQ'[a] = Append(signalQ[a], m)
        /\ \A b \in Agent \ {a} : signalQ'[b] = signalQ[b]
    BY <1>3, <2>1
  <2> HIDE DEF m
  <2>5. OnTheWay(c)' = OnTheWay(c) \ {n}
    BY <2>2 DEF OnTheWay, IsInvite
  <2>6. CASE ~ IsInvite(n.pkt, c)
    <3>1. /\ Waits(Append(signalQ[a], m), c) => Waits(signalQ[a], c)
          /\ WaitsOnce(Append(signalQ[a], m), c)
      <4>1. signalQ[a] \in Seq(Signal) /\ WaitsOnce(signalQ[a], c)
        BY <1>1, <1>3 DEF Sole
      <4> QED
        BY <2>3, <2>4, <2>6, <4>1, AppendWaits
    <3>2. \A b \in Agent : /\ Waits(signalQ'[b], c) => Waits(signalQ[b], c)
                           /\ WaitsOnce(signalQ'[b], c)
      BY <1>1, <2>4, <3>1 DEF Sole
    <3> QED
      BY <1>1, <1>2, <1>4, <2>5, <3>2, SoleKept
  <2>7. CASE IsInvite(n.pkt, c)
    <3>1. n \in OnTheWay(c)
      BY <2>1, <2>7 DEF OnTheWay
    <3>2. OnTheWay(c)' = {} /\ \A b \in Agent : ~ Waits(signalQ[b], c)
      BY <1>1, <2>5, <3>1 DEF Sole
    <3>3. \A b \in Agent : WaitsOnce(signalQ'[b], c)
      <4>1. \A b \in Agent : WaitsOnce(signalQ[b], c)
        BY <1>1 DEF Sole
      <4>2. signalQ[a] \in Seq(Signal) /\ WaitsOnce(signalQ[a], c) /\ ~ Waits(signalQ[a], c)
        BY <1>3, <3>2, <4>1
      <4>3. WaitsOnce(Append(signalQ[a], m), c)
        BY <2>3, <4>2, AppendWaits
      <4> QED
        BY <2>4, <4>1, <4>3
    <3>4. \A b \in Agent : ~ Did(b, "heard", c)'
      BY <1>1, <1>2, <2>1, <2>7 DEF Sole, Arriving
    <3> QED
      BY <1>4, <3>2, <3>3, <3>4 DEF Sole
  <2> QED
    BY <2>6, <2>7
<1>7. CASE UdpWriter(a)
  <2>1. signalQ' = signalQ
    BY <1>7, Written
  <2>2. PICK to, pkt : Departs(a, to, pkt)
    BY <1>7, Written
  <2>3. \A n \in net' : n \in net \/ n = [to |-> to, pkt |-> pkt]
    <3>1. IndInv'
      BY <1>7, UdpWriterInv
    <3>2. net' \subseteq [to : Host, pkt : Packet]
      BY <3>1 DEF IndInv, TypeOK
    <3> QED
      BY <2>2, <3>2 DEF Departs
  <2>4. CASE ~ IsInvite(pkt, c)
    <3>1. OnTheWay(c)' \subseteq OnTheWay(c)
      BY <2>2, <2>4 DEF OnTheWay, IsInvite, Departs
    <3> QED
      BY <1>1, <1>2, <1>4, <2>1, <3>1, SoleKept DEF Sole
  <2>5. CASE IsInvite(pkt, c)
    <3>1. Asks(ua[a].sendQ, c)
      BY <2>2, <2>5 DEF Departs, IsInvite, Asks
    <3>2. \A b \in Agent : ~ Arriving(b, c)
      BY <1>1, <3>1 DEF OneParty, Called, Arriving, Waits
    <3>3. \A b \in Agent : ~ Did(b, "heard", c)'
      BY <1>1, <1>2, <3>1 DEF Traced
    <3> QED
      BY <2>1, <2>3, <3>2, <3>3, SoleNew
  <2> QED
    BY <2>4, <2>5
<1> QED
  BY <1>5, <1>6, <1>7

(* Another phone invites with a call id that nobody drew before.           *)
LEMMA StrangerSole ==
    ASSUME IndInv, CallInv, Kept, TraceInv, SoleInv, NEW h \in Host \ Agent,
           StrangerSends(h), past' = past \cup Deeds'
    PROVE  SoleInv'
<1> SUFFICES ASSUME ~ Duplicating, NEW c \in CallId PROVE Sole(c)'
  BY DEF SoleInv
<1>1. Sole(c) /\ OneParty(c) /\ Traced(c)
  BY DEF SoleInv, CallInv, TraceInv
<1>2. \A b \in Agent : Did(b, "heard", c)' => Did(b, "heard", c)
  <2>1. PICK d \in CallId : past' \in {past, past \cup {<<h, "accepted", d>>}}
    BY StrangerDeeds
  <2> QED
    BY <2>1 DEF Did
<1>3. PICK y \in Agent, t \in StrangerPackets, d \in CallId, sdp \in BOOLEAN :
         /\ t = "INVITE" => d \notin drawn
         /\ net' = net \cup {[to |-> y, pkt |-> [type |-> t, callId |-> d, from |-> h, sdp |-> sdp]]}
  BY DEF StrangerSends
<1> DEFINE k == [to |-> y, pkt |-> [type |-> t, callId |-> d, from |-> h, sdp |-> sdp]]
<1>4. net' = net \cup {k} /\ k.pkt.type = t /\ k.pkt.callId = d
  BY <1>3
<1> HIDE DEF k
<1>5. signalQ' = signalQ
  BY DEF StrangerSends
<1>6. CASE ~ IsInvite(k.pkt, c)
  <2>1. OnTheWay(c)' \subseteq OnTheWay(c)
    BY <1>4, <1>6 DEF OnTheWay, IsInvite
  <2>2. \A b \in Agent : /\ Waits(signalQ[b], c)' <=> Waits(signalQ[b], c)
                         /\ WaitsOnce(signalQ[b], c)' <=> WaitsOnce(signalQ[b], c)
    BY <1>5 DEF Waits, WaitsOnce, IsInvite
  <2> QED
    BY <1>1, <1>2, <2>1, <2>2, SoleKept DEF Sole
<1>7. CASE IsInvite(k.pkt, c)
  <2>1. c \notin drawn
    BY <1>3, <1>4, <1>7 DEF IsInvite
  <2>2. \A b \in Agent : ~ Arriving(b, c)
    BY <1>1, <2>1 DEF OneParty, Called, Arriving, Waits
  <2>3. \A b \in Agent : ~ Did(b, "heard", c)'
    BY <1>1, <1>2, <2>1 DEF Traced
  <2>4. \A n \in net' : n \in net \/ n = k
    BY <1>4
  <2> QED
    BY <1>5, <2>2, <2>3, <2>4, SoleNew
<1> QED
  BY <1>6, <1>7

(* Every step keeps SoleInv.                                               *)
LEMMA NextSole ==
    ASSUME IndInv, SaneInv, CallInv, Kept, TraceInv, SoleInv, [HistoryNext]_<<vars, past>>
    PROVE  SoleInv'
<1>1. CASE UNCHANGED <<vars, past>>
  BY <1>1 DEF vars, SoleInv, Sole, OnTheWay, Did, Arriving, Waits, WaitsOnce, IsInvite
<1>2. ASSUME Next, past' = past \cup Deeds'
      PROVE  SoleInv'
  BY <1>2, AgentSole, OtherSole, StrangerSole DEF Next, Agents
<1> QED
  BY <1>1, <1>2 DEF HistoryNext

--------------------------------------------------------------------------------
(* No call is connected that nobody accepted.                              *)

Accepted(c) == \E h \in Host : Did(h, "accepted", c)

IsOk(p, c) == p.type = "OK" /\ p.callId = c

Reports(q, c) == \E i \in DOMAIN q : q[i].code = "SIP_RCVD" /\ IsOk(q[i].pkt, c)

(* Call c has been accepted, for all anyone can tell.                      *)
Agreed(c) ==
    \/ \E a \in Agent : ua[a].state \in {"ACCEPTED", "IN_CALL"} /\ ua[a].callId = c
    \/ \E a \in Agent : \E i \in DOMAIN ua[a].sendQ : IsOk(ua[a].sendQ[i], c)
    \/ \E n \in net : IsOk(n.pkt, c)
    \/ \E a \in Agent : Reports(signalQ[a], c)

AgreeInv == \A c \in CallId \cup {NoCall} : Agreed(c) => Accepted(c)

(* Nothing is struck from the record.                                      *)
LEMMA AcceptedStays ==
    ASSUME past \subseteq past', NEW c, Accepted(c)
    PROVE  Accepted(c)'
  BY DEF Accepted, Did

(* The OKs in sendQ after a pass that makes v of u.                        *)
LEMMA WritesReport ==
    ASSUME NEW u \in UARecord, NEW v, NEW c, NEW i \in DOMAIN v.sendQ, IsOk(v.sendQ[i], c)
    PROVE  /\ \/ v.sendQ \in {u.sendQ, << >>}
              \/ Writes(u, v, {"BUSY", "RING", "BYE", "DECLINE", "ACK", "INVITE"})
              => \E j \in DOMAIN u.sendQ : IsOk(u.sendQ[j], c)
           /\ WritesOk(u, v) => c = u.callId \/ \E j \in DOMAIN u.sendQ : IsOk(u.sendQ[j], c)
<1>1. u.sendQ \in Seq(SendMemo)
  BY DEF UARecord
<1>2. CASE v.sendQ = u.sendQ
  BY <1>2
<1>3. v.sendQ # << >>
  OBVIOUS
<1>4. ASSUME NEW m \in SendMemo, v.sendQ = Append(u.sendQ, m)
      PROVE  (\E j \in DOMAIN u.sendQ : IsOk(u.sendQ[j], c)) \/ IsOk(m, c)
  <2>1. \A j \in DOMAIN v.sendQ :
           v.sendQ[j] = m \/ (j \in DOMAIN u.sendQ /\ v.sendQ[j] = u.sendQ[j])
    BY <1>1, <1>4, AppendProperties
  <2> QED
    BY <2>1
<1>5. Writes(u, v, {"BUSY", "RING", "BYE", "DECLINE", "ACK", "INVITE"})
         => \E j \in DOMAIN u.sendQ : IsOk(u.sendQ[j], c)
  BY <1>4 DEF Writes, IsOk
<1>6. WritesOk(u, v) => c = u.callId \/ \E j \in DOMAIN u.sendQ : IsOk(u.sendQ[j], c)
  <2> DEFINE m == [type |-> "OK", callId |-> u.callId, temp |-> FALSE]
  <2>1. m \in SendMemo /\ (IsOk(m, c) => c = u.callId)
    BY DEF UARecord, SendMemo, Responses, IsOk
  <2>2. WritesOk(u, v) <=> v.sendQ = Append(u.sendQ, m)
    BY DEF WritesOk
  <2> HIDE DEF m
  <2> QED
    BY <1>4, <2>1, <2>2
<1> QED
  BY <1>2, <1>3, <1>5, <1>6

(* A pass of the loop: an OK is written by the agent that accepts the call, *)
(* or by one in a call that was accepted.                                  *)
LEMMA AgentAgrees ==
    ASSUME IndInv, Kept, AgreeInv, NEW a \in Agent, UserAgentStep(a), UNCHANGED net,
           past' = past \cup Deeds'
    PROVE  AgreeInv'
<1>1. PICK v : ua' = [ua EXCEPT ![a] = v] /\ Outcome(a, v)
  BY StepOutcome
<1> DEFINE u == ua[a]
<1>2. u \in UARecord /\ u.callId \in CallId \cup {NoCall}
  BY DEF IndInv, TypeOK, UARecord
<1>3. ua'[a] = v /\ \A b \in Agent \ {a} : ua'[b] = ua[b]
  BY <1>1 DEF IndInv, TypeOK
<1>4. past \subseteq past'
  OBVIOUS
<1>5. ASSUME Answer(u, v), v.state = "ACCEPTED", NEW c, c = u.callId
      PROVE  Accepted(c)'
  <2>1. past' = past \cup {<<a, "accepted", c>>}
    BY <1>1, <1>5, OutcomeDeeds
  <2> QED
    BY <2>1, HostAssumption DEF Accepted, Did
<1> SUFFICES ASSUME NEW c \in CallId \cup {NoCall}, ~ Agreed(c), Agreed(c)'
             PROVE  Accepted(c)'
  BY <1>4, AcceptedStays DEF AgreeInv
<1>6. \A b \in Agent : \A i \in DOMAIN signalQ'[b] :
         \E j \in DOMAIN signalQ[b] : signalQ'[b][i] = signalQ[b][j]
  BY <1>1, SignalsKept DEF Outcome
<1>7. (~ \E n \in net : IsOk(n.pkt, c)) /\ \A b \in Agent : ~ Reports(signalQ[b], c)'
  BY <1>6 DEF Agreed, Reports, IsOk
<1>8. \/ v.state \in {"ACCEPTED", "IN_CALL"} /\ v.callId = c
      \/ \E i \in DOMAIN v.sendQ : IsOk(v.sendQ[i], c)
  BY <1>3, <1>7 DEF Agreed, IsOk
<1>9. ASSUME v.state \in {"ACCEPTED", "IN_CALL"}, v.callId = c
      PROVE  Accepted(c)'
  <2>1. ~ Stay(u, v) /\ ~ Acked(u, v)
    BY <1>9 DEF Agreed, Stay, Acked, SameCall
  <2>2. ~ (Took(a) /\ Packeted(a) /\ IsOk(Head(signalQ[a]).pkt, c))
    <3> SUFFICES ASSUME Took(a), Packeted(a), IsOk(Head(signalQ[a]).pkt, c) PROVE FALSE
      OBVIOUS
    <3>1. signalQ[a] \in Seq(Signal) /\ signalQ[a] # << >>
      BY DEF IndInv, TypeOK, Took
    <3> QED
      BY <3>1, TailHolds DEF Agreed, Reports, Packeted
  <2>3. Answer(u, v) /\ v.state = "ACCEPTED"
    BY <1>1, <1>9, <2>1, <2>2
       DEF Outcome, Connect, SameCall, IsOk, RingAgain, HangUp, Over, StartCall, StartRing, Answer
  <2> QED
    BY <1>5, <1>9, <2>3 DEF Answer, SameCall
<1>10. ASSUME NEW i \in DOMAIN v.sendQ, IsOk(v.sendQ[i], c)
      PROVE  Accepted(c)'
  <2>1. \/ v.sendQ \in {u.sendQ, << >>}
        \/ Writes(u, v, {"BUSY", "RING", "BYE", "DECLINE", "ACK", "INVITE"})
        \/ WritesOk(u, v) /\ (u.state = "IN_CALL" \/ (Answer(u, v) /\ v.state = "ACCEPTED"))
    <3>1. ASSUME NEW d \in CallId, StartCall(u, v, d)
          PROVE  Writes(u, v, {"INVITE"})
      <4> DEFINE m == [type |-> "INVITE", callId |-> d, temp |-> FALSE]
      <4>1. m \in SendMemo /\ m.type \in {"INVITE"}
        BY DEF SendMemo
      <4>2. v.sendQ = Append(u.sendQ, m)
        BY <3>1 DEF StartCall
      <4> HIDE DEF m
      <4> QED
        BY <4>1, <4>2 DEF Writes
    <3>2. \/ v.sendQ \in {u.sendQ, << >>}
          \/ Writes(u, v, {"BUSY", "RING", "BYE"}) \/ Writes(u, v, {"DECLINE"})
          \/ Writes(u, v, {"ACK"}) \/ Writes(u, v, {"RING"}) \/ Writes(u, v, {"BYE"})
          \/ Writes(u, v, {"INVITE"})
          \/ WritesOk(u, v) /\ (u.state = "IN_CALL" \/ (Answer(u, v) /\ v.state = "ACCEPTED"))
      <4> HIDE DEF u
      <4>1. \A d : StartRing(u, v, d) => Writes(u, v, {"RING"})
        BY DEF StartRing
      <4>2. /\ Stay(u, v) => v.sendQ = u.sendQ \/ Writes(u, v, {"BUSY", "RING", "BYE"})
            /\ Acked(u, v) => v.sendQ = u.sendQ
            /\ Connect(u, v) => Writes(u, v, {"ACK"})
            /\ RingAgain(u, v) => Writes(u, v, {"RING"})
            /\ HangUp(u, v) => Writes(u, v, {"BYE"})
            /\ Over(u, v) => v.sendQ \in {u.sendQ, << >>}
                              \/ (u.state = "IN_CALL" /\ WritesOk(u, v))
            /\ Answer(u, v) => Writes(u, v, {"DECLINE"}) \/ (v.state = "ACCEPTED" /\ WritesOk(u, v))
        BY DEF Stay, Answer, Acked, Connect, RingAgain, HangUp, Over
      <4>3. \/ Stay(u, v) \/ Acked(u, v) \/ Connect(u, v) \/ RingAgain(u, v) \/ HangUp(u, v)
            \/ Over(u, v) \/ Answer(u, v)
            \/ \E d : StartRing(u, v, d) \/ \E e \in CallId : StartCall(u, v, e)
        BY <1>1 DEF Outcome, u
      <4> QED
        BY <3>1, <4>1, <4>2, <4>3
    <3> QED
      BY <3>2 DEF Writes
  <2>2. ~ \E j \in DOMAIN u.sendQ : IsOk(u.sendQ[j], c)
    BY DEF Agreed
  <2>3. WritesOk(u, v) /\ (u.state = "IN_CALL" \/ (Answer(u, v) /\ v.state = "ACCEPTED"))
        /\ c = u.callId
    <3> HIDE DEF u
    <3> QED
      BY <1>2, <1>10, <2>1, <2>2, WritesReport
  <2>4. u.state # "IN_CALL"
    BY <2>3 DEF Agreed
  <2> QED
    BY <1>5, <2>3, <2>4
<1> QED
  BY <1>8, <1>9, <1>10

(* The console and the UDP threads make no OK, and a stranger's is recorded.*)
LEMMA OtherAgrees ==
    ASSUME IndInv, SaneInv, AgreeInv, NEW a \in Agent,
           User(a) \/ UdpReader(a) \/ UdpWriter(a), past' = past \cup Deeds'
    PROVE  AgreeInv'
<1>1. past \subseteq past'
  OBVIOUS
<1> SUFFICES ASSUME NEW c \in CallId \cup {NoCall}, ~ Agreed(c), Agreed(c)'
             PROVE  FALSE
  BY <1>1, AcceptedStays DEF AgreeInv
<1>2. CASE User(a)
  <2>1. PICK m \in Signal : /\ signalQ' = [signalQ EXCEPT ![a] = Append(@, m)]
                            /\ m.code # "SIP_RCVD"
    BY <1>2, Typed
  <2>2. ua' = ua /\ net' = net
    BY <1>2, Typed
  <2>3. \A b \in Agent : \A i \in DOMAIN signalQ'[b] : signalQ'[b][i].code = "SIP_RCVD" =>
           i \in DOMAIN signalQ[b] /\ signalQ'[b][i] = signalQ[b][i]
    BY <2>1, Queued
  <2> QED
    BY <2>2, <2>3 DEF Agreed, Reports, IsOk
<1>3. CASE UdpReader(a)
  <2>1. PICK n \in net :
           /\ n.to = a
           /\ signalQ' = [signalQ EXCEPT ![a] = Append(@, [code |-> "SIP_RCVD", pkt |-> n.pkt])]
           /\ Take(n)
    BY <1>3 DEF UdpReader
  <2>2. ua' = ua /\ net' \subseteq net
    BY <1>3, <2>1 DEF UdpReader, Take
  <2> DEFINE m == [code |-> "SIP_RCVD", pkt |-> n.pkt]
  <2>3. m \in Signal
    BY DEF IndInv, TypeOK, Signal
  <2>4. m.pkt = n.pkt /\ signalQ' = [signalQ EXCEPT ![a] = Append(@, m)]
    BY <2>1
  <2> HIDE DEF m
  <2>5. \A b \in Agent : \A i \in DOMAIN signalQ'[b] :
           \/ i \in DOMAIN signalQ[b] /\ signalQ'[b][i] = signalQ[b][i]
           \/ b = a /\ signalQ'[b][i] = m
    BY <2>3, <2>4, Queued
  <2> QED
    BY <2>1, <2>2, <2>4, <2>5 DEF Agreed, Reports, IsOk
<1>4. CASE UdpWriter(a)
  <2>1. /\ signalQ' = signalQ
        /\ ua' = [ua EXCEPT ![a].sendQ = Tail(ua[a].sendQ)]
    BY <1>4, Written
  <2>2. PICK to, pkt : Departs(a, to, pkt)
    BY <1>4, Written
  <2>3. ua \in [Agent -> UARecord] /\ ua[a].sendQ \in Seq(SendMemo) /\ ua[a].sendQ # << >>
    BY <1>4 DEF IndInv, TypeOK, UARecord, UdpWriter
  <2> DEFINE t == Tail(ua[a].sendQ)
  <2>4. /\ ua'[a].sendQ = t
        /\ \A b \in Agent : /\ ua'[b].state = ua[b].state /\ ua'[b].callId = ua[b].callId
                            /\ b # a => ua'[b].sendQ = ua[b].sendQ
    BY <2>1, <2>3 DEF UARecord
  <2>5. \A i \in DOMAIN t : \E j \in DOMAIN ua[a].sendQ : t[i] = ua[a].sendQ[j]
    BY <2>3, SendTail
  <2> HIDE DEF t
  <2>6. ~ IsOk(pkt, c)
    BY <2>2 DEF Departs, Agreed, IsOk
  <2>7. ~ \E n \in net' : IsOk(n.pkt, c)
    BY <2>2, <2>6 DEF Departs, Agreed
  <2>8. ~ \E b \in Agent : \E i \in DOMAIN ua'[b].sendQ : IsOk(ua'[b].sendQ[i], c)
    BY <2>4, <2>5 DEF Agreed
  <2> QED
    BY <2>1, <2>4, <2>7, <2>8 DEF Agreed, Reports, IsOk
<1> QED
  BY <1>2, <1>3, <1>4

(* The OK of another phone goes on record when it is sent.                 *)
LEMMA StrangerAgrees ==
    ASSUME IndInv, Kept, AgreeInv, NEW h \in Host \ Agent, StrangerSends(h),
           past' = past \cup Deeds'
    PROVE  AgreeInv'
<1>1. past \subseteq past'
  OBVIOUS
<1>2. PICK d \in CallId :
         \A n \in net' : n \in net \/ /\ n.pkt.callId = d
                                      /\ n.pkt.type = "OK" => Did(h, "accepted", d)'
  BY StrangerDeeds
<1>3. ua' = ua /\ signalQ' = signalQ
  BY DEF StrangerSends
<1> SUFFICES ASSUME NEW c \in CallId \cup {NoCall}, ~ Agreed(c), Agreed(c)'
             PROVE  Accepted(c)'
  BY <1>1, AcceptedStays DEF AgreeInv
<1>4. PICK n \in net' : IsOk(n.pkt, c) /\ n \notin net
  BY <1>3 DEF Agreed, Reports, IsOk
<1> QED
  BY <1>2, <1>4 DEF IsOk, Accepted

(* Every step keeps AgreeInv.                                              *)
LEMMA NextAgrees ==
    ASSUME IndInv, SaneInv, Kept, AgreeInv, [HistoryNext]_<<vars, past>>
    PROVE  AgreeInv'
<1>1. CASE UNCHANGED <<vars, past>>
  BY <1>1 DEF vars, AgreeInv, Agreed, Accepted, Reports, IsOk, Did
<1>2. ASSUME Next, past' = past \cup Deeds'
      PROVE  AgreeInv'
  BY <1>2, AgentAgrees, OtherAgrees, StrangerAgrees DEF Next, Agents
<1> QED
  BY <1>1, <1>2 DEF HistoryNext

--------------------------------------------------------------------------------
(* The agents implement PhoneCalls.                                        *)

(* The invariant of the agents and of the record of their past.            *)
PastInv ==
    /\ IndInv /\ SaneInv /\ CallInv
    /\ Kept /\ TraceInv /\ SoleInv /\ AgreeInv
    /\ TwoAgents => EarlyInv

LEMMA InitPast == HistoryInit => PastInv
<1> SUFFICES ASSUME Init, past = {} PROVE PastInv
  BY DEF HistoryInit
<1>1. IndInv /\ SaneInv /\ CallInv /\ EarlyInv
  BY InitInv, InitSane, InitParty, InitEarly
<1>2. /\ net = {} /\ \A a \in Agent : ua[a].state = "DISCONNECTED"
      /\ \A a \in Agent : DOMAIN ua[a].sendQ = {} /\ DOMAIN signalQ[a] = {}
  <2>1. DOMAIN << >> = {}
    OBVIOUS
  <2>2. /\ net = {} /\ \A a \in Agent : ua[a] = InitUA /\ signalQ[a] = << >>
    BY DEF Init
  <2> QED
    BY <2>1, <2>2 DEF InitUA
<1>3. Kept
  BY <1>2, DeedsAre DEF Kept, Does
<1>4. \A c : \A a \in Agent : ~ Arriving(a, c) /\ ~ Did(a, "placed", c) /\ ~ Did(a, "heard", c)
                              /\ ~ Asks(ua[a].sendQ, c)
  BY <1>2 DEF Arriving, Waits, Did, Asks
<1>5. TraceInv
  BY <1>4 DEF TraceInv, Traced
<1>6. SoleInv
  BY <1>2, <1>4 DEF SoleInv, Sole, OnTheWay, WaitsOnce
<1>7. AgreeInv
  BY <1>2 DEF AgreeInv, Agreed, Reports
<1> QED
  BY <1>1, <1>3, <1>5, <1>6, <1>7 DEF PastInv

LEMMA NextPast == PastInv /\ [HistoryNext]_<<vars, past>> => PastInv'
<1> SUFFICES ASSUME PastInv, [HistoryNext]_<<vars, past>> PROVE PastInv'
  OBVIOUS
<1>1. [Next]_vars
  BY DEF HistoryNext
<1>2. IndInv' /\ SaneInv' /\ CallInv' /\ (TwoAgents => EarlyInv)'
  BY <1>1, NextInv, NextSane, NextParty, NextEarly DEF PastInv, TwoAgents
<1>3. Kept' /\ TraceInv' /\ SoleInv' /\ AgreeInv'
  BY NextKept, NextTraced, NextSole, NextAgrees DEF PastInv
<1> QED
  BY <1>2, <1>3 DEF PastInv

Lines == [a \in Agent |-> LineOf(ua[a])]

(* Only the line of the agent that made a pass changes.                    *)
LEMMA LineStep ==
    ASSUME IndInv, NEW a \in Agent, NEW v, ua' = [ua EXCEPT ![a] = v]
    PROVE  /\ Lines[a] = LineOf(ua[a])
           /\ Lines' = [Lines EXCEPT ![a] = LineOf(v)]
<1>1. ua'[a] = v /\ \A b \in Agent \ {a} : ua'[b] = ua[b]
  BY DEF IndInv, TypeOK
<1>2. Lines' = [b \in Agent |-> LineOf(ua'[b])]
  BY DEF Lines, LineOf, PhaseOf
<1>3. \A b \in Agent : Lines[b] = LineOf(ua[b]) /\ Lines'[b] = LineOf(ua'[b])
  BY <1>2 DEF Lines
<1> HIDE DEF Lines
<1>4. DOMAIN Lines = Agent /\ Lines = [b \in Agent |-> Lines[b]]
  BY DEF Lines
<1> QED
  BY <1>1, <1>2, <1>3, <1>4

(* What the user sees in each state.                                       *)
LEMMA LineIs ==
    ASSUME NEW u
    PROVE  /\ u.state = "DISCONNECTED" =>
                 LineOf(u) = [phase |-> "idle", caller |-> FALSE, call |-> NoCall]
           /\ \A s : u.state = s /\ s \in Active =>
                 LineOf(u) = [phase |-> PhaseOf(s), caller |-> u.callIdHost = "local",
                              call |-> u.callId]
           /\ /\ PhaseOf("SENT_INV") = "inviting" /\ PhaseOf("RCVD_INV") = "ringing"
              /\ PhaseOf("ACCEPTED") = "accepted" /\ PhaseOf("REJECTED") = "declined"
              /\ PhaseOf("IN_CALL") = "talking" /\ PhaseOf("SENT_BYE") = "leaving"
  BY DEF LineOf, PhaseOf, Active

(* A pass in the middle of a call changes the phase only.                  *)
LEMMA PhaseStep ==
    ASSUME NEW u, NEW v, SameCall(u, v), u.state \in Active, v.state \in Active
    PROVE  LineOf(v) = [LineOf(u) EXCEPT !.phase = PhaseOf(v.state)]
<1>1. /\ LineOf(u) = [phase |-> PhaseOf(u.state), caller |-> u.callIdHost = "local",
                      call |-> u.callId]
      /\ LineOf(v) = [phase |-> PhaseOf(v.state), caller |-> u.callIdHost = "local",
                      call |-> u.callId]
  BY LineIs DEF SameCall
<1> QED
  BY <1>1

(* Every pass of the user agent thread is a step of the telephones.        *)
LEMMA AgentPhones ==
    ASSUME PastInv, PastInv', NEW a \in Agent, UserAgentStep(a), UNCHANGED net,
           past' = past \cup Deeds'
    PROVE  [Phones!Next]_(Phones!phoneVars)
<1>1. PICK v : ua' = [ua EXCEPT ![a] = v] /\ Outcome(a, v)
  BY StepOutcome DEF PastInv
<1> DEFINE u == ua[a]
<1>2. u \in UARecord /\ u.state \in UAStates
  BY DEF PastInv, IndInv, TypeOK, UARecord
<1>3. Lines[a] = LineOf(u) /\ Lines' = [Lines EXCEPT ![a] = LineOf(v)]
  BY <1>1, LineStep DEF PastInv
<1>4. Lines \in [Agent -> {LineOf(r) : r \in UARecord}]
  BY DEF PastInv, IndInv, TypeOK, Lines
<1>5. IndInv /\ Kept
  BY DEF PastInv
<1>6. CASE /\ Stay(u, v) /\ UNCHANGED drawn
  <2>1. LineOf(v) = LineOf(u)
    BY <1>6 DEF Stay, SameCall, LineOf
  <2>2. Lines' = Lines
    BY <1>3, <1>4, <2>1
  <2>3. past' = past
    BY <1>1, <1>5, <1>6, OutcomeDeeds
  <2> QED
    BY <1>6, <2>2, <2>3 DEF Phones!phoneVars, Lines
<1>7. CASE Over(u, v) /\ UNCHANGED drawn
  <2>1. LineOf(v) = Phones!Idle
    BY <1>7, LineIs DEF Over, Phones!Idle
  <2>2. past' = past
    BY <1>1, <1>5, <1>7, OutcomeDeeds
  <2>3. CASE Lines[a] = Phones!Idle
    <3>1. Lines' = Lines
      BY <1>3, <1>4, <2>1, <2>3
    <3> QED
      BY <1>7, <2>2, <3>1 DEF Phones!phoneVars, Lines
  <2>4. CASE Lines[a] # Phones!Idle
    <3>1. Phones!End(a)
      BY <1>3, <1>7, <2>1, <2>2, <2>4 DEF Phones!End, Lines
    <3> QED
      BY <3>1 DEF Phones!Next
  <2> QED
    BY <2>3, <2>4
<1>8. CASE HangUp(u, v) /\ UNCHANGED drawn
  <2>1. /\ LineOf(v) = [LineOf(u) EXCEPT !.phase = "leaving"]
        /\ LineOf(u).phase = "talking"
    BY <1>8, PhaseStep, LineIs DEF HangUp, Active, UAStates
  <2>2. past' = past
    BY <1>1, <1>5, <1>8, OutcomeDeeds
  <2>3. Phones!HangUp(a)
    BY <1>3, <1>8, <2>1, <2>2 DEF Phones!HangUp, Phones!Become, Lines
  <2> QED
    BY <2>3 DEF Phones!Next
<1>9. CASE RingAgain(u, v) /\ UNCHANGED drawn
  <2>1. /\ LineOf(v) = [LineOf(u) EXCEPT !.phase = "ringing"]
        /\ LineOf(u).phase = "accepted"
    BY <1>9, PhaseStep, LineIs DEF RingAgain, Active, UAStates
  <2>2. past' = past
    BY <1>1, <1>5, <1>9, OutcomeDeeds
  <2>3. Phones!RingAgain(a)
    BY <1>3, <1>9, <2>1, <2>2 DEF Phones!RingAgain, Phones!Become, Lines
  <2> QED
    BY <2>3 DEF Phones!Next
<1>10. CASE Answer(u, v) /\ v.state = "ACCEPTED" /\ UNCHANGED drawn
  <2>1. /\ LineOf(v) = [LineOf(u) EXCEPT !.phase = "accepted"]
        /\ LineOf(u).phase = "ringing" /\ LineOf(u).call = u.callId
    BY <1>10, PhaseStep, LineIs DEF Answer, Active, UAStates
  <2>2. past' = past \cup {<<a, "accepted", u.callId>>}
    BY <1>1, <1>5, <1>10, OutcomeDeeds
  <2>3. Phones!Accept(a)
    BY <1>3, <1>10, <2>1, <2>2 DEF Phones!Accept, Phones!Become, Phones!Remember, Lines
  <2> QED
    BY <2>3 DEF Phones!Next
<1>11. CASE Answer(u, v) /\ v.state = "REJECTED" /\ UNCHANGED drawn
  <2>1. /\ LineOf(v) = [LineOf(u) EXCEPT !.phase = "declined"]
        /\ LineOf(u).phase = "ringing"
    BY <1>11, PhaseStep, LineIs DEF Answer, Active, UAStates
  <2>2. past' = past
    BY <1>1, <1>5, <1>11, OutcomeDeeds
  <2>3. Phones!Decline(a)
    BY <1>3, <1>11, <2>1, <2>2 DEF Phones!Decline, Phones!Become, Lines
  <2> QED
    BY <2>3 DEF Phones!Next
<1>12. ASSUME Connect(u, v), UNCHANGED drawn, Took(a), Packeted(a),
              IsOk(Head(signalQ[a]).pkt, u.callId)
       PROVE  [Phones!Next]_(Phones!phoneVars)
  <2>1. /\ LineOf(v) = [LineOf(u) EXCEPT !.phase = "talking"]
        /\ LineOf(u).phase = "inviting" /\ LineOf(u).call = u.callId
    BY <1>12, PhaseStep, LineIs DEF Connect, Active, UAStates
  <2>2. past' = past
    BY <1>1, <1>5, <1>12, OutcomeDeeds
  <2>3. Agreed(u.callId)
    <3>1. signalQ[a] \in Seq(Signal) /\ signalQ[a] # << >>
      BY <1>5, <1>12 DEF IndInv, TypeOK, Took
    <3> QED
      BY <1>12, <3>1, TailHolds DEF Agreed, Reports, Packeted
  <2>4. Accepted(u.callId)
    BY <1>2, <2>3 DEF PastInv, AgreeInv, UARecord
  <2>5. Phones!ConnectCaller(a)
    BY <1>3, <1>12, <2>1, <2>2, <2>4
       DEF Phones!ConnectCaller, Phones!Become, Phones!Did, Lines, Accepted, Did
  <2> QED
    BY <2>5 DEF Phones!Next
<1>13. CASE Acked(u, v) /\ UNCHANGED drawn
  <2>1. /\ LineOf(v) = [LineOf(u) EXCEPT !.phase = "talking"]
        /\ LineOf(u).phase = "accepted" /\ LineOf(u).call = u.callId
    BY <1>13, PhaseStep, LineIs DEF Acked, Active, UAStates
  <2>2. past' = past
    BY <1>1, <1>5, <1>13, OutcomeDeeds
  <2>3. TwoAgents => \A b \in Agent : Lines[b].phase = "inviting" => Lines[b].call # u.callId
    <3> SUFFICES ASSUME TwoAgents, NEW b \in Agent, Lines[b].phase = "inviting"
                 PROVE  Lines[b].call # u.callId
      OBVIOUS
    <3>1. EarlyInv
      BY DEF PastInv
    <3>2. ua[b] \in UARecord /\ Lines[b] = LineOf(ua[b])
      BY <1>5 DEF IndInv, TypeOK, Lines
    <3>3. ua[b].state = "SENT_INV" /\ Lines[b].call = ua[b].callId
      BY <3>2 DEF UARecord, UAStates, LineOf, PhaseOf
    <3>4. ua'[b] = ua[b] /\ ua'[a] = v /\ b # a
      BY <1>1, <1>5, <1>13, <3>3 DEF IndInv, TypeOK, Acked
    <3>5. EarlyInv'
      BY DEF PastInv, TwoAgents
    <3>6. ~ (ua'[a].state \in {"IN_CALL", "SENT_INV"} /\ ua'[a].callId = ua'[b].callId)
      BY <3>3, <3>4, <3>5 DEF EarlyInv, NotYet
    <3> QED
      BY <1>13, <3>3, <3>4, <3>6 DEF Acked, SameCall
  <2>4. Phones!ConnectCallee(a)
    BY <1>3, <1>13, <2>1, <2>2, <2>3 DEF Phones!ConnectCallee, Phones!Become, Lines
  <2> QED
    BY <2>4 DEF Phones!Next
<1>14. ASSUME NEW c \in CallId \ drawn, StartCall(u, v, c), drawn' = drawn \cup {c}
       PROVE  [Phones!Next]_(Phones!phoneVars)
  <2>1. /\ LineOf(u) = Phones!Idle
        /\ LineOf(v) = [phase |-> "inviting", caller |-> TRUE, call |-> c]
    BY <1>14, LineIs DEF StartCall, Phones!Idle, LineOf, PhaseOf
  <2>2. past' = past \cup {<<a, "placed", c>>}
    BY <1>1, <1>5, <1>14, OutcomeDeeds
  <2>3. Phones!Place(a, c)
    BY <1>3, <1>14, <2>1, <2>2 DEF Phones!Place, Phones!Remember, Lines
  <2> QED
    BY <2>3 DEF Phones!Next
<1>15. ASSUME Took(a), UNCHANGED drawn, Packeted(a), Head(signalQ[a]).pkt.type = "INVITE",
              NEW c, c = Head(signalQ[a]).pkt.callId, StartRing(u, v, c)
       PROVE  [Phones!Next]_(Phones!phoneVars)
  <2>1. /\ LineOf(u) = Phones!Idle
        /\ LineOf(v) = [phase |-> "ringing", caller |-> FALSE, call |-> c]
    BY <1>15, LineIs DEF StartRing, Phones!Idle, LineOf, PhaseOf
  <2>2. past' = past \cup {<<a, "heard", c>>}
    BY <1>1, <1>5, <1>15, OutcomeDeeds
  <2>3. signalQ[a] \in Seq(Signal) /\ signalQ[a] # << >>
    BY <1>5, <1>15 DEF IndInv, TypeOK, Took
  <2>4. Head(signalQ[a]).pkt \in Packet
    BY <1>5, <1>15, <2>3, HeadMemo DEF IndInv, Packeted
  <2>5. Arriving(a, c) /\ Called(a, c)
    BY <1>15, <2>3, TailHolds DEF Arriving, Waits, Packeted, IsInvite, Called
  <2>6. c \in drawn /\ c \in CallId
    <3>1. c \in CallId \cup {NoCall} /\ drawn \subseteq CallId
      BY <1>5, <1>15, <2>4 DEF Packet, IndInv, TypeOK
    <3>2. OneParty(c)
      BY <3>1 DEF PastInv, CallInv
    <3> QED
      BY <2>5, <3>1, <3>2 DEF OneParty
  <2>7. ~ Did(a, "placed", c) /\ \A b \in Agent : Did(b, "heard", c) => b = a
    BY <2>5, <2>6 DEF PastInv, TraceInv, Traced
  <2>8. Duplicating \/ ~ Did(a, "heard", c)
    BY <2>5, <2>6 DEF PastInv, SoleInv, Sole
  <2>9. Phones!Ring(a, c)
    BY <1>3, <1>15, <2>1, <2>2, <2>6, <2>7, <2>8
       DEF Phones!Ring, Phones!Remember, Phones!Did, Lines, Did
  <2> QED
    BY <2>6, <2>9 DEF Phones!Next
<1> QED
  <2>1. Answer(u, v) => v.state \in {"ACCEPTED", "REJECTED"}
    BY DEF Answer
  <2> QED
    BY <1>1, <1>6, <1>7, <1>8, <1>9, <1>10, <1>11, <1>12, <1>13, <1>14, <1>15, <2>1
       DEF Outcome, IsOk

(* The threads around the user agent change nothing its user sees, and a   *)
(* stranger is a telephone of another make.                                *)
LEMMA OtherPhones ==
    ASSUME PastInv, NEW a \in Agent, User(a) \/ UdpReader(a) \/ UdpWriter(a),
           past' = past \cup Deeds'
    PROVE  UNCHANGED Phones!phoneVars
<1>1. IndInv /\ SaneInv /\ Kept
  BY DEF PastInv
<1>2. /\ drawn' = drawn
      /\ \A b \in Agent : /\ ua'[b].state = ua[b].state /\ ua'[b].callId = ua[b].callId
                          /\ ua'[b].callIdHost = ua[b].callIdHost
  <2>1. CASE User(a) \/ UdpReader(a)
    BY <1>1, <2>1, Typed DEF UdpReader
  <2>2. CASE UdpWriter(a)
    <3>1. drawn' = drawn /\ ua' = [ua EXCEPT ![a].sendQ = Tail(ua[a].sendQ)]
      BY <1>1, <2>2, Written
    <3> QED
      BY <1>1, <3>1 DEF IndInv, TypeOK, UARecord
  <2> QED
    BY <2>1, <2>2
<1>3. \A b \in Agent : LineOf(ua'[b]) = LineOf(ua[b])
  BY <1>2 DEF LineOf
<1>4. past' = past
  BY <1>1, OtherDeeds
<1>5. [b \in Agent |-> LineOf(ua'[b])] = [b \in Agent |-> LineOf(ua[b])]
  BY <1>3
<1>6. Lines' = Lines
  BY <1>5 DEF Lines, LineOf, PhaseOf
<1> QED
  BY <1>2, <1>4, <1>6 DEF Phones!phoneVars, Lines

(* A packet of another phone is a step of PhoneCalls, Elsewhere.           *)
LEMMA StrangerPhones ==
    ASSUME PastInv, NEW h \in Host \ Agent, StrangerSends(h), past' = past \cup Deeds'
    PROVE  Phones!Next
<1>1. PICK c \in CallId : /\ drawn' = drawn \cup {c}
                          /\ past' \in {past, past \cup {<<h, "accepted", c>>}}
  BY StrangerDeeds DEF PastInv
<1>2. Lines' = Lines
  BY DEF StrangerSends, Lines, LineOf, PhaseOf
<1>3. Phones!Elsewhere(h, c)
  BY <1>1, <1>2 DEF Phones!Elsewhere, Phones!Remember, Lines
<1> QED
  BY <1>3 DEF Phones!Next

(* However packets are lost, repeated or reordered, and whatever strangers *)
(* send, the agents are the telephones of PhoneCalls: a call is placed     *)
(* once, rings at one agent and not at its own caller, and once unless the *)
(* network repeats packets; nobody is connected to a call that was not     *)
(* accepted, and of two agents the callee is connected only when its caller *)
(* no longer waits (UserAgent.cpp, run).                                   *)
THEOREM PhonesImplemented == HistorySpec => ImplementsPhoneCalls
<1>1. HistoryInit => Phones!Init
  <2> SUFFICES ASSUME HistoryInit PROVE Phones!Init
    OBVIOUS
  <2>1. \A a \in Agent : LineOf(ua[a]) = Phones!Idle
    BY LineIs DEF HistoryInit, Init, InitUA, Phones!Idle
  <2> QED
    BY <2>1 DEF HistoryInit, Init, Phones!Init
<1>2. PastInv /\ PastInv' /\ [HistoryNext]_<<vars, past>> => [Phones!Next]_(Phones!phoneVars)
  <2> SUFFICES ASSUME PastInv, PastInv', [HistoryNext]_<<vars, past>>
               PROVE  [Phones!Next]_(Phones!phoneVars)
    OBVIOUS
  <2>1. CASE UNCHANGED <<vars, past>>
    BY <2>1 DEF vars, Phones!phoneVars, LineOf, PhaseOf
  <2>2. CASE HistoryNext
    BY <2>2, AgentPhones, OtherPhones, StrangerPhones DEF HistoryNext, Next, Agents
  <2> QED
    BY <2>1, <2>2
<1> QED
  BY InitPast, NextPast, <1>1, <1>2, PTL
     DEF HistorySpec, ImplementsPhoneCalls, Phones!Spec
================================================================================

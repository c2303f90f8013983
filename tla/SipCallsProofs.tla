---------------------------- MODULE SipCallsProofs ----------------------------
(***************************************************************************)
(* Proofs about SipCalls for any set of agents, hosts and call ids, any    *)
(* network and any repetition limit.                                       *)
(*                                                                         *)
(* Good(u) says that u is a well-typed agent record that satisfies         *)
(* AgentInv.  First come lemmas about the functions of the user agent,     *)
(* then one lemma per branch of UserAgent::run, then the invariants.       *)
(***************************************************************************)
EXTENDS SipCalls, SequenceTheorems, TLAPS

Good(u) == u \in UARecord /\ AgentInv(u)

--------------------------------------------------------------------------------
(* The functions of the user agent.                                         *)

(* Assigning a state and a default action keeps the record well typed.      *)
LEMMA MoveType ==
    ASSUME NEW u \in UARecord, NEW s \in UAStates, NEW d \in DefaultActions
    PROVE  [u EXCEPT !.state = s, !.defaultAction = d] \in UARecord
  BY DEF UARecord

(* So does assigning the addresses, names and flags that sendRinging sets.  *)
LEMMA RingType ==
    ASSUME NEW u \in UARecord, NEW c \in CallId \cup {NoCall},
           NEW r \in Host \cup {NoHost}, NEW s \in Host \cup {NoHost},
           NEW h \in Host \cup {NoHost, BadHost}
    PROVE  [u EXCEPT !.sendCallId = c, !.sipAddr = r, !.rtpAddr = s, !.remoteHost = h,
                     !.state = "RCVD_INV", !.isRinging = TRUE,
                     !.defaultAction = "SEND_RING"] \in UARecord
<1>1. "RCVD_INV" \in UAStates /\ "SEND_RING" \in DefaultActions
  BY DEF UAStates, DefaultActions
<1> QED
  BY <1>1 DEF UARecord

(* Writing a packet into sendQ keeps the agent's record well typed.         *)
LEMMA EnqueueType ==
    ASSUME NEW u \in UARecord, NEW t \in {"INVITE", "ACK", "BYE"} \cup Responses,
           NEW c \in CallId \cup {NoCall}, NEW b \in BOOLEAN
    PROVE  Enqueue(u, t, c, b) \in UARecord
<1> DEFINE m == [type |-> t, callId |-> c, temp |-> b]
<1>1. m \in SendMemo
  BY DEF SendMemo
<1>2. u.sendQ \in Seq(SendMemo)
  BY DEF UARecord
<1>3. Append(u.sendQ, m) \in Seq(SendMemo)
  BY <1>1, <1>2, AppendProperties
<1>4. \A q \in Seq(SendMemo) : [u EXCEPT !.sendQ = q] \in UARecord
  BY DEF UARecord
<1> QED
  BY <1>3, <1>4 DEF Enqueue

(* Writing a packet changes nothing AgentInv speaks of.                     *)
LEMMA EnqueueInv ==
    ASSUME NEW u \in UARecord, NEW t, NEW c, NEW b, AgentInv(u)
    PROVE  AgentInv(Enqueue(u, t, c, b))
  BY DEF Enqueue, UARecord, AgentInv

(* A host name that does not resolve leaves the address as it was.          *)
LEMMA ResolveType ==
    ASSUME NEW addr \in Host \cup {NoHost}, NEW name
    PROVE  Resolve(addr, name) \in Host \cup {NoHost}
  BY DEF Resolve

(* cleanup() frees callIdHost once when it points to a live string.         *)
LEMMA CleanupGood ==
    ASSUME NEW u, Good(u), u.callIdHost \in {"local", "heap"}
    PROVE  Good(Cleanup(u))
<1>1. FreeCallIdHost(u.callIdHost) \in {"local", "freed"}
  BY DEF FreeCallIdHost
<1>2. << >> \in Seq(SendMemo)
  OBVIOUS
<1>3. Cleanup(u) \in UARecord
  BY <1>1, <1>2 DEF Good, Cleanup, UARecord, UAStates, DefaultActions, HostPointers
<1>4. AgentInv(Cleanup(u))
  BY <1>1 DEF Good, Cleanup, UARecord, AgentInv, PendingStates
<1> QED
  BY <1>3, <1>4 DEF Good

(* sendInvite starts a call from any state, given a host to call.           *)
LEMMA SendInviteGood ==
    ASSUME NEW u \in UARecord, NEW c \in CallId, u.remoteHost # NoHost
    PROVE  Good([SendInvite(u, c) EXCEPT !.isConnected = FALSE])
<1> DEFINE v == Enqueue(u, "INVITE", c, FALSE)
           r == Resolve(v.sipAddr, u.remoteHost)
<1>1. v \in UARecord /\ v.remoteHost = u.remoteHost
  BY EnqueueType DEF Enqueue, UARecord
<1>2. r \in Host \cup {NoHost}
  BY <1>1, ResolveType DEF UARecord
<1> HIDE DEF v, r
<1> DEFINE w == [[v EXCEPT !.callId = c, !.callIdHost = "local", !.sendCallId = c,
                     !.sipAddr = r, !.state = "SENT_INV", !.defaultAction = "CONN"]
                   EXCEPT !.isConnected = FALSE]
<1>3. w \in UARecord
  BY <1>1, <1>2 DEF UARecord, UAStates, DefaultActions, HostPointers
<1>4. AgentInv(w)
  BY <1>1 DEF UARecord, AgentInv, PendingStates
<1> QED
  BY <1>3, <1>4 DEF Good, SendInvite, v, r

(* sendBye: the agent is no longer connected when it is called.             *)
LEMMA SendByeGood ==
    ASSUME NEW u \in UARecord, u.isConnected = FALSE, u.isRinging = FALSE,
           u.callIdHost \in {"local", "heap"}
    PROVE  Good(SendBye(u))
<1> DEFINE v == Enqueue(u, "BYE", u.sendCallId, FALSE)
<1>1. v \in UARecord
  BY EnqueueType DEF UARecord
<1>2. /\ v.isConnected = FALSE /\ v.isRinging = FALSE
      /\ v.callIdHost \in {"local", "heap"}
  BY DEF Enqueue, UARecord
<1> HIDE DEF v
<1> DEFINE w == [v EXCEPT !.state = "SENT_BYE", !.defaultAction = "BYE"]
<1>3. w \in UARecord
  BY <1>1, MoveType DEF UAStates, DefaultActions
<1>4. AgentInv(w)
  BY <1>1, <1>2 DEF UARecord, AgentInv, PendingStates
<1> QED
  BY <1>3, <1>4 DEF Good, SendBye, v

(* sendBusy and the checkSrc epilogue leave the call alone.                 *)
LEMMA CheckSrcGood ==
    ASSUME NEW u, Good(u), NEW p \in Packet
    PROVE  Good(CheckSrc(u, p))
<1> DEFINE v == Enqueue(u, "BUSY", p.callId, TRUE)
           r == Resolve(v.tempAddr, p.from)
<1>1. v \in UARecord
  BY EnqueueType DEF Good, Packet, Responses
<1>2. AgentInv(v)
  BY EnqueueInv DEF Good
<1>3. r \in Host \cup {NoHost}
  BY <1>1, ResolveType DEF UARecord
<1> HIDE DEF v, r
<1> DEFINE w == [v EXCEPT !.sendCallId = p.callId, !.tempAddr = r]
<1>4. w \in UARecord
  BY <1>1, <1>3 DEF UARecord, Packet
<1>5. AgentInv(w)
  BY <1>1, <1>2 DEF UARecord, AgentInv
<1>6. SendBusy(u, p) = w
  BY DEF SendBusy, v, r
<1> QED
  BY <1>4, <1>5, <1>6 DEF Good, CheckSrc

(* sendRinging rings for a call whose caller's host and contact are known.  *)
LEMMA SendRingingGood ==
    ASSUME NEW u \in UARecord, u.isConnected = FALSE, u.contact # NoHost,
           u.callIdHost \in {"local", "heap"}
    PROVE  Good(SendRinging(u))
<1> DEFINE v == Enqueue(u, "RING", u.callId, FALSE)
           r == Resolve(v.sipAddr, u.remoteHost)
           s == Resolve(v.rtpAddr, u.remoteHost)
<1>1. v \in UARecord
  BY EnqueueType DEF UARecord, Responses
<1>2. /\ v.isConnected = FALSE /\ v.contact # NoHost
      /\ v.callIdHost \in {"local", "heap"}
      /\ v.contact = u.contact /\ v.callId = u.callId
  BY DEF Enqueue, UARecord
<1>3. r \in Host \cup {NoHost} /\ s \in Host \cup {NoHost}
  BY <1>1, ResolveType DEF UARecord
<1>4. /\ u.contact \in Host \cup {NoHost, BadHost}
      /\ u.callId \in CallId \cup {NoCall}
  BY DEF UARecord
<1> HIDE DEF v, r, s
<1> DEFINE w == [v EXCEPT !.sendCallId = u.callId, !.sipAddr = r, !.rtpAddr = s,
                          !.remoteHost = u.contact, !.state = "RCVD_INV",
                          !.isRinging = TRUE, !.defaultAction = "SEND_RING"]
<1>5. w \in UARecord
  BY <1>1, <1>3, <1>4, RingType
<1>6. AgentInv(w)
  BY <1>1, <1>2 DEF UARecord, AgentInv, PendingStates
<1> QED
  BY <1>5, <1>6 DEF Good, SendRinging, v, r, s

(* Parsing a packet records its contact and changes nothing else.           *)
LEMMA ParsedGood ==
    ASSUME NEW u, Good(u), NEW p \in Packet
    PROVE  /\ Good(Parsed(u, p))
           /\ Parsed(u, p).contact # NoHost
           /\ Parsed(u, p).state = u.state
           /\ Parsed(u, p).callIdHost = u.callIdHost
<1>1. p.from \in Host /\ p.from # NoHost
  BY HostAssumption DEF Packet
<1>2. Parsed(u, p) \in UARecord
  BY <1>1 DEF Good, Parsed, UARecord
<1>3. AgentInv(Parsed(u, p))
  BY <1>1 DEF Good, Parsed, UARecord, AgentInv
<1> QED
  BY <1>1, <1>2, <1>3 DEF Good, Parsed, UARecord

--------------------------------------------------------------------------------
(* The branches of run().                                                   *)

(* An agent in a call state holds a live callIdHost, and none is connected  *)
(* or ringing outside the states that say so.                               *)
LEMMA ActiveFacts ==
    ASSUME NEW u, Good(u)
    PROVE  /\ u.state # "DISCONNECTED" => u.callIdHost \in {"local", "heap"}
           /\ u.defaultAction # "NONE" => u.callIdHost \in {"local", "heap"}
           /\ u.state # "IN_CALL" => u.isConnected = FALSE
           /\ u.state \notin {"RCVD_INV", "SENT_INV"} => u.isRinging = FALSE
<1>1. u.isConnected \in BOOLEAN /\ u.isRinging \in BOOLEAN
  BY DEF Good, UARecord
<1> QED
  BY <1>1 DEF Good, AgentInv

(* VIVOCE_SIP_BYE on a connected agent.                                     *)
LEMMA ByeBranch ==
    ASSUME NEW u, Good(u), u.isConnected
    PROVE  Good(SendBye([u EXCEPT !.isConnected = FALSE, !.rptCount = 0]))
<1> DEFINE v == [u EXCEPT !.isConnected = FALSE, !.rptCount = 0]
<1>1. u.state = "IN_CALL"
  BY DEF Good, AgentInv
<1>2. u.callIdHost \in {"local", "heap"} /\ u.isRinging = FALSE
  BY <1>1, ActiveFacts
<1>3. 0 \in 0 .. RptLimit
  BY RptAssumption
<1>4. v \in UARecord
  BY <1>3 DEF Good, UARecord
<1>5. v.isConnected = FALSE /\ v.isRinging = FALSE /\ v.callIdHost \in {"local", "heap"}
  BY <1>2 DEF Good, UARecord
<1> HIDE DEF v
<1>6. Good(SendBye(v))
  BY <1>4, <1>5, SendByeGood
<1> QED
  BY <1>6 DEF v

(* VIVOCE_SIP_ACCEPT on a ringing agent: AgentInv allows ACCEPTED with the  *)
(* default action of RCVD_INV.                                              *)
LEMMA AcceptBranch ==
    ASSUME NEW u, Good(u), u.state = "RCVD_INV"
    PROVE  Good([SendOk(u) EXCEPT !.state = "ACCEPTED", !.isRinging = FALSE])
<1> DEFINE v == Enqueue(u, "OK", u.callId, FALSE)
           w == [[v EXCEPT !.sendCallId = u.callId]
                    EXCEPT !.state = "ACCEPTED", !.isRinging = FALSE]
<1>1. v \in UARecord /\ u.callId \in CallId \cup {NoCall}
  BY EnqueueType DEF Good, UARecord, Responses
<1>2. AgentInv(v) /\ v.state = "RCVD_INV"
  BY EnqueueInv DEF Good, Enqueue, UARecord
<1> HIDE DEF v
<1>3. "ACCEPTED" \in UAStates
  BY DEF UAStates
<1>4. w \in UARecord
  BY <1>1, <1>3 DEF UARecord
<1>5. v.defaultAction \in {"SEND_RING", "INCOMING"}
  BY <1>1, <1>2 DEF AgentInv, PendingStates, UARecord, DefaultActions
<1>6. v.isConnected = FALSE
  BY <1>1, <1>2, ActiveFacts DEF Good
<1>7. AgentInv(w)
  BY <1>1, <1>2, <1>5, <1>6 DEF UARecord, AgentInv, PendingStates
<1> QED
  BY <1>4, <1>7 DEF Good, SendOk, v

(* VIVOCE_SIP_REJECT on a ringing agent.                                    *)
LEMMA RejectBranch ==
    ASSUME NEW u, Good(u), u.state = "RCVD_INV"
    PROVE  Good([SendDecline(u) EXCEPT !.isRinging = FALSE])
<1> DEFINE v == Enqueue(u, "DECLINE", u.sendCallId, FALSE)
           w == [v EXCEPT !.state = "REJECTED", !.defaultAction = "DISCONN"]
<1>1. v \in UARecord
  BY EnqueueType DEF Good, UARecord, Responses
<1>2. v.isConnected = FALSE /\ v.callIdHost \in {"local", "heap"}
  BY ActiveFacts DEF Good, Enqueue, UARecord
<1> HIDE DEF v
<1>3. w \in UARecord
  BY <1>1, MoveType DEF UAStates, DefaultActions
<1>4. [w EXCEPT !.isRinging = FALSE] \in UARecord
  BY <1>3 DEF UARecord
<1>5. AgentInv([w EXCEPT !.isRinging = FALSE])
  BY <1>1, <1>2 DEF UARecord, AgentInv, PendingStates
<1> QED
  BY <1>4, <1>5 DEF Good, SendDecline, v

(* An INVITE on an idle agent: the caller's host and contact become known,  *)
(* and callIdHost points to a fresh copy.                                   *)
LEMMA RingBranch ==
    ASSUME NEW u, Good(u), NEW p \in Packet, u.state = "DISCONNECTED",
           u.contact # NoHost
    PROVE  Good(SendRinging([u EXCEPT !.callId = p.callId, !.callIdHost = "heap",
                                      !.remoteHost = p.from]))
<1> DEFINE v == [u EXCEPT !.callId = p.callId, !.callIdHost = "heap", !.remoteHost = p.from]
<1>1. /\ p.callId \in CallId \cup {NoCall} /\ p.from \in Host \cup {NoHost, BadHost}
      /\ "heap" \in HostPointers
  BY DEF Packet, HostPointers
<1>2. v \in UARecord
  BY <1>1 DEF Good, UARecord
<1>3. u.isConnected = FALSE
  BY ActiveFacts
<1>4. v.isConnected = FALSE /\ v.contact # NoHost /\ v.callIdHost \in {"local", "heap"}
  BY <1>3 DEF Good, UARecord
<1> HIDE DEF v
<1>5. Good(SendRinging(v))
  BY <1>2, <1>4, SendRingingGood
<1> QED
  BY <1>5 DEF v

(* RING, BUSY and DECLINE on a waiting caller, and the first ACK branch of  *)
(* a rejecting callee: only the flags and the default action change.        *)
LEMMA WaitBranch ==
    ASSUME NEW u, Good(u)
    PROVE  /\ u.state = "SENT_INV" =>
                /\ Good([u EXCEPT !.isRinging = TRUE, !.defaultAction = "CONN"])
                /\ Good([u EXCEPT !.isRinging = FALSE, !.defaultAction = "DISCONN"])
           /\ u.state = "REJECTED" =>
                Good([u EXCEPT !.isConnected = FALSE, !.isRinging = FALSE,
                               !.defaultAction = "DISCONN"])
<1>1. "CONN" \in DefaultActions /\ "DISCONN" \in DefaultActions
  BY DEF DefaultActions
<1>2. /\ [u EXCEPT !.isRinging = TRUE, !.defaultAction = "CONN"] \in UARecord
      /\ [u EXCEPT !.isRinging = FALSE, !.defaultAction = "DISCONN"] \in UARecord
      /\ [u EXCEPT !.isConnected = FALSE, !.isRinging = FALSE,
                   !.defaultAction = "DISCONN"] \in UARecord
  BY <1>1 DEF Good, UARecord
<1>3. ASSUME u.state = "SENT_INV"
      PROVE  /\ AgentInv([u EXCEPT !.isRinging = TRUE, !.defaultAction = "CONN"])
             /\ AgentInv([u EXCEPT !.isRinging = FALSE, !.defaultAction = "DISCONN"])
  BY <1>3 DEF Good, UARecord, AgentInv, PendingStates
<1>4. ASSUME u.state = "REJECTED"
      PROVE  AgentInv([u EXCEPT !.isConnected = FALSE, !.isRinging = FALSE,
                                !.defaultAction = "DISCONN"])
  BY <1>4 DEF Good, UARecord, AgentInv, PendingStates
<1> QED
  BY <1>2, <1>3, <1>4 DEF Good

(* OK on a waiting caller: the call is up.                                  *)
LEMMA AckBranch ==
    ASSUME NEW u, Good(u), u.state = "SENT_INV"
    PROVE  Good([SendAck([u EXCEPT !.rtpAddr = Resolve(@, u.remoteHost)])
                    EXCEPT !.isRinging = FALSE])
<1> DEFINE r == Resolve(u.rtpAddr, u.remoteHost)
           t == [u EXCEPT !.rtpAddr = r]
           v == Enqueue(t, "ACK", t.sendCallId, FALSE)
           w == [[v EXCEPT !.state = "IN_CALL", !.isConnected = TRUE,
                           !.defaultAction = "NONE"] EXCEPT !.isRinging = FALSE]
<1>1. r \in Host \cup {NoHost}
  BY ResolveType DEF Good, UARecord
<1>2. u.callIdHost \in {"local", "heap"}
  BY ActiveFacts
<1> HIDE DEF r
<1>3. t \in UARecord /\ t.callIdHost \in {"local", "heap"}
  BY <1>1, <1>2 DEF Good, UARecord
<1> HIDE DEF t
<1>4. v \in UARecord /\ v.callIdHost \in {"local", "heap"}
  <2>1. t.sendCallId \in CallId \cup {NoCall}
    BY <1>3 DEF UARecord
  <2>2. v \in UARecord
    BY <1>3, <2>1, EnqueueType
  <2> QED
    BY <1>3, <2>2 DEF Enqueue, UARecord
<1> HIDE DEF v
<1>5. "IN_CALL" \in UAStates /\ "NONE" \in DefaultActions
  BY DEF UAStates, DefaultActions
<1>6. w \in UARecord
  BY <1>4, <1>5 DEF UARecord
<1>7. AgentInv(w)
  BY <1>4 DEF UARecord, AgentInv, PendingStates
<1> QED
  BY <1>6, <1>7 DEF Good, SendAck, v, t, r

(* ACK on a callee that has accepted: the call is up.                       *)
LEMMA ConnectBranch ==
    ASSUME NEW u, Good(u), u.state = "ACCEPTED"
    PROVE  Good([u EXCEPT !.isConnected = TRUE, !.isRinging = FALSE,
                          !.defaultAction = "NONE", !.state = "IN_CALL"])
<1> DEFINE w == [u EXCEPT !.isConnected = TRUE, !.isRinging = FALSE,
                          !.defaultAction = "NONE", !.state = "IN_CALL"]
<1>1. "IN_CALL" \in UAStates /\ "NONE" \in DefaultActions
  BY DEF UAStates, DefaultActions
<1>2. w \in UARecord
  BY <1>1 DEF Good, UARecord
<1>3. u.callIdHost \in {"local", "heap"}
  BY ActiveFacts
<1>4. AgentInv(w)
  BY <1>3 DEF Good, UARecord, AgentInv, PendingStates
<1> QED
  BY <1>2, <1>4 DEF Good

(* BYE in a call: DISCONNECTED at once, with cleanup() still to come.       *)
LEMMA HangUpBranch ==
    ASSUME NEW u, Good(u), u.state = "IN_CALL"
    PROVE  Good([SendOk(u) EXCEPT !.isConnected = FALSE, !.defaultAction = "DISCONN",
                                  !.state = "DISCONNECTED"])
<1> DEFINE v == Enqueue(u, "OK", u.callId, FALSE)
           w == [[v EXCEPT !.sendCallId = u.callId]
                    EXCEPT !.isConnected = FALSE, !.defaultAction = "DISCONN",
                           !.state = "DISCONNECTED"]
<1>1. v \in UARecord /\ u.callId \in CallId \cup {NoCall}
  BY EnqueueType DEF Good, UARecord, Responses
<1>2. v.callIdHost \in {"local", "heap"} /\ v.isRinging = FALSE
  BY ActiveFacts DEF Good, Enqueue, UARecord
<1> HIDE DEF v
<1>3. "DISCONNECTED" \in UAStates /\ "DISCONN" \in DefaultActions
  BY DEF UAStates, DefaultActions
<1>4. w \in UARecord
  BY <1>1, <1>3 DEF UARecord
<1>5. AgentInv(w)
  BY <1>1, <1>2 DEF UARecord, AgentInv, PendingStates
<1> QED
  BY <1>4, <1>5 DEF Good, SendOk, v

(* doDefaultAction.                                                         *)
LEMMA DefaultActionGood ==
    ASSUME NEW u, Good(u)
    PROVE  Good(DefaultAction(u))
<1> USE DEF DefaultAction, Repeats, Counted
<1>1. CASE u.defaultAction \in {"DISCONN", "CONN", "INCOMING"}
  <2>1. Good(Cleanup(u))
    BY <1>1, ActiveFacts, CleanupGood
  <2> QED
    BY <1>1, <2>1
<1>2. CASE u.defaultAction = "BYE" /\ Repeats(u)
  <2> DEFINE v == [u EXCEPT !.rptCount = @ + 1]
  <2>1. u.state = "SENT_BYE"
    BY <1>2 DEF Good, AgentInv, PendingStates
  <2>2. u.rptCount + 1 \in 0 .. RptLimit
    BY <1>2, RptAssumption DEF Good, UARecord
  <2>3. v \in UARecord
    BY <2>2 DEF Good, UARecord
  <2>4. v.isConnected = FALSE /\ v.isRinging = FALSE /\ v.callIdHost \in {"local", "heap"}
    BY <2>1, ActiveFacts DEF Good, UARecord
  <2> HIDE DEF v
  <2>5. Good(SendBye(v))
    BY <2>3, <2>4, SendByeGood
  <2> QED
    BY <1>2, <2>5 DEF v
<1>3. CASE u.defaultAction = "BYE" /\ ~ Repeats(u)
  <2> DEFINE v == [u EXCEPT !.rptCount = 0, !.state = "DISCONNECTED",
                            !.defaultAction = "DISCONN"]
  <2>1. u.state = "SENT_BYE"
    BY <1>3 DEF Good, AgentInv, PendingStates
  <2>2. 0 \in 0 .. RptLimit /\ "DISCONNECTED" \in UAStates /\ "DISCONN" \in DefaultActions
    BY RptAssumption DEF UAStates, DefaultActions
  <2>3. v \in UARecord
    BY <2>2 DEF Good, UARecord
  <2>4. AgentInv(v)
    BY <2>1 DEF Good, UARecord, AgentInv, PendingStates
  <2> QED
    BY <1>3, <2>3, <2>4 DEF Good
<1>4. CASE u.defaultAction = "SEND_RING" /\ Repeats(u)
  <2> DEFINE v == [u EXCEPT !.rptCount = @ + 1]
  <2>1. u.state \in {"RCVD_INV", "ACCEPTED"}
    BY <1>4 DEF Good, AgentInv, PendingStates
  <2>2. u.rptCount + 1 \in 0 .. RptLimit
    BY <1>4, RptAssumption DEF Good, UARecord
  <2>3. v \in UARecord
    BY <2>2 DEF Good, UARecord
  <2>4. u.contact # NoHost
    BY <2>1 DEF Good, AgentInv
  <2>5. v.isConnected = FALSE /\ v.contact # NoHost /\ v.callIdHost \in {"local", "heap"}
    BY <2>1, <2>4, ActiveFacts DEF Good, UARecord
  <2> HIDE DEF v
  <2>6. Good(SendRinging(v))
    BY <2>3, <2>5, SendRingingGood
  <2> QED
    BY <1>4, <2>6 DEF v
<1>5. CASE u.defaultAction = "SEND_RING" /\ ~ Repeats(u)
  <2> DEFINE v == [u EXCEPT !.rptCount = 0, !.defaultAction = "INCOMING"]
  <2>1. u.state \in {"RCVD_INV", "ACCEPTED"}
    BY <1>5 DEF Good, AgentInv, PendingStates
  <2>2. 0 \in 0 .. RptLimit /\ "INCOMING" \in DefaultActions
    BY RptAssumption DEF DefaultActions
  <2>3. v \in UARecord
    BY <2>2 DEF Good, UARecord
  <2>4. AgentInv(v)
    BY <2>1 DEF Good, UARecord, AgentInv, PendingStates
  <2> QED
    BY <1>5, <2>3, <2>4 DEF Good
<1>6. CASE u.defaultAction = "NONE"
  BY <1>6
<1> QED
  BY <1>1, <1>2, <1>3, <1>4, <1>5, <1>6 DEF Good, UARecord, DefaultActions

--------------------------------------------------------------------------------
(* The steps of the system.                                                 *)

IndInv == TypeOK /\ PendingActionFits

(* The memo at the head of signalQ, by its code.                            *)
LEMMA HeadMemo ==
    ASSUME TypeOK, NEW a \in Agent, signalQ[a] # << >>
    PROVE  /\ Head(signalQ[a]) \in Signal
           /\ Tail(signalQ[a]) \in Seq(Signal)
           /\ Head(signalQ[a]).code = "SIP_RCVD" => Head(signalQ[a]).pkt \in Packet
           /\ Head(signalQ[a]).code = "SIP_INVITE" =>
                 Head(signalQ[a]).host \in Host \cup {NoHost, BadHost}
<1>1. signalQ[a] \in Seq(Signal)
  BY DEF TypeOK
<1>2. Head(signalQ[a]) \in Signal /\ Tail(signalQ[a]) \in Seq(Signal)
  BY <1>1, HeadTailProperties
<1>3. ASSUME NEW m \in Signal
      PROVE  /\ m.code = "SIP_RCVD" => m.pkt \in Packet
             /\ m.code = "SIP_INVITE" => m.host \in Host \cup {NoHost, BadHost}
  BY DEF Signal
<1> QED
  BY <1>2, <1>3

(* Replacing one agent's record by a good one keeps IndInv.                 *)
LEMMA AgentStep ==
    ASSUME IndInv, NEW a \in Agent, NEW u, Good(u),
           ua' = [ua EXCEPT ![a] = u], signalQ' \in [Agent -> Seq(Signal)],
           drawn' \subseteq CallId, net' \subseteq [to : Host, pkt : Packet]
    PROVE  IndInv'
<1>1. ua' \in [Agent -> UARecord]
  BY DEF IndInv, TypeOK, Good
<1>2. \A b \in Agent : AgentInv(ua'[b])
  BY DEF IndInv, TypeOK, PendingActionFits, Good
<1>3. TypeOK'
  BY <1>1 DEF TypeOK
<1>4. PendingActionFits'
  <2> SUFFICES ASSUME NEW b \in Agent PROVE AgentInv(ua[b])'
    BY DEF PendingActionFits
  <2> QED
    BY <1>2 DEF AgentInv
<1> QED
  BY <1>3, <1>4 DEF IndInv

(* A pass of UserAgent::run with a memo.                                    *)
LEMMA HandleStep ==
    ASSUME IndInv, NEW a \in Agent, NEW u, Good(u), signalQ[a] # << >>,
           Handle(a, u), drawn' \subseteq CallId, UNCHANGED net
    PROVE  IndInv'
<1>1. signalQ' \in [Agent -> Seq(Signal)]
  BY HeadMemo DEF IndInv, TypeOK, Handle
<1>2. net' \subseteq [to : Host, pkt : Packet]
  BY DEF IndInv, TypeOK
<1> QED
  BY <1>1, <1>2, AgentStep DEF Handle

(* Every pass of the user agent thread keeps IndInv, one case per action.   *)
LEMMA UserAgentStepInv ==
    ASSUME IndInv, NEW a \in Agent, UserAgentStep(a), UNCHANGED net
    PROVE  IndInv'
<1> DEFINE u == ua[a]
           m == Head(signalQ[a])
           p == m.pkt
           q == Parsed(u, p)
<1>1. Good(u)
  BY DEF IndInv, TypeOK, PendingActionFits, Good
<1>2. drawn \subseteq CallId
  BY DEF IndInv, TypeOK
<1>3. ASSUME signalQ[a] # << >>, m.code = "SIP_RCVD"
      PROVE  /\ p \in Packet /\ Good(q) /\ Good(CheckSrc(q, p))
             /\ q.contact # NoHost /\ q.state = u.state
  BY <1>1, <1>3, HeadMemo, ParsedGood, CheckSrcGood DEF IndInv
<1>4. CASE CmdInvite(a)
  <2>1. signalQ[a] # << >> /\ m.host \in Host \cup {NoHost, BadHost}
    BY <1>4, HeadMemo DEF CmdInvite, HasMemo, IndInv
  <2>2. CASE Handle(a, u) /\ UNCHANGED drawn
    BY <1>1, <1>2, <2>1, <2>2, HandleStep
  <2>3. ASSUME m.host # NoHost, NEW c \in CallId, drawn' = drawn \cup {c},
               Handle(a, [SendInvite([u EXCEPT !.remoteHost = m.host], c)
                             EXCEPT !.isConnected = FALSE])
        PROVE  IndInv'
    <3> DEFINE v == [u EXCEPT !.remoteHost = m.host]
    <3>1. v \in UARecord /\ v.remoteHost # NoHost
      BY <1>1, <2>1, <2>3 DEF Good, UARecord
    <3> HIDE DEF v
    <3>2. Good([SendInvite(v, c) EXCEPT !.isConnected = FALSE])
      BY <3>1, SendInviteGood
    <3> QED
      BY <1>2, <2>1, <2>3, <3>2, HandleStep DEF v
  <2> QED
    BY <1>4, <2>2, <2>3 DEF CmdInvite, FreshCallIds
<1>5. CASE CmdBye(a)
  BY <1>1, <1>2, <1>5, ByeBranch, HandleStep DEF CmdBye, HasMemo
<1>6. CASE CmdAccept(a)
  BY <1>1, <1>2, <1>6, AcceptBranch, HandleStep DEF CmdAccept, HasMemo
<1>7. CASE CmdReject(a)
  BY <1>1, <1>2, <1>7, RejectBranch, HandleStep DEF CmdReject, HasMemo
<1>8. CASE RcvdUnparsable(a)
  <2>1. PICK h \in {u.contact, BadHost, p.from} : Handle(a, [u EXCEPT !.contact = h])
    BY <1>8 DEF RcvdUnparsable
  <2>6. p.from \in Host
    BY <1>3, <1>8 DEF RcvdUnparsable, HasMemo, Packet
  <2>2. h \in Host \cup {NoHost, BadHost} /\ (u.contact # NoHost => h # NoHost)
    BY <1>1, <2>1, <2>6, HostAssumption DEF Good, UARecord
  <2>3. [u EXCEPT !.contact = h] \in UARecord
    BY <1>1, <2>2 DEF Good, UARecord
  <2>4. AgentInv([u EXCEPT !.contact = h])
    BY <1>1, <2>2 DEF Good, UARecord, AgentInv
  <2>5. Good([u EXCEPT !.contact = h])
    BY <2>3, <2>4 DEF Good
  <2> QED
    BY <1>2, <1>8, <2>1, <2>5, HandleStep DEF RcvdUnparsable, HasMemo
<1>9. CASE RcvdDisconnected(a)
  <2>1. signalQ[a] # << >> /\ m.code = "SIP_RCVD" /\ u.state = "DISCONNECTED"
        /\ UNCHANGED drawn
    BY <1>9 DEF RcvdDisconnected, Received, HasMemo
  <2>2. Good(q) /\ Good(SendRinging([q EXCEPT !.callId = p.callId, !.callIdHost = "heap",
                                              !.remoteHost = p.from]))
    BY <1>3, <2>1, RingBranch
  <2> QED
    BY <1>2, <1>9, <2>1, <2>2, HandleStep DEF RcvdDisconnected
<1>10. CASE RcvdSentInv(a)
  <2>1. signalQ[a] # << >> /\ m.code = "SIP_RCVD" /\ u.state = "SENT_INV"
        /\ UNCHANGED drawn
    BY <1>10 DEF RcvdSentInv, Received, HasMemo
  <2>2. /\ Good(q) /\ Good(CheckSrc(q, p))
        /\ Good([q EXCEPT !.isRinging = TRUE, !.defaultAction = "CONN"])
        /\ Good([q EXCEPT !.isRinging = FALSE, !.defaultAction = "DISCONN"])
        /\ Good([SendAck([q EXCEPT !.rtpAddr = Resolve(@, q.remoteHost)])
                    EXCEPT !.isRinging = FALSE])
    BY <1>3, <2>1, WaitBranch, AckBranch
  <2> QED
    BY <1>2, <1>10, <2>1, <2>2, HandleStep DEF RcvdSentInv
<1>11. CASE RcvdSentBye(a)
  <2>1. signalQ[a] # << >> /\ m.code = "SIP_RCVD" /\ u.state = "SENT_BYE"
        /\ UNCHANGED drawn
    BY <1>11 DEF RcvdSentBye, Received, HasMemo
  <2>2. Good(q) /\ Good(CheckSrc(q, p)) /\ Good(Cleanup(q))
    BY <1>3, <2>1, ActiveFacts, CleanupGood
  <2> QED
    BY <1>2, <1>11, <2>1, <2>2, HandleStep DEF RcvdSentBye
<1>12. CASE RcvdAccepted(a)
  <2>1. signalQ[a] # << >> /\ m.code = "SIP_RCVD" /\ u.state = "ACCEPTED"
        /\ UNCHANGED drawn
    BY <1>12 DEF RcvdAccepted, Received, HasMemo
  <2>2. /\ Good(CheckSrc(q, p))
        /\ Good([q EXCEPT !.isConnected = TRUE, !.isRinging = FALSE,
                          !.defaultAction = "NONE", !.state = "IN_CALL"])
    BY <1>3, <2>1, ConnectBranch
  <2> QED
    BY <1>2, <1>12, <2>1, <2>2, HandleStep DEF RcvdAccepted
<1>13. CASE RcvdRejected(a)
  <2>1. signalQ[a] # << >> /\ m.code = "SIP_RCVD" /\ u.state = "REJECTED"
        /\ UNCHANGED drawn
    BY <1>13 DEF RcvdRejected, Received, HasMemo
  <2>2. /\ Good(CheckSrc(q, p))
        /\ Good([q EXCEPT !.isConnected = FALSE, !.isRinging = FALSE,
                          !.defaultAction = "DISCONN"])
    BY <1>3, <2>1, WaitBranch
  <2> QED
    BY <1>2, <1>13, <2>1, <2>2, HandleStep DEF RcvdRejected
<1>14. CASE RcvdInCall(a)
  <2>1. signalQ[a] # << >> /\ m.code = "SIP_RCVD" /\ u.state = "IN_CALL"
        /\ UNCHANGED drawn
    BY <1>14 DEF RcvdInCall, Received, HasMemo
  <2>2. /\ Good(CheckSrc(q, p))
        /\ Good([SendOk(q) EXCEPT !.isConnected = FALSE, !.defaultAction = "DISCONN",
                                  !.state = "DISCONNECTED"])
    BY <1>3, <2>1, HangUpBranch
  <2> QED
    BY <1>2, <1>14, <2>1, <2>2, HandleStep DEF RcvdInCall
<1>15. CASE RcvdRinging(a)
  BY <1>2, <1>3, <1>15, HandleStep DEF RcvdRinging, Received, HasMemo
<1>16. CASE Timeout(a)
  <2>1. ua' = [ua EXCEPT ![a] = DefaultAction(u)] /\ UNCHANGED <<signalQ, drawn>>
    BY <1>16 DEF Timeout
  <2>2. Good(DefaultAction(u))
    BY <1>1, DefaultActionGood
  <2>3. /\ signalQ' \in [Agent -> Seq(Signal)] /\ drawn' \subseteq CallId
        /\ net' \subseteq [to : Host, pkt : Packet]
    BY <2>1 DEF IndInv, TypeOK
  <2> QED
    BY <2>1, <2>2, <2>3, AgentStep
<1> QED
  BY <1>4, <1>5, <1>6, <1>7, <1>8, <1>9, <1>10, <1>11, <1>12, <1>13, <1>14, <1>15, <1>16
     DEF UserAgentStep

(* A command typed at the console only lengthens signalQ.                   *)
LEMMA UserInv ==
    ASSUME IndInv, NEW a \in Agent, User(a)
    PROVE  IndInv'
<1>1. ASSUME NEW m \in Signal, Type(a, m)
      PROVE  IndInv'
  <2>1. signalQ[a] \in Seq(Signal)
    BY DEF IndInv, TypeOK
  <2>2. Append(signalQ[a], m) \in Seq(Signal)
    BY <2>1, AppendProperties
  <2>3. signalQ' \in [Agent -> Seq(Signal)]
    BY <1>1, <2>2 DEF Type, IndInv, TypeOK
  <2>4. UNCHANGED <<ua, drawn, net>>
    BY <1>1 DEF Type
  <2> QED
    BY <2>3, <2>4 DEF IndInv, TypeOK, PendingActionFits, AgentInv
<1>2. CASE TypeInvite(a)
  <2>1. PICK h \in Dials[a] : Type(a, [code |-> "SIP_INVITE", host |-> h])
    BY <1>2 DEF TypeInvite
  <2>2. h \in Host \cup {NoHost, BadHost}
    BY EnvironmentAssumption
  <2>3. [code |-> "SIP_INVITE", host |-> h] \in Signal
    BY <2>2 DEF Signal
  <2> QED
    BY <1>1, <2>1, <2>3
<1>3. CASE TypeAccept(a) \/ TypeReject(a)
  <2>1. Heard(ua[a]) \in CallId \cup {NoCall}
    BY DEF IndInv, TypeOK, UARecord, Heard
  <2>2. AnswerMemo(a, "SIP_ACCEPT") \in Signal /\ AnswerMemo(a, "SIP_REJECT") \in Signal
    BY <2>1 DEF Signal, AnswerMemo
  <2> QED
    BY <1>1, <1>3, <2>2 DEF TypeAccept, TypeReject
<1>4. CASE TypeBye(a)
  <2>1. [code |-> "SIP_BYE"] \in Signal
    BY DEF Signal
  <2> QED
    BY <1>1, <1>4, <2>1 DEF TypeBye
<1> QED
  BY <1>2, <1>3, <1>4 DEF User

(* UdpWriter only shortens sendQ, and sends a well-formed packet.           *)
LEMMA UdpWriterInv ==
    ASSUME IndInv, NEW a \in Agent, UdpWriter(a)
    PROVE  IndInv'
<1> DEFINE m == Head(ua[a].sendQ)
           pkt == [type |-> m.type, callId |-> m.callId, from |-> a,
                   sdp |-> m.type \in {"INVITE", "OK"}]
           v == [ua[a] EXCEPT !.sendQ = Tail(@)]
<1>1. ua[a] \in UARecord /\ AgentInv(ua[a]) /\ ua[a].sendQ \in Seq(SendMemo)
  BY DEF IndInv, TypeOK, PendingActionFits, UARecord
<1>2. m \in SendMemo /\ Tail(ua[a].sendQ) \in Seq(SendMemo)
  BY <1>1, HeadTailProperties DEF UdpWriter
<1>3. v \in UARecord
  BY <1>1, <1>2 DEF UARecord
<1>4. AgentInv(v)
  BY <1>1 DEF UARecord, AgentInv
<1>5. pkt \in Packet
  BY <1>2, HostAssumption DEF SendMemo, Packet, Requests, Responses
<1>6. net' \subseteq [to : Host, pkt : Packet]
  <2> HIDE DEF pkt
  <2>1. PICK to : Send(to, pkt)
    BY DEF UdpWriter, pkt
  <2>2. to \in Agent => [to |-> to, pkt |-> pkt] \in [to : Host, pkt : Packet]
    BY <1>5, HostAssumption
  <2> QED
    BY <2>1, <2>2 DEF Send, IndInv, TypeOK
<1>7. ua' = [ua EXCEPT ![a] = v] /\ UNCHANGED <<signalQ, drawn>>
  BY DEF UdpWriter, IndInv, TypeOK
<1>8. signalQ' \in [Agent -> Seq(Signal)] /\ drawn' \subseteq CallId
  BY <1>7 DEF IndInv, TypeOK
<1> QED
  BY <1>3, <1>4, <1>6, <1>7, <1>8, AgentStep DEF Good

(* UdpReader moves a packet from the network to signalQ.                    *)
LEMMA UdpReaderInv ==
    ASSUME IndInv, NEW a \in Agent, UdpReader(a)
    PROVE  IndInv'
<1>1. PICK n \in net :
         /\ signalQ' = [signalQ EXCEPT ![a] = Append(@, [code |-> "SIP_RCVD", pkt |-> n.pkt])]
         /\ Take(n)
  BY DEF UdpReader
<1>2. n.pkt \in Packet /\ signalQ[a] \in Seq(Signal)
  BY DEF IndInv, TypeOK
<1>3. [code |-> "SIP_RCVD", pkt |-> n.pkt] \in Signal
  BY <1>2 DEF Signal
<1>4. Append(signalQ[a], [code |-> "SIP_RCVD", pkt |-> n.pkt]) \in Seq(Signal)
  BY <1>2, <1>3, AppendProperties
<1>5. signalQ' \in [Agent -> Seq(Signal)]
  BY <1>1, <1>4 DEF IndInv, TypeOK
<1>6. net' \subseteq [to : Host, pkt : Packet]
  BY <1>1 DEF Take, IndInv, TypeOK
<1> QED
  BY <1>5, <1>6 DEF UdpReader, IndInv, TypeOK, PendingActionFits, AgentInv

(* A stranger adds a well-formed packet to the network.                     *)
LEMMA StrangerInv ==
    ASSUME IndInv, NEW h \in Host, StrangerSends(h)
    PROVE  IndInv'
<1>1. PICK a \in Agent, t \in StrangerPackets, c \in CallId, sdp \in BOOLEAN :
         /\ drawn' = drawn \cup {c}
         /\ net' = net \cup {[to |-> a, pkt |-> [type |-> t, callId |-> c, from |-> h, sdp |-> sdp]]}
  BY DEF StrangerSends
<1>2. t \in Requests \cup Responses \cup {"UNKNOWN"}
  BY EnvironmentAssumption
<1>3. [type |-> t, callId |-> c, from |-> h, sdp |-> sdp] \in Packet
  BY <1>2 DEF Packet
<1>4. net' \subseteq [to : Host, pkt : Packet]
  BY <1>1, <1>3, HostAssumption DEF IndInv, TypeOK
<1>5. UNCHANGED <<ua, signalQ>> /\ drawn' \subseteq CallId
  BY <1>1 DEF StrangerSends, IndInv, TypeOK
<1> QED
  BY <1>4, <1>5 DEF IndInv, TypeOK, PendingActionFits, AgentInv

--------------------------------------------------------------------------------
(* The theorems.                                                            *)

(* An agent that has just started is good.                                  *)
LEMMA InitInv == Init => IndInv
<1> SUFFICES ASSUME Init PROVE IndInv
  OBVIOUS
<1>1. InitUA \in UARecord
  BY RptAssumption DEF InitUA, UARecord, UAStates, DefaultActions, HostPointers
<1>2. AgentInv(InitUA)
  BY DEF InitUA, AgentInv, PendingStates
<1> QED
  BY <1>1, <1>2 DEF Init, IndInv, TypeOK, PendingActionFits

(* Every step of the system keeps IndInv.                                   *)
LEMMA NextInv == IndInv /\ [Next]_vars => IndInv'
<1> SUFFICES ASSUME IndInv, [Next]_vars PROVE IndInv'
  OBVIOUS
<1>1. CASE Agents
  BY <1>1, UserAgentStepInv DEF Agents
<1>2. ASSUME NEW a \in Agent, User(a) \/ UdpWriter(a) \/ UdpReader(a)
      PROVE  IndInv'
  BY <1>2, UserInv, UdpWriterInv, UdpReaderInv
<1>3. ASSUME NEW h \in Host \ Agent, StrangerSends(h)
      PROVE  IndInv'
  BY <1>3, StrangerInv
<1>4. CASE UNCHANGED vars
  BY <1>4 DEF vars, IndInv, TypeOK, PendingActionFits, AgentInv
<1> QED
  BY <1>1, <1>2, <1>3, <1>4 DEF Next

(* The user agents, the queues and the network stay well typed.             *)
THEOREM TypeCorrect == Spec => []TypeOK
<1>1. IndInv => TypeOK
  BY DEF IndInv
<1> QED
  BY InitInv, NextInv, <1>1, PTL DEF Spec

(* The state, default action, flags and pointers of every agent fit         *)
(* together after any sequence of packets, commands and timeouts.           *)
THEOREM PendingActionCorrect == Spec => []PendingActionFits
<1>1. IndInv => PendingActionFits
  BY DEF IndInv
<1> QED
  BY InitInv, NextInv, <1>1, PTL DEF Spec

(* isConnected, the flag every other thread reads, is set exactly in calls. *)
THEOREM ConnectedCorrect == Spec => []ConnectedIffInCall
<1>1. PendingActionFits => ConnectedIffInCall
  BY DEF PendingActionFits, AgentInv, ConnectedIffInCall
<1> QED
  BY PendingActionCorrect, <1>1, PTL

(* A call that waits for an answer can be answered.                         *)
THEOREM RingingCorrect == Spec => []RingingCanBeAnswered
<1>1. PendingActionFits => RingingCanBeAnswered
  BY DEF PendingActionFits, AgentInv, RingingCanBeAnswered
<1> QED
  BY PendingActionCorrect, <1>1, PTL

(* callIdHost is freed at most once per call, and never used after.         *)
THEOREM CallIdHostCorrect == Spec => []CallIdHostValid
<1>1. PendingActionFits => CallIdHostValid
  BY DEF PendingActionFits, AgentInv, CallIdHostValid, Active
<1> QED
  BY PendingActionCorrect, <1>1, PTL

(* No NULL host name is ever resolved.                                      *)
THEOREM RemoteHostCorrect == Spec => []RemoteHostSet
<1>1. PendingActionFits => RemoteHostSet
  BY DEF PendingActionFits, AgentInv, RemoteHostSet
<1> QED
  BY PendingActionCorrect, <1>1, PTL

================================================================================

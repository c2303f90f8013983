-------------------------------- MODULE SipCalls --------------------------------
(***************************************************************************)
(* User agents that call each other over UDP.  Around the user agent       *)
(* thread of every agent run the threads it shares Common with: main()     *)
(* turns commands typed at the console into memos on signalQ, UdpReader    *)
(* puts received SIP packets there, UdpWriter takes memos from sendQ and   *)
(* sends them to the address that remoteSIPAddr (or remoteTempAddr) holds  *)
(* at that moment.  The network delays and reorders packets, and may lose  *)
(* or duplicate them.  Hosts that are not agents (strangers) are SIP       *)
(* phones of another make, which may send any packet at any time.          *)
(***************************************************************************)
EXTENDS UserAgent, FiniteSets

CONSTANTS
    Dials,          \* per agent: the hosts its user invites, BadHost and NoHost among them
    StrangerPackets,    \* the types of packet strangers send
    Lossy,          \* TRUE: the network may lose packets
    Duplicating,    \* TRUE: the network may deliver a packet again
    NetBound,       \* packets in flight; one more is lost
    QueueBound,     \* memos queued at an agent
    CommandBound    \* commands among them

ASSUME EnvironmentAssumption ==
    /\ Dials \in [Agent -> SUBSET (Host \cup {BadHost, NoHost})]
    /\ StrangerPackets \subseteq Requests \cup Responses \cup {"UNKNOWN"}
    /\ Lossy \in BOOLEAN
    /\ Duplicating \in BOOLEAN
    /\ NetBound \in Nat /\ QueueBound \in Nat /\ CommandBound \in Nat

VARIABLE net        \* packets in flight, each with the host it is sent to

vars == <<ua, signalQ, drawn, net>>

Init ==
    /\ ua = [a \in Agent |-> InitUA]
    /\ signalQ = [a \in Agent |-> << >>]
    /\ drawn = {}
    /\ net = {}

--------------------------------------------------------------------------------
(* main(): the commands, with the checks made before a memo is queued.      *)

(* Bound: main() and the UDP reader wait while an agent has QueueBound      *)
(* memos queued; the user agent thread itself may exceed it.                *)
Room(a) == Len(signalQ[a]) + Len(ua[a].sendQ) < QueueBound

Waiting(a) == {i \in DOMAIN signalQ[a] : signalQ[a][i].code # "SIP_RCVD"}

(* Bound: a user types no more while CommandBound commands wait.            *)
Type(a, memo) ==
    /\ Room(a) /\ Cardinality(Waiting(a)) < CommandBound
    /\ signalQ' = [signalQ EXCEPT ![a] = Append(@, memo)]
    /\ UNCHANGED <<ua, drawn, net>>

Dialled ==
    {n \in Agent \X (1 .. QueueBound) :
        n[2] <= Len(signalQ[n[1]]) /\ signalQ[n[1]][n[2]].code = "SIP_INVITE"}

(* Bound: a behaviour has no more calls than there are call ids.            *)
CallsLeft == Cardinality(drawn) + Cardinality(Dialled) < Cardinality(CallId)

TypeInvite(a) ==
    /\ ~ ua[a].isRinging /\ ~ ua[a].isConnected
    /\ CallsLeft
    /\ \E h \in Dials[a] \ {a} : Type(a, [code |-> "SIP_INVITE", host |-> h])

(* isRinging is also set while the callee of a call of one's own rings.     *)
Heard(u) == IF u.state = "RCVD_INV" THEN u.callId ELSE NoCall

AnswerMemo(a, code) == [code |-> code, heard |-> Heard(ua[a]), alone |-> Waiting(a) = {}]

TypeAccept(a) == ua[a].isRinging /\ Type(a, AnswerMemo(a, "SIP_ACCEPT"))

TypeReject(a) == ua[a].isRinging /\ Type(a, AnswerMemo(a, "SIP_REJECT"))

TypeBye(a) ==
    ua[a].isConnected /\ Type(a, [code |-> "SIP_BYE"])

User(a) == TypeInvite(a) \/ TypeAccept(a) \/ TypeReject(a) \/ TypeBye(a)

--------------------------------------------------------------------------------
(* The network and the UDP threads.                                         *)

(* sendto: an address that was never set reaches nobody; what a stranger    *)
(* does with a packet shows only in the packets it sends.                   *)
Send(to, pkt) ==
    \/ /\ to \in Agent /\ Cardinality(net) < NetBound
       /\ net' = net \cup {[to |-> to, pkt |-> pkt]}
    \/ /\ to \notin Agent \/ Lossy \/ Cardinality(net) >= NetBound
       /\ UNCHANGED net

(* UdpWriter::run, case VIVOCE_SIP_SEND.                                    *)
UdpWriter(a) ==
    LET m == Head(ua[a].sendQ) IN
    /\ ua[a].sendQ # << >>
    /\ Send(IF m.temp THEN ua[a].tempAddr ELSE ua[a].sipAddr,
            [type |-> m.type, callId |-> m.callId, from |-> a,
             sdp |-> m.type \in {"INVITE", "OK"}])
    /\ ua' = [ua EXCEPT ![a].sendQ = Tail(@)]
    /\ UNCHANGED <<signalQ, drawn>>

Take(n) == net' = net \ {n} \/ (Duplicating /\ net' = net)

(* UdpReader::run, a packet on the SIP socket.                              *)
UdpReader(a) ==
    /\ Room(a)
    /\ \E n \in {m \in net : m.to = a} :
         /\ signalQ' = [signalQ EXCEPT ![a] = Append(@, [code |-> "SIP_RCVD", pkt |-> n.pkt])]
         /\ Take(n)
    /\ UNCHANGED <<ua, drawn>>

(* A stranger sends an INVITE for a call of its own, or any other packet    *)
(* about a call id that is in use, in any order.  Bound: one packet at a    *)
(* time is in flight from a stranger, which may repeat it.                  *)
StrangerSends(h) ==
    /\ ~ \E n \in net : n.pkt.from = h
    /\ \E a \in Agent, t \in StrangerPackets, c \in CallId, sdp \in BOOLEAN :
         /\ t = "INVITE" => /\ c \notin drawn
                            /\ CallsLeft
         /\ t # "INVITE" => c \in drawn
         /\ sdp => t \in {"INVITE", "OK"}
         /\ drawn' = drawn \cup {c}
         /\ net' = net \cup {[to |-> a, pkt |-> [type |-> t, callId |-> c, from |-> h, sdp |-> sdp]]}
    /\ UNCHANGED <<ua, signalQ>>

Agents == \E a \in Agent : UserAgentStep(a) /\ UNCHANGED net

Next ==
    \/ Agents
    \/ \E a \in Agent : User(a) \/ UdpWriter(a) \/ UdpReader(a)
    \/ \E h \in Host \ Agent : StrangerSends(h)

Spec == Init /\ [][Next]_vars

(* The threads of an agent keep running: a memo or an expired wait is       *)
(* handled, a queued packet is sent, and a packet in flight is received.    *)
(* Nobody has to type a command, and strangers owe nothing.                 *)
Fairness ==
    \A a \in Agent : /\ WF_vars(UserAgentStep(a) /\ UNCHANGED net)
                     /\ WF_vars(UdpWriter(a))
                     /\ WF_vars(UdpReader(a))

(* Users do not type for ever: a command, even one that is ignored, ends    *)
(* the wait of the user agent thread and starts it anew.                    *)
UsersRest == <>[][\A a \in Agent : ~ User(a)]_vars

FairSpec == Spec /\ Fairness /\ UsersRest

--------------------------------------------------------------------------------
(* Invariants.                                                              *)

(* The types of the variables; rptCount stays within its limit.             *)
TypeOK ==
    /\ ua \in [Agent -> UARecord]
    /\ signalQ \in [Agent -> Seq(Signal)]
    /\ drawn \subseteq CallId
    /\ net \subseteq [to : Host, pkt : Packet]

(* States in which the agent takes part in a call.                          *)
Active == UAStates \ {"DISCONNECTED"}

(* main(), the audio threads and the UDP threads decide by isConnected      *)
(* whether there is a call; they never see the state.  The flag and the     *)
(* state agree in every state, whatever the order of packets, timeouts and  *)
(* commands, so that media flows only in a call and 'bye' is possible in    *)
(* every call (UserAgent.cpp, run).                                         *)
ConnectedIffInCall ==
    \A a \in Agent : ua[a].isConnected <=> ua[a].state = "IN_CALL"

(* main() refuses 'accept' and 'reject' unless isRinging is set: a call     *)
(* that waits for the user's answer can be answered, and the flag is left   *)
(* over from no earlier call.                                               *)
RingingCanBeAnswered ==
    \A a \in Agent : /\ ua[a].state = "RCVD_INV" => ua[a].isRinging
                     /\ ua[a].isRinging => ua[a].state \in {"RCVD_INV", "SENT_INV"}

(* cleanup() frees callIdHost and keeps the pointer.  It is not freed       *)
(* twice, and no handler of an active state compares a freed or NULL one.   *)
CallIdHostValid ==
    \A a \in Agent : /\ ua[a].callIdHost # "freedTwice"
                     /\ ua[a].state \in Active => ua[a].callIdHost \in {"local", "heap"}

(* initRemoteAddr is never called with the NULL that cleanup() leaves in    *)
(* remoteHost: neither by the ringing of a late timeout nor by a late OK.   *)
RemoteHostSet ==
    \A a \in Agent :
        ua[a].state \in {"SENT_INV", "RCVD_INV", "ACCEPTED"} => ua[a].remoteHost # NoHost

(* The states in which each default action can be pending.                  *)
PendingStates ==
    [NONE      |-> {"DISCONNECTED", "IN_CALL"},
     DISCONN   |-> {"SENT_INV", "REJECTED", "DISCONNECTED"},
     CONN      |-> {"SENT_INV"},
     INCOMING  |-> {"RCVD_INV", "ACCEPTED"},
     SEND_RING |-> {"RCVD_INV", "ACCEPTED"},
     BYE       |-> {"SENT_BYE"}]

(* The inductive strengthening of the four invariants above: the state, the *)
(* default action and the pointers of an agent move together.  cleanup() is *)
(* never pending while callIdHost is already freed, ACCEPTED keeps the      *)
(* default action of ringing, and whoever rings has parsed a contact.       *)
AgentInv(u) ==
    /\ u.isConnected <=> u.state = "IN_CALL"
    /\ u.state = "RCVD_INV" => u.isRinging
    /\ u.isRinging => u.state \in {"RCVD_INV", "SENT_INV"}
    /\ u.state \in PendingStates[u.defaultAction]
    /\ \/ u.callIdHost \in {"local", "heap"}
       \/ /\ u.callIdHost \in {"null", "freed"}
          /\ u.state = "DISCONNECTED" /\ u.defaultAction = "NONE"
    /\ u.state \in {"SENT_INV", "RCVD_INV", "ACCEPTED"} => u.remoteHost # NoHost
    /\ u.state \in {"RCVD_INV", "ACCEPTED"} => u.contact # NoHost

(* A default action is pending only in the states it belongs to, and the    *)
(* rest of AgentInv holds of every agent (UserAgent.cpp, all handlers).     *)
PendingActionFits == \A a \in Agent : AgentInv(ua[a])

(* Two agents that hold the same call are its caller and its callee.        *)
TwoPartyCalls ==
    \A a, b \in Agent :
        (a # b /\ ua[a].state \in Active /\ ua[b].state \in Active
               /\ ua[a].callId = ua[b].callId)
            => ua[a].callIdHost # ua[b].callIdHost

(* No callee is connected to a caller that still waits for an answer.  Of   *)
(* two agents this is true, and of more it is not: sendAck names the call   *)
(* of the packet written last, which may be one that reached a third party. *)
NoEarlyConnect ==
    \A a, b \in Agent :
        (ua[a].state = "IN_CALL" /\ ua[b].state = "SENT_INV")
            => ua[a].callId # ua[b].callId

(* An answer typed while an incoming call rings and no other command waits  *)
(* goes to that call, whatever packets it waits behind in signalQ and       *)
(* whatever is typed after it.  Both conditions are needed, and main()      *)
(* checks neither: an answer typed while a call of one's own rings at the   *)
(* callee, or the second of two 'accept' or 'reject' that wait, answers     *)
(* whatever call rings when the memo is taken.                              *)
ConsentedCall ==
    [][\A a \in Agent :
          (/\ ua[a].state # ua'[a].state /\ ua'[a].state \in {"ACCEPTED", "REJECTED"}
           /\ Head(signalQ[a]).alone /\ Head(signalQ[a]).heard # NoCall)
            => ua'[a].callId = Head(signalQ[a]).heard]_vars

--------------------------------------------------------------------------------
(* Liveness, under FairSpec.                                                *)

(* Two agents in different calls answer each other's BUSY with BUSY, and    *)
(* keep each other awake (see RejectEnds).                                  *)
BusySubsides == <>[](\A n \in net : n.pkt.type # "BUSY")

(* A call that nobody answers stops ringing, unless BUSY goes back and      *)
(* forth for ever: after RptLimit repetitions of RINGING the default action *)
(* gives the call up (doDefaultAction), whatever packets of this or the     *)
(* other call are lost, late, or restart the wait.                          *)
RingingEnds ==
    BusySubsides => \A a \in Agent : (ua[a].state = "RCVD_INV") ~> (ua[a].state # "RCVD_INV")

(* An invitation ends, connected or given up, whatever packets are lost,    *)
(* with the same exception.                                                 *)
InviteEnds ==
    BusySubsides => \A a \in Agent : (ua[a].state = "SENT_INV") ~> (ua[a].state # "SENT_INV")

(* The wait for the answer to BYE ends, whatever the network loses and      *)
(* whatever packets of other calls arrive meanwhile.                        *)
ByeEnds == \A a \in Agent : (ua[a].state = "SENT_BYE") ~> (ua[a].state = "DISCONNECTED")

--------------------------------------------------------------------------------
(* What README.txt says of the commands, and the code does not keep.        *)

(* README.txt:55: 'reject' rejects an incoming call.  An agent that has     *)
(* declined a call is free again after a while.                             *)
RejectEnds == \A a \in Agent : (ua[a].state = "REJECTED") ~> (ua[a].state # "REJECTED")

(* README.txt:54: 'accept' accepts an incoming call.  The OK of the callee  *)
(* is addressed to the agent that made the call.                            *)
AnswerReachesCaller ==
    \A a, b \in Agent :
        (a # b /\ ua[a].state = "ACCEPTED" /\ ua[b].state \in Active
               /\ ua[a].callId = ua[b].callId)
            => ua[a].sipAddr = b

(* README.txt:54, and :94, which counts it among the known bugs that a call *)
(* sometimes cannot be accepted although connectivity is fine.  When the    *)
(* caller is connected and its callee has accepted, the callee connects     *)
(* too, or the caller leaves.                                               *)
AcceptedCallConnects ==
    \A a, b \in Agent :
        (ua[a].state = "ACCEPTED" /\ ua[b].state = "IN_CALL" /\ ua[a].callId = ua[b].callId)
            ~> (ua[a].state = "IN_CALL" \/ ua[b].state # "IN_CALL")

================================================================================

------------------------------- MODULE UserAgent -------------------------------
(***************************************************************************)
(* The SIP user agent thread of Viva Voce (UserAgent.cpp) on every host    *)
(* that runs the program.  The thread takes one memo at a time from        *)
(* signalQ (commands typed at the console and packets received from the    *)
(* SIP socket), runs the handler of its current state, and puts the        *)
(* packets it answers with on sendQ.  When waitForData returns no memo it  *)
(* runs its default action.                                                *)
(*                                                                         *)
(* The functions of the class (sendInvite, sendBye, cleanup, ...) are      *)
(* operators from the agent's record to its next record, composed in the   *)
(* order in which the handlers call them; each branch of run() is an       *)
(* action.  Elapsed time (waitMSec) is abstracted: a wait may time out     *)
(* whenever signalQ is empty.  Memo buffers, RTP and audio are not part of *)
(* this module.                                                            *)
(***************************************************************************)
EXTENDS Naturals, Sequences

CONSTANTS
    Agent,      \* the hosts that run Viva Voce
    Host,       \* all hosts with a SIP phone, the agents among them
    CallId,     \* the call ids that rand() can draw
    NoCall,     \* call id 0: no call
    NoHost,     \* a NULL host name, or an address that was never set
    BadHost,    \* a host name gethostbyname cannot resolve
    RptLimit    \* repetitions of RINGING and BYE, 5 in the code

ASSUME HostAssumption ==
    /\ Agent \subseteq Host
    /\ NoHost \notin Host
    /\ BadHost \notin Host
    /\ NoHost # BadHost

ASSUME CallIdAssumption == NoCall \notin CallId

ASSUME RptAssumption == RptLimit \in Nat

VARIABLES
    ua,         \* per agent: the UserAgent object and the Common fields it shares
    signalQ,    \* per agent: memos waiting for the user agent thread
    drawn       \* call ids drawn so far

--------------------------------------------------------------------------------
(* Packets and memos.                                                        *)

Requests == {"INVITE", "ACK", "BYE", "OPTIONS"}
Responses == {"RING", "OK", "BUSY", "DECLINE"}

(* A packet as SIPHandler::read leaves it in sipPackRecv: the method or     *)
(* response code, the Call-ID, the contact host, and whether the body is a  *)
(* session description checkPacket takes.  SIPHandler::read rejects         *)
(* "UNKNOWN", a method outside its table.                                   *)
Packet == [type   : Requests \cup Responses \cup {"UNKNOWN"},
           callId : CallId \cup {NoCall},
           from   : Host,
           sdp    : BOOLEAN]

(* What main() and the UDP reader put on signalQ.  Ghosts of an answer:     *)
(* heard is the incoming call that rang when the user typed it, or NoCall   *)
(* when it was the agent's own call that rang; alone says that no other     *)
(* command was waiting then.                                                *)
Signal ==      [code : {"SIP_RCVD"}, pkt : Packet]
          \cup [code : {"SIP_INVITE"}, host : Host \cup {NoHost, BadHost}]
          \cup [code : {"SIP_ACCEPT", "SIP_REJECT"}, heard : CallId \cup {NoCall},
                alone : BOOLEAN]
          \cup [code : {"SIP_BYE"}]

(* A VIVOCE_SIP_SEND memo; temp is memo->data2.                             *)
SendMemo == [type   : {"INVITE", "ACK", "BYE"} \cup Responses,
             callId : CallId \cup {NoCall},
             temp   : BOOLEAN]

UAStates == {"DISCONNECTED", "SENT_INV", "RCVD_INV", "SENT_BYE",
             "ACCEPTED", "REJECTED", "IN_CALL"}

DefaultActions == {"NONE", "DISCONN", "CONN", "INCOMING", "SEND_RING", "BYE"}

(* callIdHost is a char pointer: NULL, localHost, a malloc'ed copy, a copy  *)
(* that was freed, or one that was freed twice.                             *)
HostPointers == {"null", "local", "heap", "freed", "freedTwice"}

UARecord ==
    [state         : UAStates,
     defaultAction : DefaultActions,
     rptCount      : 0 .. RptLimit,
     callId        : CallId \cup {NoCall},
     callIdHost    : HostPointers,
     remoteHost    : Host \cup {NoHost, BadHost},
     sendCallId    : CallId \cup {NoCall},          \* sipPackSend->callId
     contact       : Host \cup {NoHost, BadHost},   \* sipPackRecv->contactUri.host
     sipAddr       : Host \cup {NoHost},            \* common->remoteSIPAddr
     rtpAddr       : Host \cup {NoHost},            \* common->remoteRTPAddr
     tempAddr      : Host \cup {NoHost},            \* common->remoteTempAddr
     isConnected   : BOOLEAN,
     isRinging     : BOOLEAN,
     sendQ         : Seq(SendMemo)]

InitUA ==
    [state |-> "DISCONNECTED", defaultAction |-> "NONE", rptCount |-> 0,
     callId |-> NoCall, callIdHost |-> "null", remoteHost |-> NoHost,
     sendCallId |-> NoCall, contact |-> NoHost, sipAddr |-> NoHost,
     rtpAddr |-> NoHost, tempAddr |-> NoHost,
     isConnected |-> FALSE, isRinging |-> FALSE, sendQ |-> << >>]

--------------------------------------------------------------------------------
(* The functions of the class.                                              *)

(* The memo that SIPHandler::write has filled goes to sendQ.                *)
Enqueue(u, type, callId, temp) ==
    [u EXCEPT !.sendQ = Append(@, [type |-> type, callId |-> callId, temp |-> temp])]

(* gethostbyname in initRemoteAddr: an unknown host leaves the address as   *)
(* it was, and the callers ignore the error.                                *)
Resolve(addr, name) == IF name \in Host THEN name ELSE addr

SendInvite(u, c) ==
    [Enqueue(u, "INVITE", c, FALSE) EXCEPT
        !.callId = c, !.callIdHost = "local", !.sendCallId = c,
        !.sipAddr = Resolve(@, u.remoteHost),
        !.state = "SENT_INV", !.defaultAction = "CONN"]

SendBye(u) ==
    [Enqueue(u, "BYE", u.sendCallId, FALSE) EXCEPT
        !.state = "SENT_BYE", !.defaultAction = "BYE"]

SendOk(u) ==
    [Enqueue(u, "OK", u.callId, FALSE) EXCEPT !.sendCallId = u.callId]

SendAck(u) ==
    [Enqueue(u, "ACK", u.sendCallId, FALSE) EXCEPT
        !.state = "IN_CALL", !.isConnected = TRUE, !.defaultAction = "NONE"]

(* Mutant: sendDecline without its default action.                          *)
SendDeclineStillRinging(u) ==
    [Enqueue(u, "DECLINE", u.sendCallId, FALSE) EXCEPT !.state = "REJECTED"]

SendDecline(u) ==
    [Enqueue(u, "DECLINE", u.sendCallId, FALSE) EXCEPT
        !.state = "REJECTED", !.defaultAction = "DISCONN"]

(* initTempRemoteAddr and sendBusy: the answer to p goes to its contact.    *)
SendBusy(u, p) ==
    [Enqueue(u, "BUSY", p.callId, TRUE) EXCEPT
        !.sendCallId = p.callId, !.tempAddr = Resolve(@, p.from)]

(* The addresses are set from remoteHost before remoteHost is replaced by   *)
(* the contact of the packet received last.                                 *)
SendRinging(u) ==
    [Enqueue(u, "RING", u.callId, FALSE) EXCEPT
        !.sendCallId = u.callId,
        !.sipAddr = Resolve(@, u.remoteHost), !.rtpAddr = Resolve(@, u.remoteHost),
        !.remoteHost = u.contact,
        !.state = "RCVD_INV", !.isRinging = TRUE, !.defaultAction = "SEND_RING"]

(* free(callIdHost) unless it is NULL or localHost; the pointer is kept.    *)
FreeCallIdHost(ptr) ==
    CASE ptr = "heap"  -> "freed"
      [] ptr \in {"freed", "freedTwice"} -> "freedTwice"
      [] OTHER -> ptr

(* Mutant: cleanup without the reset of the state.                          *)
CleanupSameState(u) ==
    [u EXCEPT
        !.isConnected = FALSE, !.isRinging = FALSE, !.callId = NoCall, !.sendCallId = NoCall,
        !.callIdHost = FreeCallIdHost(@), !.remoteHost = NoHost, !.sendQ = << >>,
        !.defaultAction = "NONE"]

Cleanup(u) ==
    [u EXCEPT
        !.isConnected = FALSE, !.isRinging = FALSE,
        !.callId = NoCall, !.sendCallId = NoCall,
        !.callIdHost = FreeCallIdHost(@), !.remoteHost = NoHost,
        !.sendQ = << >>,
        !.state = "DISCONNECTED", !.defaultAction = "NONE"]

(* The checkSrc epilogue of the receive branch.                             *)
CheckSrc(u, p) == IF p.callId # u.callId THEN SendBusy(u, p) ELSE u

(* The Contact line of a packet that parses.                                *)
Parsed(u, p) == [u EXCEPT !.contact = p.from]

--------------------------------------------------------------------------------
(* One pass of the loop of run() with a memo: the memo leaves signalQ and   *)
(* the agent's record becomes u.                                            *)
Handle(a, u) ==
    /\ ua' = [ua EXCEPT ![a] = u]
    /\ signalQ' = [signalQ EXCEPT ![a] = Tail(@)]

HasMemo(a, code) == signalQ[a] # << >> /\ Head(signalQ[a]).code = code

(* callId = rand()*rand()*rand(): a number no agent has drawn before.       *)
(* Mutant: an unseeded generator.                                           *)
RepeatedCallIds == CallId

FreshCallIds == CallId \ drawn

(* VIVOCE_SIP_INVITE: sendInvite draws a call id, common->reset() follows.  *)
(* A URI without a host (NoHost) is malformed, the memo is released.        *)
CmdInvite(a) ==
    LET h == Head(signalQ[a]).host IN
    /\ HasMemo(a, "SIP_INVITE")
    /\ \/ /\ ua[a].state = "DISCONNECTED" /\ h # NoHost
          /\ \E c \in FreshCallIds :
               /\ drawn' = drawn \cup {c}
               /\ Handle(a, [SendInvite([ua[a] EXCEPT !.remoteHost = h], c)
                                EXCEPT !.isConnected = FALSE])
       \/ /\ ua[a].state # "DISCONNECTED" \/ h = NoHost
          /\ Handle(a, ua[a]) /\ UNCHANGED drawn

CmdBye(a) ==
    /\ HasMemo(a, "SIP_BYE") /\ UNCHANGED drawn
    /\ \/ /\ ua[a].isConnected
          /\ Handle(a, SendBye([ua[a] EXCEPT !.isConnected = FALSE, !.rptCount = 0]))
       \/ ~ ua[a].isConnected /\ Handle(a, ua[a])

(* Mutant: connect without waiting for the ACK.                             *)
AcceptConnects(a) ==
    /\ HasMemo(a, "SIP_ACCEPT") /\ UNCHANGED drawn
    /\ \/ /\ ua[a].state = "RCVD_INV"
          /\ Handle(a, [SendOk(ua[a]) EXCEPT !.state = "IN_CALL", !.isRinging = FALSE,
                            !.isConnected = TRUE, !.defaultAction = "NONE"])
       \/ ua[a].state # "RCVD_INV" /\ Handle(a, ua[a])

(* After sendOk only the state and isRinging change: the default action of  *)
(* the ringing phase stays.                                                 *)
CmdAccept(a) ==
    /\ HasMemo(a, "SIP_ACCEPT") /\ UNCHANGED drawn
    /\ \/ /\ ua[a].state = "RCVD_INV"
          /\ Handle(a, [SendOk(ua[a]) EXCEPT !.state = "ACCEPTED", !.isRinging = FALSE])
       \/ ua[a].state # "RCVD_INV" /\ Handle(a, ua[a])

CmdReject(a) ==
    /\ HasMemo(a, "SIP_REJECT") /\ UNCHANGED drawn
    /\ \/ /\ ua[a].state = "RCVD_INV"
          /\ Handle(a, [SendDecline(ua[a]) EXCEPT !.isRinging = FALSE])
       \/ ua[a].state # "RCVD_INV" /\ Handle(a, ua[a])

(* SIPHandler::read failed.  When it did not come as far as the Contact     *)
(* line, reset() has freed the packet the contact points into, which may    *)
(* still read as the old host or as garbage; a line after it may fail too.  *)
RcvdUnparsable(a) ==
    /\ HasMemo(a, "SIP_RCVD") /\ Head(signalQ[a]).pkt.type = "UNKNOWN"
    /\ UNCHANGED drawn
    /\ \E h \in {ua[a].contact, BadHost, Head(signalQ[a]).pkt.from} :
         Handle(a, [ua[a] EXCEPT !.contact = h])

(* A packet that parses, received in state s.                               *)
Received(a, s) ==
    /\ HasMemo(a, "SIP_RCVD") /\ Head(signalQ[a]).pkt.type # "UNKNOWN"
    /\ ua[a].state = s
    /\ UNCHANGED drawn

RcvdDisconnected(a) ==
    LET p == Head(signalQ[a]).pkt
        u == Parsed(ua[a], p) IN
    /\ Received(a, "DISCONNECTED")
    /\ \/ /\ p.type = "INVITE" /\ p.sdp
          /\ Handle(a, SendRinging([u EXCEPT !.callId = p.callId, !.callIdHost = "heap",
                                             !.remoteHost = p.from]))
       \/ (p.type # "INVITE" \/ ~ p.sdp) /\ Handle(a, u)

(* Mutant: the response to any call is taken for an answer to this one.     *)
AnyAnswer(u, p) == p.type \in Responses

Answers(u, p) == p.type \in Responses /\ p.callId = u.callId

(* The caller waits for an answer.  BUSY and DECLINE only change the        *)
(* default action; an OK without a usable session description is dropped.   *)
RcvdSentInv(a) ==
    LET p == Head(signalQ[a]).pkt
        u == Parsed(ua[a], p)
        answer == Answers(u, p) IN
    /\ Received(a, "SENT_INV")
    /\ \/ /\ answer /\ p.type = "RING"
          /\ Handle(a, [u EXCEPT !.isRinging = TRUE, !.defaultAction = "CONN"])
       \/ /\ answer /\ p.type \in {"BUSY", "DECLINE"}
          /\ Handle(a, [u EXCEPT !.isRinging = FALSE, !.defaultAction = "DISCONN"])
       \/ /\ answer /\ p.type = "OK" /\ p.sdp
          /\ Handle(a, [SendAck([u EXCEPT !.rtpAddr = Resolve(@, u.remoteHost)])
                            EXCEPT !.isRinging = FALSE])
       \/ answer /\ p.type = "OK" /\ ~ p.sdp /\ Handle(a, u)
       \/ ~ answer /\ Handle(a, CheckSrc(u, p))

(* Any OK ends the wait for the answer to BYE, whatever call it names.      *)
RcvdSentBye(a) ==
    LET p == Head(signalQ[a]).pkt
        u == Parsed(ua[a], p) IN
    /\ Received(a, "SENT_BYE")
    /\ \/ p.type = "OK" /\ Handle(a, Cleanup(u))
       \/ p.type \in Responses \ {"OK"} /\ Handle(a, u)
       \/ p.type \in Requests /\ Handle(a, CheckSrc(u, p))

RcvdAccepted(a) ==
    LET p == Head(signalQ[a]).pkt
        u == Parsed(ua[a], p)
        ack == p.type = "ACK" /\ p.callId = u.callId IN
    /\ Received(a, "ACCEPTED")
    /\ \/ ack /\ Handle(a, [u EXCEPT !.isConnected = TRUE, !.isRinging = FALSE,
                                     !.defaultAction = "NONE", !.state = "IN_CALL"])
       \/ ~ ack /\ Handle(a, CheckSrc(u, p))

RcvdRejected(a) ==
    LET p == Head(signalQ[a]).pkt
        u == Parsed(ua[a], p)
        ack == p.type = "ACK" /\ p.callId = u.callId IN
    /\ Received(a, "REJECTED")
    /\ \/ ack /\ Handle(a, [u EXCEPT !.isConnected = FALSE, !.isRinging = FALSE,
                                     !.defaultAction = "DISCONN"])
       \/ ~ ack /\ Handle(a, CheckSrc(u, p))

(* The peer hangs up: the state is DISCONNECTED at once, cleanup() is left  *)
(* to the default action.                                                   *)
RcvdInCall(a) ==
    LET p == Head(signalQ[a]).pkt
        u == Parsed(ua[a], p)
        bye == p.type = "BYE" /\ p.callId = u.callId IN
    /\ Received(a, "IN_CALL")
    /\ \/ bye /\ Handle(a, [SendOk(u) EXCEPT !.isConnected = FALSE,
                                !.defaultAction = "DISCONN", !.state = "DISCONNECTED"])
       \/ ~ bye /\ Handle(a, CheckSrc(u, p))

(* Mutant: while it rings, an INVITE is taken as in DISCONNECTED.           *)
RcvdRingingRestarts(a) ==
    LET p == Head(signalQ[a]).pkt
        u == Parsed(ua[a], p) IN
    /\ Received(a, "RCVD_INV")
    /\ \/ /\ p.type = "INVITE" /\ p.sdp
          /\ Handle(a, SendRinging([u EXCEPT !.callId = p.callId, !.callIdHost = "heap",
                                             !.remoteHost = p.from]))
       \/ (p.type # "INVITE" \/ ~ p.sdp) /\ Handle(a, CheckSrc(u, p))

(* RCVD_INV has no case of its own.                                         *)
RcvdRinging(a) ==
    LET p == Head(signalQ[a]).pkt IN
    /\ Received(a, "RCVD_INV")
    /\ Handle(a, CheckSrc(Parsed(ua[a], p), p))

(* 5 > rptCount++ in doDefaultAction: the test, and the increment.          *)
(* Mutants: one repetition too many; repetitions that are not counted.      *)
RepeatsOnceMore(u) == RptLimit >= u.rptCount

Repeats(u) == RptLimit > u.rptCount

Uncounted(u) == u

Counted(u) == [u EXCEPT !.rptCount = @ + 1]

(* doDefaultAction, when waitForData has returned NULL.                     *)
DefaultAction(u) ==
    CASE u.defaultAction \in {"DISCONN", "CONN", "INCOMING"} -> Cleanup(u)
      [] u.defaultAction = "BYE" ->
            IF Repeats(u)
            THEN SendBye(Counted(u))
            ELSE [u EXCEPT !.rptCount = 0, !.state = "DISCONNECTED",
                           !.defaultAction = "DISCONN"]
      [] u.defaultAction = "SEND_RING" ->
            IF Repeats(u)
            THEN SendRinging(Counted(u))
            ELSE [u EXCEPT !.rptCount = 0, !.defaultAction = "INCOMING"]
      [] OTHER -> u

Timeout(a) ==
    /\ signalQ[a] = << >>
    /\ ua[a].defaultAction # "NONE"
    /\ ua' = [ua EXCEPT ![a] = DefaultAction(@)]
    /\ UNCHANGED <<signalQ, drawn>>

(* One pass of the loop of UserAgent::run.                                  *)
UserAgentStep(a) ==
    \/ CmdInvite(a) \/ CmdBye(a) \/ CmdAccept(a) \/ CmdReject(a)
    \/ RcvdUnparsable(a)
    \/ RcvdDisconnected(a) \/ RcvdSentInv(a) \/ RcvdSentBye(a) \/ RcvdAccepted(a)
    \/ RcvdRejected(a) \/ RcvdInCall(a) \/ RcvdRinging(a)
    \/ Timeout(a)

================================================================================

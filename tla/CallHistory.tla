------------------------------ MODULE CallHistory ------------------------------
(***************************************************************************)
(* SipCalls, with a record of what was done about each call, and what it   *)
(* promises to the users: PhoneCalls.  The record is never read.           *)
(***************************************************************************)
EXTENDS SipCalls

VARIABLE past       \* <<host, deed, call id>>

(* What an agent is seen doing in this state, and other phones say they do. *)
Seen(state, deed) ==
    {<<a, deed, ua[a].callId>> : a \in {b \in Agent : ua[b].state = state}}

Deeds ==
    Seen("SENT_INV", "placed") \cup Seen("RCVD_INV", "heard") \cup Seen("ACCEPTED", "accepted")
        \cup {<<n.pkt.from, "accepted", n.pkt.callId>> :
                 n \in {m \in net : m.pkt.type = "OK" /\ m.pkt.from \notin Agent}}

HistoryInit == Init /\ past = {}
HistoryNext == Next /\ past' = past \cup Deeds'
HistorySpec == HistoryInit /\ [][HistoryNext]_<<vars, past>>

(* The proof is about two agents, and about strangers that send no ACK: an  *)
(* ACK names the call id that was put into sipPackSend last, which a third  *)
(* party may have supplied (see README.md).                                 *)
TwoAgents ==
    /\ \A x, y, z \in Agent : x = y \/ y = z \/ x = z
    /\ "ACK" \notin StrangerPackets

(* What the user of an agent sees of it.                                    *)
PhaseOf(state) ==
    CASE state = "SENT_INV" -> "inviting"
      [] state = "RCVD_INV" -> "ringing"
      [] state = "ACCEPTED" -> "accepted"
      [] state = "REJECTED" -> "declined"
      [] state = "IN_CALL"  -> "talking"
      [] state = "SENT_BYE" -> "leaving"

LineOf(u) ==
    IF u.state = "DISCONNECTED"
    THEN [phase |-> "idle", caller |-> FALSE, call |-> NoCall]
    ELSE [phase |-> PhaseOf(u.state), caller |-> u.callIdHost = "local", call |-> u.callId]

Phones == INSTANCE PhoneCalls WITH
    line <- [a \in Agent |-> LineOf(ua[a])],
    placed <- drawn,
    MayRepeat <- Duplicating,
    Orderly <- TwoAgents

(* However packets are lost, repeated or reordered, and whatever other      *)
(* phones send: every call is placed once, rings at one agent and not at    *)
(* its own caller, and at most once unless the network repeats packets; a   *)
(* caller is connected only to a call that was accepted, a callee only to   *)
(* one it accepted (UserAgent.cpp, run).                                    *)
ImplementsPhoneCalls == Phones!Spec
================================================================================

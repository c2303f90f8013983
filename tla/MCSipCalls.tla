------------------------------ MODULE MCSipCalls ------------------------------
(* Instances of SipCalls for TLC: two agents, one stranger, up to two calls. *)
EXTENDS SipCalls, TLC

CONSTANTS a1, a2, s1, c1, c2

(* Whom the users call: only the user of a1 calls, everybody calls, or       *)
(* everybody calls and also mistypes the host or the whole URI.              *)
OneDials == [a \in Agent |-> IF a = a1 THEN Agent ELSE {}]
AllDial == [a \in Agent |-> Agent]
AnyDial == [a \in Agent |-> Host \cup {NoHost, BadHost}]

AllPackets == Requests \cup Responses \cup {"UNKNOWN"}

SymmetricCalls == Permutations(CallId)
SymmetricAgentsAndCalls == Permutations(Agent) \cup Permutations(CallId)
===============================================================================

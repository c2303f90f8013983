------------------------------- MODULE PhoneCalls -------------------------------
(***************************************************************************)
(* What the users of Viva Voce may rely on when they call each other, with *)
(* no packets, flags or timeouts in sight.  A call is placed once, rings   *)
(* at one telephone at most, and not at the one it was placed from; the    *)
(* caller is connected only after somebody accepted this call, the callee  *)
(* only after it accepted it itself.  A call may end at any time.          *)
(***************************************************************************)
CONSTANTS
    Agent,      \* the telephones described here
    Host,       \* all telephones
    CallId, NoCall,
    MayRepeat,  \* TRUE: a call may ring again after it ended
    Orderly     \* TRUE: the callee is not connected while its caller waits

VARIABLES
    line,       \* per telephone: what its user sees
    placed,     \* the calls there have been
    past        \* who has placed, heard or accepted which call

phoneVars == <<line, placed, past>>

Phases == {"inviting", "ringing", "accepted", "declined", "talking", "leaving"}
Idle == [phase |-> "idle", caller |-> FALSE, call |-> NoCall]

Init ==
    /\ line = [a \in Agent |-> Idle]
    /\ placed = {}
    /\ past = {}

Become(a, phase) == line' = [line EXCEPT ![a].phase = phase]
Remember(a, deed, c) == past' = past \cup {<<a, deed, c>>}
Did(a, deed, c) == <<a, deed, c>> \in past

Place(a, c) ==
    /\ line[a] = Idle /\ c \notin placed
    /\ line' = [line EXCEPT ![a] = [phase |-> "inviting", caller |-> TRUE, call |-> c]]
    /\ placed' = placed \cup {c}
    /\ Remember(a, "placed", c)

Ring(a, c) ==
    /\ line[a] = Idle /\ c \in placed
    /\ ~ Did(a, "placed", c)
    /\ MayRepeat \/ ~ Did(a, "heard", c)
    /\ \A b \in Agent : Did(b, "heard", c) => b = a
    /\ line' = [line EXCEPT ![a] = [phase |-> "ringing", caller |-> FALSE, call |-> c]]
    /\ Remember(a, "heard", c)
    /\ UNCHANGED placed

Accept(a) ==
    /\ line[a].phase = "ringing"
    /\ Become(a, "accepted") /\ Remember(a, "accepted", line[a].call)
    /\ UNCHANGED placed

Decline(a) ==
    /\ line[a].phase = "ringing"
    /\ Become(a, "declined") /\ UNCHANGED <<placed, past>>

(* The user has to accept again.                                            *)
RingAgain(a) ==
    /\ line[a].phase = "accepted"
    /\ Become(a, "ringing") /\ UNCHANGED <<placed, past>>

ConnectCaller(a) ==
    /\ line[a].phase = "inviting"
    /\ \E h \in Host : Did(h, "accepted", line[a].call)
    /\ Become(a, "talking") /\ UNCHANGED <<placed, past>>

ConnectCallee(a) ==
    /\ line[a].phase = "accepted"
    /\ Orderly => \A b \in Agent : line[b].phase = "inviting" => line[b].call # line[a].call
    /\ Become(a, "talking") /\ UNCHANGED <<placed, past>>

HangUp(a) ==
    /\ line[a].phase = "talking"
    /\ Become(a, "leaving") /\ UNCHANGED <<placed, past>>

End(a) ==
    /\ line[a] # Idle
    /\ line' = [line EXCEPT ![a] = Idle] /\ UNCHANGED <<placed, past>>

(* Telephones of another make place calls, and say that they accepted one.  *)
Elsewhere(h, c) ==
    /\ placed' = placed \cup {c}
    /\ UNCHANGED past \/ Remember(h, "accepted", c)
    /\ UNCHANGED line

Next ==
    \/ \E a \in Agent :
          \/ \E c \in CallId : Place(a, c) \/ Ring(a, c)
          \/ Accept(a) \/ Decline(a) \/ RingAgain(a)
          \/ ConnectCaller(a) \/ ConnectCallee(a)
          \/ HangUp(a) \/ End(a)
    \/ \E h \in Host \ Agent, c \in CallId : Elsewhere(h, c)

Spec == Init /\ [][Next]_phoneVars
================================================================================

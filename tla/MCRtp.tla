-------------------------------- MODULE MCRtp --------------------------------
(* An instance of Rtp for TLC.                                               *)
EXTENDS Rtp

(* A caller that listens to a phone that sent audio in an earlier call.      *)
Called == [tSRLastSent |-> 0, lastPacketCount |-> -1, recvd |-> 0, lost |-> 0,
           LSR |-> 3, tLSRRecvd |-> 0, sendRR |-> FALSE]

(* A caller that talks to a phone called before, which owes it an answer.    *)
Calling == [tSRLastSent |-> 30, lastPacketCount |-> 0, recvd |-> 2, lost |-> 1,
            LSR |-> 3, tLSRRecvd |-> 5, sendRR |-> TRUE]

Befores == {Called, Calling}
OnlyCalled == {Called}
===============================================================================

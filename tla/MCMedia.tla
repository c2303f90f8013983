------------------------------- MODULE MCMedia -------------------------------
(* An instance of Sdp, AudioCodec and Rtp for TLC: a host reads one session  *)
(* description, or encodes and decodes audio, or is sent packets of audio,   *)
(* or reports about them.                                                    *)
EXTENDS AudioCodec, Sdp, MCRtp

(* A block that jumps from one level to another, and back again.             *)
Wave(a, b, period) ==
    [i \in 1 .. BlockLen + 1 |-> IF ((i - 1) \div period) % 2 = 0 THEN a ELSE b]

Levels == {0, 60, 127, 128, 200}
Microphone == {Wave(a, b, period) : a \in Levels, b \in Levels, period \in {1, 81}}
SquareTones == {Wave(a, -a, 20) : a \in {3, 16383, 32767}}

(* The description a UserAgent offers, others made of what write can write,  *)
(* and short messages of any lines.                                          *)
Audio(keys, multicast, hasKey, attribs) ==
    [keys |-> keys, multicast |-> multicast, key |-> hasKey, attribs |-> attribs]
Offer ==
    [keys |-> {"i", "u", "e", "c"}, multicast |-> FALSE, complete |-> TRUE, attribs |-> 0,
     times |-> 1, media |-> <<Audio({}, FALSE, FALSE, 1)>>]
Unnamed == [Offer EXCEPT !.complete = FALSE]
Packs == {Offer, Unnamed} \cup
    [keys : SUBSET {"c", "b", "z", "k"}, multicast : BOOLEAN, complete : {TRUE},
     attribs : {0, 2}, times : {0, 2},
     media : {<<>>} \cup
             {<<Audio({"i", "c", "b"}, multicast, hasKey, 2), Audio({}, FALSE, hasKey, 1)>> :
                 multicast \in BOOLEAN, hasKey \in BOOLEAN}]

Keys == {"v", "o", "s", "i", "c", "b", "t", "r", "z", "k", "a", "m", "?", Long}
ShortMessages == {<<"s">> \o start \o rest :
                    start \in {<<>>, <<"c">>, <<"c", "m">>}, rest \in SeqOf(Keys, 3)}
AllMessages == {write[desc] : desc \in Packs} \cup ShortMessages \cup SeqOf(Keys, 2)

(* The second block: enough to begin anew after any first one.               *)
Second == Wave(200, 0, 1)

CodecNextHere ==
    /\ ret # Reading /\ CodecNext
    /\ left = MaxBlocks \/ left' = left \/ coding'.bytes = Second
    /\ UNCHANGED <<sdpVars, rtpVars>>

(* Packets and reports share only the formatter, and what comes out of that  *)
(* is chosen freely, so that a behaviour need not have both.                 *)
PacketsOnly == now' = 0 /\ srs' = {} /\ nSRep' = 0 /\ writer' = Idle /\ rtt' = Idle
ReportsOnly ==
    nPacketsRecvd' = before.recvd /\ nPacketsSent' <= 1 /\ \A p \in sent' : p.wire = p.seq

RtpNextHere ==
    /\ left = 0 /\ message = <<>> /\ ret = Reading
    /\ RtpNext /\ (PacketsOnly \/ ReportsOnly)
    /\ UNCHANGED <<codecVars, sdpVars>>

(* Nothing was sent yet.                                                     *)
Quiet == now = 0 /\ nPacketsSent = 0 /\ nSRep = 0 /\ reader = Idle /\ writer = Idle /\ rtt = Idle

SdpNextHere == Quiet /\ SdpNext /\ UNCHANGED <<codecVars, rtpVars>>

MCInit ==
    /\ CodecInit /\ SdpInit /\ RtpInit
    /\ left = 0 \/ (left = MaxBlocks /\ message = <<>>)
    /\ before = Called \/ (left = 0 /\ message = <<>>)
MCNext == SdpNextHere \/ CodecNextHere \/ RtpNextHere
MCSpec == MCInit /\ [][MCNext]_<<codecVars, sdpVars, rtpVars>>
===============================================================================

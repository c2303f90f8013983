--------------------------------- MODULE Rtp ---------------------------------
(***************************************************************************)
(* Audio packets and the reports about them, in one direction of a call    *)
(* (RTPManager.cpp, RTP.cpp, and UdpRW.cpp around them).  The talker       *)
(* numbers its packets with 16 bits and sends sender reports (SR); the     *)
(* listener counts what it receives and loses, and answers an SR with a    *)
(* receiver report (RR), from which the talker computes the round-trip     *)
(* time.  What is sent stays in the network: it may be received late,      *)
(* again, in another order, or never.                                      *)
(*                                                                         *)
(* At each host UdpReader and UdpWriter share, without a lock, the state   *)
(* of the call and the one formatter: its buffer, whose header both fill,  *)
(* and its sRep and rRep.  The state is read and written in the steps of   *)
(* the code.  What passes through the formatter comes out as it was, or,   *)
(* when the other thread got in between, as any sequence number and any of *)
(* the Strays; a report whose type is garbled is dropped, or taken for one *)
(* of the other kind.                                                      *)
(***************************************************************************)
EXTENDS Integers

CONSTANTS
    SeqSize,     \* sequence numbers, 2^16
    Unit,       \* what a second counts in getRTPTime, 2^16
    SecMod,     \* seconds before getRTPTime starts again, 2^16
    LongMod,    \* values of an unsigned long, 2^32 or 2^64
    Ticks,      \* values of tv_usec >> 16, of which a second has 16
    Period,     \* SRPeriodSec
    Offset,     \* the listener's clock is ahead by so many ticks
    Strays,     \* what a report may say that passed through the formatter
    Before,     \* what an earlier call may have left: only a caller's state is reset
    MaxPackets, MaxReceived, MaxTime, MaxReports    \* bounds: packets sent, packets
                                                    \* received, ticks, SRs received

ASSUME NumberAssumption ==
    /\ SeqSize \in Nat \ {0} /\ Unit \in Nat \ {0} /\ SecMod \in Nat \ {0}
    /\ LongMod \in Nat \ {0}
    /\ Ticks \in Nat \ {0} /\ Period \in Nat /\ Offset \in Nat /\ Strays \subseteq Nat
    /\ Before \subseteq [tSRLastSent : Int, lastPacketCount : Int, recvd : Nat, lost : Int,
                         LSR : Int, tLSRRecvd : Int, sendRR : BOOLEAN]
ASSUME RtpBoundAssumption ==
    MaxPackets \in Nat /\ MaxReceived \in Nat /\ MaxTime \in Nat /\ MaxReports \in Nat

VARIABLES
    now,            \* the talker's clock, in ticks
    sequence, seqWrap,                          \* talker: the next packet
    nPacketsSent, lastPacketCount, tSRLastSent, \* talker: its sender reports
    rtt,            \* talker: what the last RR gave, with that RR and its time
    sent, srs, rrs, \* the packets and reports sent
    recvSeqNext, nPacketsRecvd, nPacketsLost,   \* listener: recvSeq is recvSeqNext - 1
    LSR, tLSRRecvd, sendRR, nSRep,              \* listener: the last SR, and whether to answer
    before,         \* what both had when the call began
    reader, writer, \* listener: what its threads are at, with a report
    firstNum, lastNum, highest, mixed,  \* history: numbers of packets; a wrong one was read
    lsrAt, recvd, owed              \* history: the SRs LSR and tLSRRecvd are of; an SR unanswered

talker == <<sequence, seqWrap, nPacketsSent, lastPacketCount, tSRLastSent, rtt>>
network == <<sent, srs, rrs>>
counts == <<recvSeqNext, nPacketsRecvd, nPacketsLost, before, firstNum, lastNum, highest, mixed>>
answer == <<LSR, tLSRRecvd, sendRR, nSRep, lsrAt, recvd, owed>>
rtpVars == <<now, talker, network, counts, answer, reader, writer>>

Idle == [at |-> "idle"]

SeqNumbers == 0 .. SeqSize - 1

(* A packet: its number in the call, the sequence number it was given, and  *)
(* the one that was written.                                                *)
Packet == [number : Nat, seq : SeqNumbers, wire : SeqNumbers]
NextNumber == SeqSize * seqWrap + sequence

(* getRTPTime: seconds in the upper half of 32 bits; the lower half counts  *)
(* tv_usec in units of 2^16 microseconds, instead of fractions of 2^16.     *)
Sec(t) == t \div Ticks
RtpTime(t) == Unit * (Sec(t) % SecMod) + (t - Ticks * Sec(t))

(* htonl, ntohl: 32 bits of an unsigned long.                               *)
Wire(x) == x % (Unit * SecMod)

HereTime == now + Offset

(* An SR of an earlier call, perhaps of another phone, or none at all.      *)
Earlier == -1

(* When an SR came, by the listener's clock.                                *)
Arrival == [sr : Int, at : Int]
NoArrival == [sr |-> Earlier, at |-> 0]

(* Reports: the SR's time as it was written, with the time it was sent; an  *)
(* RR with the SR its LSR is of, the one its DLSR is of, when it was built, *)
(* and whether both went through the formatter undisturbed.                 *)
SR == [at : Int, ntp : Nat]
RR == [LSR : Int, DLSR : Int, lsrAt : Int, recvd : Arrival, builtAt : Int, sound : BOOLEAN]

(* What a report of the other direction is taken for.                       *)
MisreadSRs == [at : {Earlier}, ntp : Strays]
MisreadRRs == [LSR : Strays, DLSR : Strays, lsrAt : {Earlier}, recvd : {NoArrival},
               builtAt : {0}, sound : {FALSE}]

RtpInit ==
    /\ now = 0
    /\ sequence = 0 /\ seqWrap = 0
    /\ before \in Before
    /\ nPacketsSent = 0 /\ lastPacketCount = before.lastPacketCount
    /\ tSRLastSent = before.tSRLastSent
    /\ rtt = Idle
    /\ sent = {} /\ srs = {} /\ rrs = {}
    /\ recvSeqNext = 0
    /\ nPacketsRecvd = before.recvd /\ nPacketsLost = before.lost
    /\ LSR = before.LSR /\ tLSRRecvd = before.tLSRRecvd /\ sendRR = before.sendRR /\ nSRep = 0
    /\ reader = Idle /\ writer = Idle
    /\ firstNum = 0 /\ lastNum = 0 /\ highest = 0 /\ mixed = FALSE
    /\ lsrAt = Earlier /\ recvd = NoArrival /\ owed = sendRR

--------------------------------------------------------------------------------
(* The talker.                                                              *)

(* Mutant: the sequence number is not cut to 16 bits.                       *)
SendPacketOn ==
    /\ nPacketsSent < MaxPackets
    /\ \E wire \in SeqNumbers :
         sent' = sent \cup {[number |-> NextNumber, seq |-> sequence, wire |-> wire]}
    /\ nPacketsSent' = nPacketsSent + 1
    /\ sequence' = sequence + 1
    /\ UNCHANGED <<now, seqWrap, lastPacketCount, tSRLastSent, rtt, srs, rrs, counts, answer,
                   reader, writer>>

(* handleRTPSend: sequence is an unsigned short.                            *)
SendPacket ==
    /\ nPacketsSent < MaxPackets
    /\ \E wire \in SeqNumbers :
         sent' = sent \cup {[number |-> NextNumber, seq |-> sequence, wire |-> wire]}
    /\ nPacketsSent' = nPacketsSent + 1
    /\ \/ sequence + 1 < SeqSize /\ sequence' = sequence + 1 /\ UNCHANGED seqWrap
       \/ sequence + 1 = SeqSize /\ sequence' = 0 /\ seqWrap' = seqWrap + 1
    /\ UNCHANGED <<now, lastPacketCount, tSRLastSent, rtt, srs, rrs, counts, answer,
                   reader, writer>>

(* isTimeForSR subtracts unsigned seconds: a time in the future, as         *)
(* RTPState::reset leaves it, is long past.                                 *)
IsTimeForSR == Sec(now) < tSRLastSent \/ Sec(now) - tSRLastSent >= Period

(* UdpWriter::run and handleRTCPSendSR: nothing without new audio.          *)
SendSR ==
    /\ IsTimeForSR /\ nPacketsSent # lastPacketCount
    /\ lastPacketCount' = nPacketsSent
    /\ tSRLastSent' = Sec(now)
    /\ \E ntp \in {RtpTime(now)} \cup Strays : srs' = srs \cup {[at |-> now, ntp |-> ntp]}
    /\ UNCHANGED <<now, sequence, seqWrap, nPacketsSent, rtt, sent, rrs, counts, answer,
                   reader, writer>>

(* handleRTCPRecv, an RR.                                                   *)
ReceiveRR(r) ==
    /\ \E lsr \in {r.LSR} \cup Strays, dlsr \in {r.DLSR} \cup Strays :
         rtt' = [at |-> now, rr |-> r, delay |-> (RtpTime(now) - lsr - dlsr) % LongMod,
                 sound |-> r.sound /\ lsr = r.LSR /\ dlsr = r.DLSR]
    /\ UNCHANGED <<now, sequence, seqWrap, nPacketsSent, lastPacketCount, tSRLastSent, network,
                   counts, answer, reader, writer>>

Talker == SendPacket \/ SendSR \/ \E r \in rrs \cup MisreadRRs : ReceiveRR(r)

--------------------------------------------------------------------------------
(* The listener's UdpReader.                                                *)

(* Mutant: the next number is counted on, not taken from the packet.        *)
ReceivePacketCountsOn(p) ==
    /\ reader = Idle
    /\ nPacketsRecvd < before.recvd + MaxReceived
    /\ \E seq \in SeqNumbers :
         /\ nPacketsLost' = IF seq # recvSeqNext /\ nPacketsRecvd > 0
                            THEN nPacketsLost + (seq - recvSeqNext) ELSE nPacketsLost
         /\ recvSeqNext' = recvSeqNext + 1
         /\ mixed' = (mixed \/ seq # p.seq)
    /\ nPacketsRecvd' = nPacketsRecvd + 1
    /\ firstNum' = IF nPacketsRecvd = 0 THEN p.number ELSE firstNum
    /\ lastNum' = p.number
    /\ highest' = IF p.number > highest THEN p.number ELSE highest
    /\ UNCHANGED <<now, talker, network, answer, reader, writer, before>>

(* handleRTPRecv with the number it finds in the formatter's buffer.        *)
(* recvSeqNext is an unsigned long: it is SeqSize after the last number, and *)
(* never 0 or less, which the code takes for the rollover.                  *)
ReceivePacket(p) ==
    /\ reader = Idle
    /\ nPacketsRecvd < before.recvd + MaxReceived
    /\ \E seq \in SeqNumbers :
         /\ nPacketsLost' = IF seq # recvSeqNext /\ nPacketsRecvd > 0
                            THEN nPacketsLost + (seq - recvSeqNext) ELSE nPacketsLost
         /\ recvSeqNext' = seq + 1
         /\ mixed' = (mixed \/ seq # p.seq)
    /\ nPacketsRecvd' = nPacketsRecvd + 1
    /\ firstNum' = IF nPacketsRecvd = 0 THEN p.number ELSE firstNum
    /\ lastNum' = p.number
    /\ highest' = IF p.number > highest THEN p.number ELSE highest
    /\ UNCHANGED <<now, talker, network, answer, reader, writer, before>>

(* handleRTCPRecv, an SR: the time of arrival is read before it is parsed.  *)
BeginSR(sr) ==
    /\ reader = Idle /\ nSRep < MaxReports
    /\ \E ntp \in {sr.ntp} \cup Strays :
         LSR' = ntp /\ lsrAt' = IF ntp = RtpTime(sr.at) THEN sr.at ELSE Earlier
    /\ nSRep' = nSRep + 1
    /\ reader' = [at |-> "LSR", sr |-> sr.at, arrived |-> HereTime]
    /\ UNCHANGED <<now, talker, network, counts, tLSRRecvd, sendRR, recvd, owed, writer>>

SRArrived ==
    /\ reader.at = "LSR"
    /\ tLSRRecvd' = RtpTime(reader.arrived) /\ recvd' = [sr |-> reader.sr, at |-> reader.arrived]
    /\ owed' = TRUE
    /\ reader' = [at |-> "tLSRRecvd"]
    /\ UNCHANGED <<now, talker, network, counts, LSR, sendRR, nSRep, lsrAt, writer>>

(* UdpReader::run.                                                          *)
EndSR ==
    /\ reader.at = "tLSRRecvd"
    /\ sendRR' = TRUE
    /\ reader' = Idle
    /\ UNCHANGED <<now, talker, network, counts, LSR, tLSRRecvd, nSRep, lsrAt, recvd, owed,
                   writer>>

UdpReader ==
    \/ \E p \in sent : ReceivePacket(p)
    \/ \E sr \in srs \cup MisreadSRs : BeginSR(sr)
    \/ SRArrived
    \/ EndSR

--------------------------------------------------------------------------------
(* The listener's UdpWriter: the test of sendRR, its reset, and the report. *)

TestRR ==
    /\ writer = Idle /\ sendRR
    /\ writer' = [at |-> "tested"]
    /\ UNCHANGED <<now, talker, network, counts, answer, reader>>

ClearRR ==
    /\ writer.at = "tested"
    /\ sendRR' = FALSE
    /\ writer' = [at |-> "cleared"]
    /\ UNCHANGED <<now, talker, network, counts, LSR, tLSRRecvd, nSRep, lsrAt, recvd, owed,
                   reader>>

(* handleRTCPSendRR: DLSR is computed from tLSRRecvd first; LSR is read     *)
(* after it.                                                                *)
BeginRR ==
    /\ writer.at = "cleared"
    /\ owed' = FALSE
    /\ writer' = [at |-> "DLSR", DLSR |-> (RtpTime(HereTime) - tLSRRecvd) % LongMod,
                  recvd |-> recvd, builtAt |-> HereTime]
    /\ UNCHANGED <<now, talker, network, counts, LSR, tLSRRecvd, sendRR, nSRep, lsrAt, recvd,
                   reader>>

(* What is sent of the report that was built.                               *)
Report(lsr, dlsr) ==
    [LSR |-> lsr, DLSR |-> dlsr, lsrAt |-> lsrAt, recvd |-> writer.recvd,
     builtAt |-> writer.builtAt,
     sound |-> lsr = LSR /\ dlsr = Wire(writer.DLSR) /\ lsrAt # Earlier
                         /\ writer.recvd.sr = lsrAt]

(* Mutant: the request is cleared when it is answered.                      *)
SendRRClears ==
    /\ writer.at = "DLSR"
    /\ \E lsr \in {LSR} \cup Strays, dlsr \in {Wire(writer.DLSR)} \cup Strays :
         rrs' = rrs \cup {Report(lsr, dlsr)}
    /\ writer' = Idle
    /\ sendRR' = FALSE
    /\ UNCHANGED <<now, talker, sent, srs, counts, LSR, tLSRRecvd, nSRep, lsrAt, recvd, owed,
                   reader>>

SendRR ==
    /\ writer.at = "DLSR"
    /\ \E lsr \in {LSR} \cup Strays, dlsr \in {Wire(writer.DLSR)} \cup Strays :
         rrs' = rrs \cup {Report(lsr, dlsr)}
    /\ writer' = Idle
    /\ UNCHANGED <<now, talker, sent, srs, counts, answer, reader>>

UdpWriter == TestRR \/ ClearRR \/ BeginRR \/ SendRR

Tick ==
    /\ now < MaxTime
    /\ now' = now + 1
    /\ UNCHANGED <<talker, network, counts, answer, reader, writer>>

RtpNext == Talker \/ UdpReader \/ UdpWriter \/ Tick

RtpSpec == RtpInit /\ [][RtpNext]_rtpVars

--------------------------------------------------------------------------------
(* The types of the variables.                                              *)
RtpTypeOK ==
    /\ now \in Nat
    /\ sequence \in SeqNumbers /\ seqWrap \in Nat
    /\ nPacketsSent \in Nat /\ lastPacketCount \in Int /\ tSRLastSent \in Int
    /\ recvSeqNext \in 0 .. SeqSize /\ nPacketsRecvd \in Nat /\ nPacketsLost \in Int
    /\ LSR \in Int /\ tLSRRecvd \in Int /\ sendRR \in BOOLEAN /\ nSRep \in Nat
    /\ before \in Before
    /\ firstNum \in Nat /\ lastNum \in Nat /\ highest \in Nat /\ mixed \in BOOLEAN
    /\ lsrAt \in Int /\ recvd \in Arrival /\ owed \in BOOLEAN
    /\ sent \subseteq Packet /\ srs \subseteq SR /\ rrs \subseteq RR
    /\ reader \in {Idle} \cup [at : {"LSR"}, sr : Int, arrived : Int]
                         \cup [at : {"tLSRRecvd"}]
    /\ writer \in {Idle} \cup [at : {"tested", "cleared"}]
                         \cup [at : {"DLSR"}, DLSR : Nat, recvd : Arrival, builtAt : Int]
    /\ rtt = Idle \/ rtt \in [at : Nat, rr : RR, delay : 0 .. LongMod - 1, sound : BOOLEAN]

(* What RFC 3550 calls the cumulative number of packets lost: those from    *)
(* the first one to the highest one received, less the packets received,    *)
(* which counts late and repeated ones.  nPacketsLost has grown by that     *)
(* whenever the highest packet is the last one received, although it is     *)
(* summed up packet by packet, and later goes down for late ones            *)
(* (handleRTPRecv).  Where an earlier call left its counts the first packet *)
(* is number 0.  It is so as long as no sequence number that was read was   *)
(* another than the one given to the packet, and none had wrapped: at a     *)
(* wrap the code counts SeqSize too little.                                  *)
LossExact ==
    ~ mixed /\ highest < SeqSize /\ nPacketsRecvd > before.recvd /\ lastNum = highest =>
        nPacketsLost - before.lost = highest + 1 - firstNum - (nPacketsRecvd - before.recvd)

(* An SR is never forgotten: as long as no RR was begun after it came, UdpWriter is   *)
(* asked for one, or has not looked at it yet, or is about to be asked.               *)
(* sendRR is set, tested and reset without a lock (UdpReader, UdpWriter); that it is  *)
(* reset before the report is built is what matters.                                  *)
SrRemembered ==
    owed => sendRR \/ writer.at \in {"tested", "cleared"} \/ reader.at = "tLSRRecvd"

--------------------------------------------------------------------------------
(* What README.txt says of the round-trip time, and the code does not keep. *)

(* The time the two reports were under way: between the clocks of the two   *)
(* hosts, without the time the listener took.                               *)
Flight == (rtt.at - rtt.rr.lsrAt) - (rtt.rr.builtAt - rtt.rr.recvd.at)

(* README.txt:67: the RTT is calculated as specified in RFC 3550.  From two *)
(* reports that no other thread disturbed on their way through a formatter, *)
(* and whose LSR and DLSR are of the same SR, the talker computes the time  *)
(* they were under way, in units of 2^16 microseconds, as it is printed.    *)
RttAsSpecified == rtt # Idle /\ rtt.sound => rtt.delay = Flight
================================================================================

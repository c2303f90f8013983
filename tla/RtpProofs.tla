------------------------------ MODULE RtpProofs ------------------------------
(***************************************************************************)
(* What Rtp promises for every size of the sequence number, every clock,   *)
(* every number of packets and reports, and whatever the two threads of a  *)
(* host do to each other's packets.                                        *)
(***************************************************************************)
EXTENDS Rtp, TLAPS

USE NumberAssumption DEF Idle, Packet, Arrival, SeqNumbers

(* What a disturbed report says are numbers, some report or none.           *)
LEMMA StraysType ==
    /\ \A x \in Strays : x \in Nat /\ x \in Int
    /\ MisreadSRs \subseteq SR /\ MisreadRRs \subseteq RR
<1>1. \A x \in Strays : x \in Nat
  BY Zenon DEF NumberAssumption
<1>2. \A x \in Strays : x \in Int
  BY <1>1
<1>3. Earlier \in Int /\ 0 \in Int /\ FALSE \in BOOLEAN
  BY DEF Earlier
<1>4. NoArrival \in Arrival
  BY <1>3 DEF NoArrival
<1>5. MisreadSRs \subseteq SR
  <2> SUFFICES ASSUME NEW sr \in MisreadSRs PROVE sr \in SR
    OBVIOUS
  <2> QED
    BY <1>1, <1>3, Zenon DEF MisreadSRs, SR
<1>6. MisreadRRs \subseteq RR
  <2> SUFFICES ASSUME NEW r \in MisreadRRs PROVE r \in RR
    OBVIOUS
  <2> QED
    BY <1>2, <1>3, <1>4 DEF MisreadRRs, RR
<1> QED
  BY <1>1, <1>2, <1>5, <1>6

(* A timestamp is a number.                                                 *)
LEMMA RtpTimeType ==
    ASSUME NEW t \in Int
    PROVE  RtpTime(t) \in Int /\ Sec(t) \in Int
<1>1. Sec(t) \in Int
  BY DEF Sec
<1>2. Sec(t) % SecMod \in Nat
  BY <1>1
<1>3. Unit * (Sec(t) % SecMod) \in Int /\ Ticks * Sec(t) \in Int
  BY <1>1, <1>2
<1> QED
  BY <1>1, <1>3 DEF RtpTime

(* What a host's own clock gives.                                           *)
LEMMA NowType ==
    ASSUME RtpTypeOK
    PROVE  /\ RtpTime(now) \in Nat /\ Sec(now) \in Int
           /\ HereTime \in Nat /\ RtpTime(HereTime) \in Int
<1>1. now \in Nat /\ HereTime \in Nat
  BY DEF RtpTypeOK, HereTime
<1>2. Sec(now) \in Int /\ Ticks * Sec(now) <= now
  BY <1>1 DEF Sec
<1>3. Sec(now) % SecMod \in Nat
  BY <1>2
<1>4. Unit * (Sec(now) % SecMod) \in Nat /\ Ticks * Sec(now) \in Int
  BY <1>2, <1>3
<1>5. RtpTime(now) \in Nat
  BY <1>1, <1>2, <1>4 DEF RtpTime
<1> QED
  BY <1>1, <1>2, <1>5, RtpTimeType

(* 32 bits of a number.                                                     *)
LEMMA WireType ==
    ASSUME NEW x \in Int
    PROVE  Wire(x) \in Nat
<1>1. Unit * SecMod \in Nat \ {0}
  OBVIOUS
<1> QED
  BY <1>1 DEF Wire

(* The number of the next packet: before the first wrap its sequence number.*)
LEMMA NextNumberType ==
    ASSUME sequence \in SeqNumbers, seqWrap \in Nat
    PROVE  /\ NextNumber \in Nat
           /\ NextNumber < SeqSize => NextNumber = sequence
<1>1. SeqSize * seqWrap \in Nat
  OBVIOUS
<1>2. seqWrap # 0 => SeqSize * seqWrap >= SeqSize
  OBVIOUS
<1> QED
  BY <1>1, <1>2 DEF NextNumber

(* RtpTypeOK holds in the initial states.                                   *)
LEMMA TypeInit == RtpInit => RtpTypeOK
<1> SUFFICES ASSUME RtpInit PROVE RtpTypeOK
  OBVIOUS
<1>1. /\ tSRLastSent \in Int /\ lastPacketCount \in Int
      /\ LSR \in Int /\ tLSRRecvd \in Int /\ sendRR \in BOOLEAN
  BY DEF RtpInit
<1>2. lsrAt \in Int /\ recvd \in Arrival /\ owed \in BOOLEAN
  BY <1>1 DEF RtpInit, Earlier, NoArrival
<1>3. nPacketsRecvd \in Nat /\ nPacketsLost \in Int
  BY DEF RtpInit
<1>4. 0 \in SeqNumbers /\ 0 \in 0 .. SeqSize
  OBVIOUS
<1> QED
  BY <1>1, <1>2, <1>3, <1>4 DEF RtpInit, RtpTypeOK

(* The talker's steps keep RtpTypeOK.                                       *)
LEMMA TypeTalker == RtpTypeOK /\ Talker => RtpTypeOK'
<1> SUFFICES ASSUME RtpTypeOK, Talker PROVE RtpTypeOK'
  OBVIOUS
<1>1. CASE SendPacket
  <2>1. NextNumber \in Nat
    BY NextNumberType DEF RtpTypeOK
  <2>2. sent' \subseteq Packet
    BY <1>1, <2>1 DEF SendPacket, RtpTypeOK
  <2>3. sequence' \in SeqNumbers /\ seqWrap' \in Nat /\ nPacketsSent' \in Nat
    BY <1>1 DEF SendPacket, RtpTypeOK
  <2> QED
    BY <1>1, <2>2, <2>3 DEF SendPacket, RtpTypeOK, counts, answer
<1>2. CASE SendSR
  <2>1. srs' \subseteq SR
    <3>1. PICK ntp \in {RtpTime(now)} \cup Strays : srs' = srs \cup {[at |-> now, ntp |-> ntp]}
      BY <1>2 DEF SendSR
    <3>2. ntp \in Nat /\ now \in Int
      <4>1. RtpTime(now) \in Nat /\ now \in Int
        BY NowType DEF RtpTypeOK
      <4>2. \A x \in {RtpTime(now)} \cup Strays : x \in Nat
        BY <4>1, StraysType, Zenon
      <4> QED
        BY <4>1, <4>2
    <3>3. [at |-> now, ntp |-> ntp] \in SR
      BY <3>2 DEF SR
    <3> QED
      BY <3>1, <3>3 DEF RtpTypeOK
  <2>2. tSRLastSent' \in Int /\ lastPacketCount' \in Int
    BY <1>2, NowType DEF SendSR, RtpTypeOK
  <2> QED
    BY <1>2, <2>1, <2>2 DEF SendSR, RtpTypeOK, counts, answer
<1>3. ASSUME NEW r \in rrs \cup MisreadRRs, ReceiveRR(r) PROVE RtpTypeOK'
  <2>1. r \in RR
    BY StraysType DEF RtpTypeOK
  <2>2. \A lsr \in {r.LSR} \cup Strays, dlsr \in {r.DLSR} \cup Strays :
            (RtpTime(now) - lsr - dlsr) % LongMod \in 0 .. LongMod - 1
    <3>1. \A x \in Int : x % LongMod \in 0 .. LongMod - 1
      OBVIOUS
    <3>2. \A lsr \in {r.LSR} \cup Strays, dlsr \in {r.DLSR} \cup Strays :
              lsr \in Int /\ dlsr \in Int
      BY <2>1, StraysType DEF RR
    <3>3. \A n, lsr, dlsr \in Int : n - lsr - dlsr \in Int
      OBVIOUS
    <3>4. RtpTime(now) \in Int
      BY NowType
    <3> QED
      BY <3>1, <3>2, <3>3, <3>4
  <2>3. \A lsr, dlsr : (r.sound /\ lsr = r.LSR /\ dlsr = r.DLSR) \in BOOLEAN
    BY <2>1 DEF RR
  <2>4. PICK lsr \in {r.LSR} \cup Strays, dlsr \in {r.DLSR} \cup Strays :
            rtt' = [at |-> now, rr |-> r, delay |-> (RtpTime(now) - lsr - dlsr) % LongMod,
                    sound |-> r.sound /\ lsr = r.LSR /\ dlsr = r.DLSR]
    BY <1>3 DEF ReceiveRR
  <2>5. rtt' \in [at : Nat, rr : RR, delay : 0 .. LongMod - 1, sound : BOOLEAN]
    BY <2>1, <2>2, <2>3, <2>4 DEF RtpTypeOK
  <2> QED
    BY <1>3, <2>5 DEF ReceiveRR, RtpTypeOK, network, counts, answer
<1> QED
  BY <1>1, <1>2, <1>3 DEF Talker

(* UdpReader's steps keep RtpTypeOK.                                        *)
LEMMA TypeReader == RtpTypeOK /\ UdpReader => RtpTypeOK'
<1> SUFFICES ASSUME RtpTypeOK, UdpReader PROVE RtpTypeOK'
  OBVIOUS
<1>1. ASSUME NEW p \in sent, ReceivePacket(p) PROVE RtpTypeOK'
  <2>1. p \in Packet
    BY DEF RtpTypeOK
  <2>2. PICK seq \in SeqNumbers :
            /\ nPacketsLost' = IF seq # recvSeqNext /\ nPacketsRecvd > 0
                               THEN nPacketsLost + (seq - recvSeqNext) ELSE nPacketsLost
            /\ recvSeqNext' = seq + 1
            /\ mixed' = (mixed \/ seq # p.seq)
    BY <1>1 DEF ReceivePacket
  <2>3. nPacketsLost' \in Int /\ recvSeqNext' \in 0 .. SeqSize /\ mixed' \in BOOLEAN
    BY <2>2 DEF RtpTypeOK
  <2>4. /\ nPacketsRecvd' \in Nat /\ firstNum' \in Nat /\ lastNum' \in Nat
        /\ highest' \in Nat /\ before' \in Before
    BY <1>1, <2>1 DEF ReceivePacket, RtpTypeOK
  <2> QED
    BY <1>1, <2>3, <2>4 DEF ReceivePacket, RtpTypeOK, talker, network, answer
<1>2. ASSUME NEW sr \in srs \cup MisreadSRs, BeginSR(sr) PROVE RtpTypeOK'
  <2>1. sr.at \in Int /\ sr.ntp \in Nat
    <3>1. sr \in SR
      BY StraysType DEF RtpTypeOK
    <3> QED
      BY <3>1 DEF SR
  <2>2. LSR' \in Int /\ lsrAt' \in Int
    <3>1. PICK ntp \in {sr.ntp} \cup Strays :
              LSR' = ntp /\ lsrAt' = IF ntp = RtpTime(sr.at) THEN sr.at ELSE Earlier
      BY <1>2 DEF BeginSR
    <3>2. ntp \in Int /\ Earlier \in Int
      <4>1. sr.ntp \in Int
        BY <2>1
      <4>2. \A x \in {sr.ntp} \cup Strays : x \in Int
        BY <4>1, StraysType, Zenon
      <4> QED
        BY <4>2 DEF Earlier
    <3> QED
      BY <2>1, <3>1, <3>2
  <2>3. reader' \in [at : {"LSR"}, sr : Int, arrived : Int] /\ nSRep' \in Nat
    BY <1>2, <2>1, NowType DEF BeginSR, RtpTypeOK
  <2> QED
    BY <1>2, <2>2, <2>3 DEF BeginSR, RtpTypeOK, talker, network, counts
<1>3. CASE SRArrived
  <2>1. reader \in [at : {"LSR"}, sr : Int, arrived : Int]
    BY <1>3 DEF SRArrived, RtpTypeOK
  <2>2. RtpTime(reader.arrived) \in Int
    BY <2>1, RtpTimeType
  <2> QED
    BY <1>3, <2>1, <2>2 DEF SRArrived, RtpTypeOK, talker, network, counts
<1>4. CASE EndSR
  BY <1>4 DEF EndSR, RtpTypeOK, talker, network, counts
<1> QED
  BY <1>1, <1>2, <1>3, <1>4 DEF UdpReader

(* What SendRR sends has the type of a report.                              *)
LEMMA ReportType ==
    ASSUME RtpTypeOK, writer.at = "DLSR",
           NEW lsr \in {LSR} \cup Strays, NEW dlsr \in {Wire(writer.DLSR)} \cup Strays
    PROVE  Report(lsr, dlsr) \in RR
<1>1. writer \in [at : {"DLSR"}, DLSR : Nat, recvd : Arrival, builtAt : Int]
  BY DEF RtpTypeOK
<1>2. Wire(writer.DLSR) \in Int /\ LSR \in Int /\ lsrAt \in Int
  BY <1>1, WireType DEF RtpTypeOK
<1>3. lsr \in Int /\ dlsr \in Int /\ writer.recvd \in Arrival /\ writer.builtAt \in Int
  BY <1>1, <1>2, StraysType
<1> DEFINE sound == lsr = LSR /\ dlsr = Wire(writer.DLSR) /\ lsrAt # Earlier
                        /\ writer.recvd.sr = lsrAt
<1>4. sound \in BOOLEAN
  OBVIOUS
<1>5. Report(lsr, dlsr) = [LSR |-> lsr, DLSR |-> dlsr, lsrAt |-> lsrAt, recvd |-> writer.recvd,
                           builtAt |-> writer.builtAt, sound |-> sound]
  BY DEF Report
<1> HIDE DEF sound
<1> QED
  BY <1>2, <1>3, <1>4, <1>5 DEF RR

(* UdpWriter's steps keep RtpTypeOK.                                        *)
LEMMA TypeWriter == RtpTypeOK /\ UdpWriter => RtpTypeOK'
<1> SUFFICES ASSUME RtpTypeOK, UdpWriter PROVE RtpTypeOK'
  OBVIOUS
<1>1. CASE TestRR
  BY <1>1 DEF TestRR, RtpTypeOK, talker, network, counts, answer
<1>2. CASE ClearRR
  BY <1>2 DEF ClearRR, RtpTypeOK, talker, network, counts
<1>3. CASE BeginRR
  <2>1. (RtpTime(HereTime) - tLSRRecvd) % LongMod \in Nat
    BY NowType DEF RtpTypeOK
  <2>2. writer' \in [at : {"DLSR"}, DLSR : Nat, recvd : Arrival, builtAt : Int]
    BY <1>3, <2>1, NowType DEF BeginRR, RtpTypeOK
  <2> QED
    BY <1>3, <2>2 DEF BeginRR, RtpTypeOK, talker, network, counts
<1>4. CASE SendRR
  <2>1. rrs' \subseteq RR
    BY <1>4, ReportType DEF SendRR, RtpTypeOK
  <2> QED
    BY <1>4, <2>1 DEF SendRR, RtpTypeOK, talker, counts, answer
<1> QED
  BY <1>1, <1>2, <1>3, <1>4 DEF UdpWriter

(* Every step keeps RtpTypeOK.                                              *)
LEMMA TypeNext == RtpTypeOK /\ [RtpNext]_rtpVars => RtpTypeOK'
<1> SUFFICES ASSUME RtpTypeOK, [RtpNext]_rtpVars PROVE RtpTypeOK'
  OBVIOUS
<1>1. CASE Tick
  BY <1>1 DEF Tick, RtpTypeOK, talker, network, counts, answer
<1>2. CASE UNCHANGED rtpVars
  BY <1>2 DEF rtpVars, RtpTypeOK, talker, network, counts, answer
<1> QED
  BY <1>1, <1>2, TypeTalker, TypeReader, TypeWriter DEF RtpNext

(* The counters, the reports and what the threads are at have their types.  *)
THEOREM TypeCorrect == RtpSpec => []RtpTypeOK
BY TypeInit, TypeNext, PTL DEF RtpSpec

--------------------------------------------------------------------------------
(* Why LossExact holds: before the first wrap a packet's sequence number is *)
(* its number, and the differences between those of successive packets add  *)
(* up.  highest only grows, so that no packet of a wrap was received before.*)
LossInv ==
    /\ \A p \in sent : p.number < SeqSize => p.seq = p.number
    /\ nPacketsRecvd >= before.recvd
    /\ firstNum <= highest /\ lastNum <= highest
    /\ ~ mixed /\ nPacketsRecvd = before.recvd =>
           nPacketsLost = before.lost /\ recvSeqNext = 0 /\ firstNum = 0
    /\ ~ mixed /\ highest < SeqSize /\ nPacketsRecvd > before.recvd =>
           /\ recvSeqNext = lastNum + 1
           /\ nPacketsLost - before.lost =
                  lastNum + 1 - firstNum - (nPacketsRecvd - before.recvd)

(* Before the first packet nothing is lost.                                 *)
LEMMA LossInit == RtpInit => LossInv
<1> SUFFICES ASSUME RtpInit PROVE LossInv
  OBVIOUS
<1>1. before.recvd \in Nat /\ before.lost \in Int
  BY DEF RtpInit
<1> QED
  BY <1>1 DEF RtpInit, LossInv

(* A packet adds the difference between its number and the one expected.    *)
LEMMA LossReceive ==
    ASSUME RtpTypeOK, LossInv, NEW p \in sent, ReceivePacket(p)
    PROVE  LossInv'
<1>1. /\ before.recvd \in Nat /\ before.lost \in Int /\ before' = before /\ sent' = sent
      /\ nPacketsRecvd \in Nat /\ nPacketsLost \in Int /\ recvSeqNext \in Int
      /\ firstNum \in Nat /\ lastNum \in Nat /\ highest \in Nat /\ p \in Packet
  BY DEF RtpTypeOK, ReceivePacket, network
<1>2. PICK seq \in SeqNumbers :
          /\ nPacketsLost' = IF seq # recvSeqNext /\ nPacketsRecvd > 0
                             THEN nPacketsLost + (seq - recvSeqNext) ELSE nPacketsLost
          /\ recvSeqNext' = seq + 1
          /\ mixed' = (mixed \/ seq # p.seq)
  BY DEF ReceivePacket
<1>3. /\ nPacketsRecvd' = nPacketsRecvd + 1 /\ lastNum' = p.number
      /\ firstNum' = IF nPacketsRecvd = 0 THEN p.number ELSE firstNum
      /\ highest' = IF p.number > highest THEN p.number ELSE highest
  BY DEF ReceivePacket
<1>4. /\ nPacketsRecvd >= before.recvd /\ firstNum <= highest /\ lastNum <= highest
      /\ p.number \in Nat /\ (p.number < SeqSize => p.seq = p.number)
  BY <1>1 DEF LossInv
<1>5. /\ nPacketsRecvd' > before'.recvd
      /\ firstNum' <= highest' /\ lastNum' <= highest' /\ p.number <= highest'
  BY <1>1, <1>3, <1>4
<1>6. CASE mixed' \/ ~ highest' < SeqSize
  BY <1>1, <1>3, <1>5, <1>6 DEF LossInv
<1>7. CASE ~ mixed' /\ highest' < SeqSize
  <2>1. ~ mixed /\ highest < SeqSize /\ seq = p.number /\ seq \in Nat
    <3>1. ~ mixed /\ seq = p.seq
      BY <1>2, <1>7
    <3>2. highest < SeqSize /\ p.number < SeqSize
      BY <1>1, <1>3, <1>4, <1>5, <1>7
    <3> QED
      BY <1>4, <3>1, <3>2
  <2>2. nPacketsLost' - before'.lost =
            lastNum' + 1 - firstNum' - (nPacketsRecvd' - before'.recvd)
    <3>1. CASE nPacketsRecvd = 0
      <4>1. nPacketsRecvd = before.recvd /\ nPacketsLost = before.lost
        BY <1>1, <1>4, <2>1, <3>1 DEF LossInv
      <4> QED
        BY <1>1, <1>2, <1>3, <1>4, <3>1, <4>1
    <3>2. CASE nPacketsRecvd # 0 /\ nPacketsRecvd = before.recvd
      <4>1. nPacketsLost = before.lost /\ recvSeqNext = 0 /\ firstNum = 0
        BY <2>1, <3>2 DEF LossInv
      <4> QED
        BY <1>1, <1>2, <1>3, <1>4, <2>1, <3>2, <4>1
    <3>3. CASE nPacketsRecvd # 0 /\ nPacketsRecvd > before.recvd
      <4>1. /\ recvSeqNext = lastNum + 1
            /\ nPacketsLost - before.lost =
                   lastNum + 1 - firstNum - (nPacketsRecvd - before.recvd)
        BY <2>1, <3>3 DEF LossInv
      <4> QED
        BY <1>1, <1>2, <1>3, <1>4, <2>1, <3>3, <4>1
    <3> QED
      BY <1>1, <1>4, <3>1, <3>2, <3>3
  <2>3. recvSeqNext' = lastNum' + 1
    BY <1>2, <1>3, <2>1
  <2> QED
    BY <1>1, <1>3, <1>4, <1>5, <2>2, <2>3 DEF LossInv
<1> QED
  BY <1>6, <1>7

(* No other step touches the counts; a packet that is sent has its number.  *)
LEMMA LossNext == RtpTypeOK /\ LossInv /\ [RtpNext]_rtpVars => LossInv'
<1> SUFFICES ASSUME RtpTypeOK, LossInv, [RtpNext]_rtpVars PROVE LossInv'
  OBVIOUS
<1>1. ASSUME UNCHANGED counts, UNCHANGED sent PROVE LossInv'
  BY <1>1 DEF LossInv, counts
<1>2. CASE SendPacket
  <2>1. \A p \in sent' : p.number < SeqSize => p.seq = p.number
    BY <1>2, NextNumberType DEF SendPacket, LossInv, RtpTypeOK
  <2> QED
    BY <1>2, <2>1 DEF SendPacket, LossInv, counts
<1>3. CASE Talker
  BY <1>1, <1>2, <1>3 DEF Talker, SendSR, ReceiveRR, network
<1>4. CASE UdpReader
  BY <1>1, <1>4, LossReceive DEF UdpReader, BeginSR, SRArrived, EndSR, network
<1>5. CASE UdpWriter
  BY <1>1, <1>5 DEF UdpWriter, TestRR, ClearRR, BeginRR, SendRR, network
<1> QED
  BY <1>1, <1>3, <1>4, <1>5 DEF RtpNext, Tick, rtpVars, network

(* When the last packet is the highest, this is what is missing.            *)
LEMMA LossImplied == RtpTypeOK /\ LossInv => LossExact
<1> SUFFICES ASSUME RtpTypeOK, LossInv, ~ mixed, highest < SeqSize,
                    nPacketsRecvd > before.recvd, lastNum = highest
             PROVE  nPacketsLost - before.lost =
                        highest + 1 - firstNum - (nPacketsRecvd - before.recvd)
  BY DEF LossExact
<1> QED
  BY DEF LossInv

(* The packets counted as lost are those RFC 3550 counts, before a wrap.    *)
THEOREM LossIsExact == RtpSpec => []LossExact
<1>1. RtpSpec => [](RtpTypeOK /\ LossInv)
  BY TypeInit, TypeNext, LossInit, LossNext, PTL DEF RtpSpec
<1> QED
  BY <1>1, LossImplied, PTL

--------------------------------------------------------------------------------
(* A request for an RR is not lost while UdpWriter resets sendRR: it is     *)
(* reset before the report is begun that answers the request.               *)
THEOREM RequestsRemembered == RtpSpec => []SrRemembered
<1>1. RtpInit => SrRemembered
  BY DEF RtpInit, SrRemembered
<1>2. SrRemembered /\ [RtpNext]_rtpVars => SrRemembered'
  <2> SUFFICES ASSUME SrRemembered, [RtpNext]_rtpVars PROVE SrRemembered'
    OBVIOUS
  <2> USE DEF SrRemembered, answer
  <2>1. CASE Talker
    BY <2>1 DEF Talker, SendPacket, SendSR, ReceiveRR
  <2>2. CASE UdpReader
    <3>1. ASSUME NEW p \in sent, ReceivePacket(p) PROVE SrRemembered'
      BY <3>1 DEF ReceivePacket
    <3>2. ASSUME NEW sr \in srs \cup MisreadSRs, BeginSR(sr) PROVE SrRemembered'
      BY <3>2 DEF BeginSR
    <3>3. CASE SRArrived
      BY <3>3 DEF SRArrived
    <3>4. CASE EndSR
      BY <3>4 DEF EndSR
    <3> QED
      BY <2>2, <3>1, <3>2, <3>3, <3>4 DEF UdpReader
  <2>3. CASE UdpWriter
    <3>1. CASE TestRR
      BY <3>1 DEF TestRR
    <3>2. CASE ClearRR
      BY <3>2 DEF ClearRR
    <3>3. CASE BeginRR
      BY <3>3 DEF BeginRR
    <3>4. CASE SendRR
      <4>1. UNCHANGED answer /\ UNCHANGED reader /\ writer.at = "DLSR"
        BY <3>4 DEF SendRR
      <4> QED
        BY <4>1
    <3> QED
      BY <2>3, <3>1, <3>2, <3>3, <3>4 DEF UdpWriter
  <2>4. CASE Tick \/ UNCHANGED rtpVars
    BY <2>4 DEF Tick, rtpVars
  <2> QED
    BY <2>1, <2>2, <2>3, <2>4 DEF RtpNext
<1> QED
  BY <1>1, <1>2, PTL DEF RtpSpec
================================================================================

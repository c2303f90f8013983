--------------------------------- MODULE Sdp ---------------------------------
(***************************************************************************)
(* Session descriptions (SDP.cpp): SDPHandler::write makes lines of a      *)
(* packet, SDPHandler::read takes them apart again, one at a time, and     *)
(* rejects what is out of order.  A line is its key; a value is known by   *)
(* the number of its line.  Values are well-formed; read is given a packet *)
(* that nothing was read into before.                                      *)
(***************************************************************************)
EXTENDS Integers, Sequences, FiniteSets, SequencesExt

CONSTANTS
    Messages,       \* what may be read: sequences of keys
    Descriptions    \* what may be written

(* A description to be written: the optional fields that are set, whether   *)
(* its connection has a TTL or a number of addresses, how many attributes   *)
(* and times there are, and whether it has an owner and a name.  A media    *)
(* description may have a key.                                              *)
MediaDescribed ==
    [keys : SUBSET {"i", "c", "b"}, multicast : BOOLEAN, key : BOOLEAN, attribs : Nat]
Described ==
    [keys : SUBSET {"i", "u", "e", "p", "c", "b", "z", "k"}, multicast : BOOLEAN,
     complete : BOOLEAN, attribs : Nat, times : Nat, media : Seq(MediaDescribed)]

ASSUME MessageAssumption == Messages \subseteq Seq(STRING)
ASSUME DescriptionAssumption == Descriptions \subseteq Described

VARIABLES
    message,        \* the lines that are read
    line,           \* the number of the next one
    oldIndex, prev, bMediaStarted, bReqdDone,   \* what read remembers of the lines before
    packet,         \* the packet they are put in
    ret             \* what read returned, or Reading

readState == <<oldIndex, prev, bMediaStarted, bReqdDone>>
sdpVars == <<message, line, readState, packet, ret>>

Reading == 1

SDPFields ==
    <<"v", "o", "s", "i", "u", "e", "p", "c", "b", "t", "r", "z", "k", "a",
      "m", "i", "c", "b", "k", "a">>

(* Stands for every key of more than one character.                         *)
Long == "/"

SDPMediaFields == {"m", "i", "c", "b", "k", "a"}

(* indexOf and lastIndexOf, from 0; of a key that is not there they are the *)
(* difference of a null pointer and an address, cut to an int.              *)
Places(key) == {i \in 1 .. Len(SDPFields) : SDPFields[i] = key}
Unknown == {-1, 99}
indexOf(key) == IF Places(key) = {} THEN Unknown ELSE {Min(Places(key)) - 1}
lastIndexOf(key) == IF Places(key) = {} THEN Unknown ELSE {Max(Places(key)) - 1}

--------------------------------------------------------------------------------
(* Packets.  Fields that are set once are numbers of lines, 0 for none.     *)

SessionKeys == {"v", "o", "s", "i", "u", "e", "p", "c", "b", "z", "k"}
MediaKeys == {"m", "i", "c", "b", "k"}
NewMedia == [fields |-> [key \in MediaKeys |-> 0], attribs |-> <<>>]
NewPacket == [fields |-> [key \in SessionKeys |-> 0], attribs |-> <<>>, times |-> <<>>,
              media |-> <<>>, nConnInfo |-> 0]

(* setField of a packet or of a media description; addAttribute for an "a". *)
SetField(desc, key, n) ==
    IF key = "a" THEN [desc EXCEPT !.attribs = Append(@, n)]
    ELSE IF key \in DOMAIN desc.fields THEN [desc EXCEPT !.fields[key] = n] ELSE desc

SetSession(key, n) ==
    [SetField(packet, key, n) EXCEPT !.nConnInfo = IF key = "c" THEN @ + 1 ELSE @]

(* Mutant: everything goes to the first media description.                  *)
SetMediaFirst(key, n) ==
    LET media == IF key = "m" THEN Append(packet.media, NewMedia) ELSE packet.media
    IN  [packet EXCEPT !.media = [media EXCEPT ![1] = SetField(@, key, n)]]

SetMedia(key, n) ==
    LET media == IF key = "m" THEN Append(packet.media, NewMedia) ELSE packet.media
    IN  [packet EXCEPT !.media = [media EXCEPT ![Len(media)] = SetField(@, key, n)]]

(* What write leaves of a packet that has these fields.  The TTL and the     *)
(* number of addresses are put after the end of the connection's line, so   *)
(* that the line that follows, if there is one, begins with them.  Every    *)
(* time has a repeat; a media description gets a key when the session has   *)
(* one, be it a null pointer.                                               *)
Field(key, keys) == IF key \in keys THEN <<key>> ELSE <<>>
Connection(desc) ==
    Field("c", desc.keys)
        \o (IF "c" \in desc.keys /\ desc.multicast THEN <<Long>> ELSE <<>>)
Repeat(key, n) == [i \in 1 .. n |-> key]
WriteSession(desc) ==
    <<"v", "o", "s">> \o Field("i", desc.keys) \o Field("u", desc.keys)
        \o Field("e", desc.keys) \o Field("p", desc.keys) \o Connection(desc)
        \o Field("b", desc.keys) \o Field("z", desc.keys) \o Field("k", desc.keys)
        \o Repeat("a", desc.attribs)
WriteTimes(n) == [i \in 1 .. 2 * n |-> IF i % 2 = 1 THEN "t" ELSE "r"]
WriteMedia(desc, sessionKeys) ==
    <<"m">> \o Field("i", desc.keys) \o Connection(desc) \o Field("b", desc.keys)
        \o Field("k", sessionKeys) \o Repeat("a", desc.attribs)

(* What is written after n media descriptions, and after all of them.       *)
Written(desc) ==
    LET upTo[n \in 0 .. Len(desc.media)] ==
            IF n = 0 THEN WriteSession(desc) \o WriteTimes(desc.times)
            ELSE upTo[n - 1] \o WriteMedia(desc.media[n], desc.keys)
    IN  upTo

(* Without an owner or a name write returns -8 before it writes anything.   *)
write ==
    [desc \in Descriptions |-> IF desc.complete THEN Written(desc)[Len(desc.media)] ELSE <<>>]

--------------------------------------------------------------------------------
SdpInit ==
    /\ message \in Messages
    /\ line = 1
    /\ oldIndex = 0 /\ prev = "v" /\ bMediaStarted = FALSE /\ bReqdDone = FALSE
    /\ packet = NewPacket
    /\ ret = Reading

key == message[line]
Here == ret = Reading /\ line <= Len(message)

(* Why a line is refused, 0 if it is not: it has no such key (-1); it is    *)
(* out of order (-2 to -4); the session has no name yet (-5); it repeats no *)
(* time (-6).                                                               *)
Refused(index) ==
    IF key = Long THEN -1
    ELSE IF bMediaStarted /\ index < oldIndex /\ key # "m" THEN IF index < 0 THEN -2 ELSE -3
    ELSE IF ~ bMediaStarted /\ index < oldIndex THEN -4
    ELSE IF ~ bReqdDone /\ index > 2 THEN -5
    ELSE IF key = "r" /\ prev # "t" THEN -6 ELSE 0

(* Mutant: the fields of a media description are looked up among those of    *)
(* the session.                                                             *)
SessionIndex == indexOf(key)

Index == IF bMediaStarted THEN lastIndexOf(key) ELSE indexOf(key)

Refuse(index) ==
    /\ Refused(index) # 0
    /\ ret' = Refused(index)
    /\ UNCHANGED <<message, line, readState, packet>>

(* What every accepted line changes.                                        *)
Accept(index, old) ==
    /\ Refused(index) = 0
    /\ line' = line + 1
    /\ oldIndex' = old /\ prev' = key
    /\ bMediaStarted' = (bMediaStarted \/ key = "m")
    /\ bReqdDone' = (bReqdDone \/ index = 2)
    /\ UNCHANGED <<message, ret>>

(* Mutant: after a repeat, no other time may come.                          *)
ReadTimeOnce(index) ==
    \/ /\ key = "t" /\ Accept(index, 10)
       /\ packet' = [packet EXCEPT !.times = Append(@, [t |-> line, r |-> 0])]
    \/ /\ key = "r" /\ Accept(index, 10)
       /\ packet' = [packet EXCEPT !.times[Len(packet.times)].r = line]

(* After a repeat, a line may go back as far as b.                          *)
ReadTime(index) ==
    \/ /\ key = "t" /\ Accept(index, 10)
       /\ packet' = [packet EXCEPT !.times = Append(@, [t |-> line, r |-> 0])]
    \/ /\ key = "r" /\ Accept(index, 8)
       /\ packet' = [packet EXCEPT !.times[Len(packet.times)].r = line]

(* There may be several attributes.                                         *)
Old(index) == IF key = "a" THEN index - 1 ELSE index

ReadMedia(index) ==
    /\ key \in SDPMediaFields /\ (bMediaStarted \/ key = "m")
    /\ Accept(index, Old(index))
    /\ packet' = SetMedia(key, line)

ReadSession(index) ==
    /\ key \notin {"t", "r", "m"} /\ ~ (bMediaStarted /\ key \in SDPMediaFields)
    /\ Accept(index, Old(index))
    /\ packet' = SetSession(key, line)

(* The end: there must be a connection, and of the session, since one of a  *)
(* media description is not there yet when it is counted.                   *)
Finish ==
    /\ ret = Reading /\ line > Len(message)
    /\ ret' = IF packet.nConnInfo < 1 THEN -7 ELSE 0
    /\ UNCHANGED <<message, line, readState, packet>>

SdpNext ==
    \/ Here /\ \E index \in Index :
          Refuse(index) \/ ReadTime(index) \/ ReadMedia(index) \/ ReadSession(index)
    \/ Finish

SdpSpec == SdpInit /\ [][SdpNext]_sdpVars

--------------------------------------------------------------------------------
Lines == 0 .. Len(message)
Fields(keys) == [keys -> Lines]
Media == [fields : Fields(MediaKeys), attribs : Seq(Lines)]
Packets == [fields : Fields(SessionKeys), attribs : Seq(Lines),
            times : Seq([t : Lines, r : Lines]), media : Seq(Media), nConnInfo : Lines]

(* The types of the variables: read never loses its place in the order of   *)
(* lines, and the packet has lines of the message only (SDPHandler::read).  *)
SdpTypeOK ==
    /\ line \in 1 .. Len(message) + 1
    /\ oldIndex \in 0 .. 99 /\ bMediaStarted \in BOOLEAN /\ bReqdDone \in BOOLEAN
    /\ packet \in Packets
    /\ ret \in {Reading} \cup -7 .. 0

(* The media description that line n is of, 0 for the session.              *)
SectionOf(n) == Cardinality({i \in 1 .. n : message[i] = "m"})

(* Line n is where it belongs: a repeat is with the time before it, and a  *)
(* field has the value of a line of its own description, this one or a      *)
(* later one that replaced it.                                              *)
Filed(n) ==
    LET section == SectionOf(n)
        desc == IF section = 0 THEN packet ELSE packet.media[section]
    IN  CASE message[n] = "t" -> \E i \in DOMAIN packet.times : packet.times[i].t = n
          [] message[n] = "r" -> \E i \in DOMAIN packet.times :
                                    packet.times[i] = [t |-> n - 1, r |-> n]
          [] message[n] = "a" -> \E i \in DOMAIN desc.attribs : desc.attribs[i] = n
          [] Places(message[n]) = {} -> TRUE
          [] OTHER -> /\ desc.fields[message[n]] >= n
                      /\ message[desc.fields[message[n]]] = message[n]
                      /\ SectionOf(desc.fields[message[n]]) = section

(* Of a message that read accepts no line is lost or put in another         *)
(* description than the one it stands in (SDPHandler::read).                *)
LinesFiled == ret = 0 => \A n \in 1 .. Len(message) : Filed(n)

(* The lines of a description come in the order of SDPFields, a repeat      *)
(* right after its time and the next time after that; there are only keys   *)
(* the description may have, and the session has a name and a connection.   *)
Rank(n) ==
    CASE message[n] = "r" -> Min(Places("t"))
      [] message[n] # "r" /\ SectionOf(n) = 0 -> Min(Places(message[n]))
      [] message[n] # "r" /\ SectionOf(n) > 0 -> Max(Places(message[n]))

InOrder ==
    LET lines == 1 .. Len(message) IN
    /\ \A n \in lines :
          /\ message[n] \in IF SectionOf(n) = 0 THEN Range(SDPFields) ELSE SDPMediaFields
          /\ n > 1 /\ message[n] \in {"t", "r"} => (message[n] = "r" <=> message[n - 1] = "t")
    /\ \A n, k \in lines : n < k /\ SectionOf(n) = SectionOf(k) => Rank(n) <= Rank(k)
    /\ \A k \in {"s", "c"} : \E n \in lines : message[n] = k /\ SectionOf(n) = 0

(* read refuses no message that is in this order, whatever other lines, and *)
(* however many times, attributes and media descriptions it has             *)
(* (SDPHandler::read).                                                      *)
OrderAccepted == InOrder => ret \in {Reading, 0}

(* What read has found.                                                     *)
Found(fields) == {key_ \in DOMAIN fields : fields[key_] > 0}
Matches(desc) ==
    /\ Found(packet.fields) = {"v", "o", "s"} \cup desc.keys
    /\ Len(packet.attribs) = desc.attribs
    /\ Len(packet.times) = desc.times
    /\ Len(packet.media) = Len(desc.media)
    /\ \A i \in DOMAIN desc.media :
           /\ Found(packet.media[i].fields) =
                  {"m"} \cup desc.media[i].keys \cup (IF desc.media[i].key THEN {"k"} ELSE {})
           /\ Len(packet.media[i].attribs) = desc.media[i].attribs

(* Of what write writes, read can make the same again only if: the session  *)
(* has an owner, a name and a connection; no connection has a TTL or a      *)
(* number of addresses; no time comes after a time zone, a key or an        *)
(* attribute; and its media have keys if and only if it has one.            *)
Readable(desc) ==
    /\ desc.complete /\ "c" \in desc.keys /\ ~ desc.multicast
    /\ desc.times > 0 => desc.attribs = 0 /\ "z" \notin desc.keys /\ "k" \notin desc.keys
    /\ \A i \in DOMAIN desc.media :
          /\ ~ ("c" \in desc.media[i].keys /\ desc.media[i].multicast)
          /\ desc.media[i].key <=> "k" \in desc.keys

(* read accepts what write wrote and finds every field, attribute, time and *)
(* media description in it that there was, in the description it was of, if *)
(* and only if the description was readable; the one a UserAgent offers is. *)
AllRoundTrip ==
    ret # Reading =>
        \A desc \in Descriptions :
            message = write[desc] => (ret = 0 /\ Matches(desc) <=> Readable(desc))
================================================================================

------------------------------- MODULE SdpProofs -------------------------------
(***************************************************************************)
(* Proofs about Sdp: of a message of any length, read files every line of  *)
(* it in the description the line stands in, or refuses the message.       *)
(***************************************************************************)
EXTENDS Sdp, SequenceTheorems, FiniteSetTheorems, WellFoundedInduction, TLAPS

--------------------------------------------------------------------------------
(* The order of lines.                                                      *)

SessionOnly == {"v", "o", "s", "u", "e", "p", "t", "r", "z"}

(* Where a key is in the table SDPFields: twice if media descriptions have  *)
(* it too.                                                                  *)
LEMMA KeyPlaces ==
    ASSUME NEW k
    PROVE  /\ k \in SessionOnly => \E i \in 1 .. 12 : Places(k) = {i}
           /\ k = "v" => Places(k) = {1}
           /\ k = "o" => Places(k) = {2}
           /\ k = "s" => Places(k) = {3}
           /\ k = "u" => Places(k) = {5}
           /\ k = "e" => Places(k) = {6}
           /\ k = "p" => Places(k) = {7}
           /\ k = "t" => Places(k) = {10}
           /\ k = "z" => Places(k) = {12}
           /\ k = "m" => Places(k) = {15}
           /\ k = "i" => Places(k) = {4, 16}
           /\ k = "c" => Places(k) = {8, 17}
           /\ k = "b" => Places(k) = {9, 18}
           /\ k = "k" => Places(k) = {13, 19}
           /\ k = "a" => Places(k) = {14, 20}
           /\ k \notin SessionOnly \cup SDPMediaFields => Places(k) = {}
<1>1. /\ Len(SDPFields) = 20
      /\ SDPFields[1] = "v" /\ SDPFields[2] = "o" /\ SDPFields[3] = "s" /\ SDPFields[4] = "i"
      /\ SDPFields[5] = "u" /\ SDPFields[6] = "e" /\ SDPFields[7] = "p" /\ SDPFields[8] = "c"
      /\ SDPFields[9] = "b" /\ SDPFields[10] = "t" /\ SDPFields[11] = "r"
      /\ SDPFields[12] = "z" /\ SDPFields[13] = "k" /\ SDPFields[14] = "a"
      /\ SDPFields[15] = "m" /\ SDPFields[16] = "i" /\ SDPFields[17] = "c"
      /\ SDPFields[18] = "b" /\ SDPFields[19] = "k" /\ SDPFields[20] = "a"
  BY DEF SDPFields
<1>2. \A i \in 1 .. 20 :
         \/ i = 1 \/ i = 2 \/ i = 3 \/ i = 4 \/ i = 5 \/ i = 6 \/ i = 7 \/ i = 8 \/ i = 9
         \/ i = 10 \/ i = 11 \/ i = 12 \/ i = 13 \/ i = 14 \/ i = 15 \/ i = 16 \/ i = 17
         \/ i = 18 \/ i = 19 \/ i = 20
  OBVIOUS
<1>3. Places(k) = {i \in 1 .. 20 : SDPFields[i] = k}
  BY <1>1 DEF Places
<1>4. k = "t" => Places(k) = {10}
  BY <1>1, <1>2, <1>3
<1>5. k = "m" => Places(k) = {15}
  BY <1>1, <1>2, <1>3
<1>6. k = "i" => Places(k) = {4, 16}
  BY <1>1, <1>2, <1>3
<1>7. k = "c" => Places(k) = {8, 17}
  BY <1>1, <1>2, <1>3
<1>8. k = "b" => Places(k) = {9, 18}
  BY <1>1, <1>2, <1>3
<1>9. k = "k" => Places(k) = {13, 19}
  BY <1>1, <1>2, <1>3
<1>10. k = "a" => Places(k) = {14, 20}
  BY <1>1, <1>2, <1>3
<1>11. k \notin SessionOnly \cup SDPMediaFields => Places(k) = {}
  BY <1>1, <1>2, <1>3 DEF SessionOnly, SDPMediaFields
<1>12. k = "z" => Places(k) = {12}
  BY <1>1, <1>2, <1>3
<1>13. k = "v" => Places(k) = {1}
  BY <1>1, <1>2, <1>3
<1>14. k = "o" => Places(k) = {2}
  BY <1>1, <1>2, <1>3
<1>15. k = "s" => Places(k) = {3}
  BY <1>1, <1>2, <1>3
<1>16. k = "u" => Places(k) = {5}
  BY <1>1, <1>2, <1>3
<1>17. k = "e" => Places(k) = {6}
  BY <1>1, <1>2, <1>3
<1>18. k = "p" => Places(k) = {7}
  BY <1>1, <1>2, <1>3
<1>19. k = "r" => Places(k) = {11}
  BY <1>1, <1>2, <1>3
<1>20. k \in SessionOnly => \E i \in 1 .. 12 : Places(k) = {i}
  BY <1>4, <1>12, <1>13, <1>14, <1>15, <1>16, <1>17, <1>18, <1>19 DEF SessionOnly
<1> QED
  BY <1>4, <1>5, <1>6, <1>7, <1>8, <1>9, <1>10, <1>11, <1>12, <1>13, <1>14, <1>15, <1>16,
     <1>17, <1>18, <1>20

(* The greatest and the least of one or two numbers.                        *)
LEMMA Ends ==
    ASSUME NEW i \in Int, NEW j \in Int, i <= j
    PROVE  Max({i, j}) = j /\ Min({i, j}) = i
<1>1. j \in {i, j} /\ (\A y \in {i, j} : j >= y) /\ i \in {i, j} /\ \A y \in {i, j} : i =< y
  OBVIOUS
<1>2. \A x \in {i, j} : (\A y \in {i, j} : x >= y) => x = j
  OBVIOUS
<1>3. \A x \in {i, j} : (\A y \in {i, j} : x =< y) => x = i
  OBVIOUS
<1> QED
  BY <1>1, <1>2, <1>3 DEF Max, Min

(* What the tests of read see of a key: in a media description a line that  *)
(* only a session may have is below "m", any other line is not.             *)
LEMMA IndexRange ==
    ASSUME NEW k, NEW x
    PROVE  /\ x \in indexOf(k) \cup lastIndexOf(k) => x \in -1 .. 99
           /\ x \in indexOf(k) \cup lastIndexOf(k) /\ k = "m" => x = 14
           /\ x \in indexOf(k) \cup lastIndexOf(k) /\ k = "a" => x >= 13
           /\ x \in lastIndexOf(k) /\ k \in SessionOnly => x < 14
           /\ x \in lastIndexOf(k) /\ k \in SDPMediaFields => x >= 14
           /\ x \in lastIndexOf(k) /\ k = "a" => x = 19
<1>1. ASSUME NEW i \in 1 .. 20, NEW j \in 1 .. 20, i <= j, Places(k) = {i, j}
      PROVE  lastIndexOf(k) = {j - 1} /\ indexOf(k) = {i - 1}
  <2>1. Max(Places(k)) = j /\ Min(Places(k)) = i
    BY <1>1, Ends
  <2>2. Places(k) # {}
    BY <1>1
  <2> QED
    BY <2>1, <2>2 DEF lastIndexOf, indexOf
<1>2. ASSUME NEW i \in 1 .. 20, Places(k) = {i}
      PROVE  lastIndexOf(k) = {i - 1} /\ indexOf(k) = {i - 1}
  <2>1. Places(k) = {i, i}
    BY <1>2
  <2> QED
    BY <1>1, <2>1
<1>3. CASE k \in SessionOnly
  <2>1. PICK i \in 1 .. 12 : Places(k) = {i}
    BY <1>3, KeyPlaces
  <2>2. lastIndexOf(k) = {i - 1} /\ indexOf(k) = {i - 1}
    BY <1>2, <2>1
  <2>3. k \notin SDPMediaFields
    BY <1>3 DEF SessionOnly, SDPMediaFields
  <2> QED
    BY <2>2, <2>3 DEF SDPMediaFields
<1>4. CASE k = "m"
  <2>1. lastIndexOf(k) = {14} /\ indexOf(k) = {14}
    BY <1>2, <1>4, KeyPlaces
  <2> QED
    BY <1>4, <2>1 DEF SessionOnly
<1>5. CASE k = "a"
  <2>1. lastIndexOf(k) = {19} /\ indexOf(k) = {13}
    BY <1>1, <1>5, KeyPlaces
  <2> QED
    BY <1>5, <2>1 DEF SessionOnly
<1>6. CASE k \in {"i", "c", "b", "k"}
  <2>1. k = "i" => lastIndexOf(k) = {15} /\ indexOf(k) = {3}
    BY <1>1, KeyPlaces
  <2>2. k = "c" => lastIndexOf(k) = {16} /\ indexOf(k) = {7}
    BY <1>1, KeyPlaces
  <2>3. k = "b" => lastIndexOf(k) = {17} /\ indexOf(k) = {8}
    BY <1>1, KeyPlaces
  <2>4. k = "k" => lastIndexOf(k) = {18} /\ indexOf(k) = {12}
    BY <1>1, KeyPlaces
  <2> QED
    BY <1>6, <2>1, <2>2, <2>3, <2>4 DEF SessionOnly
<1>7. CASE k \notin SessionOnly \cup SDPMediaFields
  <2>1. lastIndexOf(k) = Unknown /\ indexOf(k) = Unknown
    BY <1>7, KeyPlaces DEF lastIndexOf, indexOf
  <2> QED
    BY <1>7, <2>1 DEF Unknown, SDPMediaFields
<1> QED
  BY <1>3, <1>4, <1>5, <1>6, <1>7 DEF SDPMediaFields

--------------------------------------------------------------------------------
(* The sections of a message.                                               *)

(* Every "m" begins a section, no other line does.                          *)
LEMMA SectionStep ==
    ASSUME NEW n \in Nat
    PROVE  /\ SectionOf(n) \in Nat
           /\ SectionOf(n + 1) = SectionOf(n) + IF message[n + 1] = "m" THEN 1 ELSE 0
<1> DEFINE S == {i \in 1 .. n : message[i] = "m"}
           R == {i \in 1 .. n + 1 : message[i] = "m"}
<1>1. IsFiniteSet(S) /\ n + 1 \notin S
  <2>1. IsFiniteSet(1 .. n) /\ S \subseteq 1 .. n
    BY FS_Interval
  <2> QED
    BY <2>1, FS_Subset
<1>2. Cardinality(S) \in Nat
  BY <1>1, FS_CardinalityType
<1>3. R = IF message[n + 1] = "m" THEN S \cup {n + 1} ELSE S
  OBVIOUS
<1>4. Cardinality(S \cup {n + 1}) = Cardinality(S) + 1
  BY <1>1, FS_AddElement
<1> HIDE DEF S, R
<1>5. Cardinality(R) = Cardinality(S) + IF message[n + 1] = "m" THEN 1 ELSE 0
  BY <1>2, <1>3, <1>4
<1> QED
  BY <1>2, <1>5 DEF SectionOf, S, R

LEMMA SectionZero == SectionOf(0) = 0
<1>1. {i \in 1 .. 0 : message[i] = "m"} = {}
  OBVIOUS
<1> QED
  BY <1>1, FS_EmptySet DEF SectionOf

(* Sections are counted up.                                                 *)
LEMMA SectionGrows ==
    ASSUME NEW n \in Nat, NEW k \in Nat, n <= k
    PROVE  SectionOf(n) <= SectionOf(k)
<1> DEFINE S == {i \in 1 .. n : message[i] = "m"}
           R == {i \in 1 .. k : message[i] = "m"}
<1>1. IsFiniteSet(R)
  <2>1. IsFiniteSet(1 .. k) /\ R \subseteq 1 .. k
    BY FS_Interval
  <2> QED
    BY <2>1, FS_Subset
<1>2. S \subseteq R
  OBVIOUS
<1> HIDE DEF S, R
<1>3. Cardinality(S) <= Cardinality(R)
  BY <1>1, <1>2, FS_Subset
<1> QED
  BY <1>3 DEF SectionOf, S, R

--------------------------------------------------------------------------------
(* What a description holds.                                                *)

(* Line n is in the description desc.                                       *)
InDesc(desc, n) ==
    IF message[n] = "a" THEN \E i \in DOMAIN desc.attribs : desc.attribs[i] = n
    ELSE Places(message[n]) # {} =>
             /\ message[n] \in DOMAIN desc.fields
             /\ desc.fields[message[n]] >= n
             /\ message[desc.fields[message[n]]] = message[n]
             /\ SectionOf(desc.fields[message[n]]) = SectionOf(n)

(* Line n is where it belongs in the packet p.                              *)
Desc(p, n) == IF SectionOf(n) = 0 THEN p ELSE p.media[SectionOf(n)]
Held(p, n) ==
    IF message[n] = "t" THEN \E i \in DOMAIN p.times : p.times[i].t = n
    ELSE IF message[n] = "r" THEN \E i \in DOMAIN p.times : p.times[i] = [t |-> n - 1, r |-> n]
    ELSE InDesc(Desc(p, n), n)

(* This is more than the property asks for.                                 *)
LEMMA HeldFiled ==
    ASSUME NEW n, Held(packet, n)
    PROVE  Filed(n)
<1>1. CASE message[n] = "t"
  BY <1>1 DEF Held, Filed
<1>2. CASE message[n] = "r"
  BY <1>2 DEF Held, Filed
<1>3. CASE message[n] = "a"
  BY <1>3 DEF Held, Filed, InDesc, Desc
<1>4. CASE message[n] \notin {"t", "r", "a"} /\ Places(message[n]) = {}
  BY <1>4 DEF Filed
<1>5. CASE message[n] \notin {"t", "r", "a"} /\ Places(message[n]) # {}
  BY <1>5 DEF Held, Filed, InDesc, Desc
<1> QED
  BY <1>1, <1>2, <1>3, <1>4, <1>5

(* setField and addAttribute change one field, or add to the attributes.    *)
LEMMA SetFieldMedia ==
    ASSUME NEW d \in Media, NEW k, NEW n \in Lines
    PROVE  /\ SetField(d, k, n) \in Media
           /\ SetField(d, k, n).attribs = IF k = "a" THEN Append(d.attribs, n) ELSE d.attribs
           /\ \A x \in MediaKeys :
                  SetField(d, k, n).fields[x] = IF x = k THEN n ELSE d.fields[x]
<1>1. d.fields \in [MediaKeys -> Lines] /\ d.attribs \in Seq(Lines) /\ "a" \notin MediaKeys
  BY DEF Media, Fields, MediaKeys
<1>2. DOMAIN d.fields = MediaKeys
  BY <1>1
<1>3. Append(d.attribs, n) \in Seq(Lines)
  BY <1>1
<1>4. CASE k = "a"
  <2>1. SetField(d, k, n) = [d EXCEPT !.attribs = Append(d.attribs, n)]
    BY <1>4 DEF SetField
  <2> QED
    BY <1>1, <1>3, <1>4, <2>1 DEF Media, Fields
<1>5. CASE k # "a" /\ k \in MediaKeys
  <2>1. SetField(d, k, n) = [d EXCEPT !.fields[k] = n]
    BY <1>2, <1>5 DEF SetField
  <2>2. [d.fields EXCEPT ![k] = n] \in [MediaKeys -> Lines]
    BY <1>1
  <2> QED
    BY <1>1, <1>5, <2>1, <2>2 DEF Media, Fields
<1>6. CASE k # "a" /\ k \notin MediaKeys
  BY <1>1, <1>2, <1>6 DEF SetField
<1> QED
  BY <1>4, <1>5, <1>6

LEMMA SetFieldPacket ==
    ASSUME NEW d \in Packets, NEW k, NEW n \in Lines
    PROVE  /\ SetField(d, k, n) \in Packets
           /\ SetField(d, k, n).attribs = IF k = "a" THEN Append(d.attribs, n) ELSE d.attribs
           /\ \A x \in SessionKeys :
                  SetField(d, k, n).fields[x] = IF x = k THEN n ELSE d.fields[x]
           /\ SetField(d, k, n).times = d.times
           /\ SetField(d, k, n).media = d.media
           /\ SetField(d, k, n).nConnInfo = d.nConnInfo
<1>1. d.fields \in [SessionKeys -> Lines] /\ d.attribs \in Seq(Lines) /\ "a" \notin SessionKeys
  BY DEF Packets, Fields, SessionKeys
<1>2. DOMAIN d.fields = SessionKeys
  BY <1>1
<1>3. Append(d.attribs, n) \in Seq(Lines)
  BY <1>1
<1>4. CASE k = "a"
  <2>1. SetField(d, k, n) = [d EXCEPT !.attribs = Append(d.attribs, n)]
    BY <1>4 DEF SetField
  <2> QED
    BY <1>1, <1>3, <1>4, <2>1 DEF Packets, Fields
<1>5. CASE k # "a" /\ k \in SessionKeys
  <2>1. SetField(d, k, n) = [d EXCEPT !.fields[k] = n]
    BY <1>2, <1>5 DEF SetField
  <2>2. [d.fields EXCEPT ![k] = n] \in [SessionKeys -> Lines]
    BY <1>1
  <2> QED
    BY <1>1, <1>5, <2>1, <2>2 DEF Packets, Fields
<1>6. CASE k # "a" /\ k \notin SessionKeys
  BY <1>1, <1>2, <1>6 DEF SetField
<1> QED
  BY <1>4, <1>5, <1>6

(* A description that has line n still has it when the next line of the     *)
(* same section is put into it.                                             *)
LEMMA KeepLine ==
    ASSUME NEW d, NEW e, NEW n \in Nat, line \in Nat, n < line,
           InDesc(d, n), SectionOf(line) = SectionOf(n), DOMAIN e.fields = DOMAIN d.fields,
           \A x \in DOMAIN d.fields : e.fields[x] = IF x = key THEN line ELSE d.fields[x],
           \A i \in DOMAIN d.attribs : i \in DOMAIN e.attribs /\ e.attribs[i] = d.attribs[i]
    PROVE  InDesc(e, n)
<1>1. CASE message[n] = "a"
  BY <1>1 DEF InDesc
<1>2. CASE message[n] # "a" /\ Places(message[n]) = {}
  BY <1>2 DEF InDesc
<1>3. CASE message[n] # "a" /\ Places(message[n]) # {} /\ message[n] = key
  <2>1. message[n] \in DOMAIN e.fields /\ e.fields[message[n]] = line
    BY <1>3 DEF InDesc
  <2>2. message[line] = message[n] /\ line >= n
    BY <1>3 DEF key
  <2> QED
    BY <1>3, <2>1, <2>2 DEF InDesc
<1>4. CASE message[n] # "a" /\ Places(message[n]) # {} /\ message[n] # key
  <2>1. message[n] \in DOMAIN e.fields /\ e.fields[message[n]] = d.fields[message[n]]
    BY <1>4 DEF InDesc
  <2> QED
    BY <1>4, <2>1 DEF InDesc
<1> QED
  BY <1>1, <1>2, <1>3, <1>4

LEMMA NewLine ==
    ASSUME NEW e, line \in Nat,
           key = "a" => \E i \in DOMAIN e.attribs : e.attribs[i] = line,
           key # "a" /\ Places(key) # {} => key \in DOMAIN e.fields /\ e.fields[key] = line
    PROVE  InDesc(e, line)
<1>1. message[line] = key
  BY DEF key
<1> QED
  BY <1>1 DEF InDesc

--------------------------------------------------------------------------------
(* The invariant.  Lines that only a session may have are refused once a    *)
(* media description has begun, since oldIndex is past them; so a line that *)
(* is accepted is of the last description.                                  *)
FileInv ==
    /\ SdpTypeOK /\ message \in Seq(STRING)
    /\ bMediaStarted = (packet.media # <<>>)
    /\ Len(packet.media) = SectionOf(line - 1)
    /\ bMediaStarted => oldIndex >= 14
    /\ prev = IF line = 1 THEN "v" ELSE message[line - 1]
    /\ prev = "t" => packet.times # <<>> /\ packet.times[Len(packet.times)].t = line - 1
    /\ packet.nConnInfo < line
    /\ \A n \in 1 .. line - 1 : Held(packet, n)
    /\ ret = 0 => line = Len(message) + 1

(* What the packet is like once the line has been put into it.              *)
Filled(p) ==
    /\ p \in Packets
    /\ (p.media # <<>>) = (bMediaStarted \/ key = "m")
    /\ Len(p.media) = SectionOf(line)
    /\ key = "t" => p.times # <<>> /\ p.times[Len(p.times)].t = line
    /\ p.nConnInfo <= line
    /\ \A n \in 1 .. line : Held(p, n)

(* What the tests of read leave.                                            *)
LEMMA Admitted ==
    ASSUME FileInv, NEW index \in Index, Refused(index) = 0
    PROVE  /\ index \in 0 .. 99
           /\ key = "a" => index >= 13
           /\ key = "m" => index = 14
           /\ bMediaStarted => index >= 14 /\ key \notin SessionOnly
           /\ bMediaStarted /\ key = "a" => index = 19
           /\ key = "r" => prev = "t"
<1>1. bMediaStarted => index \in lastIndexOf(key)
  BY DEF Index
<1>2. index \in indexOf(key) \cup lastIndexOf(key)
  BY DEF Index
<1>3. index \in -1 .. 99 /\ (key = "m" => index = 14) /\ (key = "a" => index >= 13)
  BY <1>2, IndexRange
<1>4. oldIndex \in 0 .. 99 /\ (bMediaStarted => oldIndex >= 14) /\ bMediaStarted \in BOOLEAN
  BY DEF FileInv, SdpTypeOK
<1>5. /\ bMediaStarted /\ key # "m" => index >= oldIndex
      /\ ~ bMediaStarted => index >= oldIndex
      /\ key = "r" => prev = "t"
  <2>1. bMediaStarted /\ key # "m" => ~ (index < oldIndex)
    BY <1>3, <1>4 DEF Refused
  <2>2. ~ bMediaStarted => ~ (index < oldIndex)
    BY <1>3, <1>4 DEF Refused
  <2>3. key = "r" => prev = "t"
    BY <1>3, <1>4 DEF Refused
  <2> QED
    BY <1>3, <1>4, <2>1, <2>2, <2>3
<1>6. bMediaStarted => index >= 14
  BY <1>3, <1>4, <1>5
<1>7. bMediaStarted => key \notin SessionOnly
  BY <1>1, <1>3, <1>6, IndexRange
<1>8. bMediaStarted /\ key = "a" => index = 19
  BY <1>1, IndexRange
<1> QED
  BY <1>3, <1>4, <1>5, <1>6, <1>7, <1>8

(* The numbers around the line that is read.                                *)
LEMMA AtLine ==
    ASSUME FileInv, Here
    PROVE  /\ line \in Nat /\ line >= 1 /\ line \in Lines /\ Len(message) \in Nat
           /\ line - 1 \in Nat /\ (line - 1) + 1 = line
           /\ packet \in Packets
           /\ packet.times \in Seq([t : Lines, r : Lines])
           /\ packet.media \in Seq(Media)
           /\ packet.attribs \in Seq(Lines)
           /\ packet.fields \in [SessionKeys -> Lines]
           /\ packet.nConnInfo \in Nat
           /\ SectionOf(line - 1) \in Nat
           /\ SectionOf(line) = SectionOf(line - 1) + IF key = "m" THEN 1 ELSE 0
           /\ \A n \in 1 .. line - 1 :
                  n \in Nat /\ SectionOf(n) \in Nat /\ SectionOf(n) <= SectionOf(line - 1)
<1>1. Len(message) \in Nat
  BY DEF FileInv
<1>2. line \in 1 .. Len(message)
  BY <1>1 DEF FileInv, SdpTypeOK, Here
<1>3. /\ line \in Nat /\ line >= 1 /\ line \in Lines
      /\ line - 1 \in Nat /\ (line - 1) + 1 = line
  BY <1>1, <1>2 DEF Lines
<1>4. packet \in Packets
  BY DEF FileInv, SdpTypeOK
<1>5. /\ packet.times \in Seq([t : Lines, r : Lines]) /\ packet.media \in Seq(Media)
      /\ packet.attribs \in Seq(Lines) /\ packet.fields \in [SessionKeys -> Lines]
      /\ packet.nConnInfo \in Lines
  BY <1>4 DEF Packets, Fields
<1>6. packet.nConnInfo \in Nat
  BY <1>1, <1>5 DEF Lines
<1>7. /\ SectionOf(line - 1) \in Nat
      /\ SectionOf(line) = SectionOf(line - 1) + IF key = "m" THEN 1 ELSE 0
  <2>1. PICK n \in Nat : n = line - 1 /\ n + 1 = line
    BY <1>3
  <2>2. SectionOf(n + 1) = SectionOf(n) + (IF message[n + 1] = "m" THEN 1 ELSE 0)
        /\ SectionOf(n) \in Nat
    BY SectionStep
  <2> QED
    BY <2>1, <2>2 DEF key
<1>8. ASSUME NEW n \in 1 .. line - 1
      PROVE  n \in Nat /\ SectionOf(n) \in Nat /\ SectionOf(n) <= SectionOf(line - 1)
  <2>1. n \in Nat /\ n <= line - 1
    BY <1>3
  <2>2. SectionOf(n) \in Nat
    BY <2>1, SectionStep
  <2>3. PICK k \in Nat : k = line - 1
    BY <1>3
  <2>4. SectionOf(n) <= SectionOf(k)
    BY <2>1, <2>3, SectionGrows
  <2> QED
    BY <2>1, <2>2, <2>3, <2>4
<1> QED
  BY <1>1, <1>3, <1>4, <1>5, <1>6, <1>7, <1>8

(* Before media descriptions all lines are of the session.                  *)
LEMMA NoMedia ==
    ASSUME FileInv, Here, ~ bMediaStarted
    PROVE  /\ packet.media = <<>> /\ SectionOf(line - 1) = 0
           /\ \A n \in 1 .. line - 1 : SectionOf(n) = 0
<1>1. packet.media = <<>>
  BY DEF FileInv
<1>2. SectionOf(line - 1) = 0
  BY <1>1 DEF FileInv
<1>3. \A n \in 1 .. line - 1 : SectionOf(n) = 0
  BY <1>2, AtLine
<1> QED
  BY <1>1, <1>2, <1>3

(* A time.                                                                  *)
LEMMA TimeFills ==
    ASSUME FileInv, Here, ~ bMediaStarted, key = "t",
           NEW p, p = [packet EXCEPT !.times = Append(packet.times, [t |-> line, r |-> 0])]
    PROVE  Filled(p)
<1> DEFINE ti == [t |-> line, r |-> 0]
           times == Append(packet.times, ti)
<1>1. ti \in [t : Lines, r : Lines] /\ ti.t = line
  BY AtLine DEF Lines
<1>2. /\ times \in Seq([t : Lines, r : Lines]) /\ Len(times) = Len(packet.times) + 1
      /\ times[Len(times)] = ti /\ Len(packet.times) \in Nat
      /\ DOMAIN times = 1 .. Len(times) /\ DOMAIN packet.times = 1 .. Len(packet.times)
      /\ \A i \in DOMAIN packet.times : times[i] = packet.times[i]
  <2> HIDE DEF ti
  <2> QED
    BY <1>1, AtLine
<1> HIDE DEF times, ti
<1>3. /\ p.times = times /\ p.media = packet.media /\ p.fields = packet.fields
      /\ p.attribs = packet.attribs /\ p.nConnInfo = packet.nConnInfo /\ p \in Packets
  BY <1>2, AtLine DEF Packets, times, ti
<1>4. p.media = <<>> /\ SectionOf(line) = 0 /\ Len(p.media) = SectionOf(line)
  <2>1. SectionOf(line - 1) = 0 /\ packet.media = <<>>
    BY NoMedia
  <2>2. SectionOf(line) = 0
    BY <2>1, AtLine
  <2> QED
    BY <1>3, <2>1, <2>2
<1>5. p.times # <<>> /\ p.times[Len(p.times)].t = line
  <2>1. Len(p.times) # 0
    BY <1>2, <1>3
  <2> QED
    BY <1>1, <1>2, <1>3, <2>1
<1>6. p.nConnInfo <= line
  BY <1>3, AtLine DEF FileInv
<1>7. ASSUME NEW n \in 1 .. line PROVE Held(p, n)
  <2>1. CASE n = line
    <3>1. message[n] = "t" /\ Len(times) \in DOMAIN times /\ times[Len(times)].t = n
      BY <1>1, <1>2, <2>1 DEF key
    <3> QED
      BY <1>3, <3>1 DEF Held
  <2>2. CASE n # line
    <3>1. n \in 1 .. line - 1
      BY <2>2, AtLine
    <3>2. Held(packet, n) /\ SectionOf(n) = 0
      BY <3>1, NoMedia DEF FileInv
    <3>3. \A i \in DOMAIN packet.times : i \in DOMAIN p.times /\ p.times[i] = packet.times[i]
      BY <1>2, <1>3
    <3>4. InDesc(packet, n) => InDesc(p, n)
      BY <1>3 DEF InDesc
    <3> QED
      BY <3>2, <3>3, <3>4 DEF Held, Desc
  <2> QED
    BY <2>1, <2>2
<1> QED
  BY <1>3, <1>4, <1>5, <1>6, <1>7 DEF Filled

(* A repeat goes to the time of the line before.                            *)
LEMMA RepeatFills ==
    ASSUME FileInv, Here, ~ bMediaStarted, key = "r", prev = "t",
           NEW p, p = [packet EXCEPT !.times[Len(packet.times)].r = line]
    PROVE  Filled(p)
<1> DEFINE last == Len(packet.times)
           ti == [packet.times[last] EXCEPT !.r = line]
           times == [packet.times EXCEPT ![last] = ti]
<1>1. last \in Nat /\ last >= 1 /\ DOMAIN packet.times = 1 .. last
      /\ packet.times[last].t = line - 1
  <2>1. packet.times # <<>> /\ packet.times[last].t = line - 1
    BY DEF FileInv
  <2>2. last \in Nat /\ DOMAIN packet.times = 1 .. last
    BY AtLine
  <2>3. last # 0
    BY <2>1, AtLine
  <2> QED
    BY <2>1, <2>2, <2>3
<1>2. packet.times[last] \in [t : Lines, r : Lines]
  <2>1. packet.times \in Seq([t : Lines, r : Lines]) /\ last \in 1 .. Len(packet.times)
    BY <1>1, AtLine
  <2> QED
    BY <2>1, ElementOfSeq
<1> HIDE DEF last
<1>3. ti \in [t : Lines, r : Lines] /\ ti = [t |-> line - 1, r |-> line]
  BY <1>1, <1>2, AtLine
<1> HIDE DEF ti
<1>4. /\ times \in Seq([t : Lines, r : Lines]) /\ DOMAIN times = 1 .. last /\ times[last] = ti
      /\ \A i \in 1 .. last : i # last => times[i] = packet.times[i]
  <2>1. packet.times \in Seq([t : Lines, r : Lines]) /\ last \in 1 .. Len(packet.times)
    BY <1>1, AtLine DEF last
  <2>2. /\ times \in Seq([t : Lines, r : Lines]) /\ Len(times) = Len(packet.times)
        /\ \A i \in 1 .. Len(packet.times) :
               times[i] = IF i = last THEN ti ELSE packet.times[i]
    BY <1>3, <2>1, ExceptSeq
  <2>3. DOMAIN times = 1 .. last /\ Len(packet.times) = last
    BY <2>2 DEF last
  <2> QED
    BY <1>1, <2>2, <2>3
<1> HIDE DEF times
<1>5. /\ p.times = times /\ p.media = packet.media /\ p.fields = packet.fields
      /\ p.attribs = packet.attribs /\ p.nConnInfo = packet.nConnInfo /\ p \in Packets
  <2>1. p = [packet EXCEPT !.times = times]
    BY DEF times, ti, last
  <2> QED
    BY <1>4, <2>1, AtLine DEF Packets
<1>6. p.media = <<>> /\ SectionOf(line) = 0 /\ Len(p.media) = SectionOf(line)
  <2>1. SectionOf(line - 1) = 0 /\ packet.media = <<>>
    BY NoMedia
  <2>2. SectionOf(line) = 0
    BY <2>1, AtLine
  <2> QED
    BY <1>5, <2>1, <2>2
<1>7. p.nConnInfo <= line
  BY <1>5, AtLine DEF FileInv
<1>8. ASSUME NEW n \in 1 .. line PROVE Held(p, n)
  <2>1. CASE n = line
    <3>1. message[n] = "r" /\ last \in DOMAIN p.times /\ p.times[last] = [t |-> n - 1, r |-> n]
      BY <1>1, <1>3, <1>4, <1>5, <2>1 DEF key
    <3> QED
      BY <3>1 DEF Held
  <2>2. CASE n # line
    <3>1. n \in 1 .. line - 1 /\ n \in Int /\ line \in Int /\ n < line
      BY <2>2, AtLine
    <3>2. Held(packet, n) /\ SectionOf(n) = 0
      BY <3>1, NoMedia DEF FileInv
    <3>3. \A i \in DOMAIN packet.times : p.times[i].t = packet.times[i].t
      BY <1>1, <1>3, <1>4, <1>5
    <3>4. \A i \in DOMAIN packet.times :
             packet.times[i] = [t |-> n - 1, r |-> n] => p.times[i] = packet.times[i]
      <4>1. packet.times[last] # [t |-> n - 1, r |-> n]
        BY <1>1, <3>1
      <4> QED
        BY <1>1, <1>4, <1>5, <4>1
    <3>5. DOMAIN p.times = DOMAIN packet.times
      BY <1>1, <1>4, <1>5
    <3>6. InDesc(packet, n) => InDesc(p, n)
      BY <1>5 DEF InDesc
    <3> QED
      BY <3>2, <3>3, <3>4, <3>5, <3>6 DEF Held, Desc
  <2> QED
    BY <2>1, <2>2
<1> QED
  BY <1>5, <1>6, <1>7, <1>8 DEF Filled

(* setField of the session.                                                 *)
LEMMA SessionSet ==
    ASSUME FileInv, Here, NEW p, p = SetSession(key, line)
    PROVE  /\ p \in Packets /\ p.times = packet.times /\ p.media = packet.media
           /\ p.nConnInfo = IF key = "c" THEN packet.nConnInfo + 1 ELSE packet.nConnInfo
           /\ p.attribs = IF key = "a" THEN Append(packet.attribs, line) ELSE packet.attribs
           /\ \A x \in SessionKeys : p.fields[x] = IF x = key THEN line ELSE packet.fields[x]
<1>0. line \in Lines /\ line \in Nat /\ packet \in Packets /\ packet.nConnInfo \in Nat
      /\ packet.nConnInfo < line /\ Len(message) \in Nat
  BY AtLine DEF FileInv
<1>1. PICK k : k = key
  OBVIOUS
<1>2. PICK m \in Lines : m = line
  BY <1>0
<1>3. PICK q \in Packets : q = packet
  BY <1>0
<1>4. PICK d : d = SetField(q, k, m)
  OBVIOUS
<1>5. /\ d \in Packets /\ d.times = q.times /\ d.media = q.media
      /\ d.nConnInfo = q.nConnInfo
      /\ d.attribs = IF k = "a" THEN Append(q.attribs, m) ELSE q.attribs
      /\ \A x \in SessionKeys : d.fields[x] = IF x = k THEN m ELSE q.fields[x]
  BY <1>4, SetFieldPacket
<1>6. p = [d EXCEPT !.nConnInfo = IF k = "c" THEN @ + 1 ELSE @]
  BY <1>1, <1>2, <1>3, <1>4 DEF SetSession
<1>7. (IF k = "c" THEN d.nConnInfo + 1 ELSE d.nConnInfo) \in Lines
  BY <1>0, <1>2, <1>3, <1>5 DEF Lines
<1>8. /\ p \in Packets /\ p.times = packet.times /\ p.media = packet.media
      /\ p.nConnInfo = IF k = "c" THEN packet.nConnInfo + 1 ELSE packet.nConnInfo
      /\ p.attribs = d.attribs /\ p.fields = d.fields
  BY <1>3, <1>5, <1>6, <1>7 DEF Packets
<1> QED
  BY <1>1, <1>2, <1>3, <1>5, <1>8

(* Any other line of the session.                                           *)
LEMMA SessionFills ==
    ASSUME FileInv, Here, key \notin {"t", "r", "m"}, bMediaStarted => key \notin SessionOnly,
           ~ (bMediaStarted /\ key \in SDPMediaFields), NEW p, p = SetSession(key, line)
    PROVE  Filled(p)
<1>0. line \in Lines /\ line \in Nat /\ packet \in Packets /\ packet.nConnInfo \in Nat
      /\ packet.nConnInfo < line /\ Len(message) \in Nat
  BY AtLine DEF FileInv
<1>1. PICK k : k = key
  OBVIOUS
<1>2. /\ p \in Packets /\ p.times = packet.times /\ p.media = packet.media
      /\ p.nConnInfo = IF key = "c" THEN packet.nConnInfo + 1 ELSE packet.nConnInfo
      /\ p.attribs = IF key = "a" THEN Append(packet.attribs, line) ELSE packet.attribs
      /\ \A x \in SessionKeys : p.fields[x] = IF x = key THEN line ELSE packet.fields[x]
  BY SessionSet
<1>3. p.nConnInfo <= line
  BY <1>0, <1>2
<1>4. Len(p.media) = SectionOf(line) /\ SectionOf(line) = SectionOf(line - 1)
  BY <1>2, AtLine DEF FileInv
<1>5. (p.media # <<>>) = (bMediaStarted \/ key = "m")
  BY <1>2 DEF FileInv
<1>6. packet.fields \in [SessionKeys -> Lines] /\ p.fields \in [SessionKeys -> Lines]
       /\ packet.attribs \in Seq(Lines)
  BY <1>0, <1>2 DEF Packets, Fields
<1>7. \A i \in DOMAIN packet.attribs : i \in DOMAIN p.attribs /\ p.attribs[i] = packet.attribs[i]
  BY <1>0, <1>6, <1>2
<1>8. ASSUME NEW n \in 1 .. line - 1 PROVE Held(p, n)
  <2>1. Held(packet, n) /\ n \in Nat /\ n < line
    BY <1>0, <1>8 DEF FileInv
  <2>2. InDesc(Desc(packet, n), n) => InDesc(Desc(p, n), n)
    <3>1. CASE ~ bMediaStarted
      <4>1. SectionOf(n) = 0 /\ SectionOf(line) = 0
        BY <1>4, <1>8, <3>1, NoMedia
      <4>2. DOMAIN p.fields = DOMAIN packet.fields /\ DOMAIN packet.fields = SessionKeys
        BY <1>6
      <4>3. InDesc(packet, n) => InDesc(p, n)
        BY <1>0, <1>2, <1>7, <2>1, <4>1, <4>2, KeepLine
      <4> QED
        BY <4>1, <4>3 DEF Desc
    <3>2. CASE bMediaStarted
      <4>1. key \notin SessionKeys /\ key # "a"
        BY <3>2 DEF SessionKeys, SessionOnly, SDPMediaFields
      <4>2. p.fields = packet.fields
        BY <1>6, <1>2, <4>1
      <4>3. p.attribs = packet.attribs
        BY <1>2, <4>1
      <4>4. InDesc(packet, n) => InDesc(p, n)
        BY <4>2, <4>3 DEF InDesc
      <4> QED
        BY <1>2, <4>4 DEF Desc
    <3> QED
      BY <3>1, <3>2
  <2> QED
    BY <1>2, <2>1, <2>2 DEF Held
<1>9. Held(p, line)
  <2>1. message[line] = key
    BY DEF key
  <2>2. CASE ~ bMediaStarted
    <3>1. SectionOf(line) = 0
      BY <1>4, <2>2, NoMedia
    <3>2. key = "a" => \E i \in DOMAIN p.attribs : p.attribs[i] = line
      <4>1. Len(packet.attribs) + 1 \in DOMAIN Append(packet.attribs, line)
            /\ Append(packet.attribs, line)[Len(packet.attribs) + 1] = line
        BY <1>0, <1>6
      <4> QED
        BY <1>2, <4>1
    <3>3. key # "a" /\ Places(key) # {} => key \in SessionKeys
      <4>1. key \notin SessionOnly \cup SDPMediaFields => Places(key) = {}
        BY <1>1, KeyPlaces
      <4> QED
        BY <4>1 DEF SessionKeys, SessionOnly, SDPMediaFields
    <3>4. InDesc(p, line)
      BY <1>0, <1>6, <1>2, <3>2, <3>3, NewLine
    <3> QED
      BY <2>1, <3>1, <3>4 DEF Held, Desc
  <2>3. CASE bMediaStarted
    <3>1. Places(key) = {} /\ key # "a"
      <4>1. key \notin SessionOnly \cup SDPMediaFields => Places(key) = {}
        BY <1>1, KeyPlaces
      <4> QED
        BY <2>3, <4>1 DEF SDPMediaFields
    <3> QED
      BY <2>1, <3>1 DEF Held, InDesc
  <2> QED
    BY <2>2, <2>3
<1>10. \A n \in 1 .. line : Held(p, n)
  BY <1>0, <1>8, <1>9
<1> QED
  BY <1>2, <1>3, <1>4, <1>5, <1>10 DEF Filled

(* setField of the last media description; "m" begins it.                   *)
LEMMA MediaSet ==
    ASSUME FileInv, Here, key \in SDPMediaFields, bMediaStarted \/ key = "m",
           NEW p, p = SetMedia(key, line), NEW L, L = SectionOf(line),
           NEW d, d = IF key = "m" THEN NewMedia ELSE packet.media[L]
    PROVE  /\ p \in Packets /\ p.times = packet.times /\ p.nConnInfo = packet.nConnInfo
           /\ p.attribs = packet.attribs /\ p.fields = packet.fields
           /\ L \in Nat /\ L >= 1 /\ Len(p.media) = L
           /\ Len(packet.media) = IF key = "m" THEN L - 1 ELSE L
           /\ \A i \in 1 .. L : i # L => p.media[i] = packet.media[i]
           /\ d \in Media /\ p.media[L] \in Media
           /\ p.media[L].attribs = IF key = "a" THEN Append(d.attribs, line) ELSE d.attribs
           /\ \A x \in MediaKeys :
                  p.media[L].fields[x] = IF x = key THEN line ELSE d.fields[x]
<1>0. line \in Lines /\ line \in Nat /\ packet \in Packets /\ packet.media \in Seq(Media)
      /\ Len(message) \in Nat /\ SectionOf(line - 1) \in Nat
      /\ Len(packet.media) = SectionOf(line - 1)
      /\ L = SectionOf(line - 1) + IF key = "m" THEN 1 ELSE 0
  BY AtLine DEF FileInv
<1>1. PICK k : k = key
  OBVIOUS
<1>2. PICK m \in Lines : m = line
  BY <1>0
<1>3. PICK media : media = IF k = "m" THEN Append(packet.media, NewMedia) ELSE packet.media
  OBVIOUS
<1>4. NewMedia \in Media
  <2>1. 0 \in Lines
    BY <1>0 DEF Lines
  <2>2. <<>> \in Seq(Lines)
    BY EmptySeq
  <2> QED
    BY <2>1, <2>2 DEF NewMedia, Media, Fields
<1>5. /\ media \in Seq(Media) /\ Len(media) = L
      /\ Len(packet.media) = IF key = "m" THEN L - 1 ELSE L
      /\ \A i \in 1 .. Len(packet.media) : media[i] = packet.media[i]
      /\ key = "m" => media[L] = NewMedia
  <2>1. CASE k = "m"
    <3>1. /\ Append(packet.media, NewMedia) \in Seq(Media)
          /\ Len(Append(packet.media, NewMedia)) = Len(packet.media) + 1
          /\ \A i \in 1 .. Len(packet.media) :
                 Append(packet.media, NewMedia)[i] = packet.media[i]
          /\ Append(packet.media, NewMedia)[Len(packet.media) + 1] = NewMedia
      BY <1>0, <1>4, AppendProperties
    <3> QED
      BY <1>0, <1>1, <1>3, <2>1, <3>1
  <2>2. CASE k # "m"
    BY <1>0, <1>1, <1>3, <2>2
  <2> QED
    BY <2>1, <2>2
<1>6. L \in Nat /\ L >= 1
  <2>1. CASE key = "m"
    BY <1>0, <2>1
  <2>2. CASE key # "m"
    <3>1. packet.media # <<>>
      BY <2>2 DEF FileInv
    <3>2. Len(packet.media) # 0
      BY <1>0, <3>1
    <3> QED
      BY <1>0, <2>2, <3>2
  <2> QED
    BY <2>1, <2>2
<1>7. d \in Media /\ d = media[L]
  <2>1. L \in 1 .. Len(media)
    BY <1>5, <1>6
  <2>2. media[L] \in Media
    BY <1>5, <2>1, ElementOfSeq
  <2>3. d = media[L]
    BY <1>5, <2>1
  <2> QED
    BY <2>2, <2>3
<1>8. PICK e : e = SetField(d, k, m)
  OBVIOUS
<1>9. /\ e \in Media
      /\ e.attribs = IF k = "a" THEN Append(d.attribs, m) ELSE d.attribs
      /\ \A x \in MediaKeys : e.fields[x] = IF x = k THEN m ELSE d.fields[x]
  BY <1>7, <1>8, SetFieldMedia
<1>10. PICK new : new = [media EXCEPT ![L] = e]
  OBVIOUS
<1>11. p = [packet EXCEPT !.media = new]
  <2>1. p = [packet EXCEPT !.media = [media EXCEPT ![Len(media)] = SetField(@, k, m)]]
    BY <1>1, <1>2, <1>3 DEF SetMedia
  <2> QED
    BY <1>5, <1>7, <1>8, <1>10, <2>1
<1>12. /\ new \in Seq(Media) /\ Len(new) = L
       /\ \A i \in 1 .. L : new[i] = IF i = L THEN e ELSE media[i]
  <2>1. L \in 1 .. Len(media)
    BY <1>5, <1>6
  <2> QED
    BY <1>5, <1>9, <1>10, <2>1, ExceptSeq
<1>13. /\ p \in Packets /\ p.times = packet.times /\ p.media = new
       /\ p.nConnInfo = packet.nConnInfo
       /\ p.attribs = packet.attribs /\ p.fields = packet.fields
  BY <1>0, <1>11, <1>12 DEF Packets
<1>14. \A i \in 1 .. L : i # L => p.media[i] = packet.media[i]
  <2>1. ASSUME NEW i \in 1 .. L, i # L PROVE i \in 1 .. Len(packet.media)
    BY <1>5, <1>6, <2>1
  <2> QED
    BY <1>5, <1>12, <1>13, <2>1
<1>15. p.media[L] = e
  BY <1>6, <1>12, <1>13
<1> QED
  BY <1>1, <1>2, <1>5, <1>6, <1>7, <1>9, <1>12, <1>13, <1>14, <1>15

(* A line of a media description goes to the last one.                      *)
LEMMA MediaFills ==
    ASSUME FileInv, Here, key \in SDPMediaFields, bMediaStarted \/ key = "m",
           NEW p, p = SetMedia(key, line)
    PROVE  Filled(p)
<1>0. line \in Lines /\ line \in Nat /\ Len(message) \in Nat /\ packet.nConnInfo <= line
  BY AtLine DEF FileInv
<1>1. PICK L : L = SectionOf(line)
  OBVIOUS
<1>2. PICK d : d = IF key = "m" THEN NewMedia ELSE packet.media[L]
  OBVIOUS
<1>3. PICK e : e = p.media[L]
  OBVIOUS
<1>4. /\ p \in Packets /\ p.times = packet.times /\ p.nConnInfo = packet.nConnInfo
      /\ p.attribs = packet.attribs /\ p.fields = packet.fields
      /\ L \in Nat /\ L >= 1 /\ Len(p.media) = L
      /\ Len(packet.media) = IF key = "m" THEN L - 1 ELSE L
      /\ \A i \in 1 .. L : i # L => p.media[i] = packet.media[i]
      /\ d \in Media /\ e \in Media
      /\ e.attribs = IF key = "a" THEN Append(d.attribs, line) ELSE d.attribs
      /\ \A x \in MediaKeys : e.fields[x] = IF x = key THEN line ELSE d.fields[x]
  BY <1>1, <1>2, <1>3, MediaSet
<1>5. (p.media # <<>>) = (bMediaStarted \/ key = "m")
  <2>1. p.media # <<>>
    <3>1. Len(p.media) # 0
      BY <1>4
    <3> QED
      BY <3>1
  <2> QED
    BY <2>1 DEF FileInv
<1>6. /\ d.fields \in [MediaKeys -> Lines] /\ e.fields \in [MediaKeys -> Lines]
      /\ d.attribs \in Seq(Lines)
  BY <1>4 DEF Media, Fields
<1>7. \A i \in DOMAIN d.attribs : i \in DOMAIN e.attribs /\ e.attribs[i] = d.attribs[i]
  BY <1>0, <1>4, <1>6
<1>8. ASSUME NEW n \in 1 .. line - 1 PROVE Held(p, n)
  <2>1. Held(packet, n) /\ n \in Nat /\ n < line /\ SectionOf(n) \in Nat
        /\ SectionOf(n) <= Len(packet.media)
    BY <1>0, <1>8, AtLine DEF FileInv
  <2>2. InDesc(Desc(packet, n), n) => InDesc(Desc(p, n), n)
    <3>1. CASE SectionOf(n) = 0
      <4>1. InDesc(packet, n) => InDesc(p, n)
        BY <1>4 DEF InDesc
      <4> QED
        BY <3>1, <4>1 DEF Desc
    <3>2. CASE SectionOf(n) # 0 /\ SectionOf(n) # L
      <4>1. SectionOf(n) \in 1 .. L
        BY <1>4, <2>1, <3>2
      <4>2. p.media[SectionOf(n)] = packet.media[SectionOf(n)]
        BY <1>4, <3>2, <4>1
      <4> QED
        BY <3>2, <4>2 DEF Desc
    <3>3. CASE SectionOf(n) # 0 /\ SectionOf(n) = L
      <4>1. key # "m"
        BY <1>4, <2>1, <3>3
      <4>2. d = packet.media[L] /\ p.media[L] = e
        BY <1>2, <1>3, <4>1
      <4>3. DOMAIN e.fields = DOMAIN d.fields /\ DOMAIN d.fields = MediaKeys
        BY <1>6
      <4>4. InDesc(d, n) => InDesc(e, n)
        BY <1>0, <1>1, <1>4, <1>7, <2>1, <3>3, <4>3, KeepLine
      <4> QED
        BY <3>3, <4>2, <4>4 DEF Desc
    <3> QED
      BY <3>1, <3>2, <3>3
  <2> QED
    BY <1>4, <2>1, <2>2 DEF Held
<1>9. Held(p, line)
  <2>1. message[line] = key /\ key \notin {"t", "r"}
    BY DEF key, SDPMediaFields
  <2>2. key = "a" => \E i \in DOMAIN e.attribs : e.attribs[i] = line
    <3>1. Len(d.attribs) + 1 \in DOMAIN Append(d.attribs, line)
          /\ Append(d.attribs, line)[Len(d.attribs) + 1] = line
      BY <1>0, <1>6
    <3> QED
      BY <1>4, <3>1
  <2>3. key # "a" => key \in MediaKeys
    BY DEF SDPMediaFields, MediaKeys
  <2>4. InDesc(e, line)
    BY <1>0, <1>4, <1>6, <2>2, <2>3, NewLine
  <2>5. Desc(p, line) = e
    BY <1>1, <1>3, <1>4 DEF Desc
  <2> QED
    BY <2>1, <2>4, <2>5 DEF Held
<1>10. \A n \in 1 .. line : Held(p, n)
  BY <1>0, <1>8, <1>9
<1>11. key # "t"
  BY DEF SDPMediaFields
<1> QED
  BY <1>0, <1>1, <1>4, <1>5, <1>10, <1>11 DEF Filled

--------------------------------------------------------------------------------
(* The steps of read.                                                       *)

LEMMA StartFiled == SdpInit => FileInv
<1> SUFFICES ASSUME SdpInit PROVE FileInv
  OBVIOUS
<1>1. message \in Seq(STRING) /\ Len(message) \in Nat
  BY MessageAssumption DEF SdpInit
<1>2. 0 \in Lines /\ <<>> \in Seq(Lines)
  BY <1>1, EmptySeq DEF Lines
<1>3. NewPacket \in Packets
  <2>1. <<>> \in Seq([t : Lines, r : Lines]) /\ <<>> \in Seq(Media)
    BY EmptySeq
  <2> QED
    BY <1>2, <2>1 DEF NewPacket, Packets, Fields
<1>4. SdpTypeOK
  <2>1. line \in 1 .. Len(message) + 1 /\ oldIndex \in 0 .. 99
    BY <1>1 DEF SdpInit
  <2>2. bMediaStarted \in BOOLEAN /\ bReqdDone \in BOOLEAN
    BY DEF SdpInit
  <2>3. packet \in Packets
    BY <1>3 DEF SdpInit
  <2>4. ret \in {Reading} \cup -7 .. 0
    BY DEF SdpInit
  <2> QED
    BY <2>1, <2>2, <2>3, <2>4 DEF SdpTypeOK
<1>5. line = 1 /\ prev = "v" /\ bMediaStarted = FALSE /\ ret = 1 /\ line - 1 = 0
  BY DEF SdpInit, Reading
<1>6. packet.media = <<>> /\ packet.nConnInfo = 0 /\ Len(packet.media) = 0
  BY DEF SdpInit, NewPacket
<1>7. SectionOf(line - 1) = 0
  BY <1>5, SectionZero
<1>8. \A n \in 1 .. line - 1 : Held(packet, n)
  BY <1>5
<1>9. bMediaStarted = (packet.media # <<>>)
  BY <1>5, <1>6
<1>10. packet.nConnInfo < line /\ Len(packet.media) = SectionOf(line - 1)
  BY <1>5, <1>6, <1>7
<1>11. /\ ~ bMediaStarted /\ ret # 0 /\ prev # "t"
       /\ prev = IF line = 1 THEN "v" ELSE message[line - 1]
  BY <1>5
<1> QED
  BY <1>1, <1>4, <1>8, <1>9, <1>10, <1>11 DEF FileInv

(* Only what is read changes a line's place.                                *)
LEMMA SameMessage ==
    ASSUME message' = message, NEW p
    PROVE  /\ \A n : SectionOf(n)' = SectionOf(n)
           /\ \A n : Held(p, n)' <=> Held(p, n)
<1>1. \A n : SectionOf(n)' = SectionOf(n)
  BY DEF SectionOf
<1>2. \A d, n : InDesc(d, n)' <=> InDesc(d, n)
  BY <1>1 DEF InDesc
<1>3. \A n : Desc(p, n)' = Desc(p, n)
  BY <1>1 DEF Desc
<1>4. \A n : Held(p, n)' <=> Held(p, n)
  BY <1>2, <1>3 DEF Held
<1> QED
  BY <1>1, <1>4

(* A line that is accepted and put in its place keeps the invariant.        *)
LEMMA AcceptFiled ==
    ASSUME FileInv, Here, NEW index \in Index, NEW old, Accept(index, old), Filled(packet'),
           old \in 0 .. 99, bMediaStarted \/ key = "m" => old >= 14
    PROVE  FileInv'
<1> USE DEF Accept
<1>1. PICK p : p = packet'
  OBVIOUS
<1>2. Filled(p)
  BY <1>1
<1>3. /\ message' = message /\ message \in Seq(STRING) /\ Len(message) \in Nat
      /\ line' = line + 1 /\ line' - 1 = line /\ line \in Nat /\ line >= 1
      /\ line \in 1 .. Len(message)
  BY AtLine DEF FileInv, SdpTypeOK, Here
<1>4. Lines' = Lines /\ Packets' = Packets
  BY <1>3 DEF Lines, Packets, Media, Fields
<1>5. SdpTypeOK'
  <2>1. line' \in 1 .. Len(message') + 1
    BY <1>3
  <2>2. oldIndex' \in 0 .. 99 /\ bMediaStarted' \in BOOLEAN /\ bReqdDone' \in BOOLEAN
    BY DEF FileInv, SdpTypeOK
  <2>3. packet' \in Packets'
    BY <1>1, <1>2, <1>4 DEF Filled
  <2>4. ret' \in {Reading} \cup -7 .. 0
    BY DEF FileInv, SdpTypeOK
  <2> QED
    BY <2>1, <2>2, <2>3, <2>4 DEF SdpTypeOK
<1>6. (bMediaStarted = (packet.media # <<>>))'
  BY <1>1, <1>2 DEF Filled
<1>7. (Len(packet.media) = SectionOf(line - 1))'
  <2>1. \A n : SectionOf(n)' = SectionOf(n)
    BY <1>3, SameMessage
  <2>2. Len(packet'.media) = SectionOf(line)
    BY <1>1, <1>2 DEF Filled
  <2> QED
    BY <1>3, <2>1, <2>2
<1>8. (bMediaStarted => oldIndex >= 14)'
  OBVIOUS
<1>9. (prev = IF line = 1 THEN "v" ELSE message[line - 1])'
  <2>1. line' # 1 /\ message'[line' - 1] = key
    BY <1>3 DEF key
  <2> QED
    BY <2>1
<1>10. (prev = "t" => packet.times # <<>> /\ packet.times[Len(packet.times)].t = line - 1)'
  BY <1>1, <1>2, <1>3 DEF Filled
<1>11. (packet.nConnInfo < line)'
  <2>1. p.nConnInfo <= line /\ p.nConnInfo \in Lines
    BY <1>2 DEF Filled, Packets
  <2>2. p.nConnInfo \in Nat
    BY <1>3, <2>1 DEF Lines
  <2> QED
    BY <1>1, <1>3, <2>1, <2>2
<1>12. (\A n \in 1 .. line - 1 : Held(packet, n))'
  <2>1. \A n \in 1 .. line : Held(p, n)
    BY <1>2 DEF Filled
  <2>2. \A n \in 1 .. line : Held(p, n)'
    BY <1>3, <2>1, SameMessage
  <2> QED
    BY <1>1, <1>3, <2>2
<1>13. ret' # 0
  BY DEF Here, Reading
<1> QED
  BY <1>3, <1>5, <1>6, <1>7, <1>8, <1>9, <1>10, <1>11, <1>12, <1>13 DEF FileInv

(* Nothing is read: only the result may change.                             *)
LEMMA UnreadFiled ==
    ASSUME FileInv, message' = message, line' = line, oldIndex' = oldIndex, prev' = prev,
           bMediaStarted' = bMediaStarted, bReqdDone' = bReqdDone, packet' = packet,
           ret' \in -7 .. 1, ret' = 0 => line = Len(message) + 1
    PROVE  FileInv'
<1>1. PICK p : p = packet
  OBVIOUS
<1>2. Lines' = Lines /\ Packets' = Packets
  BY DEF Lines, Packets, Media, Fields
<1>3. SdpTypeOK'
  <2>1. line' \in 1 .. Len(message') + 1 /\ oldIndex' \in 0 .. 99
    BY DEF FileInv, SdpTypeOK
  <2>2. bMediaStarted' \in BOOLEAN /\ bReqdDone' \in BOOLEAN
    BY DEF FileInv, SdpTypeOK
  <2>3. packet' \in Packets'
    BY <1>2 DEF FileInv, SdpTypeOK
  <2>4. ret' \in {Reading} \cup -7 .. 0
    BY DEF Reading
  <2> QED
    BY <2>1, <2>2, <2>3, <2>4 DEF SdpTypeOK
<1>4. (\A n \in 1 .. line - 1 : Held(packet, n))'
  <2>1. \A n \in 1 .. line - 1 : Held(p, n)
    BY <1>1 DEF FileInv
  <2>2. \A n \in 1 .. line - 1 : Held(p, n)'
    BY <2>1, SameMessage
  <2> QED
    BY <1>1, <2>2
<1>5. (Len(packet.media) = SectionOf(line - 1))'
  <2>1. \A n : SectionOf(n)' = SectionOf(n)
    BY SameMessage
  <2>2. Len(packet.media) = SectionOf(line - 1)
    BY DEF FileInv
  <2> QED
    BY <2>1, <2>2
<1>6. (bMediaStarted = (packet.media # <<>>))'
  BY DEF FileInv
<1>7. (bMediaStarted => oldIndex >= 14)'
  BY DEF FileInv
<1>8. (prev = IF line = 1 THEN "v" ELSE message[line - 1])'
  BY DEF FileInv
<1>9. (prev = "t" => packet.times # <<>> /\ packet.times[Len(packet.times)].t = line - 1)'
  BY DEF FileInv
<1>10. (packet.nConnInfo < line)'
  BY DEF FileInv
<1>11. (message \in Seq(STRING))'
  BY DEF FileInv
<1>12. (ret = 0 => line = Len(message) + 1)'
  OBVIOUS
<1> QED
  BY <1>3, <1>4, <1>5, <1>6, <1>7, <1>8, <1>9, <1>10, <1>11, <1>12 DEF FileInv

LEMMA RefuseFiled ==
    ASSUME FileInv, Here, NEW index \in Index, Refuse(index)
    PROVE  FileInv'
<1>1. /\ message' = message /\ line' = line /\ oldIndex' = oldIndex /\ prev' = prev
      /\ bMediaStarted' = bMediaStarted /\ bReqdDone' = bReqdDone /\ packet' = packet
  BY DEF Refuse, readState
<1>2. ret' \in -7 .. -1
  BY DEF Refuse, Refused
<1> QED
  BY <1>1, <1>2, UnreadFiled

LEMMA FinishFiled ==
    ASSUME FileInv, Finish
    PROVE  FileInv'
<1>1. /\ message' = message /\ line' = line /\ oldIndex' = oldIndex /\ prev' = prev
      /\ bMediaStarted' = bMediaStarted /\ bReqdDone' = bReqdDone /\ packet' = packet
  BY DEF Finish, readState
<1>2. ret' \in -7 .. 0
  BY DEF Finish
<1>3. line = Len(message) + 1
  <2>1. Len(message) \in Nat /\ line \in 1 .. Len(message) + 1 /\ line > Len(message)
    BY DEF FileInv, SdpTypeOK, Finish
  <2> QED
    BY <2>1
<1> QED
  BY <1>1, <1>2, <1>3, UnreadFiled

LEMMA TimeFiled ==
    ASSUME FileInv, Here, NEW index \in Index, ReadTime(index)
    PROVE  FileInv'
<1>1. Refused(index) = 0
  BY DEF ReadTime, Accept
<1>2. ~ bMediaStarted /\ (key = "r" => prev = "t")
  BY <1>1, Admitted DEF ReadTime, SessionOnly
<1>3. CASE key = "t" /\ Accept(index, 10)
           /\ packet' = [packet EXCEPT !.times = Append(@, [t |-> line, r |-> 0])]
  <2>1. PICK p : p = packet'
    OBVIOUS
  <2>2. Filled(p)
    BY <1>2, <1>3, <2>1, TimeFills
  <2>3. Accept(index, 10) /\ Filled(packet')
    BY <1>3, <2>1, <2>2
  <2>4. ~ (bMediaStarted \/ key = "m")
    BY <1>2, <1>3
  <2>5. 10 \in 0 .. 99
    OBVIOUS
  <2> QED
    BY <2>3, <2>4, <2>5, AcceptFiled
<1>4. CASE key = "r" /\ Accept(index, 8)
           /\ packet' = [packet EXCEPT !.times[Len(packet.times)].r = line]
  <2>1. PICK p : p = packet'
    OBVIOUS
  <2>2. Filled(p)
    BY <1>2, <1>4, <2>1, RepeatFills
  <2>3. Accept(index, 8) /\ Filled(packet')
    BY <1>4, <2>1, <2>2
  <2>4. ~ (bMediaStarted \/ key = "m")
    BY <1>2, <1>4
  <2>5. 8 \in 0 .. 99
    OBVIOUS
  <2> QED
    BY <2>3, <2>4, <2>5, AcceptFiled
<1> QED
  BY <1>3, <1>4 DEF ReadTime

LEMMA MediaFiled ==
    ASSUME FileInv, Here, NEW index \in Index, ReadMedia(index)
    PROVE  FileInv'
<1>1. Refused(index) = 0 /\ key \in SDPMediaFields /\ (bMediaStarted \/ key = "m")
      /\ Accept(index, Old(index))
  BY DEF ReadMedia, Accept
<1>2. Old(index) \in 0 .. 99 /\ (bMediaStarted \/ key = "m" => Old(index) >= 14)
  BY <1>1, Admitted DEF Old
<1>3. PICK p : p = packet'
  OBVIOUS
<1>4. Filled(p)
  BY <1>1, <1>3, MediaFills DEF ReadMedia
<1> QED
  BY <1>1, <1>2, <1>3, <1>4, AcceptFiled

LEMMA SessionFiled ==
    ASSUME FileInv, Here, NEW index \in Index, ReadSession(index)
    PROVE  FileInv'
<1>1. Refused(index) = 0 /\ key \notin {"t", "r", "m"}
      /\ ~ (bMediaStarted /\ key \in SDPMediaFields) /\ Accept(index, Old(index))
  BY DEF ReadSession, Accept
<1>2. (bMediaStarted => key \notin SessionOnly) /\ (bMediaStarted => key # "a")
  BY <1>1, Admitted DEF SDPMediaFields
<1>3. Old(index) \in 0 .. 99 /\ (bMediaStarted \/ key = "m" => Old(index) >= 14)
  BY <1>1, <1>2, Admitted DEF Old
<1>4. PICK p : p = packet'
  OBVIOUS
<1>5. Filled(p)
  BY <1>1, <1>2, <1>4, SessionFills DEF ReadSession
<1> QED
  BY <1>1, <1>3, <1>4, <1>5, AcceptFiled

LEMMA StepFiled == FileInv /\ [SdpNext]_sdpVars => FileInv'
<1> SUFFICES ASSUME FileInv, [SdpNext]_sdpVars PROVE FileInv'
  OBVIOUS
<1>1. ASSUME Here, NEW index \in Index, Refuse(index) PROVE FileInv'
  BY <1>1, RefuseFiled
<1>2. ASSUME Here, NEW index \in Index, ReadTime(index) PROVE FileInv'
  BY <1>2, TimeFiled
<1>3. ASSUME Here, NEW index \in Index, ReadMedia(index) PROVE FileInv'
  BY <1>3, MediaFiled
<1>4. ASSUME Here, NEW index \in Index, ReadSession(index) PROVE FileInv'
  BY <1>4, SessionFiled
<1>5. CASE Finish
  BY <1>5, FinishFiled
<1>6. CASE UNCHANGED sdpVars
  <2>1. /\ message' = message /\ line' = line /\ oldIndex' = oldIndex /\ prev' = prev
        /\ bMediaStarted' = bMediaStarted /\ bReqdDone' = bReqdDone /\ packet' = packet
        /\ ret' = ret
    BY <1>6 DEF sdpVars, readState
  <2>2. ret \in {Reading} \cup -7 .. 0 /\ (ret = 0 => line = Len(message) + 1)
    BY DEF FileInv, SdpTypeOK
  <2> QED
    BY <2>1, <2>2, UnreadFiled DEF Reading
<1> QED
  BY <1>1, <1>2, <1>3, <1>4, <1>5, <1>6 DEF SdpNext

--------------------------------------------------------------------------------
(* A packet has what the lines that were read say, and nothing else.        *)

(* The lines with key k of section j, and the times, of the first n lines.  *)
LinesOf(k, j, n) == {i \in 1 .. n : message[i] = k /\ SectionOf(i) = j}
TimesOf(n) == {i \in 1 .. n : message[i] = "t"}

LEMMA LinesStep ==
    ASSUME NEW k, NEW j, NEW n \in Nat
    PROVE  /\ Cardinality(LinesOf(k, j, n)) \in Nat
           /\ LinesOf(k, j, n + 1) = IF message[n + 1] = k /\ SectionOf(n + 1) = j
                                     THEN LinesOf(k, j, n) \cup {n + 1} ELSE LinesOf(k, j, n)
           /\ Cardinality(LinesOf(k, j, n + 1)) = Cardinality(LinesOf(k, j, n)) +
                  IF message[n + 1] = k /\ SectionOf(n + 1) = j THEN 1 ELSE 0
<1>1. IsFiniteSet(LinesOf(k, j, n)) /\ n + 1 \notin LinesOf(k, j, n)
  <2>1. IsFiniteSet(1 .. n) /\ LinesOf(k, j, n) \subseteq 1 .. n
    BY FS_Interval DEF LinesOf
  <2>2. n + 1 \notin 1 .. n
    OBVIOUS
  <2> QED
    BY <2>1, <2>2, FS_Subset
<1>2. Cardinality(LinesOf(k, j, n)) \in Nat
  BY <1>1, FS_CardinalityType
<1>3. LinesOf(k, j, n + 1) = IF message[n + 1] = k /\ SectionOf(n + 1) = j
                             THEN LinesOf(k, j, n) \cup {n + 1} ELSE LinesOf(k, j, n)
  <2>1. \A i \in 1 .. n + 1 : i \in 1 .. n \/ i = n + 1
    OBVIOUS
  <2>2. n + 1 \in 1 .. n + 1 /\ \A i \in 1 .. n : i \in 1 .. n + 1
    OBVIOUS
  <2> QED
    BY <2>1, <2>2 DEF LinesOf
<1>4. Cardinality(LinesOf(k, j, n) \cup {n + 1}) = Cardinality(LinesOf(k, j, n)) + 1
  BY <1>1, FS_AddElement
<1>5. CASE message[n + 1] = k /\ SectionOf(n + 1) = j
  BY <1>2, <1>3, <1>4, <1>5
<1>6. CASE ~ (message[n + 1] = k /\ SectionOf(n + 1) = j)
  BY <1>2, <1>3, <1>6
<1> QED
  BY <1>2, <1>3, <1>5, <1>6

LEMMA LinesKept ==
    ASSUME NEW k, NEW j, NEW n \in Nat, SectionOf(n + 1) # j \/ message[n + 1] # k
    PROVE  LinesOf(k, j, n + 1) = LinesOf(k, j, n)
<1>1. \A i \in 1 .. n + 1 : i \in 1 .. n \/ i = n + 1
  OBVIOUS
<1>2. \A i \in 1 .. n : i \in 1 .. n + 1
  OBVIOUS
<1> QED
  BY <1>1, <1>2 DEF LinesOf

LEMMA TimesStep ==
    ASSUME NEW n \in Nat
    PROVE  /\ Cardinality(TimesOf(n)) \in Nat
           /\ message[n + 1] = "t" =>
                  Cardinality(TimesOf(n + 1)) = Cardinality(TimesOf(n)) + 1
           /\ message[n + 1] # "t" => Cardinality(TimesOf(n + 1)) = Cardinality(TimesOf(n))
<1>1. IsFiniteSet(TimesOf(n)) /\ n + 1 \notin TimesOf(n)
  <2>1. IsFiniteSet(1 .. n) /\ TimesOf(n) \subseteq 1 .. n
    BY FS_Interval DEF TimesOf
  <2>2. n + 1 \notin 1 .. n
    OBVIOUS
  <2> QED
    BY <2>1, <2>2, FS_Subset
<1>2. Cardinality(TimesOf(n)) \in Nat
  BY <1>1, FS_CardinalityType
<1>3. TimesOf(n + 1) = IF message[n + 1] = "t" THEN TimesOf(n) \cup {n + 1} ELSE TimesOf(n)
  BY DEF TimesOf
<1>4. Cardinality(TimesOf(n) \cup {n + 1}) = Cardinality(TimesOf(n)) + 1
  BY <1>1, FS_AddElement
<1> QED
  BY <1>2, <1>3, <1>4

(* After n lines the description desc of section j has them.                *)
Exact(desc, j, keys, n) ==
    /\ \A k \in keys : desc.fields[k] > 0 <=> LinesOf(k, j, n) # {}
    /\ Len(desc.attribs) = Cardinality(LinesOf("a", j, n))

(* A line that does not belong to the description leaves it as it is.       *)
LEMMA ExactKept ==
    ASSUME NEW desc, NEW j, NEW keys, NEW n \in Nat, Exact(desc, j, keys, n),
           SectionOf(n + 1) # j \/ message[n + 1] \notin keys \cup {"a"}
    PROVE  Exact(desc, j, keys, n + 1)
<1>1. ASSUME NEW k \in keys \cup {"a"}
      PROVE  /\ LinesOf(k, j, n + 1) = LinesOf(k, j, n)
             /\ Cardinality(LinesOf(k, j, n + 1)) = Cardinality(LinesOf(k, j, n))
  <2>1. LinesOf(k, j, n + 1) = LinesOf(k, j, n)
    BY LinesKept
  <2> QED
    BY <2>1
<1> QED
  BY <1>1 DEF Exact

(* A line that does is put into it.                                         *)
LEMMA ExactAdded ==
    ASSUME NEW desc, NEW e, NEW j, NEW keys, NEW n \in Nat, Exact(desc, j, keys, n),
           SectionOf(n + 1) = j, "a" \notin keys, NEW T, desc.attribs \in Seq(T),
           e.attribs = IF message[n + 1] = "a" THEN Append(desc.attribs, n + 1) ELSE desc.attribs,
           \A x \in keys : e.fields[x] = IF x = message[n + 1] THEN n + 1 ELSE desc.fields[x]
    PROVE  Exact(e, j, keys, n + 1)
<1>1. ASSUME NEW k \in keys PROVE e.fields[k] > 0 <=> LinesOf(k, j, n + 1) # {}
  <2>1. CASE k = message[n + 1]
    <3>1. n + 1 \in LinesOf(k, j, n + 1)
      BY <2>1, LinesStep
    <3> QED
      BY <2>1, <3>1
  <2>2. CASE k # message[n + 1]
    <3>1. LinesOf(k, j, n + 1) = LinesOf(k, j, n)
      BY <2>2, LinesKept
    <3>2. e.fields[k] = desc.fields[k]
      BY <2>2
    <3> QED
      BY <3>1, <3>2 DEF Exact
  <2> QED
    BY <2>1, <2>2
<1>2. Len(e.attribs) = Cardinality(LinesOf("a", j, n + 1))
  <2>1. Len(desc.attribs) = Cardinality(LinesOf("a", j, n))
    BY DEF Exact
  <2>2. CASE message[n + 1] = "a"
    <3>1. Cardinality(LinesOf("a", j, n + 1)) = Cardinality(LinesOf("a", j, n)) + 1
      BY <2>2, LinesStep
    <3>2. Len(e.attribs) = Len(desc.attribs) + 1
      BY <2>2
    <3> QED
      BY <2>1, <3>1, <3>2
  <2>3. CASE message[n + 1] # "a"
    <3>1. Cardinality(LinesOf("a", j, n + 1)) = Cardinality(LinesOf("a", j, n)) + 0
          /\ Cardinality(LinesOf("a", j, n)) \in Nat
      BY <2>3, LinesStep
    <3> QED
      BY <2>1, <2>3, <3>1
  <2> QED
    BY <2>2, <2>3
<1> QED
  BY <1>1, <1>2 DEF Exact

(* The packet p after n lines.                                              *)
ExactTo(p, n) ==
    /\ Exact(p, 0, SessionKeys, n)
    /\ \A j \in 1 .. Len(p.media) : Exact(p.media[j], j, MediaKeys, n)
    /\ Len(p.times) = Cardinality(TimesOf(n))
    /\ p.nConnInfo > 0 <=> p.fields["c"] > 0
ExactInv == ExactTo(packet, line - 1)

(* No media description has the lines of a section that has not begun.      *)
LEMMA NewExact ==
    ASSUME FileInv, Here
    PROVE  Exact(NewMedia, SectionOf(line - 1) + 1, MediaKeys, line - 1)
<1>1. PICK j : j = SectionOf(line - 1) + 1
  OBVIOUS
<1>2. ASSUME NEW k PROVE LinesOf(k, j, line - 1) = {}
  <2>1. \A n \in 1 .. line - 1 : SectionOf(n) # j
    BY <1>1, AtLine
  <2> QED
    BY <2>1 DEF LinesOf
<1>3. Cardinality(LinesOf("a", j, line - 1)) = 0
  BY <1>2, FS_EmptySet
<1>4. \A k \in MediaKeys : NewMedia.fields[k] = 0
  BY DEF NewMedia
<1>5. Len(NewMedia.attribs) = 0
  BY DEF NewMedia
<1>6. Exact(NewMedia, j, MediaKeys, line - 1)
  BY <1>2, <1>3, <1>4, <1>5 DEF Exact
<1> QED
  BY <1>1, <1>6

LEMMA ExactMedia ==
    ASSUME FileInv, Here, ExactInv, NEW index \in Index, ReadMedia(index)
    PROVE  ExactTo(packet', line)
<1>0. PICK n \in Nat : n = line - 1 /\ n + 1 = line
  BY AtLine
<1>1. key \in SDPMediaFields /\ (bMediaStarted \/ key = "m") /\ message[n + 1] = key
  BY <1>0 DEF ReadMedia, key
<1>2. PICK p : p = packet'
  OBVIOUS
<1>3. PICK L : L = SectionOf(line)
  OBVIOUS
<1>4. PICK d : d = IF key = "m" THEN NewMedia ELSE packet.media[L]
  OBVIOUS
<1>5. PICK e : e = p.media[L]
  OBVIOUS
<1>6. /\ p \in Packets /\ p.times = packet.times /\ p.nConnInfo = packet.nConnInfo
      /\ p.attribs = packet.attribs /\ p.fields = packet.fields
      /\ L \in Nat /\ L >= 1 /\ Len(p.media) = L
      /\ Len(packet.media) = IF key = "m" THEN L - 1 ELSE L
      /\ \A i \in 1 .. L : i # L => p.media[i] = packet.media[i]
      /\ d \in Media /\ e \in Media
      /\ e.attribs = IF key = "a" THEN Append(d.attribs, line) ELSE d.attribs
      /\ \A x \in MediaKeys : e.fields[x] = IF x = key THEN line ELSE d.fields[x]
  <2>1. p = SetMedia(key, line)
    BY <1>2 DEF ReadMedia
  <2> QED
    BY <1>1, <1>3, <1>4, <1>5, <2>1, MediaSet
<1>7. Exact(d, L, MediaKeys, n)
  <2>1. CASE key = "m"
    <3>1. L = SectionOf(line - 1) + 1
      BY <1>3, <2>1, AtLine
    <3> QED
      BY <1>0, <1>4, <2>1, <3>1, NewExact
  <2>2. CASE key # "m"
    <3>1. L \in 1 .. Len(packet.media)
      BY <1>6, <2>2
    <3> QED
      BY <1>0, <1>4, <2>2, <3>1 DEF ExactInv, ExactTo
  <2> QED
    BY <2>1, <2>2
<1>8. Exact(e, L, MediaKeys, n + 1)
  <2>1. "a" \notin MediaKeys /\ d.attribs \in Seq(Lines) /\ SectionOf(n + 1) = L
    BY <1>0, <1>3, <1>6 DEF MediaKeys, Media
  <2>2. e.attribs = IF message[n + 1] = "a" THEN Append(d.attribs, n + 1) ELSE d.attribs
    BY <1>0, <1>1, <1>6
  <2>3. \A x \in MediaKeys : e.fields[x] = IF x = message[n + 1] THEN n + 1 ELSE d.fields[x]
    BY <1>0, <1>1, <1>6
  <2> HIDE DEF Exact
  <2> QED
    BY <1>7, <2>1, <2>2, <2>3, ExactAdded
<1>9. ASSUME NEW j \in 1 .. L PROVE Exact(p.media[j], j, MediaKeys, n + 1)
  <2>1. CASE j = L
    BY <1>5, <1>8, <2>1
  <2>2. CASE j # L
    <3>1. j \in 1 .. Len(packet.media) /\ p.media[j] = packet.media[j]
      BY <1>6, <2>2
    <3>2. Exact(packet.media[j], j, MediaKeys, n)
      BY <1>0, <3>1 DEF ExactInv, ExactTo
    <3>3. SectionOf(n + 1) # j
      BY <1>0, <1>3, <2>2
    <3> QED
      BY <3>1, <3>2, <3>3, ExactKept
  <2> QED
    BY <2>1, <2>2
<1>10. Exact(p, 0, SessionKeys, n + 1)
  <2>1. Exact(packet, 0, SessionKeys, n)
    BY <1>0 DEF ExactInv, ExactTo
  <2>2. SectionOf(n + 1) # 0
    BY <1>0, <1>3, <1>6
  <2>3. Exact(packet, 0, SessionKeys, n + 1)
    BY <2>1, <2>2, ExactKept
  <2> QED
    BY <1>6, <2>3 DEF Exact
<1>11. Len(p.times) = Cardinality(TimesOf(n + 1))
  <2>1. Len(packet.times) = Cardinality(TimesOf(n))
    BY <1>0 DEF ExactInv, ExactTo
  <2>2. message[n + 1] # "t"
    BY <1>1 DEF SDPMediaFields
  <2> QED
    BY <1>6, <2>1, <2>2, TimesStep
<1> QED
  BY <1>0, <1>2, <1>6, <1>9, <1>10, <1>11 DEF ExactInv, ExactTo

LEMMA ExactSession ==
    ASSUME FileInv, Here, ExactInv, NEW index \in Index, ReadSession(index)
    PROVE  ExactTo(packet', line)
<1>0. PICK n \in Nat : n = line - 1 /\ n + 1 = line
  BY AtLine
<1>1. /\ key \notin {"t", "r", "m"} /\ ~ (bMediaStarted /\ key \in SDPMediaFields)
      /\ Refused(index) = 0 /\ message[n + 1] = key
  BY <1>0 DEF ReadSession, Accept, key
<1>2. PICK p : p = packet'
  OBVIOUS
<1>3. /\ p \in Packets /\ p.times = packet.times /\ p.media = packet.media
      /\ p.nConnInfo = IF key = "c" THEN packet.nConnInfo + 1 ELSE packet.nConnInfo
      /\ p.attribs = IF key = "a" THEN Append(packet.attribs, line) ELSE packet.attribs
      /\ \A x \in SessionKeys : p.fields[x] = IF x = key THEN line ELSE packet.fields[x]
  BY <1>2, SessionSet DEF ReadSession
<1>4. Exact(packet, 0, SessionKeys, n)
  BY <1>0 DEF ExactInv, ExactTo
<1>5. bMediaStarted => key \notin SessionKeys \cup {"a"}
  <2>1. bMediaStarted => key \notin SessionOnly
    BY <1>1, Admitted
  <2> QED
    BY <1>1, <2>1 DEF SessionKeys, SessionOnly, SDPMediaFields
<1>6. Exact(p, 0, SessionKeys, n + 1)
  <2>1. CASE bMediaStarted
    <3>1. Exact(packet, 0, SessionKeys, n + 1)
      BY <1>1, <1>4, <1>5, <2>1, ExactKept
    <3>2. p.attribs = packet.attribs /\ \A x \in SessionKeys : p.fields[x] = packet.fields[x]
      BY <1>3, <1>5, <2>1
    <3> QED
      BY <3>1, <3>2 DEF Exact
  <2>2. CASE ~ bMediaStarted
    <3>1. SectionOf(n + 1) = 0
      BY <1>0, <1>1, <2>2, NoMedia, AtLine
    <3>2. "a" \notin SessionKeys /\ packet.attribs \in Seq(Lines)
      BY AtLine DEF SessionKeys
    <3>3. p.attribs = IF message[n + 1] = "a" THEN Append(packet.attribs, n + 1)
                      ELSE packet.attribs
      BY <1>0, <1>1, <1>3
    <3>4. \A x \in SessionKeys :
             p.fields[x] = IF x = message[n + 1] THEN n + 1 ELSE packet.fields[x]
      BY <1>0, <1>1, <1>3
    <3> QED
      BY <1>4, <3>1, <3>2, <3>3, <3>4, ExactAdded
  <2> QED
    BY <2>1, <2>2
<1>7. ASSUME NEW j \in 1 .. Len(p.media) PROVE Exact(p.media[j], j, MediaKeys, n + 1)
  <2>1. Exact(p.media[j], j, MediaKeys, n) /\ j >= 1
    BY <1>0, <1>3 DEF ExactInv, ExactTo
  <2>2. SectionOf(n + 1) # j \/ message[n + 1] \notin MediaKeys \cup {"a"}
    <3>1. CASE bMediaStarted
      BY <1>1, <1>5, <3>1 DEF SessionKeys, MediaKeys
    <3>2. CASE ~ bMediaStarted
      <4>1. SectionOf(n + 1) = 0
        BY <1>0, <1>1, <3>2, NoMedia, AtLine
      <4> QED
        BY <2>1, <4>1
    <3> QED
      BY <3>1, <3>2
  <2> QED
    BY <2>1, <2>2, ExactKept
<1>8. Len(p.times) = Cardinality(TimesOf(n + 1))
  <2>1. Len(packet.times) = Cardinality(TimesOf(n))
    BY <1>0 DEF ExactInv, ExactTo
  <2> QED
    BY <1>1, <1>3, <2>1, TimesStep
<1>9. p.nConnInfo > 0 <=> p.fields["c"] > 0
  <2>1. "c" \in SessionKeys /\ packet.nConnInfo \in Nat /\ line \in Nat /\ line >= 1
    BY AtLine DEF SessionKeys
  <2>2. packet.nConnInfo > 0 <=> packet.fields["c"] > 0
    BY DEF ExactInv, ExactTo
  <2>3. CASE key = "c"
    BY <1>3, <2>1, <2>3
  <2>4. CASE key # "c"
    BY <1>3, <2>1, <2>2, <2>4
  <2> QED
    BY <2>3, <2>4
<1> QED
  BY <1>0, <1>2, <1>6, <1>7, <1>8, <1>9 DEF ExactTo

LEMMA ExactTime ==
    ASSUME FileInv, Here, ExactInv, NEW index \in Index, ReadTime(index)
    PROVE  ExactTo(packet', line)
<1>0. PICK n \in Nat : n = line - 1 /\ n + 1 = line
  BY AtLine
<1>1. key \in {"t", "r"} /\ Refused(index) = 0 /\ message[n + 1] = key
  BY <1>0 DEF ReadTime, Accept, key
<1>2. PICK p : p = packet'
  OBVIOUS
<1>3. packet \in Packets /\ packet.times \in Seq([t : Lines, r : Lines])
  BY AtLine
<1>4. /\ p.media = packet.media /\ p.fields = packet.fields
      /\ p.attribs = packet.attribs /\ p.nConnInfo = packet.nConnInfo
      /\ Len(p.times) = Len(packet.times) + IF key = "t" THEN 1 ELSE 0
  <2>1. CASE key = "t"
    <3>1. p = [packet EXCEPT !.times = Append(packet.times, [t |-> line, r |-> 0])]
      BY <1>2, <2>1 DEF ReadTime
    <3>2. Len(Append(packet.times, [t |-> line, r |-> 0])) = Len(packet.times) + 1
      BY <1>3
    <3> QED
      BY <1>3, <2>1, <3>1, <3>2 DEF Packets
  <2>2. CASE key = "r"
    <3>1. PICK times : times = [packet.times EXCEPT ![Len(packet.times)] =
                                    [packet.times[Len(packet.times)] EXCEPT !.r = line]]
      OBVIOUS
    <3>2. p = [packet EXCEPT !.times = times]
      BY <1>2, <2>2, <3>1 DEF ReadTime
    <3>3. Len(times) = Len(packet.times) /\ Len(packet.times) \in Nat
      BY <1>3, <3>1
    <3> QED
      BY <1>3, <2>2, <3>2, <3>3 DEF Packets
  <2> QED
    BY <1>1, <2>1, <2>2
<1>5. Exact(p, 0, SessionKeys, n + 1)
  <2>1. Exact(packet, 0, SessionKeys, n)
    BY <1>0 DEF ExactInv, ExactTo
  <2>2. message[n + 1] \notin SessionKeys \cup {"a"}
    BY <1>1 DEF SessionKeys
  <2>3. Exact(packet, 0, SessionKeys, n + 1)
    BY <2>1, <2>2, ExactKept
  <2> QED
    BY <1>4, <2>3 DEF Exact
<1>6. ASSUME NEW j \in 1 .. Len(p.media) PROVE Exact(p.media[j], j, MediaKeys, n + 1)
  <2>1. Exact(p.media[j], j, MediaKeys, n)
    BY <1>0, <1>4 DEF ExactInv, ExactTo
  <2>2. message[n + 1] \notin MediaKeys \cup {"a"}
    BY <1>1 DEF MediaKeys
  <2> QED
    BY <2>1, <2>2, ExactKept
<1>7. Len(p.times) = Cardinality(TimesOf(n + 1))
  <2>1. Len(packet.times) = Cardinality(TimesOf(n))
    BY <1>0 DEF ExactInv, ExactTo
  <2>2. Len(p.times) = Len(packet.times) + IF key = "t" THEN 1 ELSE 0
    BY <1>4
  <2>3. CASE key = "t"
    <3>1. Cardinality(TimesOf(n + 1)) = Cardinality(TimesOf(n)) + 1
      BY <1>1, <2>3, TimesStep
    <3> QED
      BY <2>1, <2>2, <2>3, <3>1
  <2>4. CASE key # "t"
    <3>1. Cardinality(TimesOf(n + 1)) = Cardinality(TimesOf(n))
      BY <1>1, <2>4, TimesStep
    <3>2. Len(packet.times) \in Nat
      BY <1>3
    <3> QED
      BY <2>1, <2>2, <2>4, <3>1, <3>2
  <2> QED
    BY <2>3, <2>4
<1>8. p.nConnInfo > 0 <=> p.fields["c"] > 0
  BY <1>4 DEF ExactInv, ExactTo
<1> QED
  BY <1>0, <1>2, <1>5, <1>6, <1>7, <1>8 DEF ExactTo

LEMMA StartExact == SdpInit => ExactInv
<1> SUFFICES ASSUME SdpInit PROVE ExactInv
  OBVIOUS
<1>1. packet = NewPacket /\ line - 1 = 0
  BY DEF SdpInit
<1>2. \A k, j : LinesOf(k, j, 0) = {}
  BY DEF LinesOf
<1>3. TimesOf(0) = {} /\ Cardinality({}) = 0
  BY FS_EmptySet DEF TimesOf
<1>4. /\ packet.media = <<>> /\ Len(packet.media) = 0 /\ Len(packet.attribs) = 0
      /\ Len(packet.times) = 0 /\ packet.nConnInfo = 0
      /\ \A k \in SessionKeys : packet.fields[k] = 0
  BY <1>1 DEF NewPacket
<1>5. Exact(packet, 0, SessionKeys, 0)
  <2>1. Cardinality(LinesOf("a", 0, 0)) = 0
    BY <1>2, <1>3
  <2>2. \A k \in SessionKeys : packet.fields[k] > 0 <=> LinesOf(k, 0, 0) # {}
    BY <1>2, <1>4
  <2> QED
    BY <1>4, <2>1, <2>2 DEF Exact
<1>6. "c" \in SessionKeys
  BY DEF SessionKeys
<1> QED
  BY <1>1, <1>3, <1>4, <1>5, <1>6 DEF ExactInv, ExactTo

LEMMA StepExact == FileInv /\ ExactInv /\ [SdpNext]_sdpVars => ExactInv'
<1> SUFFICES ASSUME FileInv, ExactInv, [SdpNext]_sdpVars PROVE ExactInv'
  OBVIOUS
<1>1. message' = message
  BY DEF SdpNext, Refuse, ReadTime, ReadMedia, ReadSession, Accept, Finish, sdpVars
<1>2. ASSUME NEW p, NEW n, ExactTo(p, n) PROVE ExactTo(p, n)'
  <2>1. \A i : SectionOf(i)' = SectionOf(i)
    BY <1>1 DEF SectionOf
  <2>2. \A k, j : LinesOf(k, j, n)' = LinesOf(k, j, n)
    BY <1>1, <2>1 DEF LinesOf
  <2>3. TimesOf(n)' = TimesOf(n)
    BY <1>1 DEF TimesOf
  <2>4. \A d, j, keys : Exact(d, j, keys, n) => Exact(d, j, keys, n)'
    BY <2>2 DEF Exact
  <2> QED
    BY <1>2, <2>3, <2>4 DEF ExactTo
<1>3. ASSUME line' = line, packet' = packet PROVE ExactInv'
  <2>1. PICK p, n : p = packet /\ n = line - 1
    OBVIOUS
  <2>2. ExactTo(p, n)'
    BY <1>2, <2>1 DEF ExactInv
  <2> QED
    BY <1>3, <2>1, <2>2 DEF ExactInv
<1>4. ASSUME ExactTo(packet', line), line' = line + 1, Here PROVE ExactInv'
  <2>1. PICK p, n : p = packet' /\ n = line
    OBVIOUS
  <2>2. ExactTo(p, n)'
    BY <1>2, <1>4, <2>1
  <2>3. line' - 1 = n
    BY <1>4, <2>1, AtLine
  <2> QED
    BY <2>1, <2>2, <2>3 DEF ExactInv
<1>5. CASE UNCHANGED sdpVars
  BY <1>3, <1>5 DEF sdpVars
<1>6. CASE Finish
  BY <1>3, <1>6 DEF Finish
<1>7. ASSUME Here, NEW index \in Index, Refuse(index) PROVE ExactInv'
  BY <1>3, <1>7 DEF Refuse
<1>8. ASSUME Here, NEW index \in Index, ReadTime(index) PROVE ExactInv'
  <2>1. ExactTo(packet', line) /\ line' = line + 1
    BY <1>8, ExactTime DEF ReadTime, Accept
  <2> QED
    BY <1>4, <1>8, <2>1
<1>9. ASSUME Here, NEW index \in Index, ReadMedia(index) PROVE ExactInv'
  <2>1. ExactTo(packet', line) /\ line' = line + 1
    BY <1>9, ExactMedia DEF ReadMedia, Accept
  <2> QED
    BY <1>4, <1>9, <2>1
<1>10. ASSUME Here, NEW index \in Index, ReadSession(index) PROVE ExactInv'
  <2>1. ExactTo(packet', line) /\ line' = line + 1
    BY <1>10, ExactSession DEF ReadSession, Accept
  <2> QED
    BY <1>4, <1>10, <2>1
<1> QED
  BY <1>5, <1>6, <1>7, <1>8, <1>9, <1>10 DEF SdpNext

--------------------------------------------------------------------------------
(* A message in order is accepted.                                          *)

(* The index of a key that is known is its first place in the table, or its *)
(* last one in a media description.                                         *)
LEMMA RankIndex ==
    ASSUME NEW k, k \in Range(SDPFields)
    PROVE  /\ Min(Places(k)) \in 1 .. 15 /\ indexOf(k) = {Min(Places(k)) - 1}
           /\ Max(Places(k)) \in 1 .. 20 /\ lastIndexOf(k) = {Max(Places(k)) - 1}
           /\ k = "s" => Min(Places(k)) = 3
           /\ k = "t" => Min(Places(k)) = 10
           /\ k = "r" => Min(Places(k)) = 11
           /\ k \notin {"t", "r"} => Min(Places(k)) \notin {10, 11}
           /\ k = "m" => Min(Places(k)) = 15 /\ Max(Places(k)) = 15
           /\ k \in SDPMediaFields \ {"m"} => Max(Places(k)) \in 16 .. 20
           /\ k \notin SDPMediaFields => Min(Places(k)) <= 12
<1>1. ASSUME NEW i \in 1 .. 20, NEW j \in 1 .. 20, i <= j, Places(k) = {i, j}
      PROVE  /\ Min(Places(k)) = i /\ indexOf(k) = {i - 1}
             /\ Max(Places(k)) = j /\ lastIndexOf(k) = {j - 1}
  BY <1>1, Ends DEF indexOf, lastIndexOf
<1>2. ASSUME NEW i \in 1 .. 20, Places(k) = {i}
      PROVE  /\ Min(Places(k)) = i /\ indexOf(k) = {i - 1}
             /\ Max(Places(k)) = i /\ lastIndexOf(k) = {i - 1}
  <2>1. Places(k) = {i, i}
    BY <1>2
  <2> QED
    BY <1>1, <2>1
<1>3. Places(k) # {}
  BY DEF Range, Places, SDPFields
<1>4. k \in SessionOnly \cup SDPMediaFields
  BY <1>3, KeyPlaces
<1>5. CASE k \in SDPMediaFields
  <2>1. k = "m" => Places(k) = {15}
    BY KeyPlaces
  <2>2. k = "i" => Places(k) = {4, 16}
    BY KeyPlaces
  <2>3. k = "c" => Places(k) = {8, 17}
    BY KeyPlaces
  <2>4. k = "b" => Places(k) = {9, 18}
    BY KeyPlaces
  <2>5. k = "k" => Places(k) = {13, 19}
    BY KeyPlaces
  <2>6. k = "a" => Places(k) = {14, 20}
    BY KeyPlaces
  <2>7. CASE k = "m"
    BY <1>2, <2>1, <2>7 DEF SDPMediaFields
  <2>8. CASE k = "i"
    BY <1>1, <2>2, <2>8 DEF SDPMediaFields
  <2>9. CASE k = "c"
    BY <1>1, <2>3, <2>9 DEF SDPMediaFields
  <2>10. CASE k = "b"
    BY <1>1, <2>4, <2>10 DEF SDPMediaFields
  <2>11. CASE k = "k"
    BY <1>1, <2>5, <2>11 DEF SDPMediaFields
  <2>12. CASE k = "a"
    BY <1>1, <2>6, <2>12 DEF SDPMediaFields
  <2> QED
    BY <1>5, <2>7, <2>8, <2>9, <2>10, <2>11, <2>12 DEF SDPMediaFields
<1>6. CASE k \in SessionOnly
  <2>1. PICK i \in 1 .. 12 : Places(k) = {i} /\ SDPFields[i] = k
    <3>1. PICK i \in 1 .. 12 : Places(k) = {i}
      BY <1>6, KeyPlaces
    <3>2. i \in Places(k)
      BY <3>1
    <3> QED
      BY <3>1, <3>2 DEF Places
  <2>2. /\ Min(Places(k)) = i /\ indexOf(k) = {i - 1}
        /\ Max(Places(k)) = i /\ lastIndexOf(k) = {i - 1}
    BY <1>2, <2>1
  <2>3. /\ k = "s" <=> i = 3
        /\ k = "t" <=> i = 10
        /\ k = "r" <=> i = 11
    BY <2>1 DEF SDPFields
  <2>4. k \notin SDPMediaFields
    BY <1>6 DEF SessionOnly, SDPMediaFields
  <2> QED
    BY <2>2, <2>3, <2>4 DEF SDPMediaFields
<1> QED
  BY <1>4, <1>5, <1>6

LEMMA MediaFieldsKnown == SDPMediaFields \subseteq Range(SDPFields)
<1>1. \A i \in 15 .. 20 : i \in DOMAIN SDPFields
  BY DEF SDPFields
<1>2. /\ SDPFields[15] = "m" /\ SDPFields[16] = "i" /\ SDPFields[17] = "c"
      /\ SDPFields[18] = "b" /\ SDPFields[19] = "k" /\ SDPFields[20] = "a"
  BY DEF SDPFields
<1> HIDE DEF SDPFields
<1> QED
  BY <1>1, <1>2 DEF Range, SDPMediaFields

(* No field has a key of more than one character.                           *)
LEMMA LongUnknown == Long \notin Range(SDPFields)
<1>1. DOMAIN SDPFields = 1 .. 20
  BY DEF SDPFields
<1>2. ASSUME NEW i \in 1 .. 20 PROVE SDPFields[i] # "/"
  BY DEF SDPFields
<1> HIDE DEF SDPFields
<1> QED
  BY <1>1, <1>2 DEF Range, Long

(* The first m lines come in order, and there is a name among them.         *)
OrderedTo(m) ==
    /\ m \in 0 .. Len(message)
    /\ \A n \in 1 .. m :
          /\ message[n] \in IF SectionOf(n) = 0 THEN Range(SDPFields) ELSE SDPMediaFields
          /\ n > 1 /\ message[n] \in {"t", "r"} => (message[n] = "r" <=> message[n - 1] = "t")
    /\ \A n, k \in 1 .. m : n < k /\ SectionOf(n) = SectionOf(k) => Rank(n) <= Rank(k)
    /\ \E n \in 1 .. m : message[n] = "s" /\ SectionOf(n) = 0

(* A time that comes too late follows them.                                 *)
Late(m) ==
    /\ m > 0 /\ m < Len(message) /\ message[m + 1] = "t" /\ SectionOf(m + 1) = 0
    /\ message[m] \in {"z", "k", "a"}

(* Ranks are places in the table.                                           *)
LEMMA RankType ==
    ASSUME NEW m, OrderedTo(m), NEW n \in 1 .. m, SectionOf(n) \in Nat
    PROVE  Rank(n) \in 1 .. 20 /\ (SectionOf(n) = 0 => Rank(n) \in 1 .. 15)
<1>1. "t" \in Range(SDPFields) /\ SDPMediaFields \subseteq Range(SDPFields)
  BY MediaFieldsKnown DEF Range, SDPFields
<1>2. message[n] \in Range(SDPFields)
  BY <1>1 DEF OrderedTo
<1>3. Min(Places("t")) = 10
  BY <1>1, RankIndex
<1>4. Min(Places(message[n])) \in 1 .. 15 /\ Max(Places(message[n])) \in 1 .. 20
  BY <1>2, RankIndex
<1> QED
  BY <1>3, <1>4 DEF Rank

(* What read remembers while the lines come in order; after them it is done, *)
(* or refuses a late time.                                                  *)
OrderInv(m) ==
    /\ line <= m + 1
    /\ ret # Reading =>
          /\ line = m + 1
          /\ ret = IF m < Len(message) THEN -4 ELSE IF packet.nConnInfo < 1 THEN -7 ELSE 0
    /\ line = 1 => oldIndex = 0
    /\ line > 1 => IF message[line - 1] = "t" THEN oldIndex = 10 ELSE oldIndex < Rank(line - 1)
    /\ line > 1 /\ message[line - 1] \in {"z", "k", "a"} => oldIndex >= 10
    /\ \A n \in 1 .. line - 1 : SectionOf(n) = 0 /\ message[n] = "s" => bReqdDone

(* The key that is read is one of its section, and where a media description *)
(* has begun the section says so.                                           *)
LEMMA KeyInOrder ==
    ASSUME FileInv, Here, NEW m, OrderedTo(m), line <= m
    PROVE  /\ line \in 1 .. m /\ key \in Range(SDPFields)
           /\ bMediaStarted <=> SectionOf(line - 1) > 0
           /\ bMediaStarted => key \in SDPMediaFields
           /\ bMediaStarted => SectionOf(line) > 0
           /\ ~ bMediaStarted /\ key # "m" => SectionOf(line) = 0
           /\ key = "m" => SectionOf(line) > 0
           /\ key = "r" => line > 1 /\ message[line - 1] = "t"
           /\ key = "t" => line = 1 \/ message[line - 1] # "t"
           /\ m \in Nat /\ (line > 1 => line - 1 \in 1 .. m)
<1>0. m \in Nat /\ (line > 1 => line - 1 \in 1 .. m)
  BY AtLine DEF OrderedTo
<1>1. line \in 1 .. m /\ message[line] = key
  BY AtLine DEF FileInv, SdpTypeOK, Here, key, OrderedTo
<1>2. bMediaStarted <=> SectionOf(line - 1) > 0
  <2>1. Len(packet.media) = SectionOf(line - 1) /\ packet.media \in Seq(Media)
    BY AtLine DEF FileInv
  <2>2. packet.media # <<>> <=> Len(packet.media) > 0
    BY <2>1
  <2> QED
    BY <2>1, <2>2 DEF FileInv
<1>3. /\ bMediaStarted \/ key = "m" => SectionOf(line) > 0
      /\ ~ bMediaStarted /\ key # "m" => SectionOf(line) = 0
  BY <1>2, AtLine
<1>4. /\ key \in IF SectionOf(line) = 0 THEN Range(SDPFields) ELSE SDPMediaFields
      /\ line > 1 /\ key \in {"t", "r"} => (key = "r" <=> message[line - 1] = "t")
  BY <1>1 DEF OrderedTo
<1>5. SDPMediaFields \subseteq Range(SDPFields)
  BY MediaFieldsKnown
<1>6. bMediaStarted => key \in SDPMediaFields
  BY <1>3, <1>4
<1>7. key = "r" => line > 1
  <2>1. SUFFICES ASSUME key = "r", line = 1 PROVE FALSE
    BY <1>1
  <2>2. PICK n \in 1 .. m : message[n] = "s" /\ SectionOf(n) = 0
    BY DEF OrderedTo
  <2>3. SectionOf(line) = 0 /\ line < n
    <3>1. ~ bMediaStarted
      BY <1>2, <2>1, SectionZero
    <3> QED
      BY <1>1, <1>3, <2>1, <2>2, <3>1
  <2>4. Rank(line) <= Rank(n)
    BY <1>1, <2>2, <2>3 DEF OrderedTo
  <2>5. "s" \in Range(SDPFields) /\ "t" \in Range(SDPFields)
    BY DEF Range, SDPFields
  <2>6. Rank(line) = 10 /\ Rank(n) = 3
    BY <1>1, <2>1, <2>2, <2>5, RankIndex DEF Rank
  <2> QED
    BY <2>4, <2>6
<1> QED
  BY <1>0, <1>1, <1>2, <1>3, <1>4, <1>5, <1>6, <1>7

(* The index that read looks up, by the rank of the line.                   *)
LEMMA IndexInOrder ==
    ASSUME FileInv, Here, NEW m, OrderedTo(m), line <= m, NEW index \in Index
    PROVE  /\ index \in 0 .. 19 /\ Rank(line) \in 1 .. 20
           /\ key = "r" => index = 10 /\ Rank(line) = 10
           /\ key # "r" => index = Rank(line) - 1
           /\ key \notin {"r", "t"} => Rank(line) # 10
           /\ ~ bMediaStarted /\ key = "s" => index = 2
           /\ Rank(line) <= 15 \/ bMediaStarted
<1>1. line \in 1 .. m /\ message[line] = key /\ key \in Range(SDPFields)
  BY KeyInOrder DEF key
<1>2. "t" \in Range(SDPFields)
  BY DEF Range, SDPFields
<1>3. CASE key = "r"
  <2>1. ~ bMediaStarted
    BY <1>3, KeyInOrder DEF SDPMediaFields
  <2>2. index \in indexOf(key)
    BY <2>1 DEF Index
  <2>3. index = 10
    BY <1>1, <1>3, <2>2, RankIndex
  <2>4. Rank(line) = 10
    BY <1>1, <1>2, <1>3, RankIndex DEF Rank
  <2> QED
    BY <1>3, <2>3, <2>4
<1>4. CASE key # "r" /\ bMediaStarted
  <2>1. key \in SDPMediaFields /\ SectionOf(line) > 0 /\ SectionOf(line) # 0
    <3>1. SectionOf(line) > 0 => SectionOf(line) # 0
      OBVIOUS
    <3> QED
      BY <1>4, <3>1, KeyInOrder
  <2>2. index \in lastIndexOf(key) /\ Rank(line) = Max(Places(key))
    BY <1>1, <1>4, <2>1 DEF Index, Rank
  <2>3. index = Max(Places(key)) - 1 /\ Max(Places(key)) \in 15 .. 20
    BY <1>1, <2>1, <2>2, RankIndex
  <2> QED
    BY <1>4, <2>2, <2>3
<1>5. CASE key # "r" /\ ~ bMediaStarted
  <2>1. index \in indexOf(key)
    BY <1>5 DEF Index
  <2>2. index = Min(Places(key)) - 1 /\ Min(Places(key)) \in 1 .. 15
    BY <1>1, <2>1, RankIndex
  <2>3. Rank(line) = Min(Places(key))
    <3>1. CASE key = "m"
      <4>1. SectionOf(line) > 0
        BY <3>1, KeyInOrder
      <4>2. SectionOf(line) # 0
        BY <4>1
      <4> QED
        BY <1>1, <1>5, <3>1, <4>1, <4>2, RankIndex DEF Rank
    <3>2. CASE key # "m"
      <4>1. SectionOf(line) = 0
        BY <1>5, <3>2, KeyInOrder
      <4> QED
        BY <1>1, <1>5, <4>1 DEF Rank
    <3> QED
      BY <3>1, <3>2
  <2> QED
    BY <1>1, <1>5, <2>2, <2>3, RankIndex
<1> QED
  BY <1>3, <1>4, <1>5

LEMMA TimeRank ==
    ASSUME NEW m, OrderedTo(m), NEW n \in 1 .. m, message[n] = "t"
    PROVE  SectionOf(n) = 0 /\ Rank(n) = 10
<1>1. SectionOf(n) = 0
  BY DEF OrderedTo, SDPMediaFields
<1>2. "t" \in Range(SDPFields)
  BY DEF Range, SDPFields
<1> QED
  BY <1>1, <1>2, RankIndex DEF Rank

(* The line read before has no higher rank, unless a media description      *)
(* begins.                                                                  *)
LEMMA RanksGrow ==
    ASSUME FileInv, Here, NEW m, OrderedTo(m), line <= m, line > 1, key # "m"
    PROVE  Rank(line - 1) <= Rank(line)
<1>1. line \in 1 .. m /\ line - 1 \in 1 .. m /\ line - 1 < line
  BY KeyInOrder, AtLine
<1>2. SectionOf(line) = SectionOf(line - 1)
  BY AtLine
<1> QED
  BY <1>1, <1>2 DEF OrderedTo

(* By the time a line has a higher index the name of the session was read.  *)
LEMMA NameRead ==
    ASSUME FileInv, Here, NEW m, OrderedTo(m), OrderInv(m), line <= m,
           NEW index \in Index, index > 2
    PROVE  bReqdDone
<1>1. PICK n \in 1 .. m : message[n] = "s" /\ SectionOf(n) = 0
  BY DEF OrderedTo
<1>2. line \in 1 .. m /\ n \in Nat /\ line \in Nat /\ message[line] = key
  BY AtLine, KeyInOrder DEF key, FileInv
<1>3. CASE n < line
  <2>1. n \in 1 .. line - 1
    BY <1>2, <1>3
  <2> QED
    BY <1>1, <2>1 DEF OrderInv
<1>4. CASE n >= line
  <2>1. SectionOf(line) = 0
    <3>1. SectionOf(line) <= SectionOf(n) /\ SectionOf(line) \in Nat
      BY <1>2, <1>4, SectionGrows, SectionStep
    <3> QED
      BY <1>1, <3>1
  <2>2. key # "m" /\ ~ bMediaStarted
    BY <2>1, KeyInOrder
  <2>3. CASE n = line
    BY <1>1, <1>2, <2>2, <2>3, IndexInOrder
  <2>4. CASE n > line
    <3>1. Rank(line) <= Rank(n)
      BY <1>1, <1>2, <2>1, <2>4 DEF OrderedTo
    <3>2. Rank(n) = 3
      <4>1. "s" \in Range(SDPFields)
        BY DEF Range, SDPFields
      <4> QED
        BY <1>1, <4>1, RankIndex DEF Rank
    <3> QED
      BY <3>1, <3>2, IndexInOrder
  <2> QED
    BY <1>2, <1>4, <2>3, <2>4
<1> QED
  BY <1>2, <1>3, <1>4

LEMMA NotRefused ==
    ASSUME FileInv, Here, NEW m, OrderedTo(m), OrderInv(m), line <= m, NEW index \in Index
    PROVE  Refused(index) = 0
<1>1. /\ index \in 0 .. 19 /\ oldIndex \in 0 .. 99 /\ bMediaStarted \in BOOLEAN
      /\ line \in Nat /\ line >= 1
  BY IndexInOrder, AtLine DEF FileInv, SdpTypeOK
<1>2. ASSUME ~ bMediaStarted \/ key # "m" PROVE index >= oldIndex
  <2>1. CASE line = 1
    BY <1>1, <2>1 DEF OrderInv
  <2>2. CASE line > 1 /\ key # "m"
    <3>1. Rank(line - 1) <= Rank(line)
      BY <2>2, RanksGrow
    <3>2. Rank(line - 1) \in Int
      <4>1. line - 1 \in 1 .. m
        BY <2>2, AtLine, KeyInOrder
      <4> QED
        BY <4>1, RankType, AtLine, SMTT(30)
    <3>3. CASE message[line - 1] = "t"
      <4>1. oldIndex = 10 /\ key # "t"
        BY <2>2, <3>3, KeyInOrder DEF OrderInv
      <4>2. Rank(line - 1) = 10
        <5>1. line - 1 \in 1 .. m
          BY <2>2, AtLine, KeyInOrder
        <5> QED
          BY <3>3, <5>1, TimeRank
      <4> QED
        BY <3>1, <4>1, <4>2, IndexInOrder
    <3>4. CASE message[line - 1] # "t"
      <4>1. oldIndex < Rank(line - 1) /\ key # "r"
        BY <2>2, <3>4, KeyInOrder DEF OrderInv
      <4> QED
        BY <1>1, <3>1, <3>2, <4>1, IndexInOrder
    <3> QED
      BY <3>3, <3>4
  <2>3. CASE line > 1 /\ key = "m"
    <3>1. ~ bMediaStarted
      BY <1>2, <2>3
    <3>2. index = 14
      BY <3>1, <2>3, IndexRange DEF Index
    <3>3. oldIndex <= 14
      <4>1. line - 1 \in 1 .. m /\ SectionOf(line - 1) = 0
        BY <2>3, <3>1, AtLine, KeyInOrder, NoMedia
      <4>2. Rank(line - 1) \in 1 .. 15
        BY <4>1, RankType
      <4> QED
        BY <1>1, <2>3, <4>2 DEF OrderInv
    <3> QED
      BY <3>2, <3>3
  <2> QED
    BY <1>1, <2>1, <2>2, <2>3
<1>3. ~ bReqdDone => ~ (index > 2)
  BY NameRead
<1>4. key = "r" => prev = "t"
  BY KeyInOrder DEF FileInv
<1>5. key # Long
  BY KeyInOrder, LongUnknown
<1> QED
  BY <1>1, <1>2, <1>3, <1>4, <1>5 DEF Refused

(* What may come late in the session is far down the table.                 *)
LEMMA LateIndex ==
    ASSUME NEW k \in {"z", "k", "a"}, NEW x \in indexOf(k) \cup lastIndexOf(k)
    PROVE  x >= 11
<1>1. ASSUME NEW i \in 12 .. 20, NEW j \in 12 .. 20, i <= j, Places(k) = {i, j} PROVE x >= 11
  <2>1. Max(Places(k)) = j /\ Min(Places(k)) = i /\ Places(k) # {}
    BY <1>1, Ends
  <2> QED
    BY <2>1 DEF lastIndexOf, indexOf
<1>2. CASE k = "z"
  <2>1. Places(k) = {12, 12}
    BY <1>2, KeyPlaces
  <2> QED
    BY <1>1, <2>1
<1>3. CASE k = "k"
  <2>1. Places(k) = {13, 19}
    BY <1>3, KeyPlaces
  <2> QED
    BY <1>1, <2>1
<1>4. CASE k = "a"
  <2>1. Places(k) = {14, 20}
    BY <1>4, KeyPlaces
  <2> QED
    BY <1>1, <2>1
<1> QED
  BY <1>2, <1>3, <1>4

(* What accepting a line leaves: oldIndex is 10 after a time, and below the *)
(* rank of any other line.                                                  *)
LEMMA OldIndexKept ==
    ASSUME FileInv, Here, NEW m, OrderedTo(m), line <= m, NEW index \in Index,
           ReadTime(index) \/ ReadMedia(index) \/ ReadSession(index)
    PROVE  /\ line' = line + 1 /\ message' = message /\ ret' = ret
           /\ bReqdDone' = (bReqdDone \/ index = 2)
           /\ IF key = "t" THEN oldIndex' = 10 ELSE oldIndex' < Rank(line)
           /\ key \in {"z", "k", "a"} => oldIndex' >= 10
<1>1. index \in 0 .. 19 /\ Rank(line) \in 1 .. 20
  BY IndexInOrder
<1>2. key \in {"z", "k", "a"} => index >= 11
  BY LateIndex DEF Index
<1>3. CASE ReadTime(index)
  BY <1>3, IndexInOrder DEF ReadTime, Accept
<1>4. CASE ReadMedia(index)
  <2>1. key \notin {"t", "r"}
    BY <1>4 DEF ReadMedia, SDPMediaFields
  <2>2. index = Rank(line) - 1
    BY <2>1, IndexInOrder
  <2> QED
    BY <1>1, <1>2, <1>4, <2>1, <2>2 DEF ReadMedia, Accept, Old
<1>5. CASE ReadSession(index)
  <2>1. key \notin {"t", "r"}
    BY <1>5 DEF ReadSession
  <2>2. index = Rank(line) - 1
    BY <2>1, IndexInOrder
  <2> QED
    BY <1>1, <1>2, <1>5, <2>1, <2>2 DEF ReadSession, Accept, Old
<1> QED
  BY <1>3, <1>4, <1>5

LEMMA LineInOrder ==
    ASSUME FileInv, Here, NEW m, OrderedTo(m), OrderInv(m), line <= m, NEW index \in Index,
           ReadTime(index) \/ ReadMedia(index) \/ ReadSession(index)
    PROVE  OrderInv(m)'
<1>1. /\ line' = line + 1 /\ message' = message /\ ret' = ret
      /\ bReqdDone' = (bReqdDone \/ index = 2)
      /\ IF key = "t" THEN oldIndex' = 10 ELSE oldIndex' < Rank(line)
      /\ key \in {"z", "k", "a"} => oldIndex' >= 10
  BY OldIndexKept
<1>2. line \in Nat /\ line >= 1 /\ message[line] = key
  BY AtLine DEF key
<1>3. line' - 1 = line /\ line' # 1
  BY <1>1, <1>2
<1>4. \A n : SectionOf(n)' = SectionOf(n) /\ Rank(n)' = Rank(n)
  BY <1>1 DEF SectionOf, Rank
<1>5. ASSUME NEW n \in 1 .. line, SectionOf(n) = 0, message[n] = "s" PROVE bReqdDone'
  <2>1. CASE n = line
    <3>1. index = 2
      BY <1>2, <1>5, <2>1, KeyInOrder, IndexInOrder
    <3> QED
      BY <1>1, <3>1
  <2>2. CASE n # line
    <3>1. n \in 1 .. line - 1
      BY <1>2, <2>2
    <3> QED
      BY <1>1, <1>5, <3>1 DEF OrderInv
  <2> QED
    BY <2>1, <2>2
<1>6. (IF message[line - 1] = "t" THEN oldIndex = 10 ELSE oldIndex < Rank(line - 1))'
  <2>1. Rank(line - 1)' = Rank(line)
    BY <1>1, <1>3 DEF Rank, SectionOf
  <2> QED
    BY <1>1, <1>2, <1>3, <2>1
<1>7. (message[line - 1] \in {"z", "k", "a"} => oldIndex >= 10)'
  BY <1>1, <1>2, <1>3
<1>8. \A n \in 1 .. line' - 1 : n \in 1 .. line
  BY <1>3
<1>9. line' <= m + 1 /\ ret' = Reading
  <2>1. m \in Nat
    BY AtLine DEF OrderedTo
  <2> QED
    BY <1>1, <1>2, <2>1 DEF Here
<1> QED
  BY <1>1, <1>3, <1>4, <1>5, <1>6, <1>7, <1>8, <1>9 DEF OrderInv

(* What comes too late is refused.                                          *)
LEMMA LateRefused ==
    ASSUME FileInv, Here, NEW m, OrderedTo(m), OrderInv(m), Late(m), line > m,
           NEW index \in Index
    PROVE  Refused(index) = -4
<1>1. line \in Nat /\ m \in Nat /\ line = m + 1 /\ line - 1 = m
  <2>1. m \in Nat
    BY AtLine DEF OrderedTo
  <2> QED
    BY <2>1, AtLine DEF OrderInv
<1>2. key = "t" /\ SectionOf(line) = 0 /\ oldIndex >= 10
  BY <1>1 DEF Late, OrderInv, key
<1>3. ~ bMediaStarted
  <2>1. SectionOf(line - 1) = 0
    BY <1>2, AtLine
  <2>2. packet.media \in Seq(Media) /\ Len(packet.media) = 0
    BY <2>1, AtLine DEF FileInv
  <2>3. packet.media = <<>>
    BY <2>2
  <2> QED
    BY <2>3 DEF FileInv
<1>4. index = 9
  <2>1. Places("t") = {10, 10}
    BY KeyPlaces
  <2>2. Min(Places("t")) = 10
    BY <2>1, Ends
  <2> QED
    BY <1>2, <1>3, <2>1, <2>2 DEF Index, indexOf
<1>5. oldIndex \in Int
  BY DEF FileInv, SdpTypeOK
<1> QED
  BY <1>2, <1>3, <1>4, <1>5 DEF Refused, Long

(* The end of the message is the end of what is in order, or never comes.   *)
LEMMA StepInOrder ==
    ASSUME FileInv, [SdpNext]_sdpVars, NEW m, OrderedTo(m), m = Len(message) \/ Late(m),
           OrderInv(m)
    PROVE  OrderInv(m)'
<1>1. /\ message' = message /\ Len(message) \in Nat /\ line \in 1 .. Len(message) + 1
      /\ m \in Nat
  BY DEF SdpNext, Refuse, ReadTime, ReadMedia, ReadSession, Accept, Finish, sdpVars, FileInv,
         SdpTypeOK, OrderedTo
<1>2. CASE UNCHANGED sdpVars
  BY <1>2 DEF OrderInv, Rank, SectionOf, sdpVars, readState
<1>3. CASE Finish
  <2>1. line = m + 1 /\ m = Len(message)
    BY <1>1, <1>3 DEF Finish, OrderInv, Late
  <2>2. /\ line' = line /\ oldIndex' = oldIndex /\ bReqdDone' = bReqdDone /\ packet' = packet
        /\ ret' = IF packet.nConnInfo < 1 THEN -7 ELSE 0
    BY <1>3 DEF Finish, readState
  <2>3. ~ (m < Len(message))
    BY <1>1, <2>1
  <2>4. \A n : SectionOf(n)' = SectionOf(n) /\ Rank(n)' = Rank(n)
    BY <1>1 DEF SectionOf, Rank
  <2>5. Rank(line - 1)' = Rank(line - 1)
    BY <1>1, <2>2 DEF Rank, SectionOf
  <2> QED
    BY <1>1, <2>1, <2>2, <2>3, <2>4, <2>5 DEF OrderInv
<1>4. ASSUME Here, NEW index \in Index, Refuse(index) PROVE OrderInv(m)'
  <2>1. line > m
    BY <1>1, <1>4, NotRefused DEF Refuse
  <2>2. Late(m) /\ line = m + 1
    BY <1>1, <1>4, <2>1 DEF Here, OrderInv
  <2>3. ret' = -4
    BY <1>4, <2>1, <2>2, LateRefused DEF Refuse
  <2> QED
    BY <1>1, <1>4, <2>2, <2>3 DEF Refuse, OrderInv, Rank, SectionOf, readState, Late
<1>5. ASSUME Here, NEW index \in Index,
             ReadTime(index) \/ ReadMedia(index) \/ ReadSession(index)
      PROVE  OrderInv(m)'
  <2>1. line <= m
    <3>1. SUFFICES ASSUME line > m PROVE FALSE
      BY <1>1
    <3>2. Late(m)
      BY <1>1, <1>5, <3>1 DEF Here
    <3>3. Refused(index) = -4
      BY <1>5, <3>1, <3>2, LateRefused
    <3> QED
      BY <1>5, <3>3 DEF ReadTime, ReadMedia, ReadSession, Accept
  <2> QED
    BY <1>5, <2>1, LineInOrder
<1> QED
  BY <1>2, <1>3, <1>4, <1>5 DEF SdpNext

(* So it is for whatever part of the message is in order.                   *)
OrderedInv == \A m \in Nat : OrderedTo(m) /\ (m = Len(message) \/ Late(m)) => OrderInv(m)

LEMMA StartOrdered == SdpInit => OrderedInv
<1> SUFFICES ASSUME SdpInit, NEW m \in Nat PROVE OrderInv(m)
  BY DEF OrderedInv
<1>1. line = 1 /\ oldIndex = 0 /\ ret = Reading /\ line - 1 = 0
  BY DEF SdpInit
<1>2. 1 .. line - 1 = {}
  BY <1>1
<1> QED
  BY <1>1, <1>2 DEF OrderInv

LEMMA StepOrdered == FileInv /\ OrderedInv /\ [SdpNext]_sdpVars => OrderedInv'
<1>1. SUFFICES ASSUME FileInv, OrderedInv, [SdpNext]_sdpVars, NEW m \in Nat,
                      OrderedTo(m)', (m = Len(message) \/ Late(m))'
               PROVE  OrderInv(m)'
  BY DEF OrderedInv
<1>2. message' = message
  BY <1>1 DEF SdpNext, Refuse, ReadTime, ReadMedia, ReadSession, Accept, Finish, sdpVars
<1>3. \A n : SectionOf(n)' = SectionOf(n)
  BY <1>2 DEF SectionOf
<1>4. \A n : Rank(n)' = Rank(n)
  BY <1>2, <1>3 DEF Rank
<1>5. OrderedTo(m) /\ (m = Len(message) \/ Late(m))
  BY <1>1, <1>2, <1>3, <1>4 DEF OrderedTo, Late
<1> QED
  BY <1>1, <1>5, StepInOrder DEF OrderedInv

--------------------------------------------------------------------------------
(* Counting up to a bound.                                                  *)

(* A set of natural numbers that is not empty has a least one.              *)
LEMMA LeastNumber ==
    ASSUME NEW S \in SUBSET Nat, S # {}
    PROVE  \E m \in S : \A k \in S : m <= k
<1> DEFINE R == {ss \in Nat \X Nat : ss[1] < ss[2]}
<1>1. IsWellFoundedOn(R, Nat)
  BY NatLessThanWellFounded DEF OpToRel
<1> HIDE DEF R
<1>2. PICK m \in S : \A k \in S : ~ (<<k, m>> \in R)
  BY <1>1, WFMin
<1>3. \A k \in S : ~ (k < m)
  BY <1>2 DEF R
<1> QED
  BY <1>3

LEMMA CountUp ==
    ASSUME NEW N \in Nat, NEW S, 0 \in S, \A n \in 0 .. N : n # N /\ n \in S => n + 1 \in S
    PROVE  \A n \in 0 .. N : n \in S
<1> DEFINE T == {n \in 0 .. N : n \notin S}
<1>1. SUFFICES ASSUME T # {} PROVE FALSE
  OBVIOUS
<1>2. T \in SUBSET Nat
  OBVIOUS
<1>3. PICK m \in T : \A k \in T : m <= k
  <2> HIDE DEF T
  <2> QED
    BY <1>1, <1>2, LeastNumber
<1>4. m \in 0 .. N /\ m # 0
  OBVIOUS
<1>5. m - 1 \in 0 .. N /\ m - 1 # N /\ m - 1 + 1 = m /\ ~ (m <= m - 1)
  BY <1>4
<1>6. m - 1 \in S
  BY <1>3, <1>5
<1> QED
  BY <1>5, <1>6

--------------------------------------------------------------------------------
(* What write writes of one description.                                    *)

(* The keys, the first and the last place of each.                          *)
AllKeys == {"v", "o", "s", "i", "u", "e", "p", "c", "b", "t", "r", "z", "k", "a", "m"}
FirstPlace == [k \in AllKeys |-> Min(Places(k))]
LastPlace == [k \in AllKeys |-> Max(Places(k))]

LEMMA PlaceValues ==
    /\ FirstPlace["v"] = 1 /\ FirstPlace["o"] = 2 /\ FirstPlace["s"] = 3 /\ FirstPlace["i"] = 4
    /\ FirstPlace["u"] = 5 /\ FirstPlace["e"] = 6 /\ FirstPlace["p"] = 7 /\ FirstPlace["c"] = 8
    /\ FirstPlace["b"] = 9 /\ FirstPlace["t"] = 10 /\ FirstPlace["z"] = 12
    /\ FirstPlace["k"] = 13 /\ FirstPlace["a"] = 14
    /\ LastPlace["m"] = 15 /\ LastPlace["i"] = 16 /\ LastPlace["c"] = 17
    /\ LastPlace["b"] = 18 /\ LastPlace["k"] = 19 /\ LastPlace["a"] = 20
<1>1. ASSUME NEW k \in AllKeys, NEW i \in Int, Places(k) = {i}
      PROVE  FirstPlace[k] = i /\ LastPlace[k] = i
  <2>1. Places(k) = {i, i}
    BY <1>1
  <2>2. Max(Places(k)) = i /\ Min(Places(k)) = i
    BY <2>1, Ends
  <2> QED
    BY <2>2 DEF FirstPlace, LastPlace
<1>2. ASSUME NEW k \in AllKeys, NEW i \in Int, NEW j \in Int, i <= j, Places(k) = {i, j}
      PROVE  FirstPlace[k] = i /\ LastPlace[k] = j
  <2>1. Max(Places(k)) = j /\ Min(Places(k)) = i
    BY <1>2, Ends
  <2> QED
    BY <2>1 DEF FirstPlace, LastPlace
<1>3. {"v", "o", "s", "u", "e", "p", "t", "z", "i", "c", "b", "k", "a", "m"} \subseteq AllKeys
  BY DEF AllKeys
<1>4. FirstPlace["v"] = 1 /\ LastPlace["v"] = 1
  <2>1. Places("v") = {1}
    BY KeyPlaces
  <2> QED
    BY <1>1, <1>3, <2>1
<1>5. FirstPlace["o"] = 2 /\ LastPlace["o"] = 2
  <2>1. Places("o") = {2}
    BY KeyPlaces
  <2> QED
    BY <1>1, <1>3, <2>1
<1>6. FirstPlace["s"] = 3 /\ LastPlace["s"] = 3
  <2>1. Places("s") = {3}
    BY KeyPlaces
  <2> QED
    BY <1>1, <1>3, <2>1
<1>7. FirstPlace["u"] = 5 /\ LastPlace["u"] = 5
  <2>1. Places("u") = {5}
    BY KeyPlaces
  <2> QED
    BY <1>1, <1>3, <2>1
<1>8. FirstPlace["e"] = 6 /\ LastPlace["e"] = 6
  <2>1. Places("e") = {6}
    BY KeyPlaces
  <2> QED
    BY <1>1, <1>3, <2>1
<1>9. FirstPlace["p"] = 7 /\ LastPlace["p"] = 7
  <2>1. Places("p") = {7}
    BY KeyPlaces
  <2> QED
    BY <1>1, <1>3, <2>1
<1>10. FirstPlace["t"] = 10 /\ LastPlace["t"] = 10
  <2>1. Places("t") = {10}
    BY KeyPlaces
  <2> QED
    BY <1>1, <1>3, <2>1
<1>11. FirstPlace["z"] = 12 /\ LastPlace["z"] = 12
  <2>1. Places("z") = {12}
    BY KeyPlaces
  <2> QED
    BY <1>1, <1>3, <2>1
<1>12. FirstPlace["m"] = 15 /\ LastPlace["m"] = 15
  <2>1. Places("m") = {15}
    BY KeyPlaces
  <2> QED
    BY <1>1, <1>3, <2>1
<1>13. FirstPlace["i"] = 4 /\ LastPlace["i"] = 16
  <2>1. Places("i") = {4, 16}
    BY KeyPlaces
  <2> QED
    BY <1>2, <1>3, <2>1
<1>14. FirstPlace["c"] = 8 /\ LastPlace["c"] = 17
  <2>1. Places("c") = {8, 17}
    BY KeyPlaces
  <2> QED
    BY <1>2, <1>3, <2>1
<1>15. FirstPlace["b"] = 9 /\ LastPlace["b"] = 18
  <2>1. Places("b") = {9, 18}
    BY KeyPlaces
  <2> QED
    BY <1>2, <1>3, <2>1
<1>16. FirstPlace["k"] = 13 /\ LastPlace["k"] = 19
  <2>1. Places("k") = {13, 19}
    BY KeyPlaces
  <2> QED
    BY <1>2, <1>3, <2>1
<1>17. FirstPlace["a"] = 14 /\ LastPlace["a"] = 20
  <2>1. Places("a") = {14, 20}
    BY KeyPlaces
  <2> QED
    BY <1>2, <1>3, <2>1
<1> QED
  BY <1>4, <1>5, <1>6, <1>7, <1>8, <1>9, <1>10, <1>11, <1>12, <1>13, <1>14, <1>15, <1>16, <1>17

(* The lines s have these keys, each once but for "a", in the order of their *)
(* places, none of which is after last.                                     *)
Sorted(s, place, keys, last) ==
    /\ s \in Seq(AllKeys)
    /\ \A n \in 1 .. Len(s) : s[n] \in keys
    /\ \A k \in keys : /\ place[k] \in Int /\ place[k] <= last
                       /\ \E n \in 1 .. Len(s) : s[n] = k
    /\ \A n, i \in 1 .. Len(s) :
           n < i => place[s[n]] < place[s[i]] \/ (s[n] = "a" /\ s[i] = "a")

(* Lines of one key can follow, if its place is later.                      *)
LEMMA Extend ==
    ASSUME NEW place, NEW s, NEW keys, NEW last \in Int, Sorted(s, place, keys, last),
           NEW k \in AllKeys, place[k] \in Int, last < place[k], NEW t \in Seq({k}),
           Len(t) <= 1 \/ k = "a",
           NEW new, new = IF Len(t) = 0 THEN keys ELSE keys \cup {k}
    PROVE  Sorted(s \o t, place, new, place[k])
<1>1. s \in Seq(AllKeys) /\ t \in Seq(AllKeys)
  <2>1. {k} \subseteq AllKeys
    OBVIOUS
  <2> QED
    BY <2>1, SeqMonotonic DEF Sorted
<1>2. PICK w : w = s \o t
  OBVIOUS
<1>3. /\ w \in Seq(AllKeys) /\ Len(w) = Len(s) + Len(t) /\ Len(s) \in Nat /\ Len(t) \in Nat
      /\ \A i \in 1 .. Len(w) : w[i] = IF i <= Len(s) THEN s[i] ELSE t[i - Len(s)]
  BY <1>1, <1>2, ConcatProperties
<1>4. \A i \in 1 .. Len(w) : i > Len(s) => w[i] = k
  <2> SUFFICES ASSUME NEW i \in 1 .. Len(w), i > Len(s) PROVE w[i] = k
    OBVIOUS
  <2>1. i - Len(s) \in 1 .. Len(t) /\ ~ (i <= Len(s))
    BY <1>3
  <2>2. t[i - Len(s)] \in {k}
    BY <2>1, ElementOfSeq
  <2> QED
    BY <1>3, <2>1, <2>2
<1>5. \A i \in 1 .. Len(s) : i \in 1 .. Len(w) /\ w[i] = s[i]
  BY <1>3
<1>6. \A i \in 1 .. Len(w) : i \in 1 .. Len(s) \/ (i > Len(s) /\ Len(t) # 0)
  BY <1>3
<1>7. \A n \in 1 .. Len(w) : w[n] \in new
  BY <1>4, <1>5, <1>6 DEF Sorted
<1>8. ASSUME NEW x \in new
      PROVE  /\ place[x] \in Int /\ place[x] <= place[k]
             /\ \E n \in 1 .. Len(w) : w[n] = x
  <2>1. CASE x \in keys
    BY <1>5, <2>1 DEF Sorted
  <2>2. CASE x = k /\ Len(t) # 0
    <3>1. Len(w) \in 1 .. Len(w) /\ Len(w) > Len(s)
      BY <1>3, <2>2
    <3> QED
      BY <1>4, <2>2, <3>1
  <2> QED
    BY <1>8, <2>1, <2>2
<1>9. ASSUME NEW n \in 1 .. Len(w), NEW i \in 1 .. Len(w), n < i
      PROVE  place[w[n]] < place[w[i]] \/ (w[n] = "a" /\ w[i] = "a")
  <2>1. CASE i \in 1 .. Len(s)
    <3>1. n \in 1 .. Len(s)
      BY <1>3, <1>9, <2>1
    <3> QED
      BY <1>5, <1>9, <2>1, <3>1 DEF Sorted
  <2>2. CASE n \in 1 .. Len(s) /\ i > Len(s)
    <3>1. w[n] \in keys /\ w[i] = k
      BY <1>4, <1>5, <2>2 DEF Sorted
    <3> QED
      BY <3>1 DEF Sorted
  <2>3. CASE n > Len(s) /\ i > Len(s)
    <3>1. ~ (Len(t) <= 1)
      BY <1>3, <1>9, <2>3
    <3> QED
      BY <1>4, <2>3, <3>1
  <2> QED
    BY <1>3, <1>6, <2>1, <2>2, <2>3
<1> QED
  BY <1>2, <1>3, <1>7, <1>8, <1>9 DEF Sorted

(* So does an optional field; and attributes.                               *)
LEMMA ExtendField ==
    ASSUME NEW place, NEW s, NEW keys, NEW last \in Int, Sorted(s, place, keys, last),
           NEW k \in AllKeys, NEW p \in Int, place[k] = p, last < p, NEW set,
           NEW w, w = s \o Field(k, set), NEW new, new = keys \cup (set \cap {k})
    PROVE  Sorted(w, place, new, p)
<1>1. PICK t : t = Field(k, set)
  OBVIOUS
<1>2. new = keys \cup (set \cap {k})
  OBVIOUS
<1>3. CASE k \in set
  <2>1. t = <<k>>
    BY <1>1, <1>3 DEF Field
  <2>2. t \in Seq({k}) /\ Len(t) = 1
    BY <2>1
  <2>3. new = IF Len(t) = 0 THEN keys ELSE keys \cup {k}
    BY <1>2, <1>3, <2>2
  <2>4. Len(t) <= 1 /\ place[k] \in Int /\ last < place[k]
    BY <2>2
  <2>5. Sorted(s \o t, place, new, place[k])
    BY <2>2, <2>3, <2>4, Extend
  <2> QED
    BY <1>1, <1>2, <2>5
<1>4. CASE k \notin set
  <2>1. t = <<>>
    BY <1>1, <1>4 DEF Field
  <2>2. t \in Seq({k}) /\ Len(t) = 0
    BY <2>1
  <2>3. new = IF Len(t) = 0 THEN keys ELSE keys \cup {k}
    BY <1>2, <1>4, <2>2
  <2>4. Len(t) <= 1 /\ place[k] \in Int /\ last < place[k]
    BY <2>2
  <2>5. Sorted(s \o t, place, new, place[k])
    BY <2>2, <2>3, <2>4, Extend
  <2> QED
    BY <1>1, <1>2, <2>5
<1> QED
  BY <1>3, <1>4

LEMMA Attributes ==
    ASSUME NEW n \in Nat, NEW t, t = Repeat("a", n)
    PROVE  t \in Seq({"a"}) /\ Len(t) = n
  BY DEF Repeat

LEMMA AttributesLast ==
    ASSUME NEW place, NEW s, NEW keys, NEW last, Sorted(s, place, keys, last), "a" \notin keys,
           NEW t \in Seq({"a"}), NEW w, w = s \o t
    PROVE  /\ Len(w) = Len(s) + Len(t) /\ Len(s) \in Nat
           /\ \A i \in 1 .. Len(w) : w[i] = "a" <=> i > Len(s)
<1>1. s \in Seq(AllKeys) /\ t \in Seq(AllKeys)
  <2>1. {"a"} \subseteq AllKeys
    BY DEF AllKeys
  <2> QED
    BY <2>1, SeqMonotonic DEF Sorted
<1>2. /\ Len(w) = Len(s) + Len(t) /\ Len(s) \in Nat /\ Len(t) \in Nat
      /\ \A i \in 1 .. Len(w) : w[i] = IF i <= Len(s) THEN s[i] ELSE t[i - Len(s)]
  BY <1>1, ConcatProperties
<1>3. ASSUME NEW i \in 1 .. Len(w) PROVE w[i] = "a" <=> i > Len(s)
  <2>1. CASE i <= Len(s)
    <3>1. i \in 1 .. Len(s)
      BY <1>2, <2>1
    <3>2. s[i] # "a"
      BY <3>1 DEF Sorted
    <3> QED
      BY <1>2, <2>1, <3>2
  <2>2. CASE i > Len(s)
    <3>1. i - Len(s) \in 1 .. Len(t) /\ ~ (i <= Len(s))
      BY <1>2, <2>2
    <3>2. t[i - Len(s)] \in {"a"}
      BY <3>1, ElementOfSeq
    <3> QED
      BY <1>2, <2>2, <3>1, <3>2
  <2> QED
    BY <1>2, <2>1, <2>2
<1> QED
  BY <1>2, <1>3

(* The keys that the lines of the session and of a media description have.  *)
Attribute(n) == IF n = 0 THEN {} ELSE {"a"}
Plain(d) == ~ ("c" \in d.keys /\ d.multicast)
SessionHas(d) == {"v", "o", "s"} \cup d.keys \cup Attribute(d.attribs)
MediaHas(d, keys) == {"m"} \cup d.keys \cup (keys \cap {"k"}) \cup Attribute(d.attribs)

(* A connection without a TTL or a number of addresses is one line.         *)
LEMMA ConnectionLine ==
    ASSUME NEW d, Plain(d), NEW s \in Seq(AllKeys)
    PROVE  s \o Connection(d) = s \o Field("c", d.keys)
<1>1. Field("c", d.keys) \o <<>> = Field("c", d.keys)
  BY DEF Field
<1> QED
  BY <1>1 DEF Connection, Plain

(* The lines of the session.                                                *)
LEMMA SessionWritten ==
    ASSUME NEW d \in Described, Plain(d), NEW s, s = WriteSession(d)
    PROVE  /\ Sorted(s, FirstPlace, SessionHas(d), 14)
           /\ \E n \in Nat : /\ Len(s) = n + d.attribs
                             /\ \A i \in 1 .. Len(s) : s[i] = "a" <=> i > n
<1>1. d.keys \in SUBSET {"i", "u", "e", "p", "c", "b", "z", "k"} /\ d.attribs \in Nat
  BY DEF Described
<1>2. PICK start : start = <<"v", "o", "s">>
  OBVIOUS
<1>3. Sorted(start, FirstPlace, {"v", "o", "s"}, 3)
  <2>1. /\ start \in Seq(AllKeys) /\ Len(start) = 3
        /\ start[1] = "v" /\ start[2] = "o" /\ start[3] = "s"
    BY <1>2 DEF AllKeys
  <2>2. \A n \in 1 .. 3 : n = 1 \/ n = 2 \/ n = 3
    OBVIOUS
  <2> QED
    BY <2>1, <2>2, PlaceValues DEF Sorted
<1>4. {"i", "u", "e", "p", "c", "b", "z", "k", "a"} \subseteq AllKeys
  BY DEF AllKeys
<1>5. PICK i1, Ki : /\ i1 = start \o Field("i", d.keys)
                    /\ Ki = {"v", "o", "s"} \cup (d.keys \cap {"i"})
  OBVIOUS
<1>6. Sorted(i1, FirstPlace, Ki, 4)
  <2>1. FirstPlace["i"] = 4 /\ "i" \in AllKeys
        /\ 3 \in Int /\ 4 \in Int /\ 3 < 4
    BY PlaceValues DEF AllKeys
  <2> QED
    BY <1>3, <1>5, <2>1, ExtendField
<1>7. PICK u1, Ku : /\ u1 = i1 \o Field("u", d.keys)
                    /\ Ku = Ki \cup (d.keys \cap {"u"})
  OBVIOUS
<1>8. Sorted(u1, FirstPlace, Ku, 5)
  <2>1. FirstPlace["u"] = 5 /\ "u" \in AllKeys
        /\ 4 \in Int /\ 5 \in Int /\ 4 < 5
    BY PlaceValues DEF AllKeys
  <2> QED
    BY <1>6, <1>7, <2>1, ExtendField
<1>9. PICK e1, Ke : /\ e1 = u1 \o Field("e", d.keys)
                    /\ Ke = Ku \cup (d.keys \cap {"e"})
  OBVIOUS
<1>10. Sorted(e1, FirstPlace, Ke, 6)
  <2>1. FirstPlace["e"] = 6 /\ "e" \in AllKeys
        /\ 5 \in Int /\ 6 \in Int /\ 5 < 6
    BY PlaceValues DEF AllKeys
  <2> QED
    BY <1>8, <1>9, <2>1, ExtendField
<1>11. PICK p1, Kp : /\ p1 = e1 \o Field("p", d.keys)
                     /\ Kp = Ke \cup (d.keys \cap {"p"})
  OBVIOUS
<1>12. Sorted(p1, FirstPlace, Kp, 7)
  <2>1. FirstPlace["p"] = 7 /\ "p" \in AllKeys
        /\ 6 \in Int /\ 7 \in Int /\ 6 < 7
    BY PlaceValues DEF AllKeys
  <2> QED
    BY <1>10, <1>11, <2>1, ExtendField
<1>13. PICK c1, Kc : /\ c1 = p1 \o Field("c", d.keys)
                     /\ Kc = Kp \cup (d.keys \cap {"c"})
  OBVIOUS
<1>14. Sorted(c1, FirstPlace, Kc, 8)
  <2>1. FirstPlace["c"] = 8 /\ "c" \in AllKeys
        /\ 7 \in Int /\ 8 \in Int /\ 7 < 8
    BY PlaceValues DEF AllKeys
  <2> QED
    BY <1>12, <1>13, <2>1, ExtendField
<1>15. PICK b1, Kb : /\ b1 = c1 \o Field("b", d.keys)
                     /\ Kb = Kc \cup (d.keys \cap {"b"})
  OBVIOUS
<1>16. Sorted(b1, FirstPlace, Kb, 9)
  <2>1. FirstPlace["b"] = 9 /\ "b" \in AllKeys
        /\ 8 \in Int /\ 9 \in Int /\ 8 < 9
    BY PlaceValues DEF AllKeys
  <2> QED
    BY <1>14, <1>15, <2>1, ExtendField
<1>17. PICK z1, Kz : /\ z1 = b1 \o Field("z", d.keys)
                     /\ Kz = Kb \cup (d.keys \cap {"z"})
  OBVIOUS
<1>18. Sorted(z1, FirstPlace, Kz, 12)
  <2>1. FirstPlace["z"] = 12 /\ "z" \in AllKeys
        /\ 9 \in Int /\ 12 \in Int /\ 9 < 12
    BY PlaceValues DEF AllKeys
  <2> QED
    BY <1>16, <1>17, <2>1, ExtendField
<1>19. PICK k1, Kk : /\ k1 = z1 \o Field("k", d.keys)
                     /\ Kk = Kz \cup (d.keys \cap {"k"})
  OBVIOUS
<1>20. Sorted(k1, FirstPlace, Kk, 13)
  <2>1. FirstPlace["k"] = 13 /\ "k" \in AllKeys
        /\ 12 \in Int /\ 13 \in Int /\ 12 < 13
    BY PlaceValues DEF AllKeys
  <2> QED
    BY <1>18, <1>19, <2>1, ExtendField
<1>21. Kk = {"v", "o", "s"} \cup d.keys
  BY <1>1, <1>2, <1>5, <1>7, <1>9, <1>11, <1>13, <1>15, <1>17, <1>19
<1>22. s = k1 \o Repeat("a", d.attribs)
  <2>1. p1 \in Seq(AllKeys)
    BY <1>12 DEF Sorted
  <2>2. c1 = p1 \o Connection(d)
    BY <1>13, <2>1, ConnectionLine
  <2> QED
    BY <1>2, <1>5, <1>7, <1>9, <1>11, <1>15, <1>17, <1>19, <2>2 DEF WriteSession
<1>23. "a" \notin Kk
  BY <1>1, <1>21
<1>24. /\ Sorted(s, FirstPlace, Kk \cup IF d.attribs = 0 THEN {} ELSE {"a"}, 14)
      /\ Len(s) = Len(k1) + d.attribs /\ Len(k1) \in Nat
      /\ \A i \in 1 .. Len(s) : s[i] = "a" <=> i > Len(k1)
  <2>1. FirstPlace["a"] = 14 /\ "a" \in AllKeys /\ 13 \in Int /\ 14 \in Int /\ 13 < 14
    BY PlaceValues DEF AllKeys
  <2>2. PICK t : t = Repeat("a", d.attribs) /\ s = k1 \o t
    BY <1>22
  <2>3. t \in Seq({"a"}) /\ Len(t) = d.attribs
    BY <1>1, <2>2, Attributes
  <2>4. PICK new : new = IF Len(t) = 0 THEN Kk ELSE Kk \cup {"a"}
    OBVIOUS
  <2>5. Sorted(k1 \o t, FirstPlace, new, FirstPlace["a"])
    BY <1>20, <2>1, <2>3, <2>4, Extend
  <2>6. new = Kk \cup IF d.attribs = 0 THEN {} ELSE {"a"}
    BY <2>3, <2>4
  <2>7. /\ Len(s) = Len(k1) + d.attribs /\ Len(k1) \in Nat
        /\ \A i \in 1 .. Len(s) : s[i] = "a" <=> i > Len(k1)
    BY <1>20, <1>23, <2>2, <2>3, AttributesLast
  <2> QED
    BY <2>1, <2>2, <2>5, <2>6, <2>7
<1> QED
  BY <1>21, <1>24 DEF SessionHas, Attribute

(* The lines of a media description.                                        *)
LEMMA MediaWritten ==
    ASSUME NEW d \in MediaDescribed, Plain(d), NEW keys, NEW s, s = WriteMedia(d, keys)
    PROVE  /\ Sorted(s, LastPlace, MediaHas(d, keys), 20)
           /\ \E n \in Nat : /\ Len(s) = n + d.attribs
                             /\ \A i \in 1 .. Len(s) : s[i] = "a" <=> i > n
<1>1. d.keys \in SUBSET {"i", "c", "b"} /\ d.attribs \in Nat
  BY DEF MediaDescribed
<1>2. PICK start : start = <<"m">>
  OBVIOUS
<1>3. Sorted(start, LastPlace, {"m"}, 15)
  <2>1. start \in Seq(AllKeys) /\ Len(start) = 1 /\ start[1] = "m"
    BY <1>2 DEF AllKeys
  <2>2. \A n \in 1 .. 1 : n = 1
    OBVIOUS
  <2> QED
    BY <2>1, <2>2, PlaceValues DEF Sorted
<1>4. {"i", "c", "b", "k", "a"} \subseteq AllKeys
  BY DEF AllKeys
<1>5. PICK i1, Ki : /\ i1 = start \o Field("i", d.keys)
                    /\ Ki = {"m"} \cup (d.keys \cap {"i"})
  OBVIOUS
<1>6. Sorted(i1, LastPlace, Ki, 16)
  <2>1. LastPlace["i"] = 16 /\ "i" \in AllKeys
        /\ 15 \in Int /\ 16 \in Int /\ 15 < 16
    BY PlaceValues DEF AllKeys
  <2> QED
    BY <1>3, <1>5, <2>1, ExtendField
<1>7. PICK c1, Kc : /\ c1 = i1 \o Field("c", d.keys)
                    /\ Kc = Ki \cup (d.keys \cap {"c"})
  OBVIOUS
<1>8. Sorted(c1, LastPlace, Kc, 17)
  <2>1. LastPlace["c"] = 17 /\ "c" \in AllKeys
        /\ 16 \in Int /\ 17 \in Int /\ 16 < 17
    BY PlaceValues DEF AllKeys
  <2> QED
    BY <1>6, <1>7, <2>1, ExtendField
<1>9. PICK b1, Kb : /\ b1 = c1 \o Field("b", d.keys)
                    /\ Kb = Kc \cup (d.keys \cap {"b"})
  OBVIOUS
<1>10. Sorted(b1, LastPlace, Kb, 18)
  <2>1. LastPlace["b"] = 18 /\ "b" \in AllKeys
        /\ 17 \in Int /\ 18 \in Int /\ 17 < 18
    BY PlaceValues DEF AllKeys
  <2> QED
    BY <1>8, <1>9, <2>1, ExtendField
<1>11. PICK k1, Kk : /\ k1 = b1 \o Field("k", keys)
                     /\ Kk = Kb \cup (keys \cap {"k"})
  OBVIOUS
<1>12. Sorted(k1, LastPlace, Kk, 19)
  <2>1. LastPlace["k"] = 19 /\ "k" \in AllKeys
        /\ 18 \in Int /\ 19 \in Int /\ 18 < 19
    BY PlaceValues DEF AllKeys
  <2> QED
    BY <1>10, <1>11, <2>1, ExtendField
<1>13. Kk = {"m"} \cup d.keys \cup (keys \cap {"k"})
  BY <1>1, <1>2, <1>5, <1>7, <1>9, <1>11
<1>14. s = k1 \o Repeat("a", d.attribs)
  <2>1. i1 \in Seq(AllKeys)
    BY <1>6 DEF Sorted
  <2>2. c1 = i1 \o Connection(d)
    BY <1>7, <2>1, ConnectionLine
  <2> QED
    BY <1>2, <1>5, <1>9, <1>11, <2>2 DEF WriteMedia
<1>15. "a" \notin Kk
  BY <1>1, <1>13
<1>16. /\ Sorted(s, LastPlace, Kk \cup IF d.attribs = 0 THEN {} ELSE {"a"}, 20)
      /\ Len(s) = Len(k1) + d.attribs /\ Len(k1) \in Nat
      /\ \A i \in 1 .. Len(s) : s[i] = "a" <=> i > Len(k1)
  <2>1. LastPlace["a"] = 20 /\ "a" \in AllKeys /\ 19 \in Int /\ 20 \in Int /\ 19 < 20
    BY PlaceValues DEF AllKeys
  <2>2. PICK t : t = Repeat("a", d.attribs) /\ s = k1 \o t
    BY <1>14
  <2>3. t \in Seq({"a"}) /\ Len(t) = d.attribs
    BY <1>1, <2>2, Attributes
  <2>4. PICK new : new = IF Len(t) = 0 THEN Kk ELSE Kk \cup {"a"}
    OBVIOUS
  <2>5. Sorted(k1 \o t, LastPlace, new, LastPlace["a"])
    BY <1>12, <2>1, <2>3, <2>4, Extend
  <2>6. new = Kk \cup IF d.attribs = 0 THEN {} ELSE {"a"}
    BY <2>3, <2>4
  <2>7. /\ Len(s) = Len(k1) + d.attribs /\ Len(k1) \in Nat
        /\ \A i \in 1 .. Len(s) : s[i] = "a" <=> i > Len(k1)
    BY <1>12, <1>15, <2>2, <2>3, AttributesLast
  <2> QED
    BY <2>1, <2>2, <2>5, <2>6, <2>7
<1> QED
  BY <1>13, <1>16 DEF MediaHas, Attribute

--------------------------------------------------------------------------------
(* What write writes of the whole packet.                                   *)

(* Written is the function that its definition asks for: there is one, as   *)
(* one can be made for every number of media descriptions up to all.        *)
LEMMA WrittenUpTo ==
    ASSUME NEW desc \in Described, NEW N, N = Len(desc.media)
    PROVE  /\ N \in Nat
           /\ Written(desc)[0] = WriteSession(desc) \o WriteTimes(desc.times)
           /\ \A n \in 1 .. N : Written(desc)[n] =
                  Written(desc)[n - 1] \o WriteMedia(desc.media[n], desc.keys)
<1> DEFINE base == WriteSession(desc) \o WriteTimes(desc.times)
           MediaAt(n) == WriteMedia(desc.media[n], desc.keys)
           Up(f, k) == f = [n \in 0 .. k |-> IF n = 0 THEN base ELSE f[n - 1] \o MediaAt(n)]
           S == {k \in 0 .. N : \E f : Up(f, k)}
<1>1. N \in Nat
  BY DEF Described
<1> HIDE DEF base, MediaAt
<1>2. 0 \in S
  <2>1. PICK f : f = [n \in 0 .. 0 |-> base]
    OBVIOUS
  <2>2. f = [n \in 0 .. 0 |-> IF n = 0 THEN base ELSE f[n - 1] \o MediaAt(n)]
    BY <2>1
  <2> QED
    BY <1>1, <2>2
<1>3. ASSUME NEW k \in 0 .. N, k # N, k \in S PROVE k + 1 \in S
  <2>1. PICK f : Up(f, k)
    BY <1>3
  <2>2. PICK g : g = [n \in 0 .. k + 1 |-> IF n <= k THEN f[n] ELSE f[k] \o MediaAt(k + 1)]
    OBVIOUS
  <2>3. ASSUME NEW n \in 0 .. k + 1
        PROVE  g[n] = IF n = 0 THEN base ELSE g[n - 1] \o MediaAt(n)
    <3>1. CASE n = 0
      BY <2>1, <2>2, <3>1
    <3>2. CASE n # 0 /\ n <= k
      <4>1. n \in 0 .. k /\ n - 1 \in 0 .. k + 1 /\ n - 1 <= k
        BY <1>1, <3>2
      <4>2. g[n] = f[n] /\ g[n - 1] = f[n - 1]
        BY <2>2, <3>2, <4>1
      <4>3. f[n] = f[n - 1] \o MediaAt(n)
        BY <2>1, <3>2, <4>1
      <4> QED
        BY <3>2, <4>2, <4>3
    <3>3. CASE n = k + 1
      <4>1. n # 0 /\ n - 1 = k /\ k \in 0 .. k + 1 /\ k <= k /\ ~ (n <= k)
        BY <1>1, <3>3
      <4>2. g[n] = f[k] \o MediaAt(k + 1) /\ g[n - 1] = f[k]
        BY <2>2, <4>1
      <4> QED
        BY <3>3, <4>1, <4>2
    <3> QED
      BY <1>1, <3>1, <3>2, <3>3
  <2>4. g = [n \in 0 .. k + 1 |-> g[n]]
    BY <2>2
  <2>5. Up(g, k + 1)
    BY <2>3, <2>4
  <2>6. k + 1 \in 0 .. N
    BY <1>1, <1>3
  <2> QED
    BY <2>5, <2>6
<1>4. N \in S
  <2> HIDE DEF S
  <2>1. \A n \in 0 .. N : n \in S
    BY <1>1, <1>2, <1>3, CountUp
  <2> QED
    BY <1>1, <2>1
<1>5. \E f : Up(f, N)
  BY <1>4
<1>6. Written(desc) = CHOOSE f : Up(f, N)
  BY DEF Written, base, MediaAt
<1>7. Up(Written(desc), N)
  BY <1>5, <1>6
<1>8. PICK f : f = Written(desc)
  OBVIOUS
<1>9. f = [n \in 0 .. N |-> IF n = 0 THEN base ELSE f[n - 1] \o MediaAt(n)]
  BY <1>7, <1>8
<1>10. f[0] = base
  BY <1>1, <1>9
<1>11. ASSUME NEW n \in 1 .. N PROVE f[n] = f[n - 1] \o MediaAt(n)
  <2>1. n \in 0 .. N /\ n # 0
    BY <1>1
  <2> QED
    BY <1>9, <2>1
<1> QED
  BY <1>1, <1>8, <1>10, <1>11 DEF base, MediaAt

LEMMA Joined ==
    ASSUME NEW v \in Seq(AllKeys), NEW w \in Seq(AllKeys), NEW s, s = v \o w
    PROVE  /\ s \in Seq(AllKeys) /\ Len(v) \in Nat /\ Len(w) \in Nat /\ Len(s) = Len(v) + Len(w)
           /\ \A i \in 1 .. Len(v) : i \in 1 .. Len(s) /\ s[i] = v[i]
           /\ \A i \in 1 .. Len(w) : Len(v) + i \in 1 .. Len(s) /\ s[Len(v) + i] = w[i]
<1>1. /\ s \in Seq(AllKeys) /\ Len(v) \in Nat /\ Len(w) \in Nat /\ Len(s) = Len(v) + Len(w)
      /\ \A i \in 1 .. Len(s) : s[i] = IF i <= Len(v) THEN v[i] ELSE w[i - Len(v)]
  BY ConcatProperties
<1>2. ASSUME NEW i \in 1 .. Len(w) PROVE Len(v) + i \in 1 .. Len(s) /\ s[Len(v) + i] = w[i]
  <2>1. Len(v) + i \in 1 .. Len(s) /\ ~ (Len(v) + i <= Len(v)) /\ Len(v) + i - Len(v) = i
    BY <1>1
  <2> QED
    BY <1>1, <2>1
<1> QED
  BY <1>1, <1>2

(* The lines s are those of w, then t times and as many repeats, and then   *)
(* those of the first n of media, each up to where ends says.               *)
Laid(s, w, t, media, ends, n) ==
    /\ s \in Seq(AllKeys) /\ Len(s) = ends[n] /\ ends[0] = Len(w) + 2 * t
    /\ \A i \in 1 .. Len(w) : s[i] = w[i]
    /\ \A i \in 1 .. 2 * t : s[Len(w) + i] = IF i % 2 = 1 THEN "t" ELSE "r"
    /\ \A j \in 0 .. n : ends[j] \in Nat /\ ends[j] <= ends[n]
    /\ \A j \in 1 .. n :
           /\ media[j] \in Seq(AllKeys) /\ ends[j] = ends[j - 1] + Len(media[j])
           /\ \A i \in 1 .. Len(media[j]) : s[ends[j - 1] + i] = media[j][i]

LEMMA TimesLaid ==
    ASSUME NEW t \in Nat, NEW w \in Seq(AllKeys), NEW s, s = w \o WriteTimes(t),
           NEW media, NEW ends, ends[0] = Len(s)
    PROVE  Laid(s, w, t, media, ends, 0)
<1>1. PICK v : v = WriteTimes(t)
  OBVIOUS
<1>2. v = [i \in 1 .. 2 * t |-> IF i % 2 = 1 THEN "t" ELSE "r"]
  BY <1>1 DEF WriteTimes
<1>3. 2 * t \in Nat
  OBVIOUS
<1>4. \A i \in 1 .. 2 * t : (IF i % 2 = 1 THEN "t" ELSE "r") \in AllKeys
  BY DEF AllKeys
<1>5. /\ v \in Seq(AllKeys) /\ Len(v) = 2 * t
      /\ \A i \in 1 .. 2 * t : v[i] = IF i % 2 = 1 THEN "t" ELSE "r"
  BY <1>2, <1>3, <1>4
<1>6. v \in Seq(AllKeys) /\ s = w \o v
  BY <1>1, <1>5
<1>7. /\ s \in Seq(AllKeys) /\ Len(w) \in Nat /\ Len(s) = Len(w) + Len(v)
      /\ \A i \in 1 .. Len(w) : i \in 1 .. Len(s) /\ s[i] = w[i]
      /\ \A i \in 1 .. Len(v) : Len(w) + i \in 1 .. Len(s) /\ s[Len(w) + i] = v[i]
  BY <1>6, Joined
<1>8. \A i \in 1 .. 2 * t : s[Len(w) + i] = IF i % 2 = 1 THEN "t" ELSE "r"
  BY <1>5, <1>7
<1>9. 1 .. 0 = {} /\ 0 .. 0 = {0} /\ Len(s) \in Nat /\ Len(s) <= Len(s)
      /\ Len(s) = Len(w) + 2 * t
  BY <1>3, <1>5, <1>7
<1> QED
  BY <1>7, <1>8, <1>9 DEF Laid

LEMMA MediaLaid ==
    ASSUME NEW t \in Nat, NEW w \in Seq(AllKeys), NEW s, NEW media, NEW ends,
           NEW n \in Nat, Laid(s, w, t, media, ends, n), media[n + 1] \in Seq(AllKeys),
           NEW new, new = s \o media[n + 1], ends[n + 1] = Len(new)
    PROVE  Laid(new, w, t, media, ends, n + 1)
<1>1. PICK v : v = media[n + 1]
  OBVIOUS
<1>2. s \in Seq(AllKeys) /\ v \in Seq(AllKeys) /\ new = s \o v
  BY <1>1 DEF Laid
<1>3. /\ new \in Seq(AllKeys) /\ Len(s) \in Nat /\ Len(v) \in Nat /\ Len(new) = Len(s) + Len(v)
      /\ \A i \in 1 .. Len(s) : new[i] = s[i]
      /\ \A i \in 1 .. Len(v) : new[Len(s) + i] = v[i]
  BY <1>2, Joined
<1>4. Len(s) = ends[n] /\ ends[0] = Len(w) + 2 * t /\ ends[n + 1] = ends[n] + Len(v)
      /\ ends[n] \in Nat /\ ends[n + 1] \in Nat /\ ends[n] <= ends[n + 1] /\ Len(w) \in Nat
  BY <1>3 DEF Laid
<1>5. \A j \in 0 .. n : ends[j] \in Nat /\ ends[j] <= ends[n]
  BY DEF Laid
<1>6. ASSUME NEW j \in 0 .. n + 1 PROVE ends[j] \in Nat /\ ends[j] <= ends[n + 1]
  <2>1. j \in 0 .. n \/ j = n + 1
    OBVIOUS
  <2> QED
    BY <1>4, <1>5, <2>1
<1>7. ends[0] <= Len(s)
  <2>1. 0 \in 0 .. n
    OBVIOUS
  <2> QED
    BY <1>4, <1>5, <2>1
<1>8. ASSUME NEW i \in 1 .. Len(w) PROVE new[i] = w[i]
  <2>1. i \in 1 .. Len(s)
    BY <1>4, <1>7, <1>3
  <2> QED
    BY <1>3, <2>1 DEF Laid
<1>9. ASSUME NEW i \in 1 .. 2 * t PROVE new[Len(w) + i] = IF i % 2 = 1 THEN "t" ELSE "r"
  <2>1. Len(w) + i \in 1 .. Len(s)
    BY <1>4, <1>7, <1>3
  <2>2. s[Len(w) + i] = IF i % 2 = 1 THEN "t" ELSE "r"
    BY DEF Laid
  <2> QED
    BY <1>3, <2>1, <2>2
<1>10. ASSUME NEW j \in 1 .. n + 1
       PROVE  /\ media[j] \in Seq(AllKeys) /\ ends[j] = ends[j - 1] + Len(media[j])
              /\ \A i \in 1 .. Len(media[j]) : new[ends[j - 1] + i] = media[j][i]
  <2>1. CASE j = n + 1
    <3>1. j - 1 = n /\ media[j] = v /\ ends[j] = ends[n] + Len(v)
      BY <1>1, <1>4, <2>1
    <3>2. \A i \in 1 .. Len(v) : new[ends[n] + i] = v[i]
      BY <1>3, <1>4
    <3> QED
      BY <1>2, <3>1, <3>2
  <2>2. CASE j \in 1 .. n
    <3>1. /\ media[j] \in Seq(AllKeys) /\ ends[j] = ends[j - 1] + Len(media[j])
          /\ \A i \in 1 .. Len(media[j]) : s[ends[j - 1] + i] = media[j][i]
      BY <2>2 DEF Laid
    <3>2. j \in 0 .. n /\ j - 1 \in 0 .. n
      BY <2>2
    <3>3. ends[j - 1] \in Nat /\ ends[j] \in Nat /\ ends[j] <= Len(s)
      BY <1>4, <1>5, <3>2
    <3>4. ASSUME NEW i \in 1 .. Len(media[j]) PROVE new[ends[j - 1] + i] = media[j][i]
      <4>1. PICK l, e : l = Len(media[j]) /\ e = ends[j - 1]
        OBVIOUS
      <4>2. l \in Nat /\ e \in Nat /\ i \in 1 .. l /\ e + l <= Len(s) /\ Len(s) \in Nat
        BY <1>3, <3>1, <3>3, <4>1
      <4>3. e + i \in 1 .. Len(s)
        BY <4>2
      <4> QED
        BY <1>3, <3>1, <4>1, <4>3
    <3> QED
      BY <3>1, <3>4
  <2>3. j = n + 1 \/ j \in 1 .. n
    OBVIOUS
  <2> QED
    BY <2>1, <2>2, <2>3
<1> QED
  BY <1>3, <1>4, <1>6, <1>8, <1>9, <1>10 DEF Laid

(* That is how a packet is written, with as many lines of each part as      *)
(* there are.                                                               *)
AllPlain(desc) == Plain(desc) /\ \A j \in 1 .. Len(desc.media) : Plain(desc.media[j])

LEMMA WrittenLaid ==
    ASSUME NEW desc \in Described, AllPlain(desc),
           NEW N, N = Len(desc.media), NEW w, w = WriteSession(desc),
           NEW media, media = [j \in 1 .. N |-> WriteMedia(desc.media[j], desc.keys)]
    PROVE  /\ \A j \in 1 .. N : media[j] \in Seq(AllKeys)
           /\ \E ends : Laid(Written(desc)[N], w, desc.times, media, ends, N)
<1>1. PICK f : f = Written(desc)
  OBVIOUS
<1>2. /\ N \in Nat /\ f[0] = w \o WriteTimes(desc.times)
      /\ \A n \in 1 .. N : f[n] = f[n - 1] \o media[n]
  BY <1>1, WrittenUpTo
<1>3. w \in Seq(AllKeys)
  BY SessionWritten DEF Sorted, AllPlain
<1>4. ASSUME NEW j \in 1 .. N PROVE media[j] \in Seq(AllKeys)
  <2>1. desc.media \in Seq(MediaDescribed)
    BY DEF Described
  <2>2. desc.media[j] \in MediaDescribed /\ Plain(desc.media[j])
    BY <2>1, ElementOfSeq DEF AllPlain
  <2>3. media[j] = WriteMedia(desc.media[j], desc.keys)
    OBVIOUS
  <2> QED
    BY <2>2, <2>3, MediaWritten DEF Sorted
<1>5. PICK t : t = desc.times /\ t \in Nat
  BY DEF Described
<1>6. PICK ends : ends = [n \in 0 .. N |-> Len(f[n])]
  OBVIOUS
<1>7. \A n \in 0 .. N : ends[n] = Len(f[n])
  BY <1>6
<1> DEFINE S == {n \in 0 .. N : Laid(f[n], w, t, media, ends, n)}
<1>8. 0 \in S
  <2>1. 0 \in 0 .. N
    BY <1>2
  <2>2. ends[0] = Len(f[0]) /\ f[0] = w \o WriteTimes(t)
    BY <1>2, <1>5, <1>7, <2>1
  <2>3. Laid(f[0], w, t, media, ends, 0)
    BY <1>3, <1>5, <2>2, TimesLaid
  <2> QED
    BY <2>1, <2>3
<1>9. ASSUME NEW n \in 0 .. N, n # N, n \in S PROVE n + 1 \in S
  <2>1. n + 1 \in 0 .. N /\ n + 1 \in 1 .. N /\ n + 1 - 1 = n /\ n \in Nat
    BY <1>2, <1>9
  <2>2. PICK new, s : new = f[n + 1] /\ s = f[n]
    OBVIOUS
  <2>3. new = s \o media[n + 1] /\ ends[n + 1] = Len(new) /\ media[n + 1] \in Seq(AllKeys)
    <3>1. PICK k : k = n + 1
      OBVIOUS
    <3>2. k \in 1 .. N /\ k \in 0 .. N /\ k - 1 = n
      BY <2>1, <3>1
    <3>3. f[k] = f[k - 1] \o media[k]
      BY <1>2, <3>2
    <3>4. ends[k] = Len(f[k]) /\ media[k] \in Seq(AllKeys)
      BY <1>4, <1>7, <3>2
    <3> QED
      BY <2>2, <3>1, <3>2, <3>3, <3>4
  <2>4. Laid(s, w, t, media, ends, n)
    BY <1>9, <2>2
  <2>5. Laid(new, w, t, media, ends, n + 1)
    BY <1>3, <1>5, <2>1, <2>3, <2>4, MediaLaid
  <2> QED
    BY <2>1, <2>2, <2>5
<1>10. N \in S
  <2> HIDE DEF S
  <2>1. \A n \in 0 .. N : n \in S
    BY <1>2, <1>8, <1>9, CountUp
  <2> QED
    BY <1>2, <2>1
<1> QED
  BY <1>1, <1>4, <1>5, <1>10

--------------------------------------------------------------------------------
(* The sections of what was written.                                        *)

(* An "m" begins a media description, and there is no other in it.          *)
LEMMA MediaBegins ==
    ASSUME NEW d \in MediaDescribed, Plain(d), NEW keys, NEW s, s = WriteMedia(d, keys)
    PROVE  1 \in 1 .. Len(s) /\ s[1] = "m" /\ \A i \in 1 .. Len(s) : i # 1 => s[i] # "m"
<1>1. Sorted(s, LastPlace, MediaHas(d, keys), 20)
  BY MediaWritten
<1>2. "m" \in MediaHas(d, keys) /\ MediaHas(d, keys) \subseteq {"m", "i", "c", "b", "k", "a"}
  BY DEF MediaHas, MediaDescribed, Attribute
<1>3. PICK n \in 1 .. Len(s) : s[n] = "m"
  BY <1>1, <1>2 DEF Sorted
<1>4. Len(s) \in Nat
  BY <1>1 DEF Sorted
<1>5. ASSUME NEW i \in 1 .. Len(s), s[i] = "m", i # 1 PROVE FALSE
  <2>1. 1 \in 1 .. Len(s) /\ 1 < i
    BY <1>4, <1>5
  <2>2. LastPlace[s[1]] < LastPlace[s[i]] \/ (s[1] = "a" /\ s[i] = "a")
    BY <1>1, <2>1 DEF Sorted
  <2>3. s[1] \in {"m", "i", "c", "b", "k", "a"}
    BY <1>1, <1>2, <2>1 DEF Sorted
  <2>4. LastPlace[s[1]] < 15
    BY <1>5, <2>2, PlaceValues
  <2> QED
    BY <2>3, <2>4, PlaceValues
<1> QED
  BY <1>3, <1>4, <1>5

(* The message is what write makes of desc.                                 *)
LaidOut(desc, w, media, ends, N) ==
    /\ desc \in Described /\ AllPlain(desc) /\ N = Len(desc.media) /\ N \in Nat
    /\ w = WriteSession(desc) /\ w \in Seq(AllKeys)
    /\ media = [j \in 1 .. N |-> WriteMedia(desc.media[j], desc.keys)]
    /\ Laid(message, w, desc.times, media, ends, N)

LEMMA MessageLaid ==
    ASSUME NEW desc \in Described, AllPlain(desc), message = Written(desc)[Len(desc.media)]
    PROVE  \E w, media, ends, N : LaidOut(desc, w, media, ends, N)
<1>1. PICK N, w : N = Len(desc.media) /\ w = WriteSession(desc)
  OBVIOUS
<1>2. PICK media : media = [j \in 1 .. N |-> WriteMedia(desc.media[j], desc.keys)]
  OBVIOUS
<1>3. PICK ends : Laid(Written(desc)[N], w, desc.times, media, ends, N)
  BY <1>1, <1>2, WrittenLaid
<1>4. N \in Nat /\ w \in Seq(AllKeys)
  BY <1>1, WrittenUpTo, SessionWritten DEF Sorted, AllPlain
<1> QED
  BY <1>1, <1>2, <1>3, <1>4 DEF LaidOut

(* What is known of every media description.                                *)
LEMMA MediaLines ==
    ASSUME NEW desc, NEW w, NEW media, NEW ends, NEW N, LaidOut(desc, w, media, ends, N),
           NEW j \in 1 .. N
    PROVE  /\ desc.media[j] \in MediaDescribed /\ Plain(desc.media[j])
           /\ media[j] = WriteMedia(desc.media[j], desc.keys)
           /\ j - 1 \in 0 .. N /\ ends[j - 1] \in Nat /\ Len(media[j]) \in Nat
           /\ ends[j] = ends[j - 1] + Len(media[j]) /\ ends[j] <= Len(message)
           /\ \A i \in 1 .. Len(media[j]) : /\ ends[j - 1] + i \in 1 .. Len(message)
                                            /\ message[ends[j - 1] + i] = media[j][i]
<1>1. N \in Nat /\ j \in 0 .. N /\ j - 1 \in 0 .. N
  BY DEF LaidOut
<1>2. /\ ends[j - 1] \in Nat /\ ends[j] <= ends[N] /\ ends[N] = Len(message)
      /\ ends[j] = ends[j - 1] + Len(media[j]) /\ media[j] \in Seq(AllKeys)
      /\ message \in Seq(AllKeys)
      /\ \A i \in 1 .. Len(media[j]) : message[ends[j - 1] + i] = media[j][i]
  BY <1>1 DEF LaidOut, Laid
<1>3. PICK e, l, m : e = ends[j - 1] /\ l = Len(media[j]) /\ m = Len(message)
  OBVIOUS
<1>4. e \in Nat /\ l \in Nat /\ m \in Nat /\ e + l <= m
  BY <1>2, <1>3
<1>5. \A i \in 1 .. l : e + i \in 1 .. m
  BY <1>4
<1>6. desc.media[j] \in MediaDescribed /\ Plain(desc.media[j])
  <2>1. desc.media \in Seq(MediaDescribed) /\ N = Len(desc.media)
    BY DEF LaidOut, Described
  <2> QED
    BY <2>1, ElementOfSeq DEF LaidOut, AllPlain
<1>7. media[j] = WriteMedia(desc.media[j], desc.keys)
  BY DEF LaidOut
<1> QED
  BY <1>1, <1>2, <1>3, <1>4, <1>5, <1>6, <1>7

(* No line is in none of the parts.                                         *)
LEMMA PartOf ==
    ASSUME NEW desc, NEW w, NEW media, NEW ends, NEW N, LaidOut(desc, w, media, ends, N),
           NEW n \in 1 .. Len(message)
    PROVE  \/ n \in 1 .. Len(w)
           \/ \E i \in 1 .. 2 * desc.times : n = Len(w) + i
           \/ \E j \in 1 .. N : \E i \in 1 .. Len(media[j]) : n = ends[j - 1] + i
<1>1. /\ N \in Nat /\ desc.times \in Nat /\ Len(w) \in Nat /\ message \in Seq(AllKeys)
      /\ ends[0] = Len(w) + 2 * desc.times /\ ends[N] = Len(message)
  BY DEF LaidOut, Laid, Described
<1>2. CASE n <= ends[0]
  <2>1. n \in 1 .. Len(w) \/ n - Len(w) \in 1 .. 2 * desc.times
    BY <1>1, <1>2
  <2>2. n = Len(w) + (n - Len(w))
    BY <1>1
  <2> QED
    BY <2>1, <2>2
<1>3. CASE n > ends[0]
  <2> DEFINE S == {j \in 1 .. N : n <= ends[j]}
  <2>1. n <= ends[N] /\ N # 0
    BY <1>1, <1>3
  <2>2. N \in S /\ S \in SUBSET Nat
    BY <1>1, <2>1
  <2>3. PICK j \in S : \A k \in S : j <= k
    <3> HIDE DEF S
    <3> QED
      BY <2>2, LeastNumber
  <2>4. j \in 1 .. N /\ n <= ends[j]
    OBVIOUS
  <2>5. /\ j - 1 \in 0 .. N /\ ends[j - 1] \in Nat /\ Len(media[j]) \in Nat
        /\ ends[j] = ends[j - 1] + Len(media[j])
    BY <2>4, MediaLines
  <2>6. ends[j - 1] < n
    <3>1. CASE j = 1
      <4>1. j - 1 = 0
        BY <3>1
      <4> QED
        BY <1>3, <4>1
    <3>2. CASE j # 1
      <4>1. j - 1 \in 1 .. N /\ ~ (j <= j - 1)
        BY <1>1, <2>4, <3>2
      <4>2. j - 1 \notin S
        BY <2>3, <4>1
      <4> QED
        BY <2>5, <4>1, <4>2
    <3> QED
      BY <3>1, <3>2
  <2>7. n - ends[j - 1] \in 1 .. Len(media[j]) /\ n = ends[j - 1] + (n - ends[j - 1])
    BY <2>4, <2>5, <2>6
  <2> QED
    BY <2>4, <2>7
<1> QED
  BY <1>1, <1>2, <1>3

(* Lines without an "m" are all of one section.                             *)
LEMMA SectionStays ==
    ASSUME NEW x \in Nat, NEW l \in Nat, \A i \in 1 .. l : message[x + i] # "m"
    PROVE  \A i \in 0 .. l : SectionOf(x + i) = SectionOf(x)
<1> DEFINE S == {i \in 0 .. l : SectionOf(x + i) = SectionOf(x)}
<1>1. 0 \in S
  OBVIOUS
<1>2. ASSUME NEW i \in 0 .. l, i # l, i \in S PROVE i + 1 \in S
  <2>1. i + 1 \in 1 .. l /\ i + 1 \in 0 .. l /\ x + i \in Nat /\ x + i + 1 = x + (i + 1)
    BY <1>2
  <2>2. message[x + (i + 1)] # "m"
    BY <2>1
  <2>3. /\ SectionOf(x + i) \in Nat
        /\ SectionOf(x + i + 1) = SectionOf(x + i) + IF message[x + i + 1] = "m" THEN 1 ELSE 0
    BY <2>1, SectionStep
  <2>4. SectionOf(x + (i + 1)) = SectionOf(x + i)
    BY <2>1, <2>2, <2>3
  <2> QED
    BY <1>2, <2>1, <2>4
<1> HIDE DEF S
<1>3. \A i \in 0 .. l : i \in S
  BY <1>1, <1>2, CountUp
<1> QED
  BY <1>3 DEF S

(* The session ends where the times do.                                     *)
LEMMA SessionSection ==
    ASSUME NEW desc, NEW w, NEW media, NEW ends, NEW N, LaidOut(desc, w, media, ends, N)
    PROVE  \A n \in 0 .. ends[0] : SectionOf(n) = 0
<1>1. /\ desc.times \in Nat /\ Len(w) \in Nat /\ ends[0] \in Nat
      /\ ends[0] = Len(w) + 2 * desc.times
  BY DEF LaidOut, Laid, Described
<1>2. ASSUME NEW n \in 1 .. ends[0] PROVE message[0 + n] # "m"
  <2>1. n \in 1 .. Len(w) \/ n - Len(w) \in 1 .. 2 * desc.times
    BY <1>1
  <2>2. CASE n \in 1 .. Len(w)
    <3>1. Sorted(w, FirstPlace, SessionHas(desc), 14)
      BY SessionWritten DEF LaidOut, AllPlain
    <3>2. "m" \notin SessionHas(desc)
      BY DEF LaidOut, SessionHas, Described, Attribute
    <3>3. message[n] = w[n] /\ w[n] \in SessionHas(desc)
      BY <2>2, <3>1 DEF Sorted, LaidOut, Laid
    <3> QED
      BY <3>2, <3>3
  <2>3. CASE n - Len(w) \in 1 .. 2 * desc.times
    <3>1. PICK i : i = n - Len(w)
      OBVIOUS
    <3>2. i \in 1 .. 2 * desc.times /\ n = Len(w) + i
      BY <1>1, <2>3, <3>1
    <3>3. message[Len(w) + i] = IF i % 2 = 1 THEN "t" ELSE "r"
      BY <3>2 DEF LaidOut, Laid
    <3> QED
      BY <3>2, <3>3
  <2> QED
    BY <2>1, <2>2, <2>3
<1>3. \A n \in 0 .. ends[0] : SectionOf(0 + n) = SectionOf(0)
  BY <1>1, <1>2, SectionStays
<1> QED
  BY <1>1, <1>3, SectionZero

(* The section of a media description is its number.                        *)
LEMMA MediaSection ==
    ASSUME NEW desc, NEW w, NEW media, NEW ends, NEW N, LaidOut(desc, w, media, ends, N),
           NEW j \in 1 .. N, SectionOf(ends[j - 1]) = j - 1
    PROVE  /\ \A i \in 1 .. Len(media[j]) : SectionOf(ends[j - 1] + i) = j
           /\ SectionOf(ends[j]) = j
<1>1. PICK e, l : e = ends[j - 1] /\ l = Len(media[j])
  OBVIOUS
<1>2. /\ e \in Nat /\ l \in Nat /\ ends[j] = e + l /\ 1 \in 1 .. l /\ media[j][1] = "m"
      /\ \A i \in 1 .. l : i # 1 => media[j][i] # "m"
  BY <1>1, MediaLines, MediaBegins
<1>3. \A i \in 1 .. l : message[e + i] = media[j][i]
  BY <1>1, MediaLines
<1>4. j \in Nat /\ SectionOf(e) = j - 1
  BY <1>1
<1>5. SectionOf(e + 1) = j
  BY <1>2, <1>3, <1>4, SectionStep
<1>6. ASSUME NEW i \in 1 .. l - 1 PROVE message[e + 1 + i] # "m"
  <2>1. 1 + i \in 1 .. l /\ 1 + i # 1 /\ e + 1 + i = e + (1 + i)
    BY <1>2
  <2>2. message[e + (1 + i)] # "m"
    BY <1>2, <1>3, <2>1
  <2> QED
    BY <2>1, <2>2
<1>7. \A i \in 0 .. l - 1 : SectionOf(e + 1 + i) = SectionOf(e + 1)
  <2>1. e + 1 \in Nat /\ l - 1 \in Nat
    BY <1>2
  <2> QED
    BY <1>6, <2>1, SectionStays
<1>8. ASSUME NEW i \in 1 .. l PROVE SectionOf(e + i) = j
  <2>1. i - 1 \in 0 .. l - 1 /\ e + 1 + (i - 1) = e + i
    BY <1>2
  <2>2. SectionOf(e + 1 + (i - 1)) = j
    BY <1>5, <1>7, <2>1
  <2> QED
    BY <2>1, <2>2
<1>9. l \in 1 .. l
  BY <1>2
<1> QED
  BY <1>1, <1>2, <1>8, <1>9

LEMMA MediaSections ==
    ASSUME NEW desc, NEW w, NEW media, NEW ends, NEW N, LaidOut(desc, w, media, ends, N)
    PROVE  /\ \A j \in 1 .. N : \A i \in 1 .. Len(media[j]) : SectionOf(ends[j - 1] + i) = j
           /\ SectionOf(Len(message)) = N
<1> DEFINE S == {j \in 0 .. N : SectionOf(ends[j]) = j}
<1>1. N \in Nat /\ ends[N] = Len(message) /\ ends[0] \in Nat
  BY DEF LaidOut, Laid
<1>2. 0 \in S
  <2>1. 0 \in 0 .. N /\ ends[0] \in 0 .. ends[0]
    BY <1>1
  <2> QED
    BY <2>1, SessionSection
<1>3. ASSUME NEW j \in 0 .. N, j # N, j \in S PROVE j + 1 \in S
  <2>1. PICK k : k = j + 1
    OBVIOUS
  <2>2. k \in 1 .. N /\ k - 1 = j /\ k \in 0 .. N
    BY <1>1, <1>3, <2>1
  <2>3. SectionOf(ends[k - 1]) = k - 1
    BY <1>3, <2>2
  <2>4. SectionOf(ends[k]) = k
    BY <2>2, <2>3, MediaSection
  <2> QED
    BY <2>1, <2>2, <2>4
<1>4. \A j \in 0 .. N : j \in S
  <2> HIDE DEF S
  <2> QED
    BY <1>1, <1>2, <1>3, CountUp
<1>5. ASSUME NEW j \in 1 .. N, NEW i \in 1 .. Len(media[j]) PROVE SectionOf(ends[j - 1] + i) = j
  <2>1. j - 1 \in 0 .. N
    BY <1>1
  <2>2. SectionOf(ends[j - 1]) = j - 1
    BY <1>4, <2>1
  <2> QED
    BY <2>2, MediaSection
<1>6. SectionOf(ends[N]) = N
  BY <1>1, <1>4
<1> QED
  BY <1>1, <1>5, <1>6

(* What is known of the lines of the session, of the times, and of the      *)
(* media descriptions.                                                      *)
LEMMA SessionLine ==
    ASSUME NEW desc, NEW w, NEW media, NEW ends, NEW N, LaidOut(desc, w, media, ends, N),
           NEW n \in 1 .. Len(w)
    PROVE  /\ n \in 1 .. Len(message) /\ SectionOf(n) = 0
           /\ message[n] = w[n] /\ w[n] \in SessionHas(desc) /\ w[n] \notin {"t", "r", "m"}
           /\ Rank(n) = FirstPlace[w[n]] /\ Rank(n) \in Int
<1>1. /\ desc.times \in Nat /\ Len(w) \in Nat /\ ends[0] \in Nat /\ Len(message) \in Nat
      /\ ends[0] = Len(w) + 2 * desc.times /\ ends[0] <= Len(message)
  BY DEF LaidOut, Laid, Described
<1>2. n \in 1 .. Len(message) /\ n \in 0 .. ends[0]
  BY <1>1
<1>3. Sorted(w, FirstPlace, SessionHas(desc), 14)
  BY SessionWritten DEF LaidOut, AllPlain
<1>4. {"t", "r", "m"} \cap SessionHas(desc) = {}
  BY DEF LaidOut, SessionHas, Described, Attribute
<1>5. message[n] = w[n] /\ w[n] \in SessionHas(desc)
  BY <1>3 DEF Sorted, LaidOut, Laid
<1>6. SectionOf(n) = 0
  BY <1>2, SessionSection
<1>7. Rank(n) = Min(Places(w[n]))
  BY <1>4, <1>5, <1>6 DEF Rank
<1>8. w[n] \in AllKeys /\ FirstPlace[w[n]] \in Int
  BY <1>3, <1>5, ElementOfSeq DEF Sorted
<1> QED
  BY <1>2, <1>4, <1>5, <1>6, <1>7, <1>8 DEF FirstPlace

LEMMA TimeLine ==
    ASSUME NEW desc, NEW w, NEW media, NEW ends, NEW N, LaidOut(desc, w, media, ends, N),
           NEW i \in 1 .. 2 * desc.times, NEW n, n = Len(w) + i
    PROVE  /\ n \in 1 .. Len(message) /\ SectionOf(n) = 0
           /\ message[n] = IF i % 2 = 1 THEN "t" ELSE "r"
           /\ Rank(n) = 10
<1>1. /\ desc.times \in Nat /\ Len(w) \in Nat /\ ends[0] \in Nat /\ Len(message) \in Nat
      /\ ends[0] = Len(w) + 2 * desc.times /\ ends[0] <= Len(message)
  BY DEF LaidOut, Laid, Described
<1>2. n \in 1 .. Len(message) /\ n \in 0 .. ends[0]
  BY <1>1
<1>3. SectionOf(n) = 0
  BY <1>2, SessionSection
<1>4. message[n] = IF i % 2 = 1 THEN "t" ELSE "r"
  BY DEF LaidOut, Laid
<1>5. Min(Places("t")) = 10
  BY PlaceValues DEF FirstPlace, AllKeys
<1> QED
  BY <1>2, <1>3, <1>4, <1>5 DEF Rank

LEMMA MediaLine ==
    ASSUME NEW desc, NEW w, NEW media, NEW ends, NEW N, LaidOut(desc, w, media, ends, N),
           NEW j \in 1 .. N, NEW i \in 1 .. Len(media[j]), NEW n, n = ends[j - 1] + i
    PROVE  /\ n \in 1 .. Len(message) /\ SectionOf(n) = j /\ j > 0
           /\ message[n] = media[j][i] /\ media[j][i] \in MediaHas(desc.media[j], desc.keys)
           /\ media[j][i] \in {"m", "i", "c", "b", "k", "a"}
           /\ Rank(n) = LastPlace[media[j][i]] /\ Rank(n) \in Int
<1>1. n \in 1 .. Len(message) /\ message[n] = media[j][i]
  <2>1. PICK e, l : e = ends[j - 1] /\ l = Len(media[j])
    OBVIOUS
  <2>2. \A x \in 1 .. l : e + x \in 1 .. Len(message) /\ message[e + x] = media[j][x]
    BY <2>1, MediaLines
  <2> QED
    BY <2>1, <2>2
<1>2. SectionOf(n) = j
  BY MediaSections
<1>3. Sorted(media[j], LastPlace, MediaHas(desc.media[j], desc.keys), 20)
      /\ desc.media[j] \in MediaDescribed
  BY MediaLines, MediaWritten
<1>4. MediaHas(desc.media[j], desc.keys) \subseteq {"m", "i", "c", "b", "k", "a"}
  BY <1>3 DEF MediaHas, MediaDescribed, Attribute
<1>5. media[j][i] \in MediaHas(desc.media[j], desc.keys)
  BY <1>3 DEF Sorted
<1>6. j > 0 /\ media[j][i] # "r"
  BY <1>4, <1>5
<1>7. Rank(n) = Max(Places(media[j][i]))
  BY <1>1, <1>2, <1>6 DEF Rank
<1>8. media[j][i] \in AllKeys /\ LastPlace[media[j][i]] \in Int
  BY <1>3, <1>5, ElementOfSeq DEF Sorted
<1> QED
  BY <1>1, <1>2, <1>4, <1>5, <1>6, <1>7, <1>8 DEF LastPlace

--------------------------------------------------------------------------------
(* The order of what was written.                                           *)

(* write puts lines before the times that read does not take times after.   *)
Misplaced(desc) == desc.attribs > 0 \/ desc.keys \cap {"z", "k"} # {}

LEMMA NotMedia ==
    ASSUME NEW desc, NEW w, NEW media, NEW ends, NEW N, LaidOut(desc, w, media, ends, N), NEW n,
           SectionOf(n) = 0 \/ message[n] \in {"t", "r"}
    PROVE  \A j \in 1 .. N : \A i \in 1 .. Len(media[j]) : n # ends[j - 1] + i
<1>1. SUFFICES ASSUME NEW j \in 1 .. N, NEW i \in 1 .. Len(media[j]), n = ends[j - 1] + i
               PROVE  FALSE
  OBVIOUS
<1>2. /\ SectionOf(n) = j /\ j > 0
      /\ message[n] = media[j][i] /\ media[j][i] \in {"m", "i", "c", "b", "k", "a"}
  BY <1>1, MediaLine
<1> QED
  BY <1>2

LEMMA NotSession ==
    ASSUME NEW desc, NEW w, NEW media, NEW ends, NEW N, LaidOut(desc, w, media, ends, N), NEW n,
           NEW j \in 1 .. N, SectionOf(n) = j
    PROVE  n \notin 1 .. Len(w) /\ \A i \in 1 .. 2 * desc.times : n # Len(w) + i
<1>1. j # 0
  OBVIOUS
<1>2. n \notin 1 .. Len(w)
  BY <1>1, SessionLine
<1>3. ASSUME NEW i \in 1 .. 2 * desc.times, n = Len(w) + i PROVE FALSE
  <2>1. SectionOf(n) = 0
    BY <1>3, TimeLine
  <2> QED
    BY <1>1, <2>1
<1> QED
  BY <1>2, <1>3

LEMMA InMedia ==
    ASSUME NEW desc, NEW w, NEW media, NEW ends, NEW N, LaidOut(desc, w, media, ends, N),
           NEW n \in 1 .. Len(message), NEW j \in 1 .. N, SectionOf(n) = j
    PROVE  \E i \in 1 .. Len(media[j]) : n = ends[j - 1] + i
<1>1. n \notin 1 .. Len(w) /\ \A i \in 1 .. 2 * desc.times : n # Len(w) + i
  BY NotSession
<1>2. \E h \in 1 .. N : \E i \in 1 .. Len(media[h]) : n = ends[h - 1] + i
  <2>1. \/ n \in 1 .. Len(w)
        \/ \E i \in 1 .. 2 * desc.times : n = Len(w) + i
        \/ \E h \in 1 .. N : \E i \in 1 .. Len(media[h]) : n = ends[h - 1] + i
    BY PartOf
  <2> QED
    BY <1>1, <2>1, Zenon
<1>3. PICK h \in 1 .. N : \E i \in 1 .. Len(media[h]) : n = ends[h - 1] + i
  BY <1>2, Zenon
<1>4. PICK i \in 1 .. Len(media[h]) : n = ends[h - 1] + i
  BY <1>3
<1>5. SectionOf(n) = h
  BY <1>4, MediaLine
<1> QED
  BY <1>4, <1>5

(* The ranks of the session grow up to the times, which are after them,     *)
(* unless some are misplaced.                                               *)
LEMMA SessionRanks ==
    ASSUME NEW desc, NEW w, NEW media, NEW ends, NEW N, LaidOut(desc, w, media, ends, N),
           NEW n \in 1 .. Len(w), NEW k \in 1 .. Len(message), n < k, SectionOf(k) = 0,
           k \in 1 .. Len(w) \/ ~ Misplaced(desc)
    PROVE  Rank(n) <= Rank(k)
<1>1. Sorted(w, FirstPlace, SessionHas(desc), 14)
  BY SessionWritten DEF LaidOut, AllPlain
<1>2. Rank(n) = FirstPlace[w[n]] /\ Rank(n) \in Int /\ w[n] \in SessionHas(desc)
  BY SessionLine
<1>3. CASE k \in 1 .. Len(w)
  <2>1. Rank(k) = FirstPlace[w[k]] /\ Rank(k) \in Int
    BY <1>3, SessionLine
  <2>2. FirstPlace[w[n]] < FirstPlace[w[k]] \/ (w[n] = "a" /\ w[k] = "a")
    BY <1>1, <1>3 DEF Sorted
  <2> QED
    BY <1>2, <2>1, <2>2
<1>4. CASE k \notin 1 .. Len(w)
  <2>1. Rank(k) = 10
    <3>1. \A j \in 1 .. N : \A i \in 1 .. Len(media[j]) : k # ends[j - 1] + i
      BY NotMedia
    <3>2. PICK i \in 1 .. 2 * desc.times : k = Len(w) + i
      BY <1>4, <3>1, PartOf
    <3> QED
      BY <3>2, TimeLine
  <2>2. desc.attribs \in Nat /\ desc.keys \in SUBSET {"i", "u", "e", "p", "c", "b", "z", "k"}
    BY DEF LaidOut, Described
  <2>3. Attribute(desc.attribs) = {} /\ "z" \notin desc.keys /\ "k" \notin desc.keys
    BY <1>4, <2>2 DEF Misplaced, Attribute
  <2>4. w[n] \in {"v", "o", "s", "i", "u", "e", "p", "c", "b"}
    BY <1>2, <2>2, <2>3 DEF SessionHas
  <2>5. FirstPlace[w[n]] <= 10
    BY <2>4, PlaceValues, SMTT(30)
  <2> QED
    BY <1>2, <2>1, <2>5
<1> QED
  BY <1>3, <1>4

(* A time is before its repeat, and no other line is.                       *)
LEMMA TimesAlternate ==
    ASSUME NEW desc, NEW w, NEW media, NEW ends, NEW N, LaidOut(desc, w, media, ends, N),
           NEW n \in 1 .. Len(message), n > 1, message[n] \in {"t", "r"}
    PROVE  message[n] = "r" <=> message[n - 1] = "t"
<1>1. desc.times \in Nat /\ Len(w) \in Nat
  BY DEF LaidOut, Described
<1>2. PICK i \in 1 .. 2 * desc.times : n = Len(w) + i
  <2>1. n \notin 1 .. Len(w)
    BY SessionLine
  <2>2. \A j \in 1 .. N : \A x \in 1 .. Len(media[j]) : n # ends[j - 1] + x
    BY NotMedia
  <2> QED
    BY <2>1, <2>2, PartOf
<1>3. message[n] = IF i % 2 = 1 THEN "t" ELSE "r"
  BY <1>2, TimeLine
<1>4. CASE i = 1
  <2>1. n - 1 \in 1 .. Len(w)
    BY <1>1, <1>2, <1>4
  <2>2. message[n - 1] = w[n - 1] /\ w[n - 1] \notin {"t", "r", "m"}
    BY <2>1, SessionLine
  <2> QED
    BY <1>3, <1>4, <2>2
<1>5. CASE i # 1
  <2>1. i - 1 \in 1 .. 2 * desc.times /\ n - 1 = Len(w) + (i - 1)
    BY <1>1, <1>2, <1>5
  <2>2. message[n - 1] = IF (i - 1) % 2 = 1 THEN "t" ELSE "r"
    BY <2>1, TimeLine
  <2>3. i % 2 = 1 <=> ~ ((i - 1) % 2 = 1)
    BY <1>5
  <2> QED
    BY <1>3, <2>2, <2>3
<1> QED
  BY <1>4, <1>5

LEMMA KeysKnown ==
    ASSUME NEW desc, NEW w, NEW media, NEW ends, NEW N, LaidOut(desc, w, media, ends, N),
           NEW n \in 1 .. Len(message)
    PROVE  message[n] \in IF SectionOf(n) = 0 THEN Range(SDPFields) ELSE SDPMediaFields
<1>1. {"v", "o", "s", "i", "u", "e", "p", "c", "b", "t", "r", "z", "k", "a"} \subseteq
          Range(SDPFields)
  <2>1. /\ SDPFields[1] = "v" /\ SDPFields[2] = "o" /\ SDPFields[3] = "s" /\ SDPFields[4] = "i"
        /\ SDPFields[5] = "u" /\ SDPFields[6] = "e" /\ SDPFields[7] = "p" /\ SDPFields[8] = "c"
        /\ SDPFields[9] = "b" /\ SDPFields[10] = "t" /\ SDPFields[11] = "r"
        /\ SDPFields[12] = "z" /\ SDPFields[13] = "k" /\ SDPFields[14] = "a"
        /\ DOMAIN SDPFields = 1 .. 20
    BY DEF SDPFields
  <2>2. \A i \in 1 .. 20 : SDPFields[i] \in Range(SDPFields)
    BY <2>1 DEF Range
  <2> QED
    BY <2>1, <2>2
<1>2. CASE n \in 1 .. Len(w)
  <2>1. desc.keys \in SUBSET {"i", "u", "e", "p", "c", "b", "z", "k"}
    BY DEF LaidOut, Described
  <2>2. message[n] \in SessionHas(desc) /\ SectionOf(n) = 0
    BY <1>2, SessionLine
  <2> QED
    BY <1>1, <2>1, <2>2 DEF SessionHas, Attribute
<1>3. CASE \E i \in 1 .. 2 * desc.times : n = Len(w) + i
  BY <1>1, <1>3, TimeLine
<1>4. CASE \E j \in 1 .. N : \E i \in 1 .. Len(media[j]) : n = ends[j - 1] + i
  <2>1. PICK j \in 1 .. N : \E i \in 1 .. Len(media[j]) : n = ends[j - 1] + i
    BY <1>4
  <2>2. PICK i \in 1 .. Len(media[j]) : n = ends[j - 1] + i
    BY <2>1
  <2>3. message[n] \in {"m", "i", "c", "b", "k", "a"} /\ SectionOf(n) = j /\ j > 0
    BY <2>2, MediaLine
  <2> QED
    BY <2>3 DEF SDPMediaFields
<1> QED
  BY <1>2, <1>3, <1>4, PartOf

(* The session has a name.                                                  *)
LEMMA NameWritten ==
    ASSUME NEW desc, NEW w, NEW media, NEW ends, NEW N, LaidOut(desc, w, media, ends, N)
    PROVE  \E n \in 1 .. Len(w) : message[n] = "s" /\ SectionOf(n) = 0
<1>1. Sorted(w, FirstPlace, SessionHas(desc), 14) /\ "s" \in SessionHas(desc)
  BY SessionWritten DEF LaidOut, AllPlain, SessionHas
<1>2. PICK n \in 1 .. Len(w) : w[n] = "s"
  BY <1>1 DEF Sorted
<1> QED
  BY <1>2, SessionLine

(* Without misplaced lines, or without times, all lines are in order.       *)
LEMMA AllInOrder ==
    ASSUME NEW desc, NEW w, NEW media, NEW ends, NEW N, LaidOut(desc, w, media, ends, N),
           desc.times = 0 \/ ~ Misplaced(desc)
    PROVE  OrderedTo(Len(message))
<1>1. /\ Len(w) \in Nat /\ ends[0] \in Nat /\ Len(message) \in Nat
      /\ ends[0] = Len(w) + 2 * desc.times /\ ends[0] <= Len(message) /\ desc.times \in Nat
  BY DEF LaidOut, Laid, Described
<1>2. ASSUME NEW n \in 1 .. Len(message), NEW k \in 1 .. Len(message), n < k,
             SectionOf(n) = SectionOf(k)
      PROVE  Rank(n) <= Rank(k)
  <2>1. CASE n \in 1 .. Len(w)
    <3>1. SectionOf(k) = 0
      BY <1>2, <2>1, SessionLine
    <3>2. k \in 1 .. Len(w) \/ ~ Misplaced(desc)
      <4>1. CASE desc.times = 0
        <5>1. \A i \in 1 .. 2 * desc.times : k # Len(w) + i
          BY <4>1
        <5>2. \A j \in 1 .. N : \A i \in 1 .. Len(media[j]) : k # ends[j - 1] + i
          BY <3>1, NotMedia
        <5> QED
          BY <5>1, <5>2, PartOf
      <4> QED
        BY <4>1
    <3> QED
      BY <1>2, <2>1, <3>1, <3>2, SessionRanks
  <2>2. CASE \E i \in 1 .. 2 * desc.times : n = Len(w) + i
    <3>1. SectionOf(k) = 0 /\ Rank(n) = 10
      BY <1>2, <2>2, TimeLine
    <3>2. \A j \in 1 .. N : \A i \in 1 .. Len(media[j]) : k # ends[j - 1] + i
      BY <3>1, NotMedia
    <3>3. k \notin 1 .. Len(w)
      <4>1. PICK i \in 1 .. 2 * desc.times : n = Len(w) + i
        BY <2>2
      <4> QED
        BY <1>1, <1>2, <4>1
    <3>4. PICK i \in 1 .. 2 * desc.times : k = Len(w) + i
      BY <3>2, <3>3, PartOf
    <3>5. Rank(k) = 10
      BY <3>4, TimeLine
    <3> QED
      BY <3>1, <3>5
  <2>3. CASE \E j \in 1 .. N : \E i \in 1 .. Len(media[j]) : n = ends[j - 1] + i
    <3>1. PICK j \in 1 .. N : \E i \in 1 .. Len(media[j]) : n = ends[j - 1] + i
      BY <2>3, Zenon
    <3>2. PICK i \in 1 .. Len(media[j]) : n = ends[j - 1] + i
      BY <3>1
    <3>3. /\ SectionOf(n) = j /\ j > 0
          /\ Rank(n) = LastPlace[media[j][i]] /\ Rank(n) \in Int
      BY <3>2, MediaLine
    <3>4. PICK y \in 1 .. Len(media[j]) : k = ends[j - 1] + y
      <4>1. SectionOf(k) = j
        BY <1>2, <3>3
      <4> QED
        BY <4>1, InMedia
    <3>5. Rank(k) = LastPlace[media[j][y]] /\ Rank(k) \in Int
      BY <3>4, MediaLine
    <3>6. /\ ends[j - 1] \in Nat
          /\ Sorted(media[j], LastPlace, MediaHas(desc.media[j], desc.keys), 20)
      BY MediaLines, MediaWritten
    <3>7. i < y
      BY <1>2, <3>2, <3>4, <3>6
    <3>8. \/ LastPlace[media[j][i]] < LastPlace[media[j][y]]
          \/ media[j][i] = "a" /\ media[j][y] = "a"
      BY <3>6, <3>7 DEF Sorted
    <3> QED
      BY <3>3, <3>5, <3>8
  <2> QED
    BY <2>1, <2>2, <2>3, PartOf
<1>3. \E n \in 1 .. Len(message) : message[n] = "s" /\ SectionOf(n) = 0
  <2>1. \A n \in 1 .. Len(w) : n \in 1 .. Len(message)
    BY <1>1
  <2> QED
    BY <2>1, NameWritten
<1>4. ASSUME NEW n \in 1 .. Len(message), n > 1, message[n] \in {"t", "r"}
      PROVE  message[n] = "r" <=> message[n - 1] = "t"
  BY <1>4, TimesAlternate
<1>5. \A n \in 1 .. Len(message) :
          message[n] \in IF SectionOf(n) = 0 THEN Range(SDPFields) ELSE SDPMediaFields
  BY KeysKnown
<1>6. Len(message) \in 0 .. Len(message)
  BY <1>1
<1> QED
  BY <1>2, <1>3, <1>4, <1>5, <1>6 DEF OrderedTo

(* With misplaced lines, those of the session are, and the time after them  *)
(* is late.                                                                 *)
LEMMA SessionInOrder ==
    ASSUME NEW desc, NEW w, NEW media, NEW ends, NEW N, LaidOut(desc, w, media, ends, N),
           desc.times > 0, Misplaced(desc)
    PROVE  OrderedTo(Len(w)) /\ Late(Len(w)) /\ Len(w) \in Nat
<1>1. /\ Len(w) \in Nat /\ ends[0] \in Nat /\ Len(message) \in Nat
      /\ ends[0] = Len(w) + 2 * desc.times /\ ends[0] <= Len(message) /\ desc.times \in Nat
  BY DEF LaidOut, Laid, Described
<1>2. Len(w) \in 0 .. Len(message) /\ \A n \in 1 .. Len(w) : n \in 1 .. Len(message)
  BY <1>1
<1>3. ASSUME NEW n \in 1 .. Len(w), NEW k \in 1 .. Len(w), n < k PROVE Rank(n) <= Rank(k)
  <2>1. SectionOf(k) = 0
    BY SessionLine
  <2> QED
    BY <1>2, <1>3, <2>1, SessionRanks
<1>4. ASSUME NEW n \in 1 .. Len(w), n > 1, message[n] \in {"t", "r"}
      PROVE  message[n] = "r" <=> message[n - 1] = "t"
  BY <1>2, <1>4, TimesAlternate
<1>5. \A n \in 1 .. Len(w) :
          message[n] \in IF SectionOf(n) = 0 THEN Range(SDPFields) ELSE SDPMediaFields
  BY <1>2, KeysKnown
<1>6. OrderedTo(Len(w))
  BY <1>2, <1>3, <1>4, <1>5, NameWritten DEF OrderedTo
<1>7. PICK n : n = Len(w) + 1
  OBVIOUS
<1>8. SectionOf(n) = 0 /\ message[n] = "t"
  <2>1. 1 \in 1 .. 2 * desc.times
    BY <1>1
  <2>2. SectionOf(n) = 0 /\ message[n] = IF 1 % 2 = 1 THEN "t" ELSE "r"
    BY <1>7, <2>1, TimeLine
  <2> QED
    BY <2>2
<1>9. Sorted(w, FirstPlace, SessionHas(desc), 14)
  BY SessionWritten DEF LaidOut, AllPlain
<1>10. PICK k \in {"z", "k", "a"} : k \in SessionHas(desc)
  BY <1>1 DEF Misplaced, SessionHas, Attribute, LaidOut, Described
<1>11. PICK i \in 1 .. Len(w) : w[i] = k
  BY <1>9, <1>10 DEF Sorted
<1>12. PICK l : l = Len(w)
  OBVIOUS
<1>13. l \in 1 .. Len(w) /\ (i = l \/ i < l)
  BY <1>1, <1>12
<1>14. FirstPlace[w[l]] >= 12
  <2>1. FirstPlace[w[i]] >= 12 /\ FirstPlace[w[i]] \in Int
    BY <1>10, <1>11, PlaceValues
  <2>2. i = l \/ FirstPlace[w[i]] < FirstPlace[w[l]] \/ (w[i] = "a" /\ w[l] = "a")
    BY <1>9, <1>13 DEF Sorted
  <2>3. FirstPlace[w[l]] \in Int
    BY <1>9, <1>13 DEF Sorted
  <2> QED
    BY <2>1, <2>2, <2>3
<1>15. message[l] = w[l] /\ w[l] \in SessionHas(desc)
  BY <1>13, SessionLine
<1>16. SessionHas(desc) \subseteq
           {"v", "o", "s", "i", "u", "e", "p", "c", "b", "z", "k", "a"}
  BY DEF SessionHas, Attribute, LaidOut, Described
<1>17. w[l] \in {"z", "k", "a"}
  <2>1. \A x \in {"v", "o", "s", "i", "u", "e", "p", "c", "b"} : ~ (FirstPlace[x] >= 12)
    BY PlaceValues, SMTT(30)
  <2> QED
    BY <1>14, <1>15, <1>16, <2>1
<1>18. Len(w) > 0 /\ Len(w) < Len(message)
  BY <1>1, <1>13
<1> QED
  BY <1>1, <1>6, <1>7, <1>8, <1>12, <1>15, <1>17, <1>18 DEF Late

--------------------------------------------------------------------------------
(* How many lines of each kind were written.                                *)

LEMMA SessionFound ==
    ASSUME NEW desc, NEW w, NEW media, NEW ends, NEW N, LaidOut(desc, w, media, ends, N),
           NEW k \in SessionKeys
    PROVE  LinesOf(k, 0, Len(message)) # {} <=> k \in {"v", "o", "s"} \cup desc.keys
<1>1. Sorted(w, FirstPlace, SessionHas(desc), 14)
  BY SessionWritten DEF LaidOut, AllPlain
<1>2. k \notin {"t", "r", "a"}
  BY DEF SessionKeys
<1>3. ASSUME LinesOf(k, 0, Len(message)) # {} PROVE k \in {"v", "o", "s"} \cup desc.keys
  <2>1. PICK n \in 1 .. Len(message) : message[n] = k /\ SectionOf(n) = 0
    BY <1>3 DEF LinesOf
  <2>2. \A j \in 1 .. N : \A i \in 1 .. Len(media[j]) : n # ends[j - 1] + i
    BY <2>1, NotMedia
  <2>3. ASSUME NEW i \in 1 .. 2 * desc.times, n = Len(w) + i PROVE FALSE
    <3>1. message[n] = IF i % 2 = 1 THEN "t" ELSE "r"
      BY <2>3, TimeLine
    <3> QED
      BY <1>2, <2>1, <3>1
  <2>4. n \in 1 .. Len(w)
    BY <2>2, <2>3, PartOf
  <2>5. k \in SessionHas(desc)
    BY <2>1, <2>4, SessionLine
  <2> QED
    BY <1>2, <2>5 DEF SessionHas, Attribute
<1>4. ASSUME k \in {"v", "o", "s"} \cup desc.keys PROVE LinesOf(k, 0, Len(message)) # {}
  <2>1. k \in SessionHas(desc)
    BY <1>4 DEF SessionHas
  <2>2. PICK n \in 1 .. Len(w) : w[n] = k
    BY <1>1, <2>1 DEF Sorted
  <2>3. n \in 1 .. Len(message) /\ message[n] = k /\ SectionOf(n) = 0
    BY <2>2, SessionLine
  <2> QED
    BY <2>3 DEF LinesOf
<1> QED
  BY <1>3, <1>4

LEMMA MediaFound ==
    ASSUME NEW desc, NEW w, NEW media, NEW ends, NEW N, LaidOut(desc, w, media, ends, N),
           NEW j \in 1 .. N, NEW k \in MediaKeys
    PROVE  LinesOf(k, j, Len(message)) # {} <=>
               k \in {"m"} \cup desc.media[j].keys \cup (desc.keys \cap {"k"})
<1>1. Sorted(media[j], LastPlace, MediaHas(desc.media[j], desc.keys), 20)
  BY MediaLines, MediaWritten
<1>2. k # "a"
  BY DEF MediaKeys
<1>3. ASSUME LinesOf(k, j, Len(message)) # {}
      PROVE  k \in {"m"} \cup desc.media[j].keys \cup (desc.keys \cap {"k"})
  <2>1. PICK n \in 1 .. Len(message) : message[n] = k /\ SectionOf(n) = j
    BY <1>3 DEF LinesOf
  <2>2. PICK i \in 1 .. Len(media[j]) : n = ends[j - 1] + i
    BY <2>1, InMedia
  <2>3. k \in MediaHas(desc.media[j], desc.keys)
    BY <2>1, <2>2, MediaLine
  <2> QED
    BY <1>2, <2>3 DEF MediaHas, Attribute
<1>4. ASSUME k \in {"m"} \cup desc.media[j].keys \cup (desc.keys \cap {"k"})
      PROVE  LinesOf(k, j, Len(message)) # {}
  <2>1. k \in MediaHas(desc.media[j], desc.keys)
    BY <1>4 DEF MediaHas
  <2>2. PICK i \in 1 .. Len(media[j]) : media[j][i] = k
    BY <1>1, <2>1 DEF Sorted
  <2>3. PICK n : n = ends[j - 1] + i
    OBVIOUS
  <2>4. n \in 1 .. Len(message) /\ message[n] = k /\ SectionOf(n) = j
    BY <2>2, <2>3, MediaLine
  <2> QED
    BY <2>4 DEF LinesOf
<1> QED
  BY <1>3, <1>4

(* The attributes are the last lines of their part.                         *)
LEMMA IntervalSize ==
    ASSUME NEW n \in Nat, NEW a \in Nat, NEW m, m = n + a
    PROVE  Cardinality(n + 1 .. m) = a
<1>1. n + 1 \in Int /\ m \in Int
  OBVIOUS
<1>2. Cardinality(n + 1 .. m) = IF n + 1 > m THEN 0 ELSE m - (n + 1) + 1
  BY <1>1, FS_Interval
<1> QED
  BY <1>2

LEMMA SessionAttributes ==
    ASSUME NEW desc, NEW w, NEW media, NEW ends, NEW N, LaidOut(desc, w, media, ends, N)
    PROVE  Cardinality(LinesOf("a", 0, Len(message))) = desc.attribs
<1>1. PICK n \in Nat : Len(w) = n + desc.attribs /\ \A i \in 1 .. Len(w) : w[i] = "a" <=> i > n
  BY SessionWritten DEF LaidOut, AllPlain
<1>2. desc.attribs \in Nat /\ Len(w) \in Nat
  BY DEF LaidOut, Described
<1>3. ASSUME NEW i \in LinesOf("a", 0, Len(message)) PROVE i \in n + 1 .. Len(w)
  <2>1. i \in 1 .. Len(message) /\ message[i] = "a" /\ SectionOf(i) = 0
    BY DEF LinesOf
  <2>2. \A j \in 1 .. N : \A x \in 1 .. Len(media[j]) : i # ends[j - 1] + x
    BY <2>1, NotMedia
  <2>3. ASSUME NEW x \in 1 .. 2 * desc.times, i = Len(w) + x PROVE FALSE
    <3>1. message[i] = IF x % 2 = 1 THEN "t" ELSE "r"
      BY <2>3, TimeLine
    <3> QED
      BY <2>1, <3>1
  <2>4. i \in 1 .. Len(w)
    BY <2>1, <2>2, <2>3, PartOf
  <2>5. w[i] = "a"
    BY <2>1, <2>4, SessionLine
  <2> QED
    BY <1>1, <1>2, <2>4, <2>5
<1>4. ASSUME NEW i \in n + 1 .. Len(w) PROVE i \in LinesOf("a", 0, Len(message))
  <2>1. i \in 1 .. Len(w) /\ i > n
    BY <1>2
  <2>2. w[i] = "a"
    BY <1>1, <2>1
  <2>3. i \in 1 .. Len(message) /\ message[i] = "a" /\ SectionOf(i) = 0
    BY <2>1, <2>2, SessionLine
  <2> QED
    BY <2>3 DEF LinesOf
<1>5. LinesOf("a", 0, Len(message)) = n + 1 .. Len(w)
  BY <1>3, <1>4
<1> QED
  BY <1>1, <1>2, <1>5, IntervalSize

LEMMA MediaAttributes ==
    ASSUME NEW desc, NEW w, NEW media, NEW ends, NEW N, LaidOut(desc, w, media, ends, N),
           NEW j \in 1 .. N
    PROVE  Cardinality(LinesOf("a", j, Len(message))) = desc.media[j].attribs
<1>1. PICK e, l, a : e = ends[j - 1] /\ l = Len(media[j]) /\ a = desc.media[j].attribs
  OBVIOUS
<1>2. e \in Nat /\ l \in Nat /\ a \in Nat
  BY <1>1, MediaLines DEF MediaDescribed
<1>3. PICK n \in Nat : l = n + a /\ \A i \in 1 .. l : media[j][i] = "a" <=> i > n
  <2>1. /\ desc.media[j] \in MediaDescribed /\ Plain(desc.media[j])
        /\ media[j] = WriteMedia(desc.media[j], desc.keys)
    BY MediaLines
  <2>2. \E n \in Nat : /\ Len(media[j]) = n + desc.media[j].attribs
                       /\ \A i \in 1 .. Len(media[j]) : media[j][i] = "a" <=> i > n
    BY <2>1, MediaWritten
  <2> QED
    BY <1>1, <2>2
<1>4. ASSUME NEW i \in LinesOf("a", j, Len(message)) PROVE i \in e + n + 1 .. e + l
  <2>1. i \in 1 .. Len(message) /\ message[i] = "a" /\ SectionOf(i) = j
    BY DEF LinesOf
  <2>2. PICK x \in 1 .. Len(media[j]) : i = ends[j - 1] + x
    BY <2>1, InMedia
  <2>3. media[j][x] = "a"
    BY <2>1, <2>2, MediaLine
  <2>4. x \in 1 .. l /\ x > n /\ i = e + x
    BY <1>1, <1>3, <2>2, <2>3
  <2> QED
    BY <1>2, <2>4
<1>5. ASSUME NEW i \in e + n + 1 .. e + l PROVE i \in LinesOf("a", j, Len(message))
  <2>1. PICK x : x = i - e
    OBVIOUS
  <2>2. x \in 1 .. l /\ x > n /\ i = e + x
    BY <1>2, <2>1
  <2>3. x \in 1 .. Len(media[j]) /\ i = ends[j - 1] + x /\ media[j][x] = "a"
    BY <1>1, <1>3, <2>2
  <2>4. i \in 1 .. Len(message) /\ message[i] = "a" /\ SectionOf(i) = j
    BY <2>3, MediaLine
  <2> QED
    BY <2>4 DEF LinesOf
<1>6. LinesOf("a", j, Len(message)) = e + n + 1 .. e + l
  BY <1>4, <1>5
<1>7. e + n \in Nat /\ e + l = e + n + a
  BY <1>2, <1>3
<1>8. Cardinality(e + n + 1 .. e + l) = a
  BY <1>2, <1>7, IntervalSize
<1> QED
  BY <1>1, <1>6, <1>8

(* Every other line between the session and the media descriptions is a     *)
(* time.                                                                    *)
LEMMA TimesWritten ==
    ASSUME NEW desc, NEW w, NEW media, NEW ends, NEW N, LaidOut(desc, w, media, ends, N)
    PROVE  Cardinality(TimesOf(Len(message))) = desc.times
<1>1. PICK t, l : t = desc.times /\ l = Len(w)
  OBVIOUS
<1>2. t \in Nat /\ l \in Nat /\ ends[0] = l + 2 * t /\ ends[0] <= Len(message)
      /\ Len(message) \in Nat
  BY <1>1 DEF LaidOut, Laid, Described
<1> DEFINE S == {k \in 0 .. t : Cardinality(TimesOf(l + 2 * k)) = k}
<1>3. 0 \in S
  <2>1. \A i \in 1 .. Len(w) : message[i] = w[i] /\ w[i] \notin {"t", "r", "m"}
    BY SessionLine
  <2>2. \A i \in 1 .. l : message[i] # "t"
    BY <1>1, <2>1
  <2>3. TimesOf(l) = {} /\ l + 2 * 0 = l /\ 0 \in 0 .. t
    BY <1>2, <2>2 DEF TimesOf
  <2>4. Cardinality(TimesOf(l + 2 * 0)) = 0
    BY <2>3, FS_EmptySet
  <2> QED
    BY <2>3, <2>4
<1>4. ASSUME NEW k \in 0 .. t, k # t, k \in S PROVE k + 1 \in S
  <2>1. PICK n, i : n = l + 2 * k /\ i = 2 * k + 1
    OBVIOUS
  <2>2. /\ n \in Nat /\ n + 1 \in Nat /\ k + 1 \in 0 .. t /\ n + 1 + 1 = l + 2 * (k + 1)
        /\ i \in 1 .. 2 * t /\ i + 1 \in 1 .. 2 * t /\ n + 1 = l + i /\ n + 1 + 1 = l + (i + 1)
        /\ i % 2 = 1 /\ ~ ((i + 1) % 2 = 1)
    BY <1>2, <1>4, <2>1
  <2>3. message[n + 1] = "t"
    <3>1. i \in 1 .. 2 * desc.times /\ n + 1 = Len(w) + i
      BY <1>1, <2>2
    <3>2. message[n + 1] = IF i % 2 = 1 THEN "t" ELSE "r"
      BY <3>1, TimeLine
    <3> QED
      BY <2>2, <3>2
  <2>4. message[n + 1 + 1] # "t"
    <3>1. i + 1 \in 1 .. 2 * desc.times /\ n + 1 + 1 = Len(w) + (i + 1)
      BY <1>1, <2>2
    <3>2. message[n + 1 + 1] = IF (i + 1) % 2 = 1 THEN "t" ELSE "r"
      BY <3>1, TimeLine
    <3> QED
      BY <2>2, <3>2
  <2>5. Cardinality(TimesOf(n)) = k
    BY <1>4, <2>1
  <2>6. Cardinality(TimesOf(n + 1)) = k + 1
    BY <2>2, <2>3, <2>5, TimesStep
  <2>7. Cardinality(TimesOf(n + 1 + 1)) = k + 1
    BY <2>2, <2>4, <2>6, TimesStep
  <2> QED
    BY <2>2, <2>7
<1>5. Cardinality(TimesOf(l + 2 * t)) = t
  <2>1. \A k \in 0 .. t : k \in S
    <3> HIDE DEF S
    <3> QED
      BY <1>2, <1>3, <1>4, CountUp
  <2> QED
    BY <1>2, <2>1
<1>6. TimesOf(Len(message)) = TimesOf(l + 2 * t)
  <2>1. ASSUME NEW n \in 1 .. Len(message), message[n] = "t" PROVE n \in 1 .. l + 2 * t
    <3>1. \A j \in 1 .. N : \A i \in 1 .. Len(media[j]) : n # ends[j - 1] + i
      BY <2>1, NotMedia
    <3>2. CASE n \in 1 .. Len(w)
      BY <1>1, <1>2, <3>2
    <3>3. CASE \E i \in 1 .. 2 * desc.times : n = Len(w) + i
      BY <1>1, <1>2, <3>3
    <3> QED
      BY <3>1, <3>2, <3>3, PartOf
  <2>2. \A n \in 1 .. l + 2 * t : n \in 1 .. Len(message)
    BY <1>2
  <2> QED
    BY <2>1, <2>2 DEF TimesOf
<1> QED
  BY <1>1, <1>5, <1>6

--------------------------------------------------------------------------------
(* A line with a TTL or a number of addresses is not read.                  *)

(* No line that was read had a longer key.                                  *)
LongInv == \A n \in 1 .. line - 1 : message[n] # Long

LEMMA StepLong == FileInv /\ LongInv /\ [SdpNext]_sdpVars => LongInv'
<1> SUFFICES ASSUME FileInv, LongInv, [SdpNext]_sdpVars PROVE LongInv'
  OBVIOUS
<1>1. line \in Nat
  BY DEF FileInv, SdpTypeOK
<1>2. ASSUME UNCHANGED <<message, line>> PROVE LongInv'
  BY <1>2 DEF LongInv
<1>3. ASSUME NEW index, NEW old, Accept(index, old) PROVE LongInv'
  <2>1. message[line] # Long
    BY <1>3 DEF Accept, Refused, key
  <2>2. line' - 1 = line /\ message' = message
    BY <1>1, <1>3 DEF Accept
  <2>3. \A n \in 1 .. line : n \in 1 .. line - 1 \/ n = line
    BY <1>1
  <2> QED
    BY <2>1, <2>2, <2>3 DEF LongInv
<1>4. CASE Finish
  BY <1>2, <1>4 DEF Finish
<1>5. CASE UNCHANGED sdpVars
  BY <1>2, <1>5 DEF sdpVars
<1>6. ASSUME NEW index \in Index,
             Refuse(index) \/ ReadTime(index) \/ ReadMedia(index) \/ ReadSession(index)
      PROVE  LongInv'
  <2>1. CASE Refuse(index)
    BY <1>2, <2>1 DEF Refuse
  <2>2. CASE ReadTime(index)
    BY <1>3, <2>2 DEF ReadTime
  <2>3. CASE ReadMedia(index)
    BY <1>3, <2>3 DEF ReadMedia
  <2>4. CASE ReadSession(index)
    BY <1>3, <2>4 DEF ReadSession
  <2> QED
    BY <1>6, <2>1, <2>2, <2>3, <2>4
<1> QED
  BY <1>4, <1>5, <1>6 DEF SdpNext

(* The lines s, one of which has a longer key.                              *)
SomeKeys == AllKeys \cup {Long}
Holds(s) == s \in Seq(SomeKeys) /\ \E n \in 1 .. Len(s) : s[n] = Long

(* The lines s are of the keys there are, and one is longer if d is not     *)
(* plain.                                                                   *)
HoldsFor(d, s) == s \in Seq(SomeKeys) /\ (~ Plain(d) => Holds(s))

LEMMA HoldsJoined ==
    ASSUME NEW v \in Seq(SomeKeys), NEW w \in Seq(SomeKeys)
    PROVE  /\ v \o w \in Seq(SomeKeys)
           /\ Holds(v) \/ Holds(w) => Holds(v \o w)
<1>1. PICK s : s = v \o w
  OBVIOUS
<1>2. /\ s \in Seq(SomeKeys) /\ Len(v) \in Nat /\ Len(w) \in Nat /\ Len(s) = Len(v) + Len(w)
      /\ \A i \in 1 .. Len(s) : s[i] = IF i <= Len(v) THEN v[i] ELSE w[i - Len(v)]
  BY <1>1, ConcatProperties
<1>3. ASSUME NEW n \in 1 .. Len(v), v[n] = Long PROVE Holds(s)
  <2>1. n \in 1 .. Len(s) /\ n <= Len(v)
    BY <1>2
  <2> QED
    BY <1>2, <1>3, <2>1 DEF Holds
<1>4. ASSUME NEW n \in 1 .. Len(w), w[n] = Long PROVE Holds(s)
  <2>1. Len(v) + n \in 1 .. Len(s) /\ ~ (Len(v) + n <= Len(v)) /\ Len(v) + n - Len(v) = n
    BY <1>2
  <2>2. s[Len(v) + n] = Long
    BY <1>2, <1>4, <2>1
  <2> QED
    BY <1>2, <2>1, <2>2 DEF Holds
<1> QED
  BY <1>1, <1>2, <1>3, <1>4 DEF Holds

LEMMA HoldsAfter ==
    ASSUME NEW d, NEW v, HoldsFor(d, v), NEW w \in Seq(SomeKeys)
    PROVE  HoldsFor(d, v \o w)
BY HoldsJoined DEF HoldsFor

(* What the parts of a description are made of.                             *)
LEMMA KeysType ==
    /\ AllKeys \subseteq SomeKeys /\ Long \in SomeKeys
    /\ {"v", "o", "s", "m", "i", "u", "e", "p", "c", "b"} \subseteq AllKeys
    /\ {"t", "r", "z", "k", "a"} \subseteq AllKeys
BY DEF AllKeys, SomeKeys

LEMMA FieldType ==
    ASSUME NEW k \in SomeKeys, NEW keys
    PROVE  Field(k, keys) \in Seq(SomeKeys)
<1>1. <<k>> \in Seq(SomeKeys) /\ <<>> \in Seq(SomeKeys)
  OBVIOUS
<1> QED
  BY <1>1 DEF Field

LEMMA ConnectionHolds ==
    ASSUME NEW d, NEW v \in Seq(SomeKeys)
    PROVE  HoldsFor(d, v \o Connection(d))
<1>1. PICK one : one = <<Long>>
  OBVIOUS
<1>2. one \in Seq(SomeKeys) /\ Len(one) = 1 /\ one[1] = Long
  BY <1>1, KeysType
<1>3. Holds(one)
  <2>1. 1 \in 1 .. 1
    OBVIOUS
  <2> QED
    BY <1>2, <2>1 DEF Holds
<1>4. PICK last : last = IF "c" \in d.keys /\ d.multicast THEN <<Long>> ELSE <<>>
  OBVIOUS
<1>5. last \in Seq(SomeKeys) /\ (~ Plain(d) => Holds(last))
  BY <1>1, <1>2, <1>3, <1>4 DEF Plain
<1>6. Field("c", d.keys) \in Seq(SomeKeys)
  BY FieldType, KeysType
<1>7. PICK first : first = Field("c", d.keys)
  OBVIOUS
<1>8. first \o last \in Seq(SomeKeys) /\ (~ Plain(d) => Holds(first \o last))
  BY <1>5, <1>6, <1>7, HoldsJoined
<1>9. Connection(d) = first \o last
  BY <1>4, <1>7 DEF Connection
<1> QED
  BY <1>8, <1>9, HoldsJoined DEF HoldsFor

LEMMA RepeatType ==
    ASSUME NEW n \in Nat
    PROVE  Repeat("a", n) \in Seq(SomeKeys) /\ WriteTimes(n) \in Seq(SomeKeys)
<1>1. 2 * n \in Nat
  OBVIOUS
<1>2. "a" \in SomeKeys /\ "t" \in SomeKeys /\ "r" \in SomeKeys
  BY KeysType
<1>3. \A i \in 1 .. 2 * n : (IF i % 2 = 1 THEN "t" ELSE "r") \in SomeKeys
  BY <1>2
<1> QED
  BY <1>1, <1>2, <1>3 DEF Repeat, WriteTimes

(* write puts a line with a longer key where there is a TTL.                *)
LEMMA SessionHolds ==
    ASSUME NEW d \in Described
    PROVE  HoldsFor(d, WriteSession(d))
<1>1. d.attribs \in Nat
  BY DEF Described
<1>2. \A k \in {"i", "u", "e", "p", "b", "z", "k"} : Field(k, d.keys) \in Seq(SomeKeys)
  BY FieldType, KeysType
<1>3. PICK start : start = <<"v", "o", "s">>
  OBVIOUS
<1>4. start \in Seq(SomeKeys)
  BY <1>3, KeysType
<1>5. PICK p1 : p1 = start \o Field("i", d.keys) \o Field("u", d.keys)
                         \o Field("e", d.keys) \o Field("p", d.keys)
  OBVIOUS
<1>6. p1 \in Seq(SomeKeys)
  BY <1>2, <1>4, <1>5
<1>7. PICK c1 : c1 = p1 \o Connection(d)
  OBVIOUS
<1>8. HoldsFor(d, c1)
  BY <1>6, <1>7, ConnectionHolds
<1>9. PICK b1 : b1 = c1 \o Field("b", d.keys)
  OBVIOUS
<1>10. HoldsFor(d, b1)
  BY <1>2, <1>8, <1>9, HoldsAfter
<1>11. PICK z1 : z1 = b1 \o Field("z", d.keys)
  OBVIOUS
<1>12. HoldsFor(d, z1)
  BY <1>2, <1>10, <1>11, HoldsAfter
<1>13. PICK k1 : k1 = z1 \o Field("k", d.keys)
  OBVIOUS
<1>14. HoldsFor(d, k1)
  BY <1>2, <1>12, <1>13, HoldsAfter
<1>15. WriteSession(d) = k1 \o Repeat("a", d.attribs)
  BY <1>3, <1>5, <1>7, <1>9, <1>11, <1>13 DEF WriteSession
<1> QED
  BY <1>1, <1>14, <1>15, RepeatType, HoldsAfter

LEMMA MediaHolds ==
    ASSUME NEW d \in MediaDescribed, NEW keys
    PROVE  HoldsFor(d, WriteMedia(d, keys))
<1>1. d.attribs \in Nat
  BY DEF MediaDescribed
<1>2. /\ Field("i", d.keys) \in Seq(SomeKeys) /\ Field("b", d.keys) \in Seq(SomeKeys)
      /\ Field("k", keys) \in Seq(SomeKeys)
  BY FieldType, KeysType
<1>3. PICK start : start = <<"m">>
  OBVIOUS
<1>4. start \in Seq(SomeKeys)
  BY <1>3, KeysType
<1>5. PICK i1 : i1 = start \o Field("i", d.keys)
  OBVIOUS
<1>6. i1 \in Seq(SomeKeys)
  BY <1>2, <1>4, <1>5
<1>7. PICK c1 : c1 = i1 \o Connection(d)
  OBVIOUS
<1>8. HoldsFor(d, c1)
  BY <1>6, <1>7, ConnectionHolds
<1>9. PICK b1 : b1 = c1 \o Field("b", d.keys)
  OBVIOUS
<1>10. HoldsFor(d, b1)
  BY <1>2, <1>8, <1>9, HoldsAfter
<1>11. PICK k1 : k1 = b1 \o Field("k", keys)
  OBVIOUS
<1>12. HoldsFor(d, k1)
  BY <1>2, <1>10, <1>11, HoldsAfter
<1>13. WriteMedia(d, keys) = k1 \o Repeat("a", d.attribs)
  BY <1>3, <1>5, <1>7, <1>9, <1>11 DEF WriteMedia
<1> QED
  BY <1>1, <1>12, <1>13, RepeatType, HoldsAfter

LEMMA WrittenHolds ==
    ASSUME NEW desc \in Described, ~ AllPlain(desc)
    PROVE  Holds(Written(desc)[Len(desc.media)])
<1>1. PICK f, N : f = Written(desc) /\ N = Len(desc.media)
  OBVIOUS
<1>2. PICK base : base = WriteSession(desc) \o WriteTimes(desc.times)
  OBVIOUS
<1>3. PICK media : media = [j \in 1 .. N |-> WriteMedia(desc.media[j], desc.keys)]
  OBVIOUS
<1>4. N \in Nat /\ f[0] = base /\ \A n \in 1 .. N : f[n] = f[n - 1] \o media[n]
  BY <1>1, <1>2, <1>3, WrittenUpTo
<1>5. base \in Seq(SomeKeys) /\ (~ Plain(desc) => Holds(base))
  <2>1. HoldsFor(desc, WriteSession(desc)) /\ WriteTimes(desc.times) \in Seq(SomeKeys)
    BY SessionHolds, RepeatType DEF Described
  <2> QED
    BY <1>2, <2>1, HoldsAfter DEF HoldsFor
<1>6. ASSUME NEW j \in 1 .. N
      PROVE  media[j] \in Seq(SomeKeys) /\ (~ Plain(desc.media[j]) => Holds(media[j]))
  <2>1. desc.media \in Seq(MediaDescribed)
    BY DEF Described
  <2>2. desc.media[j] \in MediaDescribed /\ media[j] = WriteMedia(desc.media[j], desc.keys)
    BY <1>1, <1>3, <2>1, ElementOfSeq
  <2> QED
    BY <2>2, MediaHolds DEF HoldsFor
<1> DEFINE upTo(n) == ~ Plain(desc) \/ \E j \in 1 .. n : ~ Plain(desc.media[j])
           S == {n \in 0 .. N : f[n] \in Seq(SomeKeys) /\ (upTo(n) => Holds(f[n]))}
<1>7. 0 \in S
  BY <1>4, <1>5
<1>8. ASSUME NEW n \in 0 .. N, n # N, n \in S PROVE n + 1 \in S
  <2>1. PICK k : k = n + 1
    OBVIOUS
  <2>2. k \in 1 .. N /\ k \in 0 .. N /\ k - 1 = n
    BY <1>4, <1>8, <2>1
  <2>3. f[k] = f[n] \o media[k] /\ f[n] \in Seq(SomeKeys) /\ media[k] \in Seq(SomeKeys)
    BY <1>4, <1>6, <1>8, <2>2
  <2>4. upTo(k) => upTo(n) \/ ~ Plain(desc.media[k])
    BY <2>2
  <2>5. upTo(k) => Holds(f[n]) \/ Holds(media[k])
    BY <1>6, <1>8, <2>2, <2>4
  <2>6. f[k] \in Seq(SomeKeys) /\ (upTo(k) => Holds(f[k]))
    <3> HIDE DEF upTo
    <3> QED
      BY <2>3, <2>5, HoldsJoined
  <2> QED
    BY <2>1, <2>2, <2>6
<1>9. N \in S
  <2> HIDE DEF S
  <2>1. \A n \in 0 .. N : n \in S
    BY <1>4, <1>7, <1>8, CountUp
  <2> QED
    BY <1>4, <2>1
<1>10. upTo(N)
  BY <1>1 DEF AllPlain
<1> QED
  BY <1>1, <1>9, <1>10

(* What is read of a description whose connections are one line each.       *)
LEMMA ReadPlain ==
    ASSUME FileInv, ExactInv, OrderedInv, NEW desc \in Descriptions, ret # Reading,
           desc.complete, NEW w, NEW media, NEW ends, NEW N, LaidOut(desc, w, media, ends, N)
    PROVE  ret = 0 /\ Matches(desc) <=> Readable(desc)
<1>1. desc \in Described /\ AllPlain(desc)
  BY DescriptionAssumption DEF LaidOut
<1>2. Misplaced(desc) <=> ~ (desc.attribs = 0 /\ "z" \notin desc.keys /\ "k" \notin desc.keys)
  BY <1>1 DEF Misplaced, Described
<1>3. desc.times > 0 <=> desc.times # 0
  BY <1>1 DEF Described
<1>4. CASE desc.times > 0 /\ Misplaced(desc)
  <2>1. OrderedTo(Len(w)) /\ Late(Len(w)) /\ Len(w) \in Nat
    BY <1>4, SessionInOrder
  <2>2. OrderInv(Len(w)) /\ Len(w) < Len(message)
    BY <2>1 DEF OrderedInv, Late
  <2>3. ret = -4
    BY <2>2 DEF OrderInv
  <2> QED
    BY <1>2, <1>4, <2>3 DEF Readable
<1>5. CASE ~ (desc.times > 0 /\ Misplaced(desc))
  <2>1. PICK m : m = Len(message)
    OBVIOUS
  <2>2. OrderedTo(m) /\ m \in Nat
    <3>1. desc.times = 0 \/ ~ Misplaced(desc)
      BY <1>3, <1>5
    <3>2. m \in Nat
      BY <2>1 DEF FileInv
    <3> QED
      BY <2>1, <3>1, <3>2, AllInOrder
  <2>3. OrderInv(m)
    BY <2>1, <2>2 DEF OrderedInv
  <2>4. line - 1 = m /\ ret = IF packet.nConnInfo < 1 THEN -7 ELSE 0
    BY <2>1, <2>2, <2>3 DEF OrderInv
  <2>5. ExactTo(packet, m)
    BY <2>4 DEF ExactInv
  <2>6. \A k \in SessionKeys : packet.fields[k] > 0 <=> k \in {"v", "o", "s"} \cup desc.keys
    BY <2>1, <2>5, SessionFound DEF ExactTo, Exact
  <2>7. ret = 0 <=> "c" \in desc.keys
    <3>1. "c" \in SessionKeys
      BY DEF SessionKeys
    <3>2. packet.nConnInfo \in Int
      BY DEF FileInv, SdpTypeOK, Packets, Lines
    <3>3. "c" \in desc.keys <=> ~ (packet.nConnInfo < 1)
      BY <2>5, <2>6, <3>1, <3>2 DEF ExactTo
    <3> QED
      BY <2>4, <3>3
  <2> DEFINE MediaKeyed == \A j \in 1 .. N : desc.media[j].key <=> "k" \in desc.keys
  <2>8. Matches(desc) <=> MediaKeyed
    <3>1. /\ DOMAIN packet.fields = SessionKeys
          /\ packet.media \in Seq(Media)
      BY DEF FileInv, SdpTypeOK, Packets, Fields
    <3>2. Found(packet.fields) = {"v", "o", "s"} \cup desc.keys
      <4>1. {"v", "o", "s"} \cup desc.keys \subseteq SessionKeys
        BY <1>1 DEF Described, SessionKeys
      <4> QED
        BY <2>6, <3>1, <4>1 DEF Found
    <3>3. Len(packet.attribs) = desc.attribs
      BY <2>1, <2>5, SessionAttributes DEF ExactTo, Exact
    <3>4. Len(packet.times) = desc.times
      BY <2>1, <2>5, TimesWritten DEF ExactTo
    <3>5. N = Len(desc.media) /\ Len(packet.media) = N
      <4>1. Len(packet.media) = SectionOf(line - 1)
        BY DEF FileInv
      <4>2. SectionOf(m) = N
        BY <2>1, MediaSections
      <4> QED
        BY <2>4, <4>1, <4>2 DEF LaidOut
    <3>6. DOMAIN desc.media = 1 .. N
      BY <1>1, <3>5 DEF Described
    <3>7. ASSUME NEW j \in 1 .. N
          PROVE  /\ Found(packet.media[j].fields) =
                        {"m"} \cup desc.media[j].keys \cup (desc.keys \cap {"k"})
                 /\ Len(packet.media[j].attribs) = desc.media[j].attribs
                 /\ desc.media[j] \in MediaDescribed
      <4>1. Exact(packet.media[j], j, MediaKeys, m)
        BY <2>5, <3>5 DEF ExactTo
      <4>2. \A k \in MediaKeys :
                packet.media[j].fields[k] > 0 <=>
                    k \in {"m"} \cup desc.media[j].keys \cup (desc.keys \cap {"k"})
        BY <2>1, <4>1, MediaFound DEF Exact
      <4>3. packet.media[j] \in Media
        BY <3>1, <3>5, ElementOfSeq
      <4>4. DOMAIN packet.media[j].fields = MediaKeys
        BY <4>3 DEF Media, Fields
      <4>5. desc.media[j] \in MediaDescribed
        BY MediaLines
      <4>6. {"m"} \cup desc.media[j].keys \cup (desc.keys \cap {"k"}) \subseteq MediaKeys
        BY <4>5 DEF MediaDescribed, MediaKeys
      <4>7. Len(packet.media[j].attribs) = desc.media[j].attribs
        BY <2>1, <4>1, MediaAttributes DEF Exact
      <4> QED
        BY <4>2, <4>4, <4>5, <4>6, <4>7 DEF Found
    <3> DEFINE Had(j) ==
                   {"m"} \cup desc.media[j].keys \cup (IF desc.media[j].key THEN {"k"} ELSE {})
    <3>8. ASSUME NEW j \in 1 .. N
          PROVE  Found(packet.media[j].fields) = Had(j)
                     <=> (desc.media[j].key <=> "k" \in desc.keys)
      <4>1. "k" \notin {"m"} \cup desc.media[j].keys
        BY <3>7 DEF MediaDescribed
      <4> QED
        BY <3>7, <4>1
    <3>9. Matches(desc) <=> \A j \in 1 .. N : Found(packet.media[j].fields) = Had(j)
      BY <3>2, <3>3, <3>4, <3>5, <3>6, <3>7 DEF Matches
    <3> QED
      BY <3>8, <3>9
  <2>9. DOMAIN desc.media = 1 .. N /\ N = Len(desc.media)
    BY <1>1 DEF Described, LaidOut
  <2>10. Readable(desc) <=> "c" \in desc.keys /\ MediaKeyed
    BY <1>1, <1>2, <1>5, <2>9 DEF Readable, AllPlain, Plain
  <2> HIDE DEF MediaKeyed
  <2> QED
    BY <2>7, <2>8, <2>10
<1> QED
  BY <1>4, <1>5

--------------------------------------------------------------------------------
(* What is read of a message of any length stays well-typed                 *)
(* (SDPHandler::read).                                                      *)
THEOREM TypeCorrect == SdpSpec => []SdpTypeOK
<1>1. FileInv => SdpTypeOK
  BY DEF FileInv
<1> QED
  BY <1>1, StartFiled, StepFiled, PTL DEF SdpSpec

(* Of a message of any length, any keys in any order, that read accepts no  *)
(* line is lost or put in another description than the one it stands in     *)
(* (SDPHandler::read).                                                      *)
THEOREM FiledCorrect == SdpSpec => []LinesFiled
<1>1. FileInv => LinesFiled
  <2> SUFFICES ASSUME FileInv, ret = 0, NEW n \in 1 .. Len(message) PROVE Filed(n)
    BY DEF LinesFiled
  <2>1. line = Len(message) + 1 /\ Len(message) \in Nat
    BY DEF FileInv
  <2>2. n \in 1 .. line - 1
    BY <2>1
  <2>3. Held(packet, n)
    BY <2>2 DEF FileInv
  <2> QED
    BY <2>3, HeldFiled
<1> QED
  BY <1>1, StartFiled, StepFiled, PTL DEF SdpSpec

(* A message of any length whose lines come in the order of SDPFields is    *)
(* read to the end (SDPHandler::read).                                      *)
THEOREM OrderIsAccepted == SdpSpec => []OrderAccepted
<1>1. FileInv /\ ExactInv /\ OrderedInv => OrderAccepted
  <2> SUFFICES ASSUME FileInv, ExactInv, OrderedInv, InOrder, ret # Reading PROVE ret = 0
    BY DEF OrderAccepted
  <2>1. PICK m : m = Len(message)
    OBVIOUS
  <2>2. OrderedTo(m) /\ m \in Nat
    BY <2>1 DEF InOrder, OrderedTo, FileInv
  <2>3. OrderInv(m)
    BY <2>1, <2>2 DEF OrderedInv
  <2>4. line - 1 = m /\ ret = IF packet.nConnInfo < 1 THEN -7 ELSE 0
    BY <2>1, <2>2, <2>3 DEF OrderInv
  <2>5. LinesOf("c", 0, m) # {}
    BY <2>1 DEF InOrder, LinesOf
  <2>6. packet.nConnInfo > 0
    <3>1. "c" \in SessionKeys
      BY DEF SessionKeys
    <3> QED
      BY <2>4, <2>5, <3>1 DEF ExactInv, ExactTo, Exact
  <2>7. packet.nConnInfo \in Int
    BY DEF FileInv, SdpTypeOK, Packets, Lines
  <2> QED
    BY <2>4, <2>6, <2>7
<1> QED
  BY <1>1, StartFiled, StepFiled, StartExact, StepExact, StartOrdered, StepOrdered, PTL
  DEF SdpSpec

(* Of any description that write may be given - any fields, and any number  *)
(* of attributes, times and media descriptions - read finds everything it   *)
(* had if it was readable, and otherwise refuses it or finds something else *)
(* (SDPHandler::write, SDPHandler::read).                                   *)
THEOREM EveryRoundTrip == SdpSpec => []AllRoundTrip
<1>1. FileInv /\ ExactInv /\ OrderedInv /\ LongInv => AllRoundTrip
  <2> SUFFICES ASSUME FileInv, ExactInv, OrderedInv, LongInv, NEW desc \in Descriptions,
                      ret # Reading, message = write[desc]
               PROVE  ret = 0 /\ Matches(desc) <=> Readable(desc)
    BY DEF AllRoundTrip
  <2>1. desc \in Described
    BY DescriptionAssumption
  <2>2. CASE ~ desc.complete
    <3>1. message = <<>>
      BY <2>2 DEF write
    <3>2. packet.fields["v"] = 0
      <4>1. packet.fields \in [SessionKeys -> 0 .. 0] /\ "v" \in SessionKeys
        BY <3>1 DEF FileInv, SdpTypeOK, Packets, Fields, Lines, SessionKeys
      <4> QED
        BY <4>1
    <3>3. ~ Matches(desc)
      BY <3>2 DEF Matches, Found
    <3> QED
      BY <2>2, <3>3 DEF Readable
  <2>3. CASE desc.complete /\ ~ AllPlain(desc)
    <3>1. Holds(message)
      BY <2>1, <2>3, WrittenHolds DEF write
    <3>2. ret # 0
      BY <3>1 DEF Holds, LongInv, FileInv
    <3>3. ~ Readable(desc)
      <4>1. DOMAIN desc.media = 1 .. Len(desc.media)
        BY <2>1 DEF Described
      <4> QED
        BY <2>3, <4>1 DEF Readable, AllPlain, Plain
    <3> QED
      BY <3>2, <3>3
  <2>4. CASE desc.complete /\ AllPlain(desc)
    <3>1. message = Written(desc)[Len(desc.media)]
      BY <2>4 DEF write
    <3>2. PICK w, media, ends, N : LaidOut(desc, w, media, ends, N)
      BY <2>1, <2>4, <3>1, MessageLaid
    <3> QED
      BY <2>4, <3>2, ReadPlain
  <2> QED
    BY <2>2, <2>3, <2>4
<1>2. SdpInit => LongInv
  BY DEF SdpInit, LongInv
<1> QED
  BY <1>1, <1>2, StepLong, StartFiled, StepFiled, StartExact, StepExact, StartOrdered,
     StepOrdered, PTL
  DEF SdpSpec
================================================================================

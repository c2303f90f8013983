----------------------------- MODULE AudioCodec -----------------------------
(***************************************************************************)
(* The codec between the microphone of one host and the speaker of the     *)
(* other (AdpcmCodec.cpp, kodek.c, ulaw.c).  A block of u-law bytes is     *)
(* made linear, and sent as its first sample and four bits for each other: *)
(* the step from the last predicted sample, in quarters of a step size     *)
(* that adapts.  The blocks travel through a network that delays, reorders,*)
(* repeats and loses them; what the decoder makes of one must not depend   *)
(* on the others.                                                          *)
(***************************************************************************)
EXTENDS Integers, Sequences, FiniteSets, SequencesExt

CONSTANTS
    BlockLen,       \* samples in a block after the first one, samplesPerCapture - 1
    Captures,       \* what the microphone may deliver in a block: sequences of bytes
    Tones,          \* what the test tone may be: sequences of samples
    MaxBlocks       \* bound: blocks sent

SHRT_MIN == -32768
SHRT_MAX == 32767
Shorts == SHRT_MIN .. SHRT_MAX
Bytes == 0 .. 255
Sound(S) == [1 .. BlockLen + 1 -> S]

\* Two samples fill a byte; an odd one would be written over the first byte.
ASSUME BlockAssumption == BlockLen \in Nat /\ BlockLen % 2 = 0 /\ MaxBlocks \in Nat
ASSUME SoundAssumption ==
    /\ Captures \subseteq Sound(Bytes)
    /\ Tones \subseteq Sound(Shorts)

VARIABLES
    left,                   \* blocks that may still be sent
    stateEnc, stateDec,     \* the predictors
    coding,                 \* the block that is being encoded, or NoBlock
    blocks,                 \* the blocks sent, each with what it was made from
    heard                   \* what is made of the last block decoded, or Silent

codecVars == <<left, stateEnc, stateDec, coding, blocks, heard>>

(* With the codes of a block there are the predictors they leave.           *)
NoBlock == [bytes |-> <<>>, tone |-> <<>>, samples |-> <<>>, codes |-> <<>>, states |-> <<>>]
Silent == [block |-> {}, samples |-> <<>>, bytes |-> <<>>]

--------------------------------------------------------------------------------
(* u-law (ulaw.c).                                                          *)

Wrap16(x) == ((x + 32768) % 65536) - 32768
Abs(x) == IF x < 0 THEN -x ELSE x

(* Code k of a magnitude has a segment and a place in it; Level is where it *)
(* stands, on the 14-bit scale of the standard, Decision where it begins.   *)
MaxCode == 127
Segment == <<1, 2, 4, 8, 16, 32, 64, 128>>
Level(k) == (2 * (k % 16) + 33) * Segment[k \div 16 + 1] - 33
Decision(k) == (2 * (k % 16) + 32) * Segment[k \div 16 + 1] - 33

(* The table u2s is that scale stretched to 16 bits.                        *)
u2s(b) == IF b > 127 THEN (32767 * Level(255 - b)) \div 8158
                     ELSE - ((32767 * Level(127 - b)) \div 8158)

(* A code of 128 .. 255 is positive, of 0 .. 127 negative.                  *)
Signed(k, positive) == IF positive THEN 255 - k ELSE 127 - k

(* Mutant: the table is indexed with a multiple of 16.                      *)
s2uCoarse(x) ==
    LET centre == 16 * (x \div 16) + 7
    IN  Signed(Cardinality({k \in 1 .. MaxCode : 32767 * Decision(k) <= 8158 * Abs(centre)}),
               centre > 0)

(* The table s2u, with an entry for eight samples, each made from their     *)
(* centre.                                                                  *)
s2u(x) ==
    LET centre == 8 * (x \div 8) + 3
    IN  Signed(Cardinality({k \in 1 .. MaxCode : 32767 * Decision(k) <= 8158 * Abs(centre)}),
               centre > 0)

CLIP == 32635

(* Mutant: the magnitude is not clipped, and its lowest 15 bits are taken.  *)
linear2ulawUnclipped(x) ==
    LET magnitude == (Abs(x) + 132) % 32768
        code == Signed(Cardinality({k \in 1 .. MaxCode : 4 * Decision(k) + 132 <= magnitude}),
                       x >= 0)
    IN  IF code = 0 THEN 2 ELSE code

(* linear2ulaw, for the test tone: exp_lut finds the segment of the clipped *)
(* and biased magnitude; the byte 0 is trapped.                             *)
linear2ulaw(x) ==
    LET magnitude == IF Abs(x) > CLIP THEN CLIP ELSE Abs(x)
        code == Signed(Cardinality({k \in 1 .. MaxCode : 4 * Decision(k) <= magnitude}), x >= 0)
    IN  IF code = 0 THEN 2 ELSE code

--------------------------------------------------------------------------------
(* ADPCM (kodek.c).                                                         *)

indexadjust == <<-1, -1, -1, -1, 2, 4, 6, 8>>

stepsize == <<
    7, 8, 9, 10, 11, 12, 13, 14, 16, 17, 19, 21, 23, 25, 28, 31, 34, 37, 41, 45, 50, 55, 60,
    66, 73, 80, 88, 97, 107, 118, 130, 143, 157, 173, 190, 209, 230, 253, 279, 307, 337, 371,
    408, 449, 494, 544, 598, 658, 724, 796, 876, 963, 1060, 1166, 1282, 1411, 1552, 1707,
    1878, 2066, 2272, 2499, 2749, 3024, 3327, 3660, 4026, 4428, 4871, 5358, 5894, 6484, 7132,
    7845, 8630, 9493, 10442, 11487, 12635, 13899, 15289, 16818, 18500, 20350, 22385, 24623,
    27086, 29794, 32767 >>

(* Mutant: rounds up.                                                       *)
quantizeUp(delta, step) ==
    IF delta < 0 THEN 7 ELSE Min({7, (4 * delta) \div step + 1})

(* quantize: the quarters of the step that fit into delta, else 7.          *)
quantize(delta, step) ==
    LET fit == {q \in 0 .. 6 : q * step <= 4 * delta /\ 4 * delta < (q + 1) * step}
    IN  IF fit = {} THEN 7 ELSE Min(fit)

(* Mutant: the step never shrinks.                                          *)
AdjustGrows(index, qVal) == Max({index, Min({88, index + indexadjust[qVal + 1]})})

Adjust(index, qVal) == Max({0, Min({88, index + indexadjust[qVal + 1]})})

(* Mutant: the predictor is wider than a short.                             *)
PredictWide(previous, sign, step, qVal) ==
    LET move == sign * step * qVal
        quarters == 4 * previous + move + IF move > 0 THEN 4 ELSE 0
    IN  IF quarters < 0 THEN - ((- quarters) \div 4) ELSE quarters \div 4

(* (short)roundOff(previous + sign * step * mul): the macro's f is a sum,   *)
(* without parentheses, so that its condition is 2 * sign * step * mul >=   *)
(* 0.5 and it adds 1 to every positive move; the float is then cut to a     *)
(* short toward zero.                                                       *)
Predict(previous, sign, step, qVal) ==
    LET move == sign * step * qVal
        quarters == 4 * previous + move + IF move > 0 THEN 4 ELSE 0
    IN  Wrap16(IF quarters < 0 THEN - ((- quarters) \div 4) ELSE quarters \div 4)

(* The next predictor, from a code of four bits: the loop body of           *)
(* adpcm_decode, and what adpcm_encode does once the code is found.         *)
Next4(state, code) ==
    LET qVal == code % 8
        sign == IF code > 7 THEN -1 ELSE 1
    IN  [previous |-> Predict(state.previous, sign, stepsize[state.index + 1], qVal),
         index |-> Adjust(state.index, qVal)]

(* The code of a sample: delta is a short, and so is its negation.          *)
Code4(state, sample) ==
    LET delta == Wrap16(sample - state.previous)
    IN  quantize(Wrap16(Abs(delta)), stepsize[state.index + 1]) + IF delta < 0 THEN 8 ELSE 0

(* adpcm_set.                                                               *)
adpcm_set(first, index) == [previous |-> first, index |-> index]

(* Two codes in a byte, the first one in the upper half.                    *)
Pack(codes) == [i \in 1 .. Len(codes) \div 2 |-> 16 * codes[2 * i - 1] + codes[2 * i]]
CodeAt(data, n) == IF n % 2 = 1 THEN data[(n + 1) \div 2] \div 16 ELSE data[n \div 2] % 16

--------------------------------------------------------------------------------
(* The codec's thread: the loops of encode and decode, one round at a time. *)

CodecInit ==
    /\ left \in 0 .. MaxBlocks
    /\ stateEnc = adpcm_set(0, 0) /\ stateDec = adpcm_set(0, 0)
    /\ coding = NoBlock
    /\ blocks = {}
    /\ heard = Silent

Coding == coding # NoBlock
Decoding == Len(heard.bytes) # Len(heard.samples)

Linear(bytes) == [i \in 1 .. Len(bytes) |-> u2s(bytes[i])]

(* Mutant: the step size goes on from the last block.                       *)
EncodeOn(bytes, tone) ==
    /\ ~ Coding /\ ~ Decoding /\ left > 0
    /\ left' = left - 1
    /\ coding' = [NoBlock EXCEPT !.bytes = bytes, !.tone = tone, !.samples = Linear(bytes)]
    /\ stateEnc' = adpcm_set(Linear(bytes)[1], stateEnc.index)
    /\ heard' = Silent
    /\ UNCHANGED <<stateDec, blocks>>

(* AdpcmCodec::encode: every block starts from its first sample and the     *)
(* smallest step.                                                           *)
Encode(bytes, tone) ==
    /\ ~ Coding /\ ~ Decoding /\ left > 0
    /\ left' = left - 1
    /\ coding' = [NoBlock EXCEPT !.bytes = bytes, !.tone = tone, !.samples = Linear(bytes)]
    /\ stateEnc' = adpcm_set(Linear(bytes)[1], 0)
    /\ heard' = Silent
    /\ UNCHANGED <<stateDec, blocks>>

(* The loop body of adpcm_encode.                                           *)
EncodeSample ==
    /\ Coding /\ Len(coding.codes) < BlockLen
    /\ LET code == Code4(stateEnc, coding.samples[Len(coding.codes) + 2])
       IN  /\ stateEnc' = Next4(stateEnc, code)
           /\ coding' = [coding EXCEPT !.codes = Append(@, code), !.states = Append(@, stateEnc')]
    /\ UNCHANGED <<left, stateDec, blocks, heard>>

(* The block is sent.                                                       *)
EncodeEnds ==
    /\ Coding /\ Len(coding.codes) = BlockLen
    /\ blocks' = blocks \cup
          {[first |-> coding.samples[1], stepsizeIndex |-> 0, data |-> Pack(coding.codes),
            bytes |-> coding.bytes, states |-> coding.states]}
    /\ coding' = NoBlock
    /\ UNCHANGED <<left, stateEnc, stateDec, heard>>

(* AdpcmCodec::decode, of any block sent: late, again or out of order.      *)
Decode(block) ==
    /\ ~ Coding /\ ~ Decoding
    /\ stateDec' = adpcm_set(block.first, block.stepsizeIndex)
    /\ heard' = [block |-> {block}, samples |-> <<block.first>>, bytes |-> <<>>]
    /\ UNCHANGED <<left, stateEnc, coding, blocks>>

(* The loop body of adpcm_decode.                                           *)
DecodeCode(block) ==
    /\ Decoding /\ Len(heard.samples) <= 2 * Len(block.data)
    /\ stateDec' = Next4(stateDec, CodeAt(block.data, Len(heard.samples)))
    /\ heard' = [heard EXCEPT !.samples = Append(@, stateDec'.previous)]
    /\ UNCHANGED <<left, stateEnc, coding, blocks>>

(* The block is played.                                                     *)
DecodeEnds(block) ==
    /\ Decoding /\ Len(heard.samples) > 2 * Len(block.data)
    /\ heard' = [heard EXCEPT !.bytes =
                    [i \in 1 .. Len(heard.samples) |-> s2u(heard.samples[i])]]
    /\ UNCHANGED <<left, stateEnc, stateDec, coding, blocks>>

(* AudioReader hands over what the microphone gave, or the test tone.       *)
CodecNext ==
    \/ \E bytes \in Captures : Encode(bytes, <<>>)
    \/ \E tone \in Tones : Encode([i \in 1 .. Len(tone) |-> linear2ulaw(tone[i])], tone)
    \/ EncodeSample \/ EncodeEnds
    \/ \E block \in blocks : Decode(block)
    \/ \E block \in heard.block : DecodeCode(block) \/ DecodeEnds(block)

CodecSpec == CodecInit /\ [][CodecNext]_codecVars

--------------------------------------------------------------------------------
Predictor == [previous : Shorts, index : 0 .. 88]
Code == 0 .. 15
Drafts == [bytes : Sound(Bytes), tone : {<<>>} \cup Sound(Shorts), samples : Sound(Shorts),
           codes : Seq(Code), states : Seq(Predictor)]
Blocks == [first : Shorts, stepsizeIndex : 0 .. 88, data : [1 .. BlockLen \div 2 -> Bytes],
           bytes : Sound(Bytes), states : [1 .. BlockLen -> Predictor]]

(* The types of the variables: no predictor of encoder or decoder leaves 16 *)
(* bits or the table of steps (adpcm_encode, adpcm_decode).                 *)
CodecTypeOK ==
    /\ left \in 0 .. MaxBlocks
    /\ stateEnc \in Predictor /\ stateDec \in Predictor
    /\ coding \in {NoBlock} \cup Drafts
    /\ blocks \subseteq Blocks
    /\ heard \in [block : SUBSET blocks, samples : Seq(Shorts), bytes : Seq(Bytes)]

(* The decoder makes of a block the samples the encoder predicted when it   *)
(* made the block, one after the other and all of them, whatever blocks     *)
(* were lost, late or repeated before (adpcm_decode).                       *)
DecoderInStep ==
    \A block \in heard.block :
        /\ \A n \in 1 .. Len(heard.samples) :
               heard.samples[n] = IF n = 1 THEN block.first ELSE block.states[n - 1].previous
        /\ ~ Decoding => Len(heard.samples) = BlockLen + 1

(* How far prediction n of a block is from sample i; 16 bits are a circle,  *)
(* on which the code takes the shorter way.                                 *)
Predicted(n) == IF n = 0 THEN coding.samples[1] ELSE coding.states[n].previous
Apart(i, n) == Abs(Wrap16(coding.samples[i] - Predicted(n)))

(* No code takes the prediction farther from the sample it stands for, at   *)
(* any step size, across the ends of 16 bits, and however roundOff rounds   *)
(* (adpcm_encode).                                                          *)
NeverFarther ==
    \A n \in 1 .. Len(coding.states) : Apart(n + 1, n) <= Apart(n + 1, n - 1)

(* After any jump the prediction is within one unit of u-law (8) of a       *)
(* steady sample in half a block, and stays there: the step size has grown  *)
(* and shrunk again (adpcm_encode).                                         *)
Settles ==
    LET n == Len(coding.states)
    IN  n >= BlockLen \div 2
          /\ (\A i \in n + 2 - BlockLen \div 2 .. n : coding.samples[i] = coding.samples[n + 1])
            => Apart(n + 1, n) <= 8

(* A steady block, silence for one, is heard as it was captured: u2s,       *)
(* ADPCM and s2u give back the byte; but 127, the second zero of u-law,     *)
(* comes back as the first one, 255.                                        *)
SteadyKept ==
    \A block \in heard.block : \A byte \in Bytes :
        (\A i \in 1 .. BlockLen + 1 : block.bytes[i] = byte) =>
            \A i \in 1 .. Len(heard.bytes) : heard.bytes[i] = IF byte = 127 THEN 255 ELSE byte

(* The bytes linear2ulaw makes of the tone mean, read with the table u2s,   *)
(* what the tone was: within a twelfth, at the largest amplitudes too.      *)
ToneKept ==
    \A i \in 1 .. Len(coding.tone) :
        Abs(coding.samples[i] - coding.tone[i]) <= 4 + Abs(coding.tone[i]) \div 12
================================================================================

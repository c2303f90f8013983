---------------------------- MODULE LifecycleProofs ----------------------------
(***************************************************************************)
(* Proofs about Lifecycle for any number of audio tests: at most one codec *)
(* thread, which is there again after a test, and nothing is freed that a  *)
(* thread still uses, unless the user hurries.  The invariant says which   *)
(* pthread the codec object stands for, who waits for it and why it may    *)
(* have ended, at every moment of a test and of exit.                      *)
(***************************************************************************)
EXTENDS Lifecycle, SequenceTheorems, TLAPS

Main == pc["main"]

TestPlace == {"none", "created", "begin", "join", "loop", "restart", "done"}
USE DEF TestPlace

(* The user agent alone sets isConnected; while it invites, it is not set.  *)
Calling ==
    /\ pc["userAgent"] \in {"busy", "inviting", "exited"}
    /\ isConnected => call = "in_call"
    /\ pc["userAgent"] = "inviting" => call = "calling"

(* Before exit go is cleared during a call only, and then the user agent    *)
(* ends before it comes to an INVITE, whose handler would set go again.     *)
GoneForGood ==
    Main = "cmd" /\ ~ go => /\ pc["userAgent"] # "inviting"
                            /\ pc["userAgent"] = "busy" => call = "in_call"

(* A thread that waits in join() waits for a pthread.                       *)
JoinsCodec == \A t \in Test : test[t] = "join" => joinOn[t] \in Codec

(* One test at a time, and none once exit was typed.                        *)
OneTest ==
    /\ \A t, u \in Test : TestAlive(t) /\ TestAlive(u) => t = u
    /\ Main # "cmd" => \A t \in Test : ~ TestAlive(t)

(* The codec object stands for its last pthread; those before it are over.  *)
Pthreads ==
    /\ \A i \in Codec : /\ codec[i] = "none" <=> i > codecThread
                        /\ i < codecThread => codec[i] = "over"
    /\ codecRunning <=> codec[codecThread] = "running"
    /\ \A i \in joined : codec[i] = "over"

(* Only a test in join() and main() at exit wait for the codec, for the     *)
(* pthread the object stands for.                                           *)
Joiners ==
    /\ \A t \in Test : joinOn[t] = IF test[t] = "join" THEN codecThread ELSE 0
    /\ Main = "cmd" => joinOn[0] = 0

(* The codec is stopped by a test, and is over until the test restarts it.  *)
StoppedByTest ==
    /\ codecStop => \E t \in Test : test[t] \in {"join", "loop"}
    /\ \A t \in Test : test[t] \in {"loop", "restart"} => codec[codecThread] = "over"
    /\ Main = "cmd" /\ go /\ codec[codecThread] = "over"
          => \E t \in Test : test[t] \in {"join", "loop", "restart"}

Calm == OneTest /\ Pthreads /\ Joiners /\ StoppedByTest

(* main() has joined the first n - 1 threads of JoinOrder; it waits for the *)
(* codec third.                                                             *)
JoinedUpTo(n) ==
    /\ toJoin = SubSeq(JoinOrder, n, 6)
    /\ \A k \in 1 .. n - 1 : JoinOrder[k] \in Worker => At(JoinOrder[k], "exited")
    /\ n > 1 => Main \in {"join", "ended"}
    /\ Main = "ended" => n = 7
    /\ n = 3 => joinOn[0] \in Codec /\ (~ hurried => joinOn[0] = codecThread)
    /\ n > 3 /\ ~ hurried => \A i \in Codec : ~ CodecAlive(i)

JoinProgress == \E n \in 1 .. 7 : JoinedUpTo(n)

Inv == TypeOK /\ Calling /\ GoneForGood /\ JoinsCodec /\ JoinProgress /\ (hurried \/ Calm)

--------------------------------------------------------------------------------
(* Steps that touch neither the codec thread nor a test.                    *)

(* A thread that has exited stays so, and no flag is set that the codec     *)
(* looks at.                                                                *)
Aside ==
    /\ UNCHANGED <<codecs, test, hurried, toJoin>>
    /\ pc'["main"] = Main
    /\ \A w \in Worker : At(w, "exited") => pc'[w] = "exited"
    /\ codecStop' => codecStop
    /\ Main = "cmd" /\ go' => go

LEMMA AsideKeeps ==
    ASSUME Inv, Aside, TypeOK', Calling', GoneForGood'
    PROVE  Inv'
<1>1. /\ UNCHANGED <<codec, codecThread, codecRunning, joined, joinOn, test, hurried, toJoin>>
      /\ Main' = Main
  BY DEF Aside, codecs, Main
<1>2. JoinsCodec'
  BY <1>1 DEF Inv, JoinsCodec
<1>3. JoinProgress'
  <2>1. PICK n \in 1 .. 7 : JoinedUpTo(n)
    BY DEF Inv, JoinProgress
  <2>2. JoinedUpTo(n)'
    BY <1>1, <2>1 DEF JoinedUpTo, Aside, At, CodecAlive
  <2> QED
    BY <2>2 DEF JoinProgress
<1>4. ASSUME ~ hurried PROVE Calm'
  <2>1. Calm
    BY <1>4 DEF Inv
  <2>2. OneTest' /\ Pthreads' /\ Joiners'
    BY <1>1, <2>1 DEF Calm, OneTest, Pthreads, Joiners, TestAlive
  <2>3. StoppedByTest'
    BY <1>1, <2>1 DEF Calm, StoppedByTest, Aside
  <2> QED
    BY <2>2, <2>3 DEF Calm
<1> QED
  BY <1>1, <1>2, <1>3, <1>4 DEF Inv

(* The places of a thread.                                                  *)
Place == {"top", "waiting", "woken", "recording", "playing", "busy",
          "inviting", "exited", "cmd", "stop", "disconnect", "join", "ended"}

(* A media thread goes from one place to another.                           *)
LEMMA MediaKeeps ==
    ASSUME Inv, NEW w \in Worker \ {"userAgent"}, NEW l \in Place, ~ At(w, "exited"),
           Goto(w, l), status' \in {0, 1},
           UNCHANGED <<flags, toJoin, call, signalQ, codecs, tests>>
    PROVE  Inv'
<1>1. /\ UNCHANGED <<go, isConnected, audioGo, codecStop, toJoin, call, signalQ, codec,
                     codecThread, codecRunning, joined, joinOn, test, object, running, deleted,
                     audioTest, hurried>>
  BY DEF flags, codecs, tests
<1>2. TypeOK
  BY DEF Inv
<1>3. /\ pc' \in [Worker \cup {"main"} -> Place]
      /\ \A v \in Worker \cup {"main"} : v # w => pc'[v] = pc[v]
  BY <1>2 DEF TypeOK, Goto, Place
<1>4. TypeOK'
  BY <1>1, <1>2, <1>3 DEF TypeOK, Place
<1>5. Calling' /\ GoneForGood'
  BY <1>1, <1>3 DEF Inv, Calling, GoneForGood, Main, Worker
<1>6. Aside
  BY <1>1, <1>3 DEF Aside, codecs, Main, Worker, At
<1> QED
  BY <1>4, <1>5, <1>6, AsideKeeps

(* UdpReader, UdpWriter, AudioReader and AudioWriter.                       *)
LEMMA WorkersKeep == Inv /\ (Udp \/ Reader \/ Writer) => Inv'
<1> SUFFICES ASSUME Inv, Udp \/ Reader \/ Writer PROVE Inv'
  OBVIOUS
<1> USE DEF Place, Worker
<1>1. status \in {0, 1}
  BY DEF Inv, TypeOK
<1>2. ASSUME NEW w \in {"udpReader", "udpWriter"}, UdpEnds(w) PROVE Inv'
  BY <1>1, <1>2, MediaKeeps DEF UdpEnds, At
<1>3. CASE Reader
  <2>1. /\ ~ At("audioReader", "exited") /\ status' \in {0, 1}
        /\ UNCHANGED <<flags, toJoin, call, signalQ, codecs, tests>>
    BY <1>1, <1>3 DEF Reader, ReaderLooks, ReaderStops, At
  <2>2. ReaderOn \/ ReaderOff
    BY <1>3 DEF Reader, ReaderLooks, ReaderStops
  <2>3. \E l \in Place : Goto("audioReader", l)
    BY <2>2 DEF ReaderOn, ReaderOff
  <2> QED
    BY <2>1, <2>3, MediaKeeps
<1>4. CASE Writer
  <2>1. /\ ~ At("audioWriter", "exited") /\ status' \in {0, 1}
        /\ UNCHANGED <<flags, toJoin, call, signalQ, codecs, tests>>
    BY <1>1, <1>4 DEF Writer, WriterLooks, WriterStops, At
  <2>2. \E l \in Place : Goto("audioWriter", l)
    BY <1>4 DEF Writer, WriterLooks, WriterStops
  <2> QED
    BY <2>1, <2>2, MediaKeeps
<1> QED
  BY <1>2, <1>3, <1>4 DEF Udp

(* An RTP packet is refused: go is cleared during a call.                   *)
LEMMA RtpSendFailsKeeps == Inv /\ RtpSendFails => Inv'
<1> SUFFICES ASSUME Inv, RtpSendFails PROVE Inv'
  OBVIOUS
<1>1. /\ UNCHANGED <<audioGo, codecStop, pc, toJoin, call, signalQ, codec, codecThread,
                     codecRunning, joined, joinOn, test, object, running, deleted, audioTest,
                     hurried, status>>
      /\ isConnected /\ ~ go' /\ ~ isConnected' /\ go' \in BOOLEAN /\ isConnected' \in BOOLEAN
  BY DEF RtpSendFails, codecs, tests
<1>2. TypeOK'
  BY <1>1 DEF Inv, TypeOK
<1>3. Calling' /\ GoneForGood'
  BY <1>1 DEF Inv, Calling, GoneForGood, Main
<1>4. Aside
  BY <1>1 DEF Aside, codecs, Main, At
<1> QED
  BY <1>2, <1>3, <1>4, AsideKeeps

(* A step of the user agent: it may wake the audio reader.                  *)
LEMMA UaMoves ==
    ASSUME Inv, NEW l \in {"busy", "inviting", "exited"}, ~ At("userAgent", "exited"),
           \/ pc' = Ua(l)
           \/ At("audioReader", "waiting") /\ pc' = [Ua(l) EXCEPT !["audioReader"] = "woken"],
           UNCHANGED <<codecs, test, hurried, toJoin>>,
           codecStop' => codecStop, Main = "cmd" /\ go' => go
    PROVE  /\ pc' \in [Worker \cup {"main"} -> Place] /\ pc'["userAgent"] = l /\ Main' = Main
           /\ Aside
<1>1. pc \in [Worker \cup {"main"} -> Place]
  BY DEF Inv, TypeOK, Place
<1>2. \A w \in Worker \ {"userAgent"} : At(w, "exited") => pc'[w] = "exited"
  BY <1>1 DEF Ua, At, Worker
<1>3. pc' \in [Worker \cup {"main"} -> Place] /\ pc'["userAgent"] = l /\ pc'["main"] = Main
  BY <1>1 DEF Ua, Worker, Place, Main
<1> QED
  BY <1>2, <1>3 DEF Aside, Main, At

(* UserAgent::run.                                                          *)
LEMMA UserAgentKeeps == Inv /\ UserAgent => Inv'
<1> SUFFICES ASSUME Inv, UserAgent PROVE Inv'
  OBVIOUS
<1>1. /\ TypeOK /\ Calling /\ GoneForGood /\ go \in BOOLEAN /\ isConnected \in BOOLEAN
      /\ pc \in [Worker \cup {"main"} -> Place] /\ status \in {0, 1}
  BY DEF Inv, TypeOK, Place
<1>2. PICK l : l = IF go THEN "busy" ELSE "exited"
  OBVIOUS
<1>3. /\ l \in {"busy", "inviting", "exited"} /\ l # "inviting" /\ (l = "busy" <=> go)
      /\ Looped = Ua(l)
  BY <1>1, <1>2 DEF Looped
<1>4. CASE UaInvites
  <2>1. /\ UNCHANGED <<codec, codecThread, codecRunning, joined, joinOn, test, hurried, toJoin>>
        /\ UNCHANGED <<go, isConnected, audioGo, codecStop, object, running, deleted, audioTest,
                       status>>
        /\ UNCHANGED <<codecs, tests>> /\ At("userAgent", "busy")
        /\ signalQ' \subseteq {"invite", "bye"}
    BY <1>1, <1>4 DEF UaInvites, flags, codecs, tests, TypeOK
  <2>2. CASE call = "free" /\ pc' = Ua("inviting") /\ call' = "calling"
    <3>1. /\ pc'["userAgent"] = "inviting" /\ Main' = Main /\ Aside
          /\ pc' \in [Worker \cup {"main"} -> Place]
      BY <2>1, <2>2, UaMoves DEF At
    <3>2. TypeOK' /\ Calling' /\ GoneForGood'
      BY <1>1, <2>1, <2>2, <3>1 DEF TypeOK, Place, Calling, GoneForGood, At
    <3> QED
      BY <3>1, <3>2, AsideKeeps
  <2>3. CASE call # "free" /\ pc' = Looped /\ UNCHANGED call
    <3>1. /\ pc'["userAgent"] = l /\ Main' = Main /\ Aside
          /\ pc' \in [Worker \cup {"main"} -> Place]
      BY <1>3, <2>1, <2>3, UaMoves DEF At
    <3>2. TypeOK' /\ Calling' /\ GoneForGood'
      BY <1>1, <1>3, <2>1, <2>3, <3>1 DEF TypeOK, Place, Calling, GoneForGood, At
    <3> QED
      BY <3>1, <3>2, AsideKeeps
  <2> QED
    BY <1>4, <2>2, <2>3 DEF UaInvites
<1>5. CASE UaResets
  <2>1. /\ UNCHANGED <<toJoin, call, signalQ, codecs, tests, status>>
        /\ At("userAgent", "inviting") /\ pc' = Ua("busy")
        /\ ~ isConnected' /\ go' /\ ~ audioGo' /\ ~ codecStop'
        /\ isConnected' \in BOOLEAN /\ go' \in BOOLEAN /\ audioGo' \in BOOLEAN
        /\ codecStop' \in BOOLEAN
    BY <1>5 DEF UaResets
  <2>2. UNCHANGED <<codec, codecThread, codecRunning, joined, joinOn, test, object, running,
                    deleted, audioTest, hurried>>
    BY <2>1 DEF codecs, tests
  <2>3. Main = "cmd" => go
    BY <1>1, <2>1 DEF GoneForGood, At
  <2>4. /\ pc'["userAgent"] = "busy" /\ Main' = Main /\ Aside
        /\ pc' \in [Worker \cup {"main"} -> Place]
    BY <2>1, <2>2, <2>3, UaMoves DEF At
  <2>5. TypeOK'
    BY <1>1, <2>1, <2>2, <2>4 DEF TypeOK, Place
  <2>6. Calling' /\ GoneForGood'
    BY <1>1, <2>1, <2>4 DEF Calling, GoneForGood
  <2> QED
    BY <2>4, <2>5, <2>6, AsideKeeps
<1>6. CASE UaSaysBye \/ UaHangsUp
  <2>1. /\ UNCHANGED <<go, audioGo, codecStop, toJoin, codecs, tests, status>>
        /\ At("userAgent", "busy") /\ ~ isConnected' /\ isConnected' \in BOOLEAN /\ pc' = Looped
        /\ signalQ' \subseteq {"invite", "bye"} /\ call' \in {call, "free"}
    BY <1>1, <1>6 DEF UaSaysBye, UaHangsUp, TypeOK
  <2>2. UNCHANGED <<codec, codecThread, codecRunning, joined, joinOn, test, object, running,
                    deleted, audioTest, hurried>>
    BY <2>1 DEF codecs, tests
  <2>3. /\ pc'["userAgent"] = l /\ Main' = Main /\ Aside
        /\ pc' \in [Worker \cup {"main"} -> Place]
    BY <1>3, <2>1, <2>2, UaMoves DEF At
  <2>4. TypeOK'
    BY <1>1, <2>1, <2>2, <2>3 DEF TypeOK, Place
  <2>5. Calling' /\ GoneForGood'
    BY <1>1, <1>3, <2>1, <2>3 DEF Calling, GoneForGood
  <2> QED
    BY <2>3, <2>4, <2>5, AsideKeeps
<1>7. CASE UaConnects
  <2>1. /\ UNCHANGED <<go, audioGo, codecStop, toJoin, signalQ, codecs, tests>>
        /\ At("userAgent", "busy") /\ isConnected' /\ isConnected' \in BOOLEAN
        /\ call' = "in_call" /\ call \in {"calling", "free"}
        /\ SignalReader \/ (pc' = Looped /\ UNCHANGED status)
    BY <1>7 DEF UaConnects
  <2>2. UNCHANGED <<codec, codecThread, codecRunning, joined, joinOn, test, object, running,
                    deleted, audioTest, hurried>>
    BY <2>1 DEF codecs, tests
  <2>3. /\ status' \in {0, 1}
        /\ \/ pc' = Ua(l)
           \/ At("audioReader", "waiting") /\ pc' = [Ua(l) EXCEPT !["audioReader"] = "woken"]
    <3>1. CASE SignalReader /\ status = 0 /\ At("audioReader", "waiting")
      BY <1>1, <1>3, <3>1 DEF SignalReader, Ua, At, Worker
    <3>2. CASE SignalReader /\ ~ (status = 0 /\ At("audioReader", "waiting"))
      <4>1. pc' = [Ua(l) EXCEPT !["audioReader"] = Ua(l)["audioReader"]] /\ status' = 1
        BY <1>1, <1>3, <3>2 DEF SignalReader, Ua, At, Worker
      <4> QED
        BY <1>1, <4>1 DEF Ua
    <3> QED
      BY <1>1, <1>3, <2>1, <3>1, <3>2
  <2>4. /\ pc'["userAgent"] = l /\ Main' = Main /\ Aside
        /\ pc' \in [Worker \cup {"main"} -> Place]
    BY <1>3, <2>1, <2>2, <2>3, UaMoves DEF At
  <2>5. TypeOK'
    BY <1>1, <2>1, <2>2, <2>3, <2>4 DEF TypeOK, Place
  <2>6. Calling' /\ GoneForGood'
    BY <1>1, <1>3, <2>1, <2>4 DEF Calling, GoneForGood
  <2> QED
    BY <2>4, <2>5, <2>6, AsideKeeps
<1>8. CASE UaIdles
  <2>1. /\ UNCHANGED <<go, isConnected, audioGo, codecStop, toJoin, call, signalQ, codecs, tests,
                       status>>
        /\ At("userAgent", "busy") /\ pc' = Looped
    BY <1>8 DEF UaIdles, flags
  <2>2. UNCHANGED <<codec, codecThread, codecRunning, joined, joinOn, test, object, running,
                    deleted, audioTest, hurried>>
    BY <2>1 DEF codecs, tests
  <2>3. /\ pc'["userAgent"] = l /\ Main' = Main /\ Aside
        /\ pc' \in [Worker \cup {"main"} -> Place]
    BY <1>3, <2>1, <2>2, UaMoves DEF At
  <2>4. TypeOK'
    BY <1>1, <2>1, <2>2, <2>3 DEF TypeOK, Place
  <2>5. Calling' /\ GoneForGood'
    BY <1>1, <1>3, <2>1, <2>3 DEF Calling, GoneForGood
  <2> QED
    BY <2>3, <2>4, <2>5, AsideKeeps
<1> QED
  BY <1>4, <1>5, <1>6, <1>7, <1>8 DEF UserAgent, UaRuns

(* main() queues an INVITE; a deleted test reads a flag that is set.        *)
LEMMA InviteAndReuseKeep ==
    Inv /\ (TypeInvite \/ \E t \in Test : MemoryReused(t)) => Inv'
<1> SUFFICES ASSUME Inv, TypeInvite \/ \E t \in Test : MemoryReused(t) PROVE Inv'
  OBVIOUS
<1>1. UNCHANGED <<go, isConnected, audioGo, codecStop, pc, toJoin, call, codec, codecThread,
                  codecRunning, joined, joinOn, test, object, deleted, audioTest, hurried,
                  status>>
  BY DEF TypeInvite, MemoryReused, flags, codecs, tests
<1>2. signalQ' \subseteq {"invite", "bye"} /\ running' \in [Test -> BOOLEAN]
  <2>1. signalQ \subseteq {"invite", "bye"} /\ running \in [Test -> BOOLEAN]
    BY DEF Inv, TypeOK
  <2>2. CASE TypeInvite
    BY <2>1, <2>2 DEF TypeInvite, tests
  <2>3. ASSUME NEW t \in Test, MemoryReused(t)
        PROVE  signalQ' \subseteq {"invite", "bye"} /\ running' \in [Test -> BOOLEAN]
    <3>1. /\ signalQ' = signalQ
          /\ \E b \in BOOLEAN : running' = [running EXCEPT ![object[t]] = b]
      BY <2>3 DEF MemoryReused
    <3> QED
      BY <2>1, <3>1
  <2> QED
    BY <2>2, <2>3
<1>3. TypeOK'
  BY <1>1, <1>2 DEF Inv, TypeOK
<1>4. Calling' /\ GoneForGood'
  BY <1>1 DEF Inv, Calling, GoneForGood, Main
<1>5. Aside
  BY <1>1 DEF Aside, codecs, Main, At
<1> QED
  BY <1>3, <1>4, <1>5, AsideKeeps

--------------------------------------------------------------------------------
(* The codec thread.                                                        *)

(* What no step of the codec or of a test touches.                          *)
Outside == <<go, isConnected, pc, toJoin, call, signalQ, deleted, audioTest, hurried, status>>

(* main() goes on joining while the codec or a test moves, which it does    *)
(* not do any more once main() has joined the codec.                        *)
LEMMA JoinProgressKept ==
    ASSUME Inv, UNCHANGED Outside, joinOn'[0] = joinOn[0],
           ~ hurried /\ Main # "cmd" => codecThread' = codecThread,
           ~ hurried /\ Main # "cmd" /\ (\A i \in Codec : ~ CodecAlive(i))
               => \A i \in Codec : ~ CodecAlive(i)'
    PROVE  JoinProgress'
<1>1. PICK n \in 1 .. 7 : JoinedUpTo(n)
  BY DEF Inv, JoinProgress
<1>2. UNCHANGED <<pc, toJoin, hurried>> /\ Main' = Main
  BY DEF Outside, Main
<1>3. JoinedUpTo(n)'
  BY <1>1, <1>2 DEF JoinedUpTo, At, Main
<1> QED
  BY <1>3 DEF JoinProgress

(* Thread::starter begins to run the codec.                                 *)
LEMMA CodecStartsKeeps == ASSUME Inv, NEW i \in Codec, CodecStarts(i) PROVE Inv'
<1>1. /\ codec[i] = "created" /\ codec' = [codec EXCEPT ![i] = "running"] /\ codecRunning'
      /\ codecRunning' \in BOOLEAN
      /\ UNCHANGED <<go, isConnected, audioGo, codecStop, pc, toJoin, call, signalQ, codecThread,
                     joined, joinOn, test, object, running, deleted, audioTest, hurried, status>>
  BY DEF CodecStarts, flags, tests
<1>2. codec \in [Codec -> {"none", "created", "running", "over"}] /\ codecThread \in Codec
      /\ joined \subseteq Codec
  BY DEF Inv, TypeOK
<1>3. TypeOK'
  BY <1>1, <1>2 DEF Inv, TypeOK
<1>4. Calling' /\ GoneForGood' /\ JoinsCodec'
  BY <1>1 DEF Inv, Calling, GoneForGood, JoinsCodec, Main
<1>5. JoinProgress'
  <2>1. CodecAlive(i)
    BY <1>1 DEF CodecAlive
  <2> QED
    BY <1>1, <2>1, JoinProgressKept DEF Outside
<1>6. ASSUME ~ hurried PROVE Calm'
  <2>1. Calm
    BY <1>6 DEF Inv
  <2>2. OneTest' /\ Joiners'
    BY <1>1, <2>1 DEF Calm, OneTest, Joiners, TestAlive, Main
  <2>3. i = codecThread
    BY <1>1, <1>2, <2>1 DEF Calm, Pthreads, Codec
  <2>4. Pthreads'
    BY <1>1, <1>2, <2>1, <2>3 DEF Calm, Pthreads
  <2>5. StoppedByTest'
    BY <1>1, <1>2, <2>1, <2>3 DEF Calm, StoppedByTest, Main
  <2> QED
    BY <2>2, <2>4, <2>5 DEF Calm
<1> QED
  BY <1>1, <1>3, <1>4, <1>5, <1>6 DEF Inv

(* AdpcmCodec::run ends.                                                    *)
LEMMA CodecEndsKeeps == ASSUME Inv, NEW i \in Codec, CodecEnds(i) PROVE Inv'
<1>1. /\ codec[i] = "running" /\ codec' = [codec EXCEPT ![i] = "over"] /\ ~ codecRunning'
      /\ codecRunning' \in BOOLEAN /\ (~ go \/ codecStop)
      /\ UNCHANGED <<go, isConnected, audioGo, codecStop, pc, toJoin, call, signalQ, codecThread,
                     joined, joinOn, test, object, running, deleted, audioTest, hurried, status>>
  BY DEF CodecEnds, flags, tests
<1>2. codec \in [Codec -> {"none", "created", "running", "over"}] /\ codecThread \in Codec
      /\ joined \subseteq Codec
  BY DEF Inv, TypeOK
<1>3. TypeOK'
  BY <1>1, <1>2 DEF Inv, TypeOK
<1>4. Calling' /\ GoneForGood' /\ JoinsCodec'
  BY <1>1 DEF Inv, Calling, GoneForGood, JoinsCodec, Main
<1>5. JoinProgress'
  <2>1. CodecAlive(i)
    BY <1>1 DEF CodecAlive
  <2> QED
    BY <1>1, <2>1, JoinProgressKept DEF Outside
<1>6. ASSUME ~ hurried PROVE Calm'
  <2>1. Calm
    BY <1>6 DEF Inv
  <2>2. OneTest' /\ Joiners'
    BY <1>1, <2>1 DEF Calm, OneTest, Joiners, TestAlive, Main
  <2>3. i = codecThread
    BY <1>1, <1>2, <2>1 DEF Calm, Pthreads, Codec
  <2>4. Pthreads'
    BY <1>1, <1>2, <2>1, <2>3 DEF Calm, Pthreads
  <2>5. StoppedByTest'
    BY <1>1, <1>2, <2>1, <2>3 DEF Calm, StoppedByTest, Main
  <2> QED
    BY <2>2, <2>4, <2>5 DEF Calm
<1> QED
  BY <1>1, <1>3, <1>4, <1>5, <1>6 DEF Inv

--------------------------------------------------------------------------------
(* The audio test.                                                          *)

(* AudioIOTest::run begins: it sets the flag of its object.                 *)
LEMMA TestBeginsKeeps == ASSUME Inv, NEW t \in Test, TestBegins(t) PROVE Inv'
<1>1. /\ test[t] = "created" /\ test' = [test EXCEPT ![t] = "begin"]
      /\ running' = [running EXCEPT ![object[t]] = TRUE]
      /\ UNCHANGED <<go, isConnected, audioGo, codecStop, pc, toJoin, call, signalQ, codec,
                     codecThread, codecRunning, joined, joinOn, object, deleted, audioTest,
                     hurried, status>>
  BY DEF TestBegins, flags, codecs
<1>2. test \in [Test -> TestPlace] /\ running \in [Test -> BOOLEAN]
  BY DEF Inv, TypeOK
<1>3. TypeOK'
  <2>1. test' \in [Test -> TestPlace] /\ running' \in [Test -> BOOLEAN]
    BY <1>1, <1>2
  <2> QED
    BY <1>1, <2>1 DEF Inv, TypeOK
<1>4. Calling' /\ GoneForGood' /\ JoinsCodec'
  BY <1>1, <1>2 DEF Inv, Calling, GoneForGood, JoinsCodec, Main
<1>5. JoinProgress'
  <2>1. joinOn'[0] = joinOn[0] /\ UNCHANGED Outside
    BY <1>1 DEF Outside
  <2>2. \A i \in Codec : CodecAlive(i)' <=> CodecAlive(i)
    BY <1>1 DEF CodecAlive
  <2> QED
    BY <1>1, <2>1, <2>2, JoinProgressKept
<1>6. ASSUME ~ hurried PROVE Calm'
  <2>1. Calm
    BY <1>6 DEF Inv
  <2>2. \A u \in Test : test'[u] = IF u = t THEN "begin" ELSE test[u]
    BY <1>1, <1>2
  <2>3. OneTest' /\ Pthreads' /\ Joiners'
    BY <1>1, <2>1, <2>2 DEF Calm, OneTest, Pthreads, Joiners, TestAlive, Main
  <2>4. StoppedByTest'
    BY <1>1, <2>1, <2>2 DEF Calm, StoppedByTest, Main
  <2> QED
    BY <2>3, <2>4 DEF Calm
<1> QED
  BY <1>1, <1>3, <1>4, <1>5, <1>6 DEF Inv

(* AudioIOTest::run goes on: it stops the codec and waits for it.           *)
LEMMA TestGoKeeps == ASSUME Inv, NEW t \in Test, TestGo(t) PROVE Inv'
<1>1. /\ test[t] = "begin" /\ test' = [test EXCEPT ![t] = "join"]
      /\ joinOn' = [joinOn EXCEPT ![t] = codecThread]
      /\ audioGo' \in BOOLEAN /\ codecStop' \in BOOLEAN
      /\ UNCHANGED <<go, isConnected, pc, toJoin, call, signalQ, codec, codecThread,
                     codecRunning, joined, object, running, deleted, audioTest, hurried,
                     status>>
  BY DEF TestGo
<1>2. /\ codecThread \in Codec /\ joinOn \in [Test \cup {0} -> 0 .. MaxTests + 1]
      /\ test \in [Test -> TestPlace]
      /\ codecThread \in 0 .. MaxTests + 1 /\ t # 0
  BY TestsAssumption DEF Inv, TypeOK, Codec, Test
<1>3. TypeOK'
  <2>1. joinOn' \in [Test \cup {0} -> 0 .. MaxTests + 1]
    BY <1>1, <1>2
  <2>2. test' \in [Test -> TestPlace]
    BY <1>1, <1>2
  <2> QED
    BY <1>1, <2>1, <2>2 DEF Inv, TypeOK
<1>4. Calling' /\ GoneForGood'
  BY <1>1 DEF Inv, Calling, GoneForGood, Main
<1>5. JoinsCodec'
  BY <1>1, <1>2 DEF Inv, JoinsCodec
<1>6. JoinProgress'
  <2>1. joinOn'[0] = joinOn[0] /\ UNCHANGED Outside
    BY <1>1, <1>2 DEF Outside
  <2>2. \A i \in Codec : CodecAlive(i)' <=> CodecAlive(i)
    BY <1>1 DEF CodecAlive
  <2> QED
    BY <1>1, <2>1, <2>2, JoinProgressKept
<1>7. ASSUME ~ hurried PROVE Calm'
  <2>1. Calm
    BY <1>7 DEF Inv
  <2>2. OneTest'
    BY <1>1, <1>2, <2>1 DEF Calm, OneTest, TestAlive, Main
  <2>3. Pthreads'
    BY <1>1, <2>1 DEF Calm, Pthreads
  <2>4. Joiners'
    BY <1>1, <1>2, <2>1 DEF Calm, Joiners, Main
  <2>5. StoppedByTest'
    <3>1. test'[t] = "join"
      BY <1>1, <1>2
    <3>2. \A u \in Test : test'[u] \in {"loop", "restart"} => test[u] \in {"loop", "restart"}
      BY <1>1, <1>2
    <3> QED
      BY <1>1, <2>1, <3>1, <3>2 DEF Calm, StoppedByTest, Main
  <2> QED
    BY <2>2, <2>3, <2>4, <2>5 DEF Calm
<1> QED
  BY <1>1, <1>3, <1>4, <1>5, <1>6, <1>7 DEF Inv

(* Thread::join by a test returns when the codec is over: nobody else waits *)
(* for it, and it was not joined before it was over.                        *)
LEMMA TestJoinsKeeps == ASSUME Inv, NEW t \in Test, TestJoins(t) PROVE Inv'
<1>1. /\ test[t] = "join" /\ test' = [test EXCEPT ![t] = "loop"] /\ JoinReturns(t)
      /\ joinOn' = [joinOn EXCEPT ![t] = 0] /\ joined' = joined \cup {joinOn[t]}
      /\ UNCHANGED <<go, isConnected, audioGo, codecStop, pc, toJoin, call, signalQ, codec,
                     codecThread, codecRunning, object, running, deleted, audioTest, hurried,
                     status>>
  BY DEF TestJoins, Joins, flags
<1>2. /\ codecThread \in Codec /\ joinOn \in [Test \cup {0} -> 0 .. MaxTests + 1]
      /\ test \in [Test -> TestPlace]
      /\ 0 \in 0 .. MaxTests + 1 /\ t # 0 /\ joined \subseteq Codec /\ joinOn[t] \in Codec
  BY <1>1, TestsAssumption DEF Inv, TypeOK, Codec, Test, JoinsCodec
<1>3. TypeOK'
  <2>1. joinOn' \in [Test \cup {0} -> 0 .. MaxTests + 1] /\ joined' \subseteq Codec
    BY <1>1, <1>2
  <2>2. test' \in [Test -> TestPlace]
    BY <1>1, <1>2
  <2> QED
    BY <1>1, <2>1, <2>2 DEF Inv, TypeOK
<1>4. Calling' /\ GoneForGood'
  BY <1>1 DEF Inv, Calling, GoneForGood, Main
<1>5. JoinsCodec'
  BY <1>1, <1>2 DEF Inv, JoinsCodec
<1>6. JoinProgress'
  <2>1. joinOn'[0] = joinOn[0] /\ UNCHANGED Outside
    BY <1>1, <1>2 DEF Outside
  <2>2. \A i \in Codec : CodecAlive(i)' <=> CodecAlive(i)
    BY <1>1 DEF CodecAlive
  <2> QED
    BY <1>1, <2>1, <2>2, JoinProgressKept
<1>7. ASSUME ~ hurried PROVE Calm'
  <2>1. Calm
    BY <1>7 DEF Inv
  <2>2. Main = "cmd" /\ \A u \in Test : TestAlive(u) => u = t
    BY <1>1, <2>1 DEF Calm, OneTest, TestAlive
  <2>3. joinOn[t] = codecThread /\ codec[codecThread] = "over"
    <3>1. joinOn[t] = codecThread /\ joinOn[0] = 0 /\ codecThread # 0
      BY <1>1, <1>2, <2>1, <2>2 DEF Calm, Joiners, Codec
    <3>2. \A u \in Test \ {t} : joinOn[u] = 0
      BY <1>2, <2>1, <2>2 DEF Calm, Joiners, TestAlive
    <3>3. \A k \in DOMAIN joinOn \ {t} : joinOn[k] = 0
      BY <1>2, <3>1, <3>2
    <3>4. codec[joinOn[t]] = "over" \/ joinOn[t] \in joined
      BY <1>1, <3>1, <3>3 DEF JoinReturns
    <3> QED
      BY <2>1, <3>1, <3>4 DEF Calm, Pthreads
  <2>4. OneTest'
    BY <1>1, <1>2, <2>1 DEF Calm, OneTest, TestAlive, Main
  <2>5. Pthreads'
    BY <1>1, <2>1, <2>3 DEF Calm, Pthreads
  <2>6. Joiners'
    BY <1>1, <1>2, <2>1 DEF Calm, Joiners, Main
  <2>7. StoppedByTest'
    <3>1. test'[t] = "loop"
      BY <1>1, <1>2
    <3> QED
      BY <1>1, <2>3, <3>1 DEF StoppedByTest, Main
  <2> QED
    BY <2>4, <2>5, <2>6, <2>7 DEF Calm
<1> QED
  BY <1>1, <1>3, <1>4, <1>5, <1>6, <1>7 DEF Inv

(* The loop of AudioIOTest::run ends: the codec is no longer to stop.       *)
LEMMA TestStopsKeeps == ASSUME Inv, NEW t \in Test, TestStops(t) PROVE Inv'
<1>1. /\ test[t] = "loop" /\ test' = [test EXCEPT ![t] = "restart"]
      /\ ~ codecStop' /\ audioGo' \in BOOLEAN /\ codecStop' \in BOOLEAN
      /\ UNCHANGED <<go, isConnected, pc, toJoin, call, signalQ, codec, codecThread,
                     codecRunning, joined, joinOn, object, running, deleted, audioTest,
                     hurried, status>>
  BY DEF TestStops, codecs
<1>2. test \in [Test -> TestPlace]
  BY DEF Inv, TypeOK
<1>3. TypeOK'
  <2>1. test' \in [Test -> TestPlace]
    BY <1>1, <1>2
  <2> QED
    BY <1>1, <2>1 DEF Inv, TypeOK
<1>4. Calling' /\ GoneForGood' /\ JoinsCodec'
  BY <1>1, <1>2 DEF Inv, Calling, GoneForGood, JoinsCodec, Main
<1>5. JoinProgress'
  <2>1. joinOn'[0] = joinOn[0] /\ UNCHANGED Outside
    BY <1>1 DEF Outside
  <2>2. \A i \in Codec : CodecAlive(i)' <=> CodecAlive(i)
    BY <1>1 DEF CodecAlive
  <2> QED
    BY <1>1, <2>1, <2>2, JoinProgressKept
<1>6. ASSUME ~ hurried PROVE Calm'
  <2>1. Calm
    BY <1>6 DEF Inv
  <2>2. OneTest' /\ Pthreads' /\ Joiners'
    BY <1>1, <1>2, <2>1 DEF Calm, OneTest, Pthreads, Joiners, TestAlive, Main
  <2>3. StoppedByTest'
    <3>1. test'[t] = "restart" /\ codec[codecThread] = "over"
      BY <1>1, <1>2, <2>1 DEF Calm, StoppedByTest
    <3> QED
      BY <1>1, <3>1 DEF StoppedByTest, Main
  <2> QED
    BY <2>2, <2>3 DEF Calm
<1> QED
  BY <1>1, <1>3, <1>4, <1>5, <1>6 DEF Inv

(* AudioIOTest::run ends and starts the codec, which is over, as a new      *)
(* pthread.                                                                 *)
LEMMA TestRestartsKeeps == ASSUME Inv, NEW t \in Test, TestRestarts(t) PROVE Inv'
<1>1. /\ test[t] = "restart" /\ test' = [test EXCEPT ![t] = "done"] /\ Start
      /\ UNCHANGED <<go, isConnected, audioGo, codecStop, pc, toJoin, call, signalQ,
                     codecRunning, joined, joinOn, object, running, deleted, audioTest,
                     hurried, status>>
  BY DEF TestRestarts, flags
<1>2. /\ codecThread \in Codec /\ codec \in [Codec -> {"none", "created", "running", "over"}]
      /\ test \in [Test -> TestPlace]
      /\ joined \subseteq Codec
  BY DEF Inv, TypeOK
<1>3. TypeOK'
  <2>1. test' \in [Test -> TestPlace]
    BY <1>1, <1>2
  <2>2. codecThread' \in Codec /\ codec' \in [Codec -> {"none", "created", "running", "over"}]
    BY <1>1, <1>2 DEF Start
  <2> QED
    BY <1>1, <2>1, <2>2 DEF Inv, TypeOK
<1>4. Calling' /\ GoneForGood' /\ JoinsCodec'
  BY <1>1, <1>2 DEF Inv, Calling, GoneForGood, JoinsCodec, Main
<1>5. ~ hurried => Main = "cmd"
  BY <1>1 DEF Inv, Calm, OneTest, TestAlive
<1>6. JoinProgress'
  BY <1>1, <1>5, JoinProgressKept DEF Outside
<1>7. ASSUME ~ hurried PROVE Calm'
  <2>1. Calm
    BY <1>7 DEF Inv
  <2>2. \A u \in Test : TestAlive(u) => u = t
    BY <1>1, <2>1 DEF Calm, OneTest, TestAlive
  <2>3. codec[codecThread] = "over" /\ ~ codecRunning /\ ~ codecStop
    <3>1. codec[codecThread] = "over"
      BY <1>1, <2>1 DEF Calm, StoppedByTest
    <3>2. \A u \in Test : test[u] \notin {"join", "loop"}
      BY <1>1, <2>2 DEF TestAlive
    <3> QED
      BY <2>1, <3>1, <3>2 DEF Calm, StoppedByTest, Pthreads
  <2>4. PICK i \in Codec : /\ codec[i] = "none" /\ \A j \in 1 .. i - 1 : codec[j] # "none"
                           /\ codec' = [codec EXCEPT ![i] = "created"] /\ codecThread' = i
    BY <1>1, <2>3 DEF Start
  <2>5. i = codecThread + 1
    <3>1. i > codecThread
      BY <2>1, <2>4 DEF Calm, Pthreads
    <3>2. CASE i > codecThread + 1
      <4>1. codecThread + 1 \in 1 .. i - 1 /\ codecThread + 1 \in Codec
        BY <1>2, <3>2, TestsAssumption DEF Codec
      <4>2. codec[codecThread + 1] = "none"
        BY <1>2, <2>1, <4>1, TestsAssumption DEF Calm, Pthreads, Codec
      <4> QED
        BY <2>4, <4>1, <4>2
    <3> QED
      BY <1>2, <3>1, <3>2, TestsAssumption DEF Codec
  <2>6. Pthreads'
    <3>1. \A j \in Codec : codec'[j] = IF j = i THEN "created" ELSE codec[j]
      BY <1>2, <2>4
    <3>2. \A j \in Codec : /\ j > i => codec[j] = "none"
                           /\ j < i => codec[j] = "over"
      BY <1>2, <2>1, <2>3, <2>5, TestsAssumption DEF Calm, Pthreads, Codec
    <3>3. \A j \in Codec : /\ codec'[j] = "none" <=> j > i
                           /\ j < i => codec'[j] = "over"
      BY <3>1, <3>2 DEF Codec
    <3>4. \A j \in joined : codec'[j] = "over"
      BY <1>2, <2>1, <2>4, <3>1 DEF Calm, Pthreads
    <3> QED
      BY <1>1, <2>3, <2>4, <3>1, <3>3, <3>4 DEF Pthreads
  <2>7. \A u \in Test : test'[u] \notin {"created", "begin", "join", "loop", "restart"}
    BY <1>1, <1>2, <2>2 DEF TestAlive
  <2>8. OneTest'
    BY <1>2, <2>7, <1>3 DEF OneTest, TestAlive, TypeOK
  <2>9. Joiners'
    <3>1. \A u \in Test : test[u] # "join"
      BY <1>1, <2>2 DEF TestAlive
    <3> QED
      BY <1>1, <2>1, <2>7, <3>1 DEF Calm, Joiners, Main
  <2>10. StoppedByTest'
    <3>1. codec'[codecThread'] = "created" /\ ~ codecStop'
      BY <1>1, <1>2, <2>3, <2>4
    <3> QED
      BY <2>7, <3>1 DEF StoppedByTest
  <2> QED
    BY <2>6, <2>8, <2>9, <2>10 DEF Calm
<1> QED
  BY <1>1, <1>3, <1>4, <1>6, <1>7 DEF Inv

--------------------------------------------------------------------------------
(* The console and exit.                                                    *)

(* The threads main() has still to join, one by one.                        *)
LEMMA JoinOrderSuffix ==
    /\ \A n \in 1 .. 6 : /\ SubSeq(JoinOrder, n, 6) # << >>
                         /\ Head(SubSeq(JoinOrder, n, 6)) = JoinOrder[n]
                         /\ Tail(SubSeq(JoinOrder, n, 6)) = SubSeq(JoinOrder, n + 1, 6)
    /\ SubSeq(JoinOrder, 7, 6) = << >>
    /\ SubSeq(JoinOrder, 1, 6) = JoinOrder
<1> DEFINE Name == Worker \cup {"codec"}
<1>1. JoinOrder \in Seq(Name) /\ Len(JoinOrder) = 6
  BY DEF JoinOrder, Worker
<1> HIDE DEF JoinOrder, Name
<1>2. ASSUME NEW n \in 1 .. 6
      PROVE  /\ SubSeq(JoinOrder, n, 6) # << >>
             /\ Head(SubSeq(JoinOrder, n, 6)) = JoinOrder[n]
             /\ Tail(SubSeq(JoinOrder, n, 6)) = SubSeq(JoinOrder, n + 1, 6)
  <2>1. n \in 1 .. Len(JoinOrder) /\ 6 \in n .. Len(JoinOrder) /\ n \in Int /\ 6 \in Int
    BY <1>1
  <2>2. \A i \in n .. 6 : JoinOrder[i] \in Name
    BY <1>1, ElementOfSeq
  <2>3. Len(SubSeq(JoinOrder, n, 6)) = 6 - n + 1
    BY <2>1, <2>2, SubSeqProperties
  <2>4. SubSeq(JoinOrder, n, 6) # << >>
    BY <2>1, <2>3, EmptySeq
  <2> QED
    BY <1>1, <2>1, <2>4, HeadTailOfSubSeq
<1>3. SubSeq(JoinOrder, 7, 6) = << >>
  BY SubSeqEmpty
<1>4. SubSeq(JoinOrder, 1, 6) = JoinOrder
  BY <1>1, SubSeqFull
<1> QED
  BY <1>2, <1>3, <1>4

(* Before exit main() has joined nobody.                                    *)
LEMMA NobodyJoined ==
    ASSUME Inv, Main \notin {"join", "ended"}
    PROVE  toJoin = SubSeq(JoinOrder, 1, 6)
<1>1. PICK n \in 1 .. 7 : JoinedUpTo(n)
  BY DEF Inv, JoinProgress
<1>2. n = 1
  BY <1>1 DEF JoinedUpTo
<1> QED
  BY <1>1, <1>2 DEF JoinedUpTo

(* The user starts a test, or stops the one that runs.                      *)
LEMMA TypeTestKeeps == Inv /\ TypeTest => Inv'
<1> SUFFICES ASSUME Inv, TypeTest PROVE Inv'
  OBVIOUS
<1>1. /\ UNCHANGED <<go, isConnected, audioGo, codecStop, pc, toJoin, call, signalQ, codec,
                     codecThread, codecRunning, joined, joinOn, status>>
      /\ Main = "cmd" /\ Main' = Main
  BY DEF TypeTest, flags, codecs, At, Main
<1>2. /\ test \in [Test -> TestPlace] /\ object \in [Test -> Test \cup {0}]
      /\ running \in [Test -> BOOLEAN] /\ audioTest \in Test \cup {0} /\ deleted \subseteq Test
      /\ hurried \in BOOLEAN
  BY DEF Inv, TypeOK
<1>3. Calling' /\ GoneForGood'
  BY <1>1 DEF Inv, Calling, GoneForGood
<1>4. JoinProgress'
  <2>1. toJoin' = SubSeq(JoinOrder, 1, 6) /\ Main' = "cmd"
    BY <1>1, NobodyJoined
  <2>2. JoinedUpTo(1)'
    BY <2>1 DEF JoinedUpTo
  <2> QED
    BY <2>2 DEF JoinProgress
<1>5. CASE TestDeleted
  <2>1. /\ UNCHANGED <<test, object, hurried>> /\ audioTest' = 0
        /\ running' = [running EXCEPT ![audioTest] = FALSE]
        /\ deleted' = deleted \cup {audioTest} /\ audioTest # 0
    BY <1>5 DEF TestDeleted, DeleteTest
  <2>2. TypeOK'
    BY <1>1, <1>2, <2>1 DEF Inv, TypeOK
  <2>3. JoinsCodec'
    BY <1>1, <2>1 DEF Inv, JoinsCodec
  <2>4. hurried' \/ Calm'
    BY <1>1, <2>1 DEF Inv, Calm, OneTest, Pthreads, Joiners, StoppedByTest, TestAlive
  <2> QED
    BY <1>3, <1>4, <2>2, <2>3, <2>4 DEF Inv
<1>6. CASE TestStarted
  <2>1. PICK t \in Test : /\ test[t] = "none" /\ test' = [test EXCEPT ![t] = "created"]
                          /\ audioTest' = IF audioTest = 0 THEN t ELSE audioTest
                          /\ object' = [object EXCEPT ![t] = audioTest']
    BY <1>6 DEF TestStarted
  <2>2. /\ deleted' = deleted /\ running' = running
        /\ hurried' = (hurried \/ \E u \in Test : TestAlive(u))
    BY <1>6 DEF TestStarted
  <2>3. hurried' \in BOOLEAN
    BY <2>2
  <2>4. TypeOK'
    BY <1>1, <1>2, <2>1, <2>2, <2>3 DEF Inv, TypeOK
  <2>5. JoinsCodec'
    BY <1>1, <1>2, <2>1 DEF Inv, JoinsCodec
  <2>6. ASSUME ~ hurried' PROVE Calm'
    <3>1. Calm /\ \A u \in Test : ~ TestAlive(u)
      BY <2>2, <2>6 DEF Inv
    <3>2. \A u \in Test : test'[u] = IF u = t THEN "created" ELSE test[u]
      BY <1>2, <2>1
    <3>3. OneTest'
      BY <1>1, <3>1, <3>2 DEF OneTest, TestAlive
    <3>4. Pthreads'
      BY <1>1, <3>1 DEF Calm, Pthreads
    <3>5. Joiners'
      BY <1>1, <2>1, <3>1, <3>2 DEF Calm, Joiners
    <3>6. StoppedByTest'
      <4>1. \A u \in Test : test[u] \notin {"join", "loop", "restart"}
        BY <3>1 DEF TestAlive
      <4> QED
        BY <1>1, <3>1, <3>2, <4>1 DEF Calm, StoppedByTest
    <3> QED
      BY <3>3, <3>4, <3>5, <3>6 DEF Calm
  <2> QED
    BY <1>3, <1>4, <2>4, <2>5, <2>6 DEF Inv
<1> QED
  BY <1>5, <1>6 DEF TypeTest

(* The user types exit.                                                     *)
LEMMA TypeExitKeeps == Inv /\ TypeExit => Inv'
<1> SUFFICES ASSUME Inv, TypeExit PROVE Inv'
  OBVIOUS
<1>1. /\ UNCHANGED <<go, isConnected, audioGo, codecStop, toJoin, call, codec, codecThread,
                     codecRunning, joined, joinOn, test, object, audioTest, status>>
      /\ Main = "cmd" /\ pc' = [pc EXCEPT !["main"] = "stop"]
      /\ hurried' = (hurried \/ \E u \in Test : TestAlive(u))
  BY DEF TypeExit, flags, codecs, At, Main, Goto
<1>2. /\ pc \in [Worker \cup {"main"} -> Place] /\ running \in [Test -> BOOLEAN]
      /\ audioTest \in Test \cup {0} /\ deleted \subseteq Test
      /\ signalQ \subseteq {"invite", "bye"}
  BY DEF Inv, TypeOK, Place
<1>3. /\ pc' \in [Worker \cup {"main"} -> Place] /\ Main' = "stop"
      /\ \A w \in Worker : pc'[w] = pc[w]
  BY <1>1, <1>2 DEF Place, Main, Worker
<1>4. /\ running' \in [Test -> BOOLEAN] /\ deleted' \subseteq Test
      /\ signalQ' \subseteq {"invite", "bye"}
  BY <1>2 DEF TypeExit, DeleteTest
<1>5. hurried' \in BOOLEAN
  BY <1>1
<1>6. TypeOK'
  BY <1>1, <1>3, <1>4, <1>5 DEF Inv, TypeOK, Place
<1>7. Calling' /\ GoneForGood' /\ JoinsCodec'
  BY <1>1, <1>3 DEF Inv, Calling, GoneForGood, JoinsCodec, Worker
<1>8. JoinProgress'
  <2>1. toJoin' = SubSeq(JoinOrder, 1, 6)
    BY <1>1, NobodyJoined
  <2>2. JoinedUpTo(1)'
    BY <1>3, <2>1 DEF JoinedUpTo
  <2> QED
    BY <2>2 DEF JoinProgress
<1>9. ASSUME ~ hurried' PROVE Calm'
  <2>1. Calm /\ \A u \in Test : ~ TestAlive(u)
    BY <1>1, <1>9 DEF Inv
  <2>2. OneTest' /\ Pthreads' /\ Joiners' /\ StoppedByTest'
    BY <1>1, <1>3, <2>1 DEF Calm, OneTest, Pthreads, Joiners, StoppedByTest, TestAlive
  <2> QED
    BY <2>2 DEF Calm
<1> QED
  BY <1>6, <1>7, <1>8, <1>9 DEF Inv

(* main() clears go, then isConnected.                                      *)
LEMMA ExitClearsKeeps == Inv /\ (ExitStops \/ ExitDisconnects) => Inv'
<1> SUFFICES ASSUME Inv, ExitStops \/ ExitDisconnects PROVE Inv'
  OBVIOUS
<1>1. PICK l \in {"disconnect", "join"} : pc' = [pc EXCEPT !["main"] = l]
  BY DEF ExitStops, ExitDisconnects, Goto
<1>2. /\ UNCHANGED <<audioGo, codecStop, toJoin, call, signalQ, codec, codecThread,
                     codecRunning, joined, joinOn, test, object, running, deleted, audioTest,
                     hurried, status>>
      /\ Main \in {"stop", "disconnect"}
  BY DEF ExitStops, ExitDisconnects, codecs, tests, At, Main
<1>3. /\ go' \in BOOLEAN /\ isConnected' \in BOOLEAN
      /\ isConnected' => isConnected
  <2>1. go \in BOOLEAN /\ isConnected \in BOOLEAN
    BY DEF Inv, TypeOK
  <2>2. CASE ExitStops
    <3>1. go' = FALSE /\ isConnected' = isConnected
      BY <2>2 DEF ExitStops
    <3>2. go' \in BOOLEAN
      BY <3>1
    <3>3. isConnected' \in BOOLEAN
      BY <2>1, <3>1
    <3>4. isConnected' => isConnected
      BY <3>1
    <3> QED
      BY <3>2, <3>3, <3>4
  <2>3. CASE ExitDisconnects
    <3>1. go' = go /\ isConnected' = FALSE
      BY <2>3 DEF ExitDisconnects
    <3>2. go' \in BOOLEAN
      BY <2>1, <3>1
    <3>3. isConnected' \in BOOLEAN
      BY <3>1
    <3>4. isConnected' => isConnected
      BY <3>1
    <3> QED
      BY <3>2, <3>3, <3>4
  <2> QED
    BY <2>2, <2>3
<1>4. pc \in [Worker \cup {"main"} -> Place]
  BY DEF Inv, TypeOK, Place
<1>5. /\ pc' \in [Worker \cup {"main"} -> Place] /\ Main' = l
      /\ \A w \in Worker : pc'[w] = pc[w]
  BY <1>1, <1>4 DEF Place, Main, Worker
<1>6. TypeOK'
  BY <1>2, <1>3, <1>5 DEF Inv, TypeOK, Place
<1>7. Calling' /\ GoneForGood' /\ JoinsCodec'
  BY <1>2, <1>3, <1>5 DEF Inv, Calling, GoneForGood, JoinsCodec, Worker
<1>8. JoinProgress'
  <2>1. toJoin' = SubSeq(JoinOrder, 1, 6)
    BY <1>2, NobodyJoined
  <2>2. JoinedUpTo(1)'
    BY <1>5, <2>1 DEF JoinedUpTo
  <2> QED
    BY <2>2 DEF JoinProgress
<1>9. ASSUME ~ hurried PROVE Calm'
  <2>1. OneTest' /\ Pthreads' /\ Joiners' /\ StoppedByTest'
    BY <1>2, <1>5, <1>9 DEF Inv, Calm, OneTest, Pthreads, Joiners, StoppedByTest, TestAlive
  <2> QED
    BY <2>1 DEF Calm
<1> QED
  BY <1>2, <1>6, <1>7, <1>8, <1>9 DEF Inv

(* waitForThreadsToDie: the next thread has ended, the codec with it if it  *)
(* is the one.                                                              *)
LEMMA ExitJoinsKeeps == Inv /\ ExitJoins => Inv'
<1> SUFFICES ASSUME Inv, ExitJoins PROVE Inv'
  OBVIOUS
<1>1. /\ UNCHANGED <<go, isConnected, audioGo, codecStop, pc, call, signalQ, codec, codecThread,
                     codecRunning, test, object, running, deleted, audioTest, hurried, status>>
      /\ Main = "join" /\ Main' = "join" /\ toJoin # << >> /\ toJoin' = Tail(toJoin)
  BY DEF ExitJoins, Joins, flags, tests, At, Main
<1>2. PICK n \in 1 .. 7 : JoinedUpTo(n)
  BY DEF Inv, JoinProgress
<1>3. /\ n \in 1 .. 6 /\ toJoin = SubSeq(JoinOrder, n, 6) /\ Head(toJoin) = JoinOrder[n]
      /\ toJoin' = SubSeq(JoinOrder, n + 1, 6) /\ n + 1 \in 1 .. 7
  BY <1>1, <1>2, JoinOrderSuffix DEF JoinedUpTo
<1>4. /\ joinOn \in [Test \cup {0} -> 0 .. MaxTests + 1] /\ codecThread \in Codec
      /\ joined \subseteq Codec /\ 0 \in 0 .. MaxTests + 1 /\ codecThread \in 0 .. MaxTests + 1
      /\ \A t \in Test : t # 0
  BY TestsAssumption DEF Inv, TypeOK, Codec, Test
<1>5. Calling' /\ GoneForGood'
  BY <1>1 DEF Inv, Calling, GoneForGood
<1>6. ASSUME joinOn' \in [Test \cup {0} -> 0 .. MaxTests + 1], joined' \subseteq Codec
      PROVE  TypeOK'
  BY <1>1, <1>3, <1>6 DEF Inv, TypeOK
<1>7. ASSUME \A t \in Test : joinOn'[t] = joinOn[t]
      PROVE  JoinsCodec' /\ (~ hurried => OneTest' /\ Joiners' /\ StoppedByTest')
  <2>1. JoinsCodec'
    BY <1>1, <1>7 DEF Inv, JoinsCodec
  <2>2. ~ hurried => OneTest' /\ Joiners' /\ StoppedByTest'
    BY <1>1, <1>7 DEF Inv, Calm, OneTest, Joiners, StoppedByTest, TestAlive
  <2> QED
    BY <2>1, <2>2
<1>8. CASE n = 3
  <2>1. /\ Joins(0) /\ joined' = joined \cup {joinOn[0]} /\ joinOn' = [joinOn EXCEPT ![0] = 0]
        /\ joinOn[0] \in Codec
    BY <1>2, <1>3, <1>8 DEF ExitJoins, Joins, JoinedUpTo, JoinOrder
  <2>2. TypeOK'
    BY <1>4, <1>6, <2>1
  <2>3. \A t \in Test : joinOn'[t] = joinOn[t]
    BY <1>4, <2>1
  <2>4. ASSUME ~ hurried PROVE joinOn[0] = codecThread /\ codec[codecThread] = "over" /\ Calm
    <3>1. joinOn[0] = codecThread /\ codecThread # 0 /\ Calm
      BY <1>2, <1>4, <1>8, <2>4 DEF JoinedUpTo, Inv, Codec
    <3>2. \A t \in Test : joinOn[t] = 0
      BY <1>1, <3>1 DEF Calm, OneTest, Joiners, TestAlive
    <3>3. \A k \in DOMAIN joinOn \ {0} : joinOn[k] = 0
      BY <1>4, <3>2
    <3>4. codec[joinOn[0]] = "over" \/ joinOn[0] \in joined
      BY <2>1, <3>1, <3>3 DEF Joins, JoinReturns
    <3> QED
      BY <3>1, <3>4 DEF Calm, Pthreads
  <2>5. ~ hurried => Pthreads'
    BY <1>1, <2>1, <2>4 DEF Calm, Pthreads
  <2>6. ~ hurried => \A i \in Codec : ~ CodecAlive(i)
    BY <1>4, <2>4 DEF Calm, Pthreads, CodecAlive, Codec
  <2>7. JoinedUpTo(n + 1)'
    <3>1. \A k \in 1 .. 3 : JoinOrder[k] \in Worker => At(JoinOrder[k], "exited")'
      <4>1. \A k \in 1 .. 2 : JoinOrder[k] \in Worker => At(JoinOrder[k], "exited")
        BY <1>2, <1>8 DEF JoinedUpTo
      <4>2. JoinOrder[3] \notin Worker
        BY DEF JoinOrder, Worker
      <4> QED
        BY <1>1, <4>1, <4>2 DEF At
    <3> QED
      BY <1>1, <1>3, <1>8, <2>6, <3>1 DEF JoinedUpTo, CodecAlive
  <2>8. JoinProgress'
    BY <1>3, <2>7 DEF JoinProgress
  <2> QED
    BY <1>1, <1>5, <1>7, <2>2, <2>3, <2>5, <2>8 DEF Inv, Calm
<1>9. CASE n # 3
  <2>1. Head(toJoin) # "codec" /\ JoinOrder[n] \in Worker
    BY <1>3, <1>9 DEF JoinOrder, Worker
  <2>2. /\ At(JoinOrder[n], "exited") /\ joined' = joined
        /\ joinOn' = IF n = 2 THEN [joinOn EXCEPT ![0] = codecThread] ELSE joinOn
    BY <1>3, <2>1 DEF ExitJoins, JoinOrder
  <2>3. TypeOK' /\ \A t \in Test : joinOn'[t] = joinOn[t]
    BY <1>4, <1>6, <2>2, <1>1 DEF Inv, TypeOK
  <2>4. ~ hurried => Pthreads'
    BY <1>1, <2>2 DEF Inv, Calm, Pthreads
  <2>5. JoinedUpTo(n + 1)'
    <3>1. \A k \in 1 .. n : JoinOrder[k] \in Worker => At(JoinOrder[k], "exited")'
      <4>1. \A k \in 1 .. n - 1 : JoinOrder[k] \in Worker => At(JoinOrder[k], "exited")
        BY <1>2 DEF JoinedUpTo
      <4>2. \A k \in 1 .. n : k = n \/ k \in 1 .. n - 1
        BY <1>3
      <4> QED
        BY <1>1, <2>2, <4>1, <4>2 DEF At
    <3>2. n + 1 = 3 => joinOn'[0] = codecThread'
      BY <1>1, <1>3, <1>4, <2>2
    <3>3. n + 1 > 3 /\ ~ hurried' => \A i \in Codec : ~ CodecAlive(i)'
      <4>1. n + 1 > 3 => n > 3
        BY <1>3, <1>9
      <4> QED
        BY <1>1, <1>2, <4>1 DEF JoinedUpTo, CodecAlive
    <3> QED
      BY <1>1, <1>3, <1>4, <3>1, <3>2, <3>3 DEF JoinedUpTo
  <2>6. JoinProgress'
    BY <1>3, <2>5 DEF JoinProgress
  <2> QED
    BY <1>1, <1>5, <1>7, <2>3, <2>4, <2>6 DEF Inv, Calm
<1> QED
  BY <1>8, <1>9

(* run() returns when all threads are joined.                               *)
LEMMA ExitEndsKeeps == Inv /\ ExitEnds => Inv'
<1> SUFFICES ASSUME Inv, ExitEnds PROVE Inv'
  OBVIOUS
<1>1. /\ UNCHANGED <<go, isConnected, audioGo, codecStop, toJoin, call, signalQ, codec,
                     codecThread, codecRunning, joined, joinOn, test, object, running, deleted,
                     audioTest, hurried, status>>
      /\ Main = "join" /\ pc' = [pc EXCEPT !["main"] = "ended"] /\ toJoin = << >>
  BY DEF ExitEnds, flags, codecs, tests, At, Main, Goto
<1>2. pc \in [Worker \cup {"main"} -> Place]
  BY DEF Inv, TypeOK, Place
<1>3. /\ pc' \in [Worker \cup {"main"} -> Place] /\ Main' = "ended"
      /\ \A w \in Worker : pc'[w] = pc[w]
  BY <1>1, <1>2 DEF Place, Main, Worker
<1>4. TypeOK'
  BY <1>1, <1>3 DEF Inv, TypeOK, Place
<1>5. Calling' /\ GoneForGood' /\ JoinsCodec'
  BY <1>1, <1>3 DEF Inv, Calling, GoneForGood, JoinsCodec, Worker
<1>6. JoinProgress'
  <2>1. PICK n \in 1 .. 7 : JoinedUpTo(n)
    BY DEF Inv, JoinProgress
  <2>2. n = 7
    BY <1>1, <2>1, JoinOrderSuffix DEF JoinedUpTo
  <2>3. JoinedUpTo(n)'
    BY <1>1, <1>3, <2>1, <2>2 DEF JoinedUpTo, At, CodecAlive
  <2> QED
    BY <2>3 DEF JoinProgress
<1>7. ASSUME ~ hurried PROVE Calm'
  <2>1. OneTest' /\ Pthreads' /\ Joiners' /\ StoppedByTest'
    BY <1>1, <1>3, <1>7 DEF Inv, Calm, OneTest, Pthreads, Joiners, StoppedByTest, TestAlive
  <2> QED
    BY <2>1 DEF Calm
<1> QED
  BY <1>1, <1>4, <1>5, <1>6, <1>7 DEF Inv

--------------------------------------------------------------------------------
(* The theorems.                                                            *)

(* Everything was started, and nobody has joined or tested yet.             *)
LEMMA InitInv == Init => Inv
<1> SUFFICES ASSUME Init PROVE Inv
  OBVIOUS
<1>1. /\ Main = "cmd" /\ pc["userAgent"] = "busy" /\ pc \in [Worker \cup {"main"} -> Place]
  BY DEF Init, Main, Worker, Place
<1>2. 1 \in Codec /\ 0 \in 0 .. MaxTests + 1 /\ \A i \in Codec : i > 1 <=> i # 1
  BY TestsAssumption DEF Codec
<1>3. toJoin = SubSeq(JoinOrder, 1, 6)
  BY JoinOrderSuffix DEF Init
<1>4. TypeOK
  <2>1. /\ codec \in [Codec -> {"none", "created", "running", "over"}]
        /\ joinOn \in [Test \cup {0} -> 0 .. MaxTests + 1]
        /\ test \in [Test -> TestPlace]
        /\ object \in [Test -> Test \cup {0}]
        /\ running \in [Test -> BOOLEAN] /\ codecThread \in Codec
    BY <1>2 DEF Init
  <2>2. /\ go \in BOOLEAN /\ isConnected \in BOOLEAN /\ audioGo \in BOOLEAN
        /\ codecStop \in BOOLEAN /\ codecRunning \in BOOLEAN /\ hurried \in BOOLEAN
    BY DEF Init
  <2>3. /\ call \in {"free", "calling", "in_call"} /\ signalQ \subseteq {"invite", "bye"}
        /\ joined \subseteq Codec /\ deleted \subseteq Test
        /\ audioTest \in Test \cup {0} /\ status \in {0, 1}
    BY DEF Init
  <2> QED
    BY <1>1, <1>3, <2>1, <2>2, <2>3 DEF TypeOK, Place
<1>5. Calling /\ GoneForGood /\ JoinsCodec
  BY <1>1 DEF Init, Calling, GoneForGood, JoinsCodec
<1>6. JoinProgress
  <2>1. JoinedUpTo(1)
    BY <1>1, <1>3 DEF JoinedUpTo
  <2> QED
    BY <2>1 DEF JoinProgress
<1>7. OneTest /\ Joiners /\ StoppedByTest
  BY <1>1, <1>2 DEF Init, OneTest, Joiners, StoppedByTest, TestAlive, Test
<1>8. Pthreads
  BY <1>2 DEF Init, Pthreads, Codec
<1> QED
  BY <1>4, <1>5, <1>6, <1>7, <1>8 DEF Inv, Calm

(* The invariant holds in every behaviour.                                  *)
THEOREM Invariance == Spec => []Inv
<1>1. Inv /\ [Next]_vars => Inv'
  <2> SUFFICES ASSUME Inv, [Next]_vars PROVE Inv'
    OBVIOUS
  <2>1. CASE UNCHANGED vars
    <3>1. UNCHANGED <<go, isConnected, audioGo, codecStop, pc, toJoin, call, signalQ, codec,
                      codecThread, codecRunning, joined, joinOn, test, object, running, deleted,
                      audioTest, hurried, status>>
      BY <2>1 DEF vars, flags, codecs, tests
    <3>2. TypeOK' /\ Calling' /\ GoneForGood'
      BY <3>1 DEF Inv, TypeOK, Calling, GoneForGood, Main
    <3>3. Aside
      BY <3>1 DEF Aside, codecs, Main, At
    <3> QED
      BY <3>2, <3>3, AsideKeeps
  <2>2. ASSUME NEW i \in Codec, CodecStep(i) PROVE Inv'
    BY <2>2, CodecStartsKeeps, CodecEndsKeeps DEF CodecStep
  <2>3. ASSUME NEW t \in Test, TestStep(t) PROVE Inv'
    BY <2>3, TestBeginsKeeps, TestGoKeeps, TestJoinsKeeps, TestStopsKeeps, TestRestartsKeeps
       DEF TestStep
  <2>4. CASE Exit
    BY <2>4, ExitClearsKeeps, ExitJoinsKeeps, ExitEndsKeeps DEF Exit
  <2> QED
    BY <2>1, <2>2, <2>3, <2>4, WorkersKeep, RtpSendFailsKeeps, UserAgentKeeps,
       InviteAndReuseKeep, TypeTestKeeps, TypeExitKeeps DEF Next
<1> QED
  BY <1>1, InitInv, PTL DEF Spec

(* Types.                                                                   *)
THEOREM TypeCorrect == Spec => []TypeOK
<1>1. Inv => TypeOK
  BY DEF Inv
<1> QED
  BY <1>1, Invariance, PTL

(* One codec thread at a time, however often tests stop and start it.       *)
THEOREM OneCodecAtATime == Spec => []OneCodec
<1>1. Inv => OneCodec
  <2> SUFFICES ASSUME Inv, ~ hurried, NEW i \in Codec, NEW j \in Codec,
                      CodecAlive(i), CodecAlive(j)
               PROVE  i = j
    BY DEF OneCodec
  <2>1. codecThread \in Codec /\ Pthreads
    BY DEF Inv, Calm, TypeOK
  <2>2. i = codecThread /\ j = codecThread
    BY <2>1, TestsAssumption DEF Pthreads, CodecAlive, Codec
  <2> QED
    BY <2>2
<1> QED
  BY <1>1, Invariance, PTL

(* After a test the codec is there again, whatever the flags were reset by. *)
THEOREM CodecServesAgain == Spec => []CodecServes
<1>1. Inv => CodecServes
  <2> SUFFICES ASSUME Inv, go, ~ hurried, Main = "cmd", \A t \in Test : ~ TestAlive(t)
               PROVE  ~ codecStop /\ \E i \in Codec : CodecAlive(i)
    BY DEF CodecServes, At, Main
  <2>1. /\ codecThread \in Codec /\ Pthreads /\ StoppedByTest
        /\ codec \in [Codec -> {"none", "created", "running", "over"}]
    BY DEF Inv, Calm, TypeOK
  <2>2. \A t \in Test : test[t] \notin {"join", "loop", "restart"}
    BY DEF TestAlive
  <2>3. ~ codecStop /\ codec[codecThread] # "over"
    BY <2>1, <2>2 DEF StoppedByTest
  <2>4. codec[codecThread] # "none"
    BY <2>1, TestsAssumption DEF Pthreads, Codec
  <2> QED
    BY <2>1, <2>3, <2>4 DEF CodecAlive
<1> QED
  BY <1>1, Invariance, PTL

(* Nothing is freed that a thread still uses.                               *)
THEOREM FreedWhenUnused == Spec => []SafeToFree
<1>1. Inv => SafeToFree
  <2> SUFFICES ASSUME Inv, Main = "ended", ~ hurried
               PROVE  /\ \A w \in Worker : At(w, "exited")
                      /\ \A i \in Codec : ~ CodecAlive(i)
    BY DEF SafeToFree, At, Main
  <2>1. JoinedUpTo(7)
    BY DEF Inv, JoinProgress, JoinedUpTo
  <2>2. \A w \in Worker : \E k \in 1 .. 6 : JoinOrder[k] = w
    BY DEF Worker, JoinOrder
  <2> QED
    BY <2>1, <2>2 DEF JoinedUpTo
<1> QED
  BY <1>1, Invariance, PTL
===============================================================================

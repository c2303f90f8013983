------------------------------ MODULE Lifecycle ------------------------------
(* The life of the process: the seven threads main() starts, the flags they  *)
(* loop on (go, isConnected, audioGo, codecStop), the audio test that takes  *)
(* the codec thread away and starts it again, and exit, which clears go and  *)
(* joins the threads one after the other.  Nothing protects the flags.       *)
(* Memos are left out but for the two that wait for the user agent; of a     *)
(* call there is left when it sets and clears isConnected (see UserAgent).   *)
EXTENDS Integers, Sequences

CONSTANTS
    MaxTests,   \* bounds the threads of audio tests
    PeerActs    \* whether anybody calls or answers

ASSUME TestsAssumption == MaxTests \in Nat /\ PeerActs \in BOOLEAN

Test == 1 .. MaxTests           \* the threads of audio tests
Codec == 1 .. MaxTests + 1      \* the pthreads the codec object had so far
Worker == {"udpReader", "udpWriter", "audioReader", "audioWriter", "userAgent"}
JoinOrder == <<"udpReader", "udpWriter", "codec", "audioReader", "audioWriter", "userAgent">>

VARIABLES
    go, isConnected, audioGo, codecStop,   \* the flags in Common
    pc,          \* where the main thread and the workers are
    toJoin,      \* the threads main() has not joined yet
    call,        \* what the user agent is doing
    signalQ,     \* the commands that wait for the user agent
    codec,       \* each pthread of the codec
    codecThread, \* thread_id of the codec object
    codecRunning,\* Thread::running of the codec object
    joined,      \* codec pthreads that were joined
    joinOn,      \* the codec pthread somebody waits for in join()
    test,        \* where the thread of each audio test is
    object,      \* the AudioIOTest it runs, numbered by its first thread
    running,     \* AudioIOTest::running, per object
    deleted,     \* the objects main() has deleted
    audioTest,   \* main()'s pointer to an object, 0 for NULL
    status,      \* status of the event the audio reader waits on
    hurried      \* history: a test or exit was typed before the last test was over

flags == <<go, isConnected, audioGo, codecStop>>
codecs == <<codec, codecThread, codecRunning, joined, joinOn>>
tests == <<test, object, running, deleted, audioTest, hurried>>
vars == <<flags, pc, toJoin, call, signalQ, codecs, tests, status>>

TestAlive(t) == test[t] \notin {"none", "done"}
CodecAlive(i) == codec[i] \in {"created", "running"}

(* Everything was started before the user can type.                         *)
Init ==
    /\ go = TRUE /\ isConnected = FALSE /\ audioGo = FALSE /\ codecStop = FALSE
    /\ pc = [w \in Worker \cup {"main"} |-> CASE w = "main" -> "cmd" [] w = "userAgent" -> "busy"
                                              [] w = "audioReader" -> "waiting"
                                              [] OTHER -> "top"]
    /\ toJoin = JoinOrder
    /\ call = "free"
    /\ signalQ = {}
    /\ codec = [i \in Codec |-> IF i = 1 THEN "running" ELSE "none"]
    /\ codecThread = 1
    /\ codecRunning = TRUE
    /\ joined = {}
    /\ joinOn = [j \in Test \cup {0} |-> 0]       \* main() joins as number 0
    /\ test = [t \in Test |-> "none"]
    /\ object = [t \in Test |-> 0]
    /\ running = [t \in Test |-> FALSE]
    /\ deleted = {}
    /\ audioTest = 0
    /\ status = 0
    /\ hurried = FALSE

Goto(w, l) == pc' = [pc EXCEPT ![w] = l]
At(w, l) == pc[w] = l

--------------------------------------------------------------------------------
(* The codec thread, and Thread::start and Thread::join as they are used on  *)
(* it.                                                                       *)

(* Thread::start: nothing if the thread is running.                         *)
Start ==
    \/ codecRunning /\ UNCHANGED <<codec, codecThread>>
    \/ /\ ~ codecRunning
       /\ \E i \in Codec :
            /\ codec[i] = "none" /\ \A j \in 1 .. i - 1 : codec[j] # "none"
            /\ codec' = [codec EXCEPT ![i] = "created"]
            /\ codecThread' = i

(* Thread::starter.                                                         *)
CodecStarts(i) ==
    /\ codec[i] = "created"
    /\ codec' = [codec EXCEPT ![i] = "running"]
    /\ codecRunning' = TRUE
    /\ UNCHANGED <<flags, pc, toJoin, call, signalQ, codecThread, joined, joinOn, tests, status>>

(* Mutant: the codec ends only when it is told to stop.                     *)
CodecEndsStopped(i) ==
    /\ codec[i] = "running"
    /\ codecStop
    /\ codec' = [codec EXCEPT ![i] = "over"]
    /\ codecRunning' = FALSE
    /\ UNCHANGED <<flags, pc, toJoin, call, signalQ, codecThread, joined, joinOn, tests, status>>

(* AdpcmCodec::run ends with go, or when a wait returns NULL while          *)
(* codecStop is set; Thread::starter clears the flag.                       *)
CodecEnds(i) ==
    /\ codec[i] = "running"
    /\ ~ go \/ codecStop
    /\ codec' = [codec EXCEPT ![i] = "over"]
    /\ codecRunning' = FALSE
    /\ UNCHANGED <<flags, pc, toJoin, call, signalQ, codecThread, joined, joinOn, tests, status>>

(* Mutant: join does not wait.                                              *)
JoinAtOnce(j) == TRUE

(* pthread_join by j of the codec pthread joinOn[j].  To join a pthread     *)
(* that was joined, or that another thread waits for, is undefined; it      *)
(* returns at once, or waits.                                               *)
JoinReturns(j) ==
    \/ codec[joinOn[j]] = "over"
    \/ joinOn[j] \in joined
    \/ \E k \in DOMAIN joinOn \ {j} : joinOn[k] = joinOn[j]

(* Mutant: join gives the thread up and counts it as stopped.               *)
JoinsAtOnce(j) ==
    /\ joined' = joined \cup {joinOn[j]}
    /\ joinOn' = [joinOn EXCEPT ![j] = 0]
    /\ codecRunning' = FALSE
    /\ UNCHANGED <<codec, codecThread>>

(* Thread::join.                                                            *)
Joins(j) ==
    /\ JoinReturns(j)
    /\ joined' = joined \cup {joinOn[j]}
    /\ joinOn' = [joinOn EXCEPT ![j] = 0]
    /\ UNCHANGED <<codec, codecThread, codecRunning>>

--------------------------------------------------------------------------------
(* The audio test, AudioIOTest::run.                                        *)

TestGone(t) == object[t] \in deleted

(* AudioIOTest::run sets the flag of the object.  A thread that is the      *)
(* second one started on it may find it deleted; that the process may die   *)
(* of it is left out, as every behaviour up to there is one of the model.   *)
TestBegins(t) ==
    /\ test[t] = "created"
    /\ running' = [running EXCEPT ![object[t]] = TRUE]
    /\ test' = [test EXCEPT ![t] = "begin"]
    /\ UNCHANGED <<flags, pc, toJoin, call, signalQ, codecs, object, deleted, audioTest, hurried,
                   status>>

TestGo(t) ==
    /\ test[t] = "begin"
    /\ audioGo' = TRUE /\ codecStop' = TRUE
    /\ joinOn' = [joinOn EXCEPT ![t] = codecThread]
    /\ test' = [test EXCEPT ![t] = "join"]
    /\ UNCHANGED <<go, isConnected, pc, toJoin, call, signalQ, codec, codecThread, codecRunning,
                   joined, object, running, deleted, audioTest, hurried, status>>

TestJoins(t) ==
    /\ test[t] = "join"
    /\ Joins(t)
    /\ test' = [test EXCEPT ![t] = "loop"]
    /\ UNCHANGED <<flags, pc, toJoin, call, signalQ, object, running, deleted, audioTest, hurried,
                   status>>

(* main() deletes a test that runs; the flag the test reads from then on    *)
(* lies in freed memory, which may be used again.                           *)
MemoryReused(t) ==
    /\ TestGone(t) /\ TestAlive(t)
    /\ \E b \in BOOLEAN : running' = [running EXCEPT ![object[t]] = b]
    /\ UNCHANGED <<flags, pc, toJoin, call, signalQ, codecs, test, object, deleted, audioTest,
                   hurried, status>>

(* Mutant: the end of a test leaves codecStop set.                          *)
TestStopsKeepsStop(t) ==
    /\ test[t] = "loop" /\ ~ running[object[t]]
    /\ audioGo' = FALSE
    /\ test' = [test EXCEPT ![t] = "restart"]
    /\ UNCHANGED <<codecStop, go, isConnected, pc, toJoin, call, signalQ, codecs, object,
                   running, deleted, audioTest, hurried, status>>

(* The flag a deleted test reads may be anything, see MemoryReused.         *)
TestStops(t) ==
    /\ test[t] = "loop" /\ ~ running[object[t]]
    /\ audioGo' = FALSE /\ codecStop' = FALSE
    /\ test' = [test EXCEPT ![t] = "restart"]
    /\ UNCHANGED <<go, isConnected, pc, toJoin, call, signalQ, codecs, object, running, deleted,
                   audioTest, hurried, status>>

TestRestarts(t) ==
    /\ test[t] = "restart"
    /\ Start
    /\ test' = [test EXCEPT ![t] = "done"]
    /\ UNCHANGED <<flags, pc, toJoin, call, signalQ, codecRunning, joined, joinOn, object,
                   running, deleted, audioTest, hurried, status>>

--------------------------------------------------------------------------------
(* The workers.                                                             *)

(* UdpReader::run and UdpWriter::run, as far as they end with go.           *)
UdpEnds(w) ==
    /\ w \in {"udpReader", "udpWriter"}
    /\ At(w, "top") /\ ~ go
    /\ Goto(w, "exited")
    /\ UNCHANGED <<flags, toJoin, call, signalQ, codecs, tests, status>>

(* The network refuses an RTP packet: UdpWriter ends everything but main(). *)
RtpSendFails ==
    /\ At("udpWriter", "top") /\ isConnected
    /\ go' = FALSE /\ isConnected' = FALSE
    /\ UNCHANGED <<audioGo, codecStop, pc, toJoin, call, signalQ, codecs, tests, status>>

AudioOn == isConnected \/ audioGo

(* AudioReader::run looks at the flags after each wait on its event and     *)
(* stays in the inner loop while one is set; openAudioInput may fail, which *)
(* ends the thread.  Where it goes on waiting it has found go set.          *)
ReaderOn == Goto("audioReader", "recording") \/ Goto("audioReader", "exited")
ReaderOff == Goto("audioReader", IF go THEN "waiting" ELSE "exited")

(* Mutant: a wait without a deadline, that looks at status first.           *)
ReaderWaitsOnly ==
    /\ At("audioReader", "woken")
    /\ status' = 0
    /\ IF AudioOn THEN ReaderOn ELSE ReaderOff
    /\ UNCHANGED <<flags, toJoin, call, signalQ, codecs, tests>>

(* MyEvent::Wait(ms) does not look at status before it waits.  It keeps it  *)
(* when the deadline has passed, as it may have for a thread that was also  *)
(* signalled, and resets it otherwise: when it was signalled, woken for no  *)
(* reason, or given a deadline that is no time (EINVAL).                    *)
ReaderLooks ==
    /\ At("audioReader", "waiting") \/ At("audioReader", "woken")
    /\ status' \in {status, 0}
    /\ IF AudioOn THEN ReaderOn ELSE ReaderOff
    /\ UNCHANGED <<flags, toJoin, call, signalQ, codecs, tests>>

ReaderStops ==
    /\ At("audioReader", "recording") /\ ~ AudioOn
    /\ ReaderOff
    /\ UNCHANGED <<flags, toJoin, call, signalQ, codecs, tests, status>>

(* AudioWriter::run; openAudioOutput may fail as well.                      *)
WriterLooks ==
    /\ At("audioWriter", "top")
    /\ IF ~ go THEN Goto("audioWriter", "exited")
       ELSE AudioOn /\ (Goto("audioWriter", "playing") \/ Goto("audioWriter", "exited"))
    /\ UNCHANGED <<flags, toJoin, call, signalQ, codecs, tests, status>>

WriterStops ==
    /\ At("audioWriter", "playing") /\ ~ AudioOn
    /\ Goto("audioWriter", "top")
    /\ UNCHANGED <<flags, toJoin, call, signalQ, codecs, tests, status>>

Reader == ReaderLooks \/ ReaderStops
Writer == WriterLooks \/ WriterStops

--------------------------------------------------------------------------------
(* The user agent: it looks at go, then handles one command, packet or      *)
(* timeout, whatever happens to the flags meanwhile.                        *)
Ua(next) == [pc EXCEPT !["userAgent"] = next]
Looped == Ua(IF go THEN "busy" ELSE "exited")

(* Mutant: an event that counts.                                            *)
SignalReaderCounts ==
    /\ pc' = [Looped EXCEPT !["audioReader"] = IF @ = "waiting" THEN "woken" ELSE @]
    /\ status' = status + 1

(* MyEvent::Signal, by the user agent: with status 1 it signals nobody.     *)
SignalReader ==
    /\ pc' = [Looped EXCEPT !["audioReader"] =
                 IF status = 0 /\ @ = "waiting" THEN "woken" ELSE @]
    /\ status' = 1

(* VIVOCE_SIP_INVITE: sendInvite looks the host up, which may take seconds. *)
UaInvites ==
    /\ At("userAgent", "busy")
    /\ "invite" \in signalQ
    /\ signalQ' = signalQ \ {"invite"}
    /\ IF call = "free" THEN pc' = Ua("inviting") /\ call' = "calling"
                        ELSE pc' = Looped /\ UNCHANGED call
    /\ UNCHANGED <<flags, toJoin, codecs, tests, status>>

(* Common::reset, at the end of that handler.                               *)
UaResets ==
    /\ At("userAgent", "inviting")
    /\ isConnected' = FALSE /\ go' = TRUE /\ audioGo' = FALSE /\ codecStop' = FALSE
    /\ pc' = Ua("busy")
    /\ UNCHANGED <<toJoin, call, signalQ, codecs, tests, status>>

(* VIVOCE_SIP_BYE.                                                          *)
UaSaysBye ==
    /\ At("userAgent", "busy")
    /\ "bye" \in signalQ
    /\ signalQ' = signalQ \ {"bye"}
    /\ UNCHANGED call
    /\ isConnected' = FALSE
    /\ pc' = Looped
    /\ UNCHANGED <<go, audioGo, codecStop, toJoin, codecs, tests, status>>

(* OK to an INVITE (sendAck), which signals the audio reader, or ACK to the *)
(* OK of a call that came and was accepted, which does not.                 *)
UaConnects ==
    /\ PeerActs /\ At("userAgent", "busy")
    /\ call \in {"calling", "free"}
    /\ call' = "in_call" /\ isConnected' = TRUE
    /\ IF call = "calling" THEN SignalReader ELSE pc' = Looped /\ UNCHANGED status
    /\ UNCHANGED <<go, audioGo, codecStop, toJoin, signalQ, codecs, tests>>

(* The call ends: a BYE, a refusal, or a timeout (cleanup).                 *)
UaHangsUp ==
    /\ At("userAgent", "busy")
    /\ call' = "free" /\ isConnected' = FALSE
    /\ pc' = Looped
    /\ UNCHANGED <<go, audioGo, codecStop, toJoin, signalQ, codecs, tests, status>>

(* A pass of the loop in which none of this happens.                        *)
UaIdles ==
    /\ At("userAgent", "busy")
    /\ pc' = Looped
    /\ UNCHANGED <<flags, toJoin, call, signalQ, codecs, tests, status>>

(* What the thread does of itself, and what the peer and time bring.        *)
UaRuns == UaInvites \/ UaResets \/ UaSaysBye \/ UaIdles
UserAgent == UaRuns \/ UaConnects \/ UaHangsUp

--------------------------------------------------------------------------------
(* The console and exit, VivaVoce::run in the main thread.                  *)

TypeInvite ==
    /\ At("main", "cmd")
    /\ ~ isConnected /\ signalQ = {}
    /\ signalQ' = {"invite"}
    /\ UNCHANGED <<flags, pc, toJoin, call, codecs, tests, status>>

(* main() clears the flag of the test and deletes the test under it.        *)
DeleteTest ==
    /\ running' = [running EXCEPT ![audioTest] = FALSE]
    /\ deleted' = deleted \cup {audioTest}

(* testaudio.  Until a thread has set the flag of the test, the command     *)
(* starts another one on the same object; afterwards it deletes the object. *)
TestDeleted ==
    /\ audioTest # 0 /\ running[audioTest]
    /\ DeleteTest /\ audioTest' = 0
    /\ UNCHANGED <<test, object, hurried>>

TestStarted ==
    /\ audioTest # 0 => ~ running[audioTest]
    /\ \E t \in Test :
         /\ test[t] = "none" /\ \A u \in 1 .. t - 1 : test[u] # "none"
         /\ test' = [test EXCEPT ![t] = "created"]
         /\ audioTest' = IF audioTest = 0 THEN t ELSE audioTest
         /\ object' = [object EXCEPT ![t] = audioTest']
    /\ hurried' = (hurried \/ \E u \in Test : TestAlive(u))
    /\ UNCHANGED <<running, deleted>>

TypeTest ==
    /\ At("main", "cmd") /\ ~ isConnected
    /\ TestDeleted \/ TestStarted
    /\ UNCHANGED <<flags, pc, toJoin, call, signalQ, codecs, status>>

(* A call is given a second to end (sleep is no promise that it has).       *)
TypeExit ==
    /\ At("main", "cmd")
    /\ IF audioTest # 0 /\ running[audioTest] THEN DeleteTest ELSE UNCHANGED <<running, deleted>>
    /\ hurried' = (hurried \/ \E u \in Test : TestAlive(u))
    /\ signalQ' = IF isConnected THEN signalQ \cup {"bye"} ELSE signalQ
    /\ Goto("main", "stop")
    /\ UNCHANGED <<flags, toJoin, call, codecs, test, object, audioTest, status>>

ExitStops ==
    /\ At("main", "stop")
    /\ go' = FALSE
    /\ Goto("main", "disconnect")
    /\ UNCHANGED <<isConnected, audioGo, codecStop, toJoin, call, signalQ, codecs, tests, status>>

(* The signals to the queues that follow need no step: every wait there has *)
(* a deadline.                                                              *)
ExitDisconnects ==
    /\ At("main", "disconnect")
    /\ isConnected' = FALSE
    /\ Goto("main", "join")
    /\ UNCHANGED <<go, audioGo, codecStop, toJoin, call, signalQ, codecs, tests, status>>

(* waitForThreadsToDie.                                                     *)
ExitJoins ==
    /\ At("main", "join") /\ toJoin # << >>
    /\ IF Head(toJoin) = "codec" THEN Joins(0)
       ELSE /\ At(Head(toJoin), "exited")
            /\ joinOn' = IF Head(toJoin) = "udpWriter" THEN [joinOn EXCEPT ![0] = codecThread]
                                                       ELSE joinOn
            /\ UNCHANGED <<codec, codecThread, codecRunning, joined>>
    /\ toJoin' = Tail(toJoin)
    /\ UNCHANGED <<flags, pc, call, signalQ, tests, status>>

(* The pools are cleared, run() returns, ~VivaVoce deletes everything.      *)
ExitEnds ==
    /\ At("main", "join") /\ toJoin = << >>
    /\ Goto("main", "ended")
    /\ UNCHANGED <<flags, toJoin, call, signalQ, codecs, tests, status>>

Exit == ExitStops \/ ExitDisconnects \/ ExitJoins \/ ExitEnds

--------------------------------------------------------------------------------
Udp == \E w \in {"udpReader", "udpWriter"} : UdpEnds(w)
CodecStep(i) == CodecStarts(i) \/ CodecEnds(i)
TestStep(t) ==
    \/ TestBegins(t) \/ TestGo(t) \/ TestJoins(t)
    \/ TestStops(t) \/ TestRestarts(t)

(* With the main thread the process ends.                                   *)
Next ==
    /\ ~ At("main", "ended")
    /\ \/ TypeInvite \/ TypeTest \/ TypeExit \/ Exit
       \/ Udp \/ RtpSendFails \/ Reader \/ Writer \/ UserAgent
       \/ \E i \in Codec : CodecStep(i)
       \/ \E t \in Test : TestStep(t) \/ MemoryReused(t)

Spec == Init /\ [][Next]_vars

(* Every thread goes on.  The wait of the codec returns NULL again and      *)
(* again: the queue is empty most of the time, and near the end of a second *)
(* an empty queue is all it takes (DeadlineNsec in SyncQueue).              *)
FairSpec ==
    /\ Spec
    /\ WF_vars(Exit) /\ WF_vars(Udp) /\ WF_vars(UaRuns)
    /\ WF_vars(Reader) /\ WF_vars(Writer)
    /\ WF_vars(\E i \in Codec : CodecStep(i))
    /\ WF_vars(\E t \in Test : TestStep(t))

--------------------------------------------------------------------------------
(* The types of the variables.                                              *)
TypeOK ==
    /\ go \in BOOLEAN /\ isConnected \in BOOLEAN /\ audioGo \in BOOLEAN
    /\ codecStop \in BOOLEAN /\ codecRunning \in BOOLEAN /\ hurried \in BOOLEAN
    /\ pc \in [Worker \cup {"main"} ->
                 {"top", "waiting", "woken", "recording", "playing", "busy",
                  "inviting", "exited", "cmd", "stop", "disconnect", "join", "ended"}]
    /\ \E n \in 1 .. 7 : toJoin = SubSeq(JoinOrder, n, 6)
    /\ call \in {"free", "calling", "in_call"}
    /\ signalQ \subseteq {"invite", "bye"}
    /\ codec \in [Codec -> {"none", "created", "running", "over"}]
    /\ codecThread \in Codec /\ joined \subseteq Codec
    /\ joinOn \in [Test \cup {0} -> 0 .. MaxTests + 1]
    /\ test \in [Test -> {"none", "created", "begin", "join", "loop", "restart", "done"}]
    /\ object \in [Test -> Test \cup {0}]
    /\ running \in [Test -> BOOLEAN] /\ deleted \subseteq Test
    /\ audioTest \in Test \cup {0} /\ status \in {0, 1}

(* Two codec threads would work on one codec state: stopped and started     *)
(* again by tests, and joined by tests and by main(), there is one at a     *)
(* time, unless the user hurries (AudioIOTest::run, Thread::start).         *)
OneCodec == hurried \/ \A i, j \in Codec : CodecAlive(i) /\ CodecAlive(j) => i = j

(* A test gives the codec thread back: while the program runs and no test   *)
(* is under way, a codec thread is there and will not stop, whatever call   *)
(* began or ended and reset the flags during the test.                      *)
CodecServes ==
    (go /\ ~ hurried /\ At("main", "cmd") /\ \A t \in Test : ~ TestAlive(t))
        => ~ codecStop /\ \E i \in Codec : CodecAlive(i)

(* What run() and ~VivaVoce delete is used by no thread any more, unless a  *)
(* test was still under way when exit was typed: nobody joins that thread,  *)
(* and it starts a codec thread after main() joined the last one.           *)
SafeToFree ==
    At("main", "ended") /\ ~ hurried =>
        /\ \A w \in Worker : At(w, "exited")
        /\ \A i \in Codec : ~ CodecAlive(i)

(* exit does not hang: once main() joins the threads they all end, with the *)
(* codec thread stopped by a test or joined by both, and the audio threads  *)
(* in their inner loops.  The exceptions: a flag that main() cleared is set *)
(* again behind its back; the test goes on, because its thread had not set  *)
(* running yet when exit was typed (VivaVoce.cpp:282), or because it reads  *)
(* the flag in freed memory that was used anew.                             *)
JoinEnds ==
    At("main", "join") ~> ~ At("main", "join") \/ go \/ isConnected \/ \E o \in Test : running[o]

(* Audio starts with the call on both sides, by the waits of the reader     *)
(* alone: only the caller signals it, and signals are missed (MyEvent,      *)
(* sendAck).  Nobody has to hang up.                                        *)
AudioStarts ==
    isConnected ~> ~ isConnected \/ pc["audioReader"] \in {"recording", "exited"}

--------------------------------------------------------------------------------
(* What README.txt says, and the code does not keep.                        *)

(* README.txt:57: 'exit' quits the program.                                 *)
ExitQuits == At("main", "stop") ~> At("main", "ended")
================================================================================

# Viva Voce in TLA+

Viva Voce (`src/src/`, C++ and C) is a voice chat program: a SIP user agent that sets up
calls over UDP, and a media pipeline that records, compresses, sends, receives and plays
audio. One process has seven threads that share one object (`Common`), talk through four
queues, and use no lock around the state they share. This directory holds TLA+ modules
that model it, TLC runs that check them, and TLAPS proofs.

## 1. Inventory

| Part | State | Operations | Hard because |
|---|---|---|---|
| User agent (`UserAgent.cpp`) | call state, default action, repetition counter, call id, host names, the packet last written and last read | one handler per command, one per state for received packets, the default action on a timeout, `cleanup` | packets and timeouts in any order; fields of `sipPackSend` and `sipPackRecv` outlive the call they came from |
| SIP messages (`SIP.cpp`) | - | `read`, `write` | a failed `read` leaves freed pointers, or those of the packet that failed |
| Console (`VivaVoce.cpp`) | - | commands, `exit` with joins | reads the flags `isConnected` and `isRinging` that others write |
| UDP threads (`UdpRW.cpp`) | the remote addresses, `sendRR` | receive SIP, RTP, RTCP; send queued memos and reports | an address may change between queueing and sending |
| Shared state (`Common.cpp`) | `go`, `isConnected`, `audioGo`, `codecStop` | `reset`, `emptyQueue` | an INVITE resets flags that `exit` and the audio test have set |
| Work queue (`SyncQueue.cpp`) | deque, mutex, condition variable, count of waiters | `enQ`, `deQ`, `signalData`, `signal`, `waitForData` | timeouts, spurious wakeups, several consumers, deadline arithmetic |
| Memo pools (`ResourceManager.cpp`) | free memos | `init`, `allocMemo`, `releaseMemo`, `downsize`, `clear` | memos change owner without locks; `cleanup` empties queues under the feet of their users |
| Media threads (`AudioRW.cpp`, `AdpcmCodec.cpp`) | encoder and decoder state | record, encode, decode, play | start and stop with `isConnected`; blocks arrive late, twice or not at all |
| Threads, events (`Thread.cpp`) | `running`, event status | start, join, signal, wait | lost signals, a thread joined by two others |
| Audio test (`AudioTest.cpp`) | `running` | stops the codec thread, plays back, starts it again | its own thread sets `running`, which `main` tests; deleted by `main` while it runs |
| RTP and RTCP (`RTP.cpp`, `RTPManager.cpp`) | sequence numbers, counts, report timer, one formatter | send, receive, sender and receiver reports | wrap-around, reordering, two threads without a lock, counts of the last call |
| Session description (`SDP.cpp`) | what `read` remembers of the lines before | `read`, `write` | the order of lines, with repeats and media descriptions; text written after the end of its line |
| ADPCM, u-law (`kodek.c`, `ulaw.c`) | predictor and step | encode, decode | 16 bits, clamping, the ends of the tables |

How they interact:

```
 console --signalQ--> user agent --sendQ--> UDP writer ==> network ==> UDP reader --signalQ--> user agent
 audio reader --codecQ--> codec --sendQ--> UDP writer          UDP reader --codecQ--> codec --playQ--> audio writer
 user agent --isConnected, isRinging--> everybody
 console, user agent --go--> everybody                audio test --codecStop, join, start--> codec
```

What makes each part correct: the flags agree with the state of the call; a call has one
caller and one callee, the user agreed to it, and it ends when it should; packets reach the
host and name the call they are meant for; the queue loses neither items nor wakeups; a
memo has one owner; there is one codec thread and it comes back after a test; the program
ends when told to and deletes nothing in use; losses and round-trip times are what they
claim, and every sender report is answered; what is decoded follows what was captured; what `write` writes `read` reads.
`PROJECT.json` lists the hazards with the properties that watch them.

## 2. Modules

| Module | Models | State and actions |
|---|---|---|
| `UserAgent` | `UserAgent.cpp` | `ua[a]`: the object of agent `a` with the `Common` fields it shares, sendQ included; `signalQ[a]`. The functions of the class are operators on the record (`SendBye`, `Cleanup`, ...), each branch of `run()` an action (`CmdInvite`, `RcvdSentInv`, `Timeout`, ...) |
| `SipCalls` | several processes and the network | adds the console (`TypeInvite`, ...), `UdpWriter`, `UdpReader`, the packets in flight, and `StrangerSends`, a phone of another make. All properties of calls |
| `PhoneCalls` | what the users of several agents rely on | the abstract specification of calls: per telephone what its user sees (`line`: idle, inviting, ringing, accepted, talking, ...), the calls there have been, and who placed, heard or accepted which (`past`). No packets, flags, queues or timeouts |
| `CallHistory` | - | `SipCalls` with a history variable `past` that nothing reads, and the mapping from `SipCalls` to `PhoneCalls`: the line is a function of state, `callIdHost` and call id of the agent |
| `SyncQueue` | `SyncQueue.cpp`, pthread build | deque, count, per thread: outside, asleep on the condition variable, or woken. An action is what happens between taking the mutex and giving it up |
| `FifoQueue` | what users of a queue rely on | the abstract specification `SyncQueue` implements |
| `MemoFlow` | pools, media threads, UDP threads, `cleanup` | the queues and pools as sequences of memos, memos in the hands of threads, size, code and `data2` of each memo; where `UdpWriter` is in its loop (`writer`: waiting, reporting, or at one of the steps of `downsize`) and `cleanup` in emptying a queue (`phase`, `counted`) |
| `Lifecycle` | `VivaVoce.cpp`, `Thread.cpp`, `AudioTest.cpp`, the loops of all threads | the four flags of `Common`, where each thread is, each pthread the codec object ever had, who joins which, the threads of audio tests with the objects they run, `running` of each object and `main`'s pointer to one, the event of the audio reader |
| `Rtp` | `RTPManager.cpp`, `RTP.cpp`, and `UdpRW.cpp` around them | one direction of a call: the talker's sequence number and reports, the listener's counts, and where its two threads are between reading and writing shared state: `BeginSR`, `SRArrived`, `EndSR` of `UdpReader` against `TestRR`, `ClearRR`, `BeginRR`, `SendRR` of `UdpWriter` |
| `AudioCodec` | `kodek.c`, `ulaw.c`, `AdpcmCodec.cpp` | the tables and functions as operators; the loops of encoder and decoder, one sample or one code at a step; the encoder makes blocks, the decoder gets any of them at any time |
| `Sdp` | `SDP.cpp` | `write` as an operator, `read` as one action per line |
| `SipCallsProofs`, `CallPartiesProofs`, `SyncQueueProofs`, `MemoFlowProofs`, `LifecycleProofs`, `RtpProofs`, `AudioCodecProofs`, `SdpProofs` | | theorems and their proofs (section 4) |
| `MCSipCalls`, `MCPhoneCalls`, `MCSyncQueue`, `MCMemoFlow`, `MCLifecycle`, `MCRtp`, `MCMedia` | | instances for TLC; `MCMedia` extends `MCRtp` and puts `Rtp`, `AudioCodec` and `Sdp`, which share nothing, side by side |

`SipCalls` extends `UserAgent`, `CallHistory` extends `SipCalls` and instantiates `PhoneCalls`. `SyncQueue` justifies that the others treat an operation on
a queue as atomic, and that a wait with a timeout may return empty-handed at once.
`MemoFlow` leaves open which outcome a handler of the user agent has and says what each
outcome does with the memo; `Lifecycle` leaves open when a handler sets and clears
`isConnected`; `UserAgent` says when. `AudioCodec` is what happens to the memo `MemoFlow`
passes through the codec, `Rtp` what happens to it between the UDP threads of two hosts,
and `Sdp` what `UserAgent` calls a usable description.

Each module keeps, right before the definition concerned, the altered definitions marked
*Mutant*: plausible bugs that the property named in `PROJECT.json` must catch.

### Abstractions

- Time: `waitMSec` is dropped, and a wait may time out whenever signalQ is empty. This
  is not only convenience: near the end of a second `waitForData` does return at once
  (`DeadlineNsec` in `SyncQueue`), for every timeout that is not whole seconds.
- A handler of the user agent is one step in `SipCalls`, and the console's test of a flag
  with the memo it queues is one step. Writes of one address are not torn. In `Lifecycle`
  the handler of an INVITE is two steps, before `reset` and `reset` itself.
- A call id is a value nobody drew before (`rand()*rand()*rand()`); two draws never agree.
- Packets are records: method or response, call id, contact, usable session description.
  An unparsable packet leaves the contact as it was, unreadable, since
  `SIPPacket::reset` has freed it, or its own, if it fails after its Contact line.
- The network is a set: two identical packets in flight count as one.
- An agent does not call itself. Ports are left out.
- The default actions `SIP_INV_ACK` and `SIP_RINGING` are never assigned and are left out.
- `MemoFlow`: allocating a memo and queueing it is one step. Downsizing is not: `UdpWriter`
  looks at the size of a pool, counts what it is to delete, and deletes memo by memo, while
  others allocate from the pool; likewise `emptyQueue` looks whether there is a memo and takes
  one, which another thread may have taken by then. Whether it is time for a sender report is
  left open. `COMMAND` stands for the four command codes; `total` and the statistics are left
  out, as is the audio test (`audioGo`). A memo of a code its thread does not know is lost, as
  in the code, whose `switch` has no default; `OnlyUnparsedLost` says that there is none.
- `Lifecycle`: of the queues only the two memos that wait for the user agent; every wait on a
  queue ends. `pthread_join` of a thread that was joined, or that another thread waits for,
  is undefined and returns at once or waits. `AudioIOTest::running` is set by the test's own
  thread: a command typed before it is starts a second thread on the same object, and an `exit`
  typed then stops nothing. The flag of a deleted test lies in freed memory and may read as
  either value. That the process may die of using a deleted object is left out, as every
  behaviour up to there is one of the model. `AudioIOTest::running` hides `Thread::running`,
  and both are there. `MyEvent::Wait` resets the status unless its deadline has passed. A
  device that does not open ends its thread.
- `Rtp`: integers stand for `unsigned long`; the sequence number wraps at `SeqSize`, the
  seconds of `getRTPTime` at `SecMod`, differences of times at `LongMod` (2^32 or 2^64). `init`
  sets the sequence numbers of a call anew, but only the caller's `reset` clears the counts, the
  report timer and `sendRR`: `Before` is what the two ends begin with. Both threads of a host
  parse and write through one formatter, with one header, one `sRep` and one `rRep`. What passes
  through it comes out as it was or, when the other thread got in between, as anything: a
  packet with any sequence number, a report with any of the values `Strays`, dropped, or taken
  for one of the other kind (`MisreadSRs`, `MisreadRRs`). The rest of the state two threads
  share is read and written in the steps of the code. Jitter, SSRC, the cycle count and the
  fraction lost are left out (`parseBytes` never reads an SSRC, and the fraction is always 0).
- `AudioCodec`: the tables `u2s` and `s2u` and `exp_lut` are given by formulas that were
  compared with the tables entry by entry. `roundOff` and the conversion to `short` are
  modelled by what they do, halves, negative numbers and 16 bits included (a `float` out of
  range is cut as on x86).
- `Sdp`: a line is its key, a value the number of its line; values are well-formed. `Long` is
  any key of more than one character. A TTL or a number of addresses, which `write` puts after
  the end of the connection's line (`multicast`), makes one of what follows.
  `read` begins with a packet nothing was read into before (`reset` leaves the session's
  fields of an earlier message).

## 3. Runs

Passing runs (TLC, two workers, each below five minutes):

| Run | Instance | Shows |
|---|---|---|
| `strangers` | one agent, whose user dials good, bad and empty addresses; one phone that sends any packet in any order; packets are repeated; two calls | types; `PendingActionFits`, which implies `ConnectedIffInCall`, `RingingCanBeAnswered`, `CallIdHostValid` and `RemoteHostSet`; `ConsentedCall`: an answer typed while no other command waits goes to the call that rang then |
| `glare` | both agents call each other, two calls; loss and reordering | `NoEarlyConnect`, `TwoPartyCalls`; `ImplementsPhoneCalls`: every step of the agents is a step of `PhoneCalls` or changes nothing their users see |
| `calls_end` | two calls of one user, loss | `ByeEnds`; `RingingEnds` and `InviteEnds` with one exception, `BusySubsides`: a caller that redials while the callee still rings for the lost first call starts the endless exchange of BUSY of `reject_busy`, without any third phone |
| `queue_work` | two consumers with any timeouts, a producer that also empties the queue, users of a pool, three items | count, wakeups; FIFO, every item taken |
| `memos` | all threads, an empty audio pool and one signalling memo, two memos at most | one owner, fitting sizes, losses only with unparsable packets, the flag of BUSY never reused; the audio pool is downsized meanwhile. `cleanup` ends, memos return |
| `lifecycle` | calls, one audio test, `exit` at any time | `OneCodec`, `CodecServes`, `SafeToFree` for a user who does not start a test or exit while a test is still ending (`hurried`); `AudioStarts`, in calls that nobody has to end; `JoinEnds`: the joins return unless a flag is set again behind `main`'s back, or the test goes on because `exit` came before its thread had set `running`, or because it reads freed memory |
| `media` | two blocks of 161 samples out of jumps between any two levels, and square tones up to 32767; the description the program offers, one without a name, others with any of four session fields, TTLs, keys of media, up to two attributes and times, and two or no media; short messages of any keys; three packets with sequence numbers modulo 2, or two sender reports, through a formatter that garbles what it likes, with and without leftovers of an earlier call | `DecoderInStep`, `NeverFarther`, `Settles`, `SteadyKept`, `ToneKept`; `LinesFiled`, `OrderAccepted`, `AllRoundTrip`; `LossExact`, `SrRemembered` |

What `PhoneCalls` promises: a call is placed once; it rings at one telephone, never at the one it was
placed from, and does not ring again after it ended unless the network repeats packets
(`MayRepeat`); the caller is connected only to a call that somebody accepted; the callee only to
one it accepted itself, and then, of two agents, only when its caller no longer waits
(`Orderly`). It does not promise that both are connected at the same time, nor that an accepted
call is connected: after `accept` a timeout may make the telephone ring again (`RingAgain`, the
finding of `accept_late`), and a call may end at any time, since every packet may be lost.
It does not even promise that a caller is there when the callee is connected: an
ACK names the call id written last, so that one for another call connects a callee that
accepted (three agents, see below). Its own mutant, an agent that takes the OK of
any call for the answer to the one it placed (`Answers`), breaks it when the OK of a call that timed
out arrives after the next one was placed.

Some of what these runs show is not what one may expect.

- `ConsentedCall` is about an answer typed while an incoming call rings and no other command
  waits (`heard`, `alone`, history variables in the memo). `main` checks neither. An `accept`
  typed while one's own call still waits for its answer is nobody's. Of two answers that wait
  for one call, the first is taken, packets between them in signalQ end that call and bring
  another one, and the second accepts that; with `QueueBound` 5, `NetBound` 1 and a stranger that sends INVITE, ACK and BYE, TLC
  finds `ConsentedCall` violated when `alone` is left out, and holding (2 million states) with
  it. In the run `strangers` the queue is too short to get there; the proof is about any queue.
- `NoEarlyConnect` is true of two agents only: with three, C has invited B, B's OK to that call
  is late, and B has given up when A invites it; a late packet makes C the contact of B, which
  rings C instead of A, C's BUSY names A's call, then the old OK arrives and C's ACK, naming
  A's call, too; B accepts and is connected while A waits.
- `LossExact` is about calls whose sequence numbers have not wrapped. The branch of
  `handleRTPRecv` that is marked `//rollover` (`RTPManager.cpp:224-228`) is never taken, since
  `recvSeqNext` is an `unsigned long` one above a 16-bit number, and each wrap takes 65536 from
  the losses. It also needs that no sequence number was read wrongly while `UdpWriter` filled
  the formatter (`mixed`), and counts a packet that arrives twice as two, as RFC 3550 does.
- `SrRemembered` says that no sender report is forgotten, not that the answer is right: LSR and
  DLSR of an answer may be of two reports, when one arrives while the answer is built, and the
  formatter may garble it. What remains true of the round-trip time is too little to be a
  property; what `README.txt` says of it is violated, see `rtt`.
- `SteadyKept`: the second zero of u-law, 127, comes back as the first, 255.
- `AllRoundTrip` says which descriptions `read` gets back from what `write` wrote: those that
  are `Readable`. Of a description with a time zone, a key or an attribute of the session, and a
  time, `write` makes what `read` refuses. A TTL or a number of addresses ends up in front of the
  next line, which `read` refuses too. A media description's own key is written only if the
  session has one, and then every media description gets a key line. The program's own
  descriptions have none of these.
- `OneCodec` and `SafeToFree` are about a user who waits for a test to end. One who does not
  (`hurried`) has two threads join the same codec thread, two codec threads, or objects deleted
  under a running thread.

Runs that find a violation. Each states a line of `README.txt` of the program and shows
that the code does not keep it:

| Run | Line | What happens |
|---|---|---|
| `reject_busy` | 55 | A third phone calls while a call rings and is told BUSY. The DECLINE of the `reject` typed next names the call of that phone (as would a BYE or an ACK). The caller does not know the call that was declined and says BUSY, the callee answers BUSY to that, and so on. Every packet restarts the wait, so no timeout ends it. |
| `accept_busy` | 54 | While a call rings, a third phone calls. The next RINGING takes that phone for the caller, and the OK goes there. |
| `accept_late` | 54, 94 | After `accept` the default action is still to ring: a timeout before the ACK comes sets the state back, the ACK is ignored, the caller alone is connected. |
| `exit_quits` | 57 | `invite`, and `exit` right after it: `reset`, at the end of the INVITE's handler, sets `go` again after `main` cleared it. All threads keep running and `main` waits for them for ever. |
| `rtt` | 67 | The round-trip time is "calculated as  specified in RFC 3550". `getRTPTime` (`RTP.h:19`) puts `tv_usec >> 16` where the fraction of a second in units of 2^-16 belongs, so that a second has 16 units in the lower half and 65536 in the upper: when a second begins on the way, or between a report and its answer, the result is off by the difference, although nothing was lost or garbled; likewise when the 16 bits of the seconds wrap. |

### Bounds

`CallId` bounds the number of calls, `RptLimit` stands for the 5 repetitions (1 and 2 reach
both outcomes of the test), `QueueBound` limits the memos the console and the UDP reader
leave queued at an agent (2 lets a command wait behind a packet), `CommandBound` the
commands among them (2, and 1 in `calls_end`), `NetBound` the packets in
flight (one more is lost). A stranger has one packet in flight. Two calls are enough for packets of one to reach the
other, two agents and a stranger for a third party. Two consumers and three items let a
queue hold an item that a second consumer takes from the one that was woken. In `MemoFlow`
`Memo` bounds the memos that exist: with two, one is emptied away or deleted while the other is in
the hands of a thread. `Share` stands for the 20 of `downsize`; with it and
with the initial counts small (none in the audio pool) the audio pool of two memos is
downsized, and others allocate them before they are deleted. The signalling pool, which
begins with one, would need three for that: it is downsized in the proofs only. `MaxTests` bounds the audio tests: with one there
are two codec pthreads, and a test under way at exit is a second joiner. With two tests, so
that a second thread may start on one object, and without peers, the safety properties of
`Lifecycle` hold in 3.9 million states; the proofs are about any number. In `Rtp`, `SeqSize`
2 makes three packets wrap, `MaxReceived` 3 lets any of them arrive in any order or
twice, `MaxReports` 2 lets a second report disturb the answer to the first. A stray of 7 stands
for any value. Packets and reports share nothing but the formatter, whose outcomes are chosen
freely, so that a behaviour of `media` has either (`PacketsOnly`, `ReportsOnly`). In `rtt`,
`Ticks` 2 and `MaxTime` 4 let seconds begin on the way; `Unit` 16 and `LongMod` 64 are
small powers of two. `BlockLen` is the program's 160;
`MaxBlocks` 2 lets the decoder get blocks in either order or twice; the second one is always
the same, `Second`, which any first one precedes. The run `glare` repeats no packets, so
that `MayRepeat` is FALSE and the promise strongest, and has no other phones; with repeats the record
`past` makes it too large (`strangers` has them). The proofs are about any
network (section 4). Symmetry (call
ids, agents) is used in safety runs only.

### Fairness

Weak fairness of what the threads do in their loops: the user agent handles a memo or a
timeout, the UDP threads send and receive what is there, the consumers of a queue call
`waitForData` again and get the mutex when woken, the codec's wait returns NULL again and
again. These loops run while `go` is set and
block nowhere else. `UaRuns` of `Lifecycle` is what the user agent does of itself: a pass of its
loop, in which the peer need not answer nor anybody hang up. That `AudioWriter` goes on
presumes, in `MemoFlow`, that its device opened (`Lifecycle` lets it fail); that `UdpWriter`
does, that it comes to the end of `downsize` (`SenderReport`, `Downsize`). No packet has to be
answered, no command typed. `UsersRest` (and its
like in `MemoFlow`) says that the user stops typing at some point: a command that is
ignored still restarts the wait. In `SyncQueue` no deadline has to pass: that every item is
taken rests on the signals alone. `Rtp`, `AudioCodec` and `Sdp` have no fairness.

Deadlock is not checked where the system may stop: when the calls are used up, agents that
are disconnected have nothing to do; a process that has ended, a description that was
read, and a clock at its bound do nothing.

## 4. Proofs

TLAPS proves the theorems below for every value of the constants: any set of agents, threads,
memos, packets, any block length, any lines. Every safety invariant was first checked by TLC,
and most are not inductive alone. Each module names the inductive invariant, shows with one
lemma per action that the action keeps it, and ends with the theorems.

- `SipCallsProofs`: the type invariant, `ConnectedIffInCall`, `RingingCanBeAnswered`,
  `CallIdHostValid`, `RemoteHostSet` and `PendingActionFits`. That `cleanup` does not free
  `callIdHost` twice depends on which default action is pending in which state, and that
  depends on the flags. `AgentInv` (checked by `strangers` as `PendingActionFits`)
  relates state, default action, flags, pointers and hosts; with the types it is
  inductive. There are lemmas for the functions of the class, then one lemma per branch of
  `run()`, then the steps of the environment, which leave the agents' fields alone.
  Assumptions: `HostAssumption`, `CallIdAssumption`, `RptAssumption`, `EnvironmentAssumption`.
- `CallPartiesProofs`: who takes part in a call. `StepOutcome` sums up what one pass of
  `run()` can do to an agent and what it can send; all else rests on it.
  `TwoPartyCalls` follows from `OneParty`: the packets and memos under way that carry
  a call id, and the agents that hold it, belong to one caller and one callee. `ConsentedCall` follows
  from `AnswerInv`, which says what may lie in front of an answer in signalQ: before one that was
  typed alone there are packets only, and none of them makes the agent stop ringing for that call.
  `NoEarlyConnect` has two hypotheses: `TwoAgents` (with three it is false,
  section 3) and that phones of another make send no ACK out of the blue; `EarlyInv` lists
  everything that could still connect a callee and says that its caller is connected first.
  `PhonesImplemented`, the refinement of `PhoneCalls`, has no hypothesis: `TwoAgents` is only the value
  of `Orderly`. An abstract step can be refused for what happened earlier, so the
  invariant, `PastInv`, relates the record `past` to what is under way now. `Kept`: whatever an
  agent is doing is on record. `TraceInv`: a call that rang, or whose INVITE is under way to
  an agent, was placed elsewhere and can ring at no second agent. `SoleInv`: when the network
  repeats nothing, an INVITE is under way once (in sendQ, the network or signalQ), and no longer
  when it has rung. `AgreeInv`: an OK under way is of a call on record as accepted. It also
  needs `CallInv` and, for `Orderly`, `EarlyInv` of the theorems above. The refinement
  is then shown by the outcomes of `StepOutcome`, each an action of `PhoneCalls` or a stutter.
  Assumptions: those of `SipCallsProofs`.
- `SyncQueueProofs`: types, `WaitingCounts`, `NoLostWakeup`, inductive together with
  `ConsumersWait` (nobody sleeps at a queue that is filled with `enQ`), and the refinement
  of `FifoQueue`. `NoLostWakeup` is the argument why `if(waiting)` is enough: while somebody
  sleeps there are at least as many woken threads as items. It needs `WaitingCounts`, so
  that a count of 0 means that nobody sleeps. Assumptions: finitely many threads,
  `NoItem` is no item.
- `MemoFlowProofs`: types, `OneOwner`, `OnlyUnparsedLost`, `SipMemosFit` and
  `TempOnlyForBusy`. The invariant is stated memo by memo: `OnePlace` (a memo is in one queue,
  pool or hand, once), what memos on their way to the user agent, the codec and the network
  look like (`SipReady`, `CodecKnows`, `SendFits`), and that only memos of packets that did not parse
  are gone (`LostUnparsed`). `Emptying` is about `cleanup` between looking at a queue and taking
  from it. A pool may have shrunk or grown between any two steps of `downsize`; what is deleted
  was the pool's (`DeletedSound`). Assumption: `PoolsAssumption`.
- `LifecycleProofs`: types, `OneCodec`, `CodecServes` and `SafeToFree`, for any number of
  audio tests. The last three are of a user who does not hurry; the invariant is the types
  and what holds of everybody (a thread that has ended does not come back, who joins the codec
  is where it can), and `Calm`, what holds unless `hurried`: which of the test and `main` is
  at which point of stopping, joining and starting the codec.
- `RtpProofs`: types, `LossExact` and `SrRemembered`, for any width of the sequence
  number, any clocks, any leftovers of earlier calls, any number of packets and
  reports, and whatever the formatter makes of them. `LossInv` says that the differences
  summed so far telescope to the distance of the last packet's number from the first one's, as
  long as no number had wrapped. `SrRemembered` is inductive as it stands: where `UdpWriter`
  resets `sendRR` it has yet to look at the report. Assumption: `NumberAssumption`.
- `AudioCodecProofs`: types, `NeverFarther`, `DecoderInStep`, `SteadyKept` and `ToneKept`, for
  blocks of any even length and any sounds. `CodeToward` is the arithmetic: `quantize` never
  takes more quarters of the step than fit into the distance, and neither `roundOff` nor the cut
  to 16 bits makes up for it. `CodecInv` says that each code and predictor of a block
  follow from the one before, and that the decoder is where the encoder was after as many
  codes. `ByteKept` and `ToneNear` are about the tables: a code's segment and place in it
  (`PlaceOf`), the magnitudes it stands for (`DecisionGrows`), and for each of the eight
  segments that the sample one table gives is in the code the other reads. `SoundInv` adds
  what the samples were made from and that a steady block keeps its prediction. Assumptions:
  `BlockAssumption`, `SoundAssumption`.
  `Settles` is proved for blocks of 160 codes, the program's, or more: in shorter ones the step size
  has no time to grow. While the codes are of seven quarters the index grows by 8, and
  the steps already made are at least a `Share` of the next one (`Growing`), so that
  the distance ends before the table does; once a step is larger than the distance,
  the distance stays below a quarter of a step that shrinks at every code
  (`Shrinking`). `SettlingInv` says so of any number of codes toward one sample.
- `SdpProofs`: types, `LinesFiled` and `OrderAccepted`, for messages of any keys, known or not, and
  `AllRoundTrip`, both ways, for descriptions with any fields, TTLs and keys and any number of attributes, times and media. `FileInv` adds
  what makes it inductive: what `read` remembers says of which description the last line was,
  so that a line that belongs to the session is refused once a media description has begun.
  The two properties are the two halves of what one expects of `read`: what it accepts is where it
  belongs, and what is in order (`InOrder`) it accepts. `OrderInv` bounds `oldIndex` by the rank of the
  line before: a time leaves more than its own place there, so that a repeat must follow it, a
  repeat less, so that another time may. The converse of `OrderAccepted` is false: after a repeat `read`
  also lets a `b` pass, and a key after an attribute. `AllRoundTrip` rests on both halves. Forwards,
  `ExactInv`: after every line the packet has what the lines so far say and nothing else, field by
  field, with as many attributes and times. Backwards, what `write` makes: `Sorted` says of the lines
  of one description which keys they have and that these come in the order of the table;
  `Laid` says where each description begins and ends in the message, from which follow the section
  of every line (`MediaSections`), that the message is in order (`AllInOrder`), and how
  many lines of each kind there are. Where attributes, a key or a time zone come before
  a time, the lines up to there are in order (`SessionInOrder`) and `OrderedInv`, which is about any
  first part of the message that a `Late` line follows, says that -4 is what `read` returns.
  Where a TTL is written, no message with a `Long` line is accepted (`LongInv`); where only keys of media
  differ, `read` accepts the message and what it finds is not what there was.
  The loop over the media descriptions needs no induction schema: it has an end, so what holds
  for all of its rounds is proved of the least round it could fail for (`LeastNumber`, `CountUp`,
  about sets of numbers). `WrittenUpTo` shows in the same way that the recursive function `Written` is
  what its definition says. Assumptions: `MessageAssumption`, `DescriptionAssumption`.

Only model-checked:

- liveness (`RingingEnds`, `InviteEnds`, `ByeEnds`, `ItemTaken`, `CleanupEnds`, `MemoReturns`,
  `JoinEnds`, `AudioStarts`) and the violations: out of the prover's reach.

## 5. Not modelled, and the plan

Not modelled for good: platform audio (`OSXCoreAudioIO.cpp`: when its threads stop depends
on callbacks of CoreAudio), opening of devices and sockets, the text of header lines and
description values, jitter and statistics, WIN32 branches.

What is left to do: the audio test's memos in `MemoFlow`.

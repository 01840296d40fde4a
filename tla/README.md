# audio-mcu in TLA+

audio-mcu is a conference server: clients create a *job* (a conference), add
*channels* to it (one per participant), switch their microphones, and end the
job. Each channel receives RTP, the server mixes the loudest open microphones
of a job fifty times a second, and every channel is sent the mix of the others.
Nearly all of it happens in threads that share state under several small locks,
and that is what the modules here are about. Paths below are relative to `src/`.

## 1. Inventory

| part | state | operations | talks to |
|---|---|---|---|
| **MediaControlUnit** `src/mcu.cpp` | `mpus` (job table, `mpuFormLocker`), `closeMpus` (`closeMpuFormLocker`), counters, port tool, event list | createMpu, endMpu, addChnl, removeChnl, openMic, closeMic, updateDestition, queries; the AutoClose thread | called by HTTP and SIP threads; reports events to MPUs; called back by an MPU's event thread |
| **MediaProcessUnit** (MPU) `src/mpu.cpp` | `status`, `eventQue`, threads `eventTh`, `workTh`, `stopTh`; `APCs` (`apcLocker`), the user list (`infoLocker`), the mixer (`mixerLocker`) | the handlers of six events, stop, destructor; the 20 ms round | owns channels and mixer; `endMpu` through `autoCloseCallback` |
| **AudioMixer** `inc/remix/remix.cpp` | `audioMap`: id -> samples | addStreamId, pushData, getData, removeId, clearData | called by the MPU's event and work threads |
| **AudioPorcessChnl** (APC) `src/apc.cpp` | `status`, `chnlReady`, `micType`, `srcBuffer`, a transceiver | open, close, getLength, getBuffer, setMicType, sendRtp; its thread receives, decodes, buffers | read by the work thread; frees its port on close |
| **PortTool** `core/MediaControlUnit.h` | `ports`, `portIndex` | applyPort, freePort | addChnl, APC::close, AutoClose thread |
| **RtpTransceiver** `inc/rtpTrs/rtpTrs.hpp` | a ring (OneOnePipe), queues, two sockets | open, sendRtp, receiveRtp, close; the receive worker | APC; UdpReceiver, RtpPipe, UdpSender |
| **UdpReceiver** `inc/rtpTrs/UdpReceiver.hpp` | `closed`, `recvTasks`, one receive buffer | startReceive, finishReceive, isStopped, on any of four io threads | pushes into the ring |
| **RtpPipe** `inc/rtpTrs/RtpPipe.hpp` | a window of flags and packets, `headPos`, `tailPos`, `lastSeq` | updateData | called by the receive worker |
| **UdpSender** `inc/rtpTrs/UdpSender.hpp` | `waitingQueue`, `isSending`, `closed`, `sendTasks`, `sendBuff` | send, doSend, doSendFinish, close, on callers' and io threads | socket |
| **InvokeTimer** `inc/utils/InvokeTimer.hpp` | `periodic_`, an asio timer, a thread | Start, Cancel, OnTrigger | its owner: channel, MPU, MCU, for their statistics |
| **SipProcessUnit** `src/spu.cpp` | no calls, no transactions; counters | the receive thread: INVITE, BYE, MESSAGE, ACK; the REGISTER thread | users over UDP; MediaControlUnit |
| **HttpProcessUnit** `src/hpu.cpp` | counters | a pool of threads, one request each | MediaControlUnit |
| start-up, codecs, subtitles, packet headers | | | |

### What is hard, and what makes each part correct

* **Job table.** The locks cover single statements: every operation looks up
  under a lock, drops it, and acts later. An MPU is owned through a
  `unique_ptr` that moves from the table to `endMpu`'s local variable, to
  `closeMpus`, to AutoClose's private set and to its destructor. Correct means:
  exactly one owner at each moment, the job count agrees, everything handed over
  is destroyed, and no request uses what another has erased.
* **MPU life cycle.** `stop()` runs on a thread started by the very event loop
  it joins, and again in the destructor on the AutoClose thread; the status is a
  single atomic that any loop overwrites when it throws. Correct means: `end`
  implies that no loop is left, and an MPU that failed is destroyed.
* **Media plane.** A round of the work thread takes `apcLocker` twice and
  `mixerLocker` several times; the event thread changes the channel table, the
  user list and the mixer under three different locks; channels open, fail and
  clear their buffers on their own threads. Correct means: nobody hears itself
  or a stale frame, everyone keeps being sent something, everyone's audio is
  consumed, the lists of channels agree, failed channels leave.
* **Channel thread.** It looks at the microphone and the status several times in
  a round, without the lock under which others set them; it holds packets over
  from one look to the next; its timer calls back on another thread, onto its
  local variables. Correct means: the buffer is of the source the thread has locked
  and emptied by a mute, the callback does not outlive the thread, close returns.
* **Signalling.** The server keeps no SIP state: what a repeated, late or doubled
  request does is decided by the user's name alone, and it answers before the
  event thread has acted. Correct means: a user whose call is up has its channel
  on the port it was told, one that has hung up has none, the count agrees.
* **Ports.** A port is given out under a lock but chosen without it, and is
  freed in two places. Correct means: a port in use is never given out again,
  and ports come back.
* **RTP reception.** A ring without locks that is correct for one producer only,
  filled by handlers that run on four threads; an unlocked "empty" flag; a close
  that waits for asynchronous operations and gives up after six seconds. Correct
  means: packets come out once, in order, and close ends and leaves nobody in
  what is freed.
* **Reordering.** Sequence numbers wrap, so do the positions in the window, and a
  reset leaves old data behind; an inconsistency calls `exit(0)`. Correct means:
  the output only grows, what is accepted comes out, the server survives.
* **Sending.** `isSending` is looked at without the lock that guards the queue;
  the sender is deleted on the word of three atomics read one after another.
  Correct means: one send at a time, no wakeup lost, no use after the delete.

`PROJECT.json` lists each such hazard at its line.

## 2. Plan

| # | module | about | status |
|---|---|---|---|
| 1 | `JobControl` | job table, MPU life cycle, AutoClose | written, checked |
| 2 | `JobControlProofs` | inductive invariants of `JobControl`, with one requester and with many | written, six theorems |
| 3 | `MediaProcess` | media plane of one MPU, with mixer and channels | written, checked |
| 4 | `RtpPipe` | the reorder window over wrapping sequence numbers | written, checked |
| 5 | `BoundedFifo`, `OneOnePipe` | the ring, each load and store a step, and the bounded queue it implements | written, checked through 6 |
| 6 | `RtpReceive` | receiver, ring, worker, user queue, close; extends `OneOnePipe` | written, checked |
| 7 | `RtpReceiveProofs` | the ring's refinement for every capacity, its theorems carried over, one producer, conservation, safe deletion | written, nine theorems |
| 8 | `UdpSender` | the sender and its close | written, checked |
| 9 | `Ports` | applyPort step by step, the two frees, leaks on error returns | written, checked |
| 10 | `PortsProofs` | one holder per port, and its return | written, three theorems |
| 11 | `RtpPipeProofs` | the window is bounded and never inconsistent; order and conservation | written, five theorems |
| 12 | `UdpSenderProofs` | the count of tasks, one send at a time, safe deletion, order | written, four theorems |
| 13 | `Signalling` | SIP calls end to end over a network that loses and doubles datagrams | written, checked |
| 14 | `InvokeTimer`, `AudioChannel` | the channel thread step by step, with its timer | written, checked |
| 15 | `AudioChannelSeen` | the channel of 3 is a reduction of the one of 14 | written, checked |
| 16 | `AudioChannelProofs` | types, the locked source, the timer's life, and the reduction of 15 | written, four theorems |
| 17 | `MediaProcessProofs` | types, no echo, and agreement of the lists of channels | written, three theorems |
| 18 | `SignallingProofs` | types of `Signalling`, and the three agreements of users and server | written, four theorems |

`RtpReceive` extends `OneOnePipe`; `AudioChannel` instantiates `InvokeTimer`;
`AudioChannelSeen` extends `AudioChannel` and instantiates `MediaProcess` with one
channel. Otherwise modules do not share variables: each stands for its neighbours
by what they may do at any time. `JobControl` reduces a channel request to an
event that may start the work thread; `MediaProcess` reduces stop to its effect on
the two loops and a channel to seven states; `Ports` keeps of jobs and channels
what touches ports; `Signalling` keeps of an MPU the order of its events and what
they make of a channel; `RtpReceive` reduces `RtpPipe` to dropping, keeping or
handing over any prefix of what waits.

What would come next: the job requests of HTTP in `Signalling`, which are several
threads where SIP is one, and the hazards without a property, each with its reason in
`PROJECT.json`.

## 3. JobControl

Models `src/mcu.cpp` 48-198 with the lookup-and-report shape of the five channel
requests (200-412), and `src/mpu.cpp` 46-108, 213-234, 510-593.

**State.** `mpus` is the job table, `closeMpus` the shared set, `tmpCloseForm`
AutoClose's private one, `todo` the part of it the scan has yet to visit and
`closer` the scan's position. Per MPU: `status` (`"nil"` when the object does
not exist), `eventQue` and `batch` (the queue and the deque swapped with it),
the positions of `eventTh`, `workTh`, `stopTh`, and `dtor`, the position of the
destructor. A *caller* is any thread inside a request: a client thread, or the
event thread of an MPU inside `autoCloseCallback`; it has a position `pc` and
the locals `reqJob` and `held` (an iterator's job and MPU, or the moved
`unique_ptr`).

**Grain.** One action is one critical section or one access to shared state.
`std::thread` is a position: `"none"`, running ones, `"done"`, `"joined"`;
joining needs `"done"`, and destroying a joinable thread is `std::terminate`
(`process = "dead"`). Dereferencing an iterator whose entry is gone is a crash
too. When two threads join the same thread the model keeps the benign outcome.

**Abstractions.** The work loop is only how it ends. The five channel requests
are one event `"channel"`, which may start the work thread. Ports, codec checks,
the error counters and the event list have no influence here and are left out,
as is the shutdown in `~MediaControlUnit`. `runningJob` is an integer whose
negative values stand for a wrapped `uint64_t`.

**Constants.** `Failing` says which loops may throw, `MaxQueue` bounds the
channel requests that are under way for one MPU (stop events are bounded by
the table), `MaxFailed` how many MPUs are in the state an exception leaves at
the same time. `Init` is the state after `MediaControlUnit::init`.

| property | says |
|---|---|
| `OneOwner` | each MPU that exists is at exactly one place on the path table, endMpu, closeMpus, tmpCloseForm, destructor, and what is at these places exists |
| `JobAccounting` | runningJob is the number of existing MPUs, up to the one step by which creation and destruction lag behind |
| `StopOnce` | at most one stop event or stop thread per MPU; a second would overwrite a running `std::thread` |
| `EndMeansQuiet` | status `end` means both loops are joined or never started |
| `NeverCrashes` | no dead iterator or object is used, no joinable thread destroyed |
| `ClosedIsDestroyed` | liveness: what is in closeMpus is destroyed |

`TypeOK` is proved (section 11) and in no run.

**Runs.**

* `job_table`: one job id, two MPU objects, two clients; event handling and the
  work loop may fail, both of one MPU's or one of the other's once that is gone
  (`MaxFailed = 1`). Two of each is what races need: two creations, two ends, an end against
  a callback, a new MPU under the id of one still being destroyed. Symmetry over
  MPUs and clients.
* `job_sip`: one client. With the SIP front end alone, requests come from one
  receive thread, so no event can follow a stop event in a queue. With loops that
  do not throw, `EndMeansQuiet` and `NeverCrashes` hold, and under fairness
  `ClosedIsDestroyed`.
* `job_end_quiet`: the same with two clients, as HTTP threads are:
  `EndMeansQuiet` is violated. Client 1 passes the status test of
  `reportMediaInfo`; client 2 ends the job; client 1's event is queued behind
  the stop event; `stop()` passes its join of the work thread; the event thread
  handles client 1's event and starts a new one; `stop()` declares the end.

With `"work"` or `"event"` in `Failing`, `NeverCrashes` fails already with one
client: an exce MPU is destroyable while its event thread is still in a batch
that starts `stopTh` or `workTh`, behind the destructor's look at them
(`src/mpu.cpp:88-96`). This is why `job_sip` fails no loop. There is no run for
it yet, and `ClosedIsDestroyed` counts a dead process as an end.

**Fairness.** Weak fairness for each thread's steps: they are preemptively
scheduled, their waits are timed (1 ms, `auto_check_interval`), their locks are
held for a few statements. No fairness for requests or exceptions.

## 4. MediaProcess

Models `src/mpu.cpp` 124-201 and 318-584, all of `inc/remix/remix.cpp` that is
used, and `src/apc.cpp` 152-166 and 209-463 as far as the MPU sees it.

**State.** `apc` is the channel table with each channel's state: absent, opening
(in the table, not ready), ready, receiving (microphone seen open, frames on
their way into the buffer), muting (seen closed, buffer about to be cleared),
failed (exce before ready), exce. `users` counts how often a channel stands in
the user list, whose order nothing depends on. `mic`, `srcBuffer` and `arrived` are per channel.
`streams` and `audioMap` are the mixer. `evPc`, `evId` are the position of the
event thread between its locks. `wpc` is the position of the work thread, and
`dst`, `sources`, `loudest`, `took`, `toPush`, `out` its locals of one round:
`dstForm`'s keys, `chnlList`, its first `MaxMix`, `srcForm`, what of it is not
pushed yet, `dstForm`'s values.

**Grain.** One critical section per action, except that the section from line
333 to 411 is two (`Collect`, `Take`): channels change their buffers under a
lock of their own meanwhile, and the event thread is kept out by `ApcFree`. The
event queue and the deque swapped with it are one sequence.

**Data.** A frame is a number per channel, cyclic up to `MaxFrame`; a mix is
the set of frames that were added up, each with its place among those the mixer
holds of the channel, the empty set is silence. Volume is
arbitrary, so the sort is any choice of `MaxMix` loudest. What the code does
where it dereferences `audioMap.end()` in a log statement, or a transceiver not
created yet, is either what it would do otherwise or `status = "crash"`.

**Left out.** `updateDest`, the ports (module `Ports`), the counters
`data.*`, subtitles, decoding and encoding. An exception in an event handler is
in `JobControl`. `ChannelFail` stands for every exception in a channel's loop. That
a channel's thread does nothing else than `ChannelThread`, `ChannelFrame` and
`ChannelFail` allow is `AsSeen` of the next section.

| property | says | source of the requirement |
|---|---|---|
| `TypeOK` | types, and that the round's lists contain one another | |
| `HearsOthers` | what a listener is sent consists of frames taken in this round, none its own | requirements, line 57: an output does not contain its own input |
| `RosterAgrees` | table, mixer and user list agree between events | |
| `ListenerServed` | liveness: a ready channel is sent frames again and again | requirements, line 56: silence when all are muted |
| `SourceDrained` | liveness: audio waiting at an open microphone is consumed | comment at `src/mpu.cpp:401` |

**Runs and bounds.**

* `media_mix`: two channels, one mixed, silence after two rounds, a buffer cap
  of one, everything may fail, every request. The two channels are the speaker
  and the listener of every property; `MaxMix = 1` makes one of them lose the
  sort. One frame number is enough: a frame left in the mixer puts this round's
  in the second place, where `HearsOthers` sees it.
  `MaxEvents = 1` bounds the queue, not the number of events in a behaviour.
* `media_live`: the same without failures, with `add` and `open` only.

Deadlock is not checked: after `stop()` the MPU is at rest.

**Fairness.** Weak for the work thread and the channels' threads. Strong for the
event thread, which needs `apcLocker`: the work thread sleeps with the lock held
in a round without a source (line 374), but a round that sends, at the latest
the silent one after five, sleeps without it (line 507). No fairness for
requests, frames or failures.

## 5. InvokeTimer, AudioChannel and AudioChannelSeen

`AudioChannel` models `src/apc.cpp` 105-209 and 209-474 from open to close, with
receiveRtp (`inc/rtpTrs/rtpTrs.hpp` 1233-1257) as it is called there.
`InvokeTimer` models `inc/utils/InvokeTimer.hpp` 57-79 and 146-179; the asio timer
under it is external.

**State.** `pc` is where the channel's thread is: opening, starting its timer, at
the head of the loop, clearing, receiving, behind the receive, processing, on its
way out. `closer` is close(), which runs on the MPU's event thread or in the
destructor. `recvRtpQueue` is what the transceiver holds, `recvQueue` what the
thread holds, across rounds. `micSet` is whether setMicType is between its two
assignments. `timer`, `periodic`, `owner` and `late` are the timer's: where its
thread is, `periodic_`, how far the owner is in Cancel, and how many callbacks
have begun since Cancel was called.

**Grain.** A step of the thread is what it does between two looks at something
others change: status, microphone, the queue, the buffer under its lock. Cancel is
three steps (flag, cancel of the wait, join), OnTrigger three (callback, look at
the flag, re-arm).

**Data.** A packet decodes to a frame of its source, to nothing, or to what ends
the thread (no data, the decoder's -2). Sources are numbers, as SSRCs are, and
`lastSsrc` begins as 0 (`src/apc.cpp:240`), which may also be the number of a source:
`Foreign` and `ProcessFrame` test it as lines 327 and 366 do. Frames are numbered cyclically. The cap of
the buffer (6 frames, or 20 for large ones) is `Cap`.

| property | says |
|---|---|
| `LockedStream` | what waits in the buffer is of the source locked, the first that decoded; frames of SSRC 0 may stand before its frames, never among or behind them |
| `CallbackInLife` | no callback after the thread has returned, and at most one more for Cancel to wait for |
| `AsSeen` | every step that changes what the MPU sees of the channel is a step of `MediaProcess`'s channel, or of the MPU's own threads |
| `MuteDrains` | liveness: after a mute the buffer is emptied |
| `ChannelCloses` | liveness: close returns, wherever thread and timer are |

**Run.** `channel`: the sources 0 and 1, a cap of two frames, two frame numbers, two
packets under way; bind, resampler and decode may fail. The two numbers are every
case of the tests at 327 and 366: none locked and a source that locks, none locked
and one that does not, the source locked, another one. A state with a frame of 0
before one of 1 is reached. A third number adds states and no case; the theorem of
section 11 has any set of numbers. Three frames exceed the cap; two packets are one decoded and one still held
when the microphone closes. Deadlock is not checked: a closed channel is at rest.

**Fairness.** Weak for the thread, the timer's thread (time passes), the second
half of setMicType and a close that has begun. None for switching, closing,
packets or the taking of frames.

**What the model shows besides.** A mute between the receive and the test behind it
leaves `recvQueue` filled, and the next receiveRtp throws
(`src/apc.cpp:305`, `inc/rtpTrs/rtpTrs.hpp:1233-1238`): the channel is in exce after a
mute at the wrong moment. What was received before a mute is decoded after the
unmute. A source other than the first is never decoded, also when the first is
silent for ever (`src/apc.cpp:327`). Unless the first has SSRC 0: the code has no other
mark for "no source yet", nothing on the way (`Rtp::getSsrc`, `isValidRtp`)
excludes the number, and so the channel stays open for a second source, whose
frames are put behind those of the first in one buffer. From the first frame of a
source with another number on, 0 is refused like any other.

## 6. Signalling

Models what a SIP call is from end to end: handleINVITE, handleBYE, handleMESSAGE and
the receive loop (`src/spu.cpp` 485-696, 718-780), addChnl, removeChnl, openMic of
`src/mcu.cpp`, and the event thread of each MPU (`src/mpu.cpp` 98-191, 530-593) as far
as it decides which channels there are and on which port.

**State.** Per user `client` (idle, calling, up, ending), the number of its last
call and the port it was told. `net` is the set of datagrams under way. `srv` is
where the receive thread is inside a handler, with the request and the port it
took. `job` is the MPU in the table (0 for none), `born` how many there have been;
each has an `eventQue` and the channels its event thread has made of it so far.
`Becomes` is the channel a user will have once the queue is handled: the effects of its
events, one after the other, on the channel there is.

**Environment.** Users and network are external: a user repeats a request when
neither it nor an answer is under way, and may give up; a datagram may be lost or,
as it is received, kept for a second time. `MaxFault` bounds losses, doublings and
give-ups together. A request of an earlier call that is still under way when the
next one begins comes out of these.

**History.** The properties do not hold under every fault, and cannot: the server
tells an old request from a new one by nothing. `upset` are the users that met a
fault the server cannot see since they last called from a clean state (an answer
lost, a request doubled, a call given up, a job ended under them); losing a request
upsets nobody, since it is repeated. `calm` is that no such fault has met anybody.

| property | says |
|---|---|
| `SessionAgrees` | while its call is up, a user that is not upset has, or has when the queued events are handled, a channel on the port it was told with its microphone open |
| `NoGhost` | such a user that is idle, with nothing under way, has no channel |
| `CountAgrees` | while it is calm, `runningChnl` is the number of channels, though it is counted when an event is reported and not when it takes effect |
| `PortIsListened` | the port an answer names is listened on (violated) |

`TypeOK` is in no run; it and the first three are proved (section 11).

**Runs.** `signal`: two users, two ports, two MPUs for the job, two calls in all, one
fault. Two calls are one user's next call after a clean or an unclean one, or two
users at once; one fault is what tells a protocol with state from one without. The
same with three calls also holds (2.9 million states). Symmetry over users and
ports. `signal_port`: one user; its INVITE arrives twice. No fairness: nothing is
claimed to happen, and deadlock is not checked.

## 7. Ports

Models `PortTool` (`core/MediaControlUnit.h` 148-186), addChnl
(`src/mcu.cpp` 200-312) and what frees ports: `src/mpu.cpp` 124-181 and 213-234,
`src/apc.cpp` 123-141 and 175, `src/mcu.cpp` 63-76.

**State.** `ports` and `portIndex` are the tool's. Per client: its position in
addChnl, the locals `port` and `failNum` of applyPort, and what it asks for. Per
job: `status`, whether it is in the table, `eventQue` with the port in each add
event, `APCs` (each channel's port) and `portList`. `closing` is the job whose
list AutoClose has freed and which it is about to destroy. `unowned` is history:
the ports AutoClose freed while something held them.

**Grain.** applyPort is as fine as its atomics: test, reset, fetch, claim under
the lock. A handler of the event thread is one step, since nothing looks at a
port between its locks.

**Data.** Ports above `Int16Max` come back from `getPort` as a number no port
has, since it returns an `int16_t`: their entries in `portList` stay. With the
shipped `port_point` that is every port.

| property | says |
|---|---|
| `TypeOK` | types; the index and the ports stay within two per further thread past the range |
| `HeldOnce` | a port that AutoClose has not freed under its holder has at most one holder (request, event or channel), and cannot be given out while it has |
| `PortsComeBack` | action property: when the last holder of a taken port lets go of it the port is free, except at the named places that forget it |

All three are proved (section 11).

**Run.** `ports`: two jobs, one of which may end and fail, one channel id, two
clients, one request per job under way, a range of one port and hence two that
can be given out by the overrun, 6 below `Int16Max` and 8 above it. One port for
two requesters is where claims, retries and failed applications meet; symmetry
over the clients. Deadlock is not checked: the server may be idle with all ports
forgotten.

**What the properties except** is what the code does: a request that is refused
after applyPort, one whose event the job drops, and an event loop that ends with
add events queued forget their port for good (`src/mcu.cpp:239-290`,
`src/mpu.cpp:99`). AutoClose frees ports in `portList` that have been given to
another channel since (`src/mcu.cpp:72`). Two requests can both pass the test of
the index and run past the range (`core/MediaControlUnit.h:152-155`).

**Left out.** A work loop that fails (in `JobControl`), `freePort()` for all
ports, which nobody calls, and the port that is free while its socket is still
open, for the rest of the channel's destructor after `src/apc.cpp:139`.

## 8. RtpPipe

Models `inc/rtpTrs/RtpPipe.hpp` 30-41, 164-189, 279-428 and 433-617.

One step is one call of `updateData`, which holds the pipe's mutex; a packet is
its sequence number, any at any time: late, repeated, jumping and from nowhere
are all the same input. `seqArray`, `rtpDataArray`, `headPos`, `tailPos` and
`lastSeq` are the pipe's. A reset leaves old packets in the data array; which
ones makes no difference, so they are one value, `Stale`. The branch that
reorders leading packets is off in the server and left out, as are the counters.

| property | says |
|---|---|
| `HeldBriefly` | the window is at most `reorderSize` long, begins with a missing packet and ends with the newest |
| `NeverExits` | a flag in the window has its packet: the branch to `exit(0)` is not taken |
| `InOrder` | what is handed over only grows until a reset, across the wrap |
| `NothingLost` | what is accepted is handed over or waits, except at a reset |

`TypeOK` is proved (section 11) and in no run.

**Run.** `rtp_reorder`: 17 sequence numbers, `reorderSize` 2, `MAX_DIFF` 5. The
assumption on the constants keeps the proportions of 65536, 32 and 5000: the
window is shorter than a jump, and two jumps are shorter than half the numbers.
All sequences of packets are covered, so the wrap of numbers and positions, gaps,
resets and repetitions meet in every combination. A window of three (15 numbers,
`MAX_DIFF` 4; 272,000 states) holds as well. There is always a next packet,
so deadlock is checked.

## 9. OneOnePipe, BoundedFifo and RtpReceive

`BoundedFifo` is what the ring promises: `Put` appends to a queue of at most
`capacity - 1` items, `Take` removes some of its first items at once.

`OneOnePipe` models `enqueue` and `dequeueAll` (`inc/rtpTrs/rtpTrs.hpp` 87-157)
with each load and store of `headPos` and `tailPos` and each access to a slot a
step. `internalArray` is plain memory: `NoSharedSlot` says that producer and
consumer are never at one slot. The head the producer loaded (`seenHead`) and the
tail the consumer loaded may be old when used. `RingIsFifo` is the refinement: with
`Content`, what is between the two positions less what dequeueAll has moved
already, the ring implements `BoundedFifo`. `dequeue`, `empty` and `full`, which
the server does not call, and `size`, which it only logs, are left out.

`RtpReceive` extends it to the whole path: `inc/rtpTrs/UdpReceiver.hpp` 81-159,
and of `rtpTrs.hpp` pushUdp (1691), recvWorker (1452), receiveRtp (1233) and the
receiving side of close (1044).

**State.** `receives` are the asynchronous receives under way or completed and
not yet handed to a thread; `handler[t]` is where io thread `t` is in a completion
handler, `from[t]` the datagram it has. Any idle thread may take any completion,
as `io_context` allows. `closePc` is the channel's destructor in close, `userPc`
the channel thread in receiveRtp.

**Abstractions.** A datagram is the number of its receive. The pipes are `held`,
of which a round of the worker drops, keeps or hands over a prefix, or loses all
in a reset; `RtpPipe` is the detail. A receive may complete with an error, after
which the chain ends: the code starts no other. RTCP, raw UDP and statistics are
left out, `open` is the initial state.

| property | says |
|---|---|
| `TypeOK` | types, and that `recvTasks` counts exactly the receives, the handlers and those about to issue one |
| `OneProducer` | at most one thread pushes, and no receive is under way meanwhile: the buffer is not overwritten while copied |
| `Conserved` | each datagram the ring took is in exactly one queue, or was received or dropped |
| `NoSharedSlot`, `RingIsFifo` | the ring, as it is used here |
| `ReceiverSafe` | the receiver is deleted only when nothing will touch it, and after close no thread uses the transceiver, even where the receiver had to be leaked |
| `Delivered` | liveness: the unlocked flag hides no packet for good |
| `CloseEnds` | liveness: close returns |

**Run.** `rtp_receive`: three datagrams, a ring of three slots, hence of two
items, two io threads. The third datagram wraps the positions, and finds the ring
full when the worker is late; two threads are enough for a handler to be
overtaken by the next. Deadlock is not checked: after close all is at rest.

**A leaked receiver.** A receive issued between the test of `closed` and the
cancel is not cancelled. close() waits six seconds for `isStopped`, then gives the
receiver up: the pointer is forgotten, the receiver stays. In the model close() gives up
only when nothing but such a receive is left, since six seconds are ample for any
handler to end.

**Fairness.** Weak for io threads, worker, channel thread and close: all waits
are timed polls. None for arrivals or for the end of the channel.

## 10. UdpSender

Models `inc/rtpTrs/UdpSender.hpp` 184-474 and the sending side of close.

**State.** As in the code. `pending` and `completed` are the sends under way and
done; `caller[c]` and `handler[t]` are positions between the atomics. doSend is
one step, since all of it is under `wqMutex`; the look at `isSending` before it is
another. `isStopped` is two: `isStoppedFirst` reads `closed` and `isSending`,
`isStoppedThen` reads `sendTasks`. `queued`, `wire` and `lost` are history.

| property | says |
|---|---|
| `TypeOK` | types, and that `sendTasks` counts calls, sends and handlers exactly |
| `OneInFlight` | one send at most, and `isSending` says whether: `sendBuff` is not overwritten |
| `SentInOrder` | packets leave in order, once, and none disappears |
| `SenderSafe` | the sender is deleted only when nothing will touch it |
| `Drained` | liveness: what is queued behind a send is sent, unless a send fails |
| `SenderStops` | liveness: close ends by deleting it |

**Run.** `udp_send`: two callers, two io threads, four packets in bursts of one or
two, a queue limit of two bursts, sends that fail. Deadlock is not checked.

After a failed send what is queued waits for the next call of `send`, which is
what `Drained` excepts. The server never calls `setBandwidth`, so the pacing timer
is left out. Calls may overlap close() in the model, although the owner of a
transceiver has stopped sending by then. That is also why one window can be left
out: doSend's early return drops the count before its lock guard unlocks, and a
close that ran to its end in between would free the mutex too early.

**Fairness.** Weak for io threads, calls that have begun, the socket and a close
that has begun. None for new calls.

## 11. What is proved

Every invariant and every action property of the runs that pass, and the two
refinements (`RingIsFifo`, `AsSeen`), for every value of the constants that the
named assumptions of the modules allow. The assumptions say that a `None` is not
one of the things it stands for none of, in what proportions bounds are, and that
threads, clients, MPU objects, channels and users are finite in number where something
counts them; `SoleClient` is the only further hypothesis a theorem has.

TLC checked each inductive invariant on the instances of the runs before it was
proved. The proofs are split by who moves, one lemma per thread or handler, and most of
these by what a step leaves alone.

**`JobControlProofs`**

* `TypeCorrect`: `Spec => []TypeOK`
* `Ownership`: `Spec => []OneOwner`
* `ToldOnce`: `Spec => []StopOnce`
* `Accounting`: `Spec => []JobAccounting`
* `SoleEndMeansQuiet`, `SoleNeverCrashes`: with `SoleClient`, `Spec => []EndMeansQuiet`
  and `Spec => []NeverCrashes`

`OneOwner` is not inductive. Besides it, the invariant `IInv` says:

* `CloserInv`: one destructor runs at a time, only while the scan is at
  `"destroy"`, and what the scan has yet to visit is still in `tmpCloseForm`;
  else the scan could destroy an MPU somebody else owns;
* `ThreadsOfLive`: an object that does not exist has no threads and no
  destructor position, so that no thread of it takes a step;
* `CallInv`: what a caller's `held` and `reqJob` are at the positions that use
  them; without it a hand-over could put nothing into `closeMpus`;
* `BatchInv`: the event thread handles an event only while its batch has one,
  which keeps `batch` a sequence of events;
* `TypeOK`.

`StopInv` is for `StopOnce`: an MPU that is in the table, or that its remover is about
to report to, has not been told to stop (`Untold`), and being told is a path from the
queue to the batch to the stop thread, with room for one. `Accounting` adds up sets that
one step changes by one element each.

`SoleClient` is one client and no loop that throws: the SIP front end by itself, as in
the run `job_sip`. Both parts are needed: with two clients the run `job_end_quiet` refutes
`EndMeansQuiet`, and behind an exception the process can be ended (section 3). `SoleInv`
then says that what a request found stays in the table until it is used (`FindInv`), that
the stop event is the last event an MPU is given (`StopLast`), and with it how far the
loops are joined at each position of the stop thread and the destructor (`QuietOf`).

**`PortsProofs`**

* `PortsTypeCorrect`: `Spec => []TypeOK`. The bound on the index is the point: `ToolInv`
  counts the requests between the reset and the fetch, each of which is still to advance
  the index by two, so that the overrun does not add up.
* `OneHolderAtMost`: `Spec => []HeldOnce`. `HeldInv` is the property without cardinalities:
  two holders are the same holder, and what is held is taken. The passage from request to
  event to channel keeps it because each step gives up what it hands on.
* `LetGoOnlyFrees`: `Spec => PortsComeBack`, from `HeldInv` in the state before the step:
  whoever lets go was the only holder.

**`RtpReceiveProofs`**, first the ring by itself, for any items and any capacity of at
least 2:

* `RingTypeCorrect`: `RingSpec => []RingTypeOK`
* `SlotsApart`: `RingSpec => []NoSharedSlot`
* `RingImplementsFifo`: `RingSpec => RingIsFifo`, that is `Fifo!Spec` under the
  refinement mapping

The inductive invariant `IInv` is `RingTypeOK` with three parts. `ProducerInv`:
the head the producer has loaded may be old, but an old head only makes the ring
look fuller, and a slot once written stays so until published. `ConsumerInv` is
its counterpart for the tail, with what was moved out so far. `ItemsInv`: every
slot the queue reaches holds an item. The lemmas on `nextPos` and distances take
the modulus out of the rest; one lemma per step shows that it keeps `IInv` and is
a `Put` (storing the tail), a `Take` (storing the head) or leaves `Content`
alone.

Then the receive path, for any number of io threads and receives:

* `ReceiveIsFifo`, `ReceiveSlotsApart`: the receive path takes only steps of the
  ring and stutters on its variables, so that the ring's theorems hold in it;
* `ChainHasOneProducer`: `Spec => []OneProducer`. The invariant `ChainInv` says
  that of the receives under way and the handlers that have yet to issue the next
  one there is at most one in all. Nothing but the order in `finishReceive` makes
  it so.
* `ReceiverIsSafe`: `Spec => []ReceiverSafe`
* `DatagramsConserved`: `Spec => []Conserved`
* `ReceiveTypeCorrect`: `Spec => []TypeOK`, with the exact count of tasks

The last three share `PathInv`: what is pushed is an item and new (`PushInv`, `NewInv`),
`recvTasks` counts what holds the receiver (`CountInv`), so that zero means nobody; what
close() has brought about by where it is (`CloseInv`); and that the worker looks for more
only when it has worked everything off (`WorkerInv`). Conservation goes through the
ring's abstract content: each step moves a prefix from one queue to the next.

**`RtpPipeProofs`**, for any `reorderSize`, `MAX_DIFF` and `SeqMod` in proportion
(`0 < reorderSize < MAX_DIFF`, `2 * (MAX_DIFF + reorderSize) < SeqMod`; 65536, 32 and 5000
are):

* `TypeCorrect`: `Spec => []TypeOK`
* `WindowBounded`: `Spec => []HeldBriefly`
* `ServerSurvives`: `Spec => []NeverExits`
* `HandedOverInOrder`: `Spec => InOrder`
* `PacketsConserved`: `Spec => NothingLost`

The inductive invariant of the first three is `TypeOK`, `HeldBriefly`, that nothing waits
before the first packet, that the process is up, and that no flag in the window is without
its packet, where the window reaches past the flags that takeRtps looks at. The
lemmas `ForwardIs`, `DistanceIs` and `WindowIs` take the modulus out; `TakeIs` says what
takeRtps leaves of a window, from the least place where it may stop (`MinIs`);
`StoreIs` how a packet ahead lengthens the window; one lemma per branch of updateData
does the rest.

The last two need `OrderInv`: the number of each packet in the window is as far behind the
newest as its place is, and what was handed over last lies so close before the window that
distances of wrapping numbers are measured the right way round. What takeRtps hands over is
the recursive function `Handed`; `HandedIs` takes it apart by way of a least place at which
it would differ from what it should be, since induction as such is not available.

**`UdpSenderProofs`**, for any callers, threads, bursts and limit of the queue:

* `TypeCorrect`: `Spec => []TypeOK`, with the exact count of tasks in it
* `OneSend`: `Spec => []OneInFlight`
* `SafeDelete`: `Spec => []SenderSafe`
* `InOrder`: `Spec => []SentInOrder`

The first three are inductive together: the count of tasks shows that a count of zero means
nobody is left, `SenderSafe` that nobody begins after that, and `OneInFlight` that
doSend, under the lock, begins a send only when none is under way. `CountMoves` is
the lemma behind the sums: when one thread moves, it leaves one count and enters
another. That no burst in the queue is empty (`QueueOK`) is what the branch
commented "it should never happen" needs. `OrderInv` is for the order: numbers grow from
what is sent to the buffer to the queue, within a burst and from burst to burst.

**`AudioChannelProofs`**, for any sources, cap and bounds:

* `TypeCorrect`: `Spec => []TypeOK`; the buffer is at most one frame over the cap
* `BufferIsLocked`: `Spec => []LockedStream`, for any set of numbers, 0 included
* `TimerWithinLife`: `Spec => []CallbackInLife`
* `ChannelAsSeen`: `Spec => AsSeen`, the reduction `MediaProcess` makes of a channel

`BufferInv` is the first two together: a frame is put behind the end of the buffer as it
was, in its order, and if no source is locked all of that is of SSRC 0. `TimerInv` ties the timer to the thread's
position: Cancel runs exactly at `"cancel"`, an aborted wait is only seen while it
joins and before any late callback, and after a late callback nothing but the end
of the timer's thread is left. For the reduction, `LifeInv` says that as long as nobody
closes the channel its thread leaves the loop when the status does; each step of the thread,
the timer, the switch and close is then a named step of `MediaProcess` or none.

**`MediaProcessProofs`**, for any channels, any `MaxMix` and `SilenceAfter`, any
failures and bounds:

* `NoEcho`: `Spec => []HearsOthers`
* `RosterCorrect`: `Spec => []RosterAgrees`
* `MediaTypeCorrect`: `Spec => []TypeOK`

`RosterInv` says what the mixer and the user list know while the event thread is
between the table and them (`Known`: the table without the channel being added, or
with the one being removed), and that nothing moves after `"end"`. `MixerInv` says
that the mixer is empty but for the part of a round that fills it, and holds then of
each channel nothing or the one frame pushed in this round, whatever the event
thread adds or removes in between: it may empty a channel's queue, never fill it.
`MixOfOthers` is then that a mix is made of the others' frames of the round. `TypeInv`
adds to the types what a round leaves behind for the next, and that finitely many
channels are in the table at a time, however many there could be.

**`SignallingProofs`**, for any ports and bounds and any finite number of users:

* `TypeCorrect`: `Spec => []TypeOK`. In it are that a user has been told a port just
  while its call is up, and that the job stays while an INVITE for it is served.
* `SessionsAgree`: `Spec => []SessionAgrees`
* `NoGhosts`: `Spec => []NoGhost`
* `CountsAgree`: `Spec => []CountAgrees`

The three agreements speak of what a channel *becomes* once the queued events are handled,
which `After` computes event by event. `AfterAppend` and `AfterHead` say what an event
reported at the end, and one handled at the head, do to that: reporting has its effect at
once, handling has none (`ChnlPushed`, `ChnlHandled`). What is left is the protocol.
`ProtocolInv` gives, for each user that is not upset, the phase of its call (`Phase`): at
most one datagram of it is under way, of the present call; where the receive thread can be
with it; and what its channel becomes, e.g. once `addChnl` is through the port it took, with
the microphone closed. A user may call again while its channel is still being removed, so the
phase of a calling user allows `"remove"`. `Counts` is what the count needs as long as it is
calm: what is being removed is there. That a user nobody has upset stays in phase needs the
whole of it; that an upset one comes back into phase needs only that its next call begins
clean.

**Only model-checked** is what must eventually happen: `ClosedIsDestroyed`,
`ListenerServed`, `SourceDrained`, `Delivered`, `CloseEnds`, `Drained`, `SenderStops`,
`MuteDrains` and `ChannelCloses`. Fairness and `ENABLED` are beyond the proof system. The
two violated properties are counterexamples of TLC, which need no proof.

## 12. Where the code departs from what it says

Two runs end in a violation, each with its quotation under `findings` in
`PROJECT.json`: `job_end_quiet` and `signal_port`. Others are known from the models and
need no run, or are named where a property excepts them:

* an MPU whose work loop threw stays in the table in exce until a request ends it:
  nothing calls `autoCloseCallback` (`src/mpu.cpp:523`; `core/AudioPorcessChnl.h:36` and
  `src/mpu.cpp:92` treat exce as a state to be cleaned up);
* a channel that is in the table and not yet in the mixer empties the mix of the
  others in that round (`src/mpu.cpp:151`, `inc/remix/remix.cpp:136-140`, against the
  comment at 71-72);
* a channel that fails before it is ready is never removed (`src/mpu.cpp:338`, against
  the comment at 342);
* a mute at the wrong moment ends a channel, and what was received before it is
  played after it (section 5);
* a channel whose first source has SSRC 0 decodes a second one into the same
  buffer (`src/apc.cpp:327`, 366; section 5);
* the requirements (line 54) have three streams mixed at most, workingLoop mixes five
  (`src/mpu.cpp:404`); `MaxMix` stands for either;
* addChnl's error returns forget the port (`src/mcu.cpp:239-291`), AutoClose frees ports
  that have been given out again (section 7);
* a repeated BYE takes `runningChnl` below zero (`src/mcu.cpp:340`), and endMpu never
  takes a job's channels off it;
* an INVITE that arrives late or twice behind its BYE, or a call given up whose BYE
  is lost, leaves a channel that is mixed for ever; a doubled `close` ends the job that
  was created again since;
* handleINVITE sends no final answer when the job is missing or addChnl refuses;
  BYE and MESSAGE are answered before anything is done about them;
* a packet that `av_new_packet` fails on is tried again for ever (`src/apc.cpp:346`);
* the crash behind an exce MPU (section 3), and the shutdown of the transceiver's
  threads before the MPUs that use them (`inc/rtpTrs/rtpTrs.hpp:302-308`, `src/mcu.cpp:11-24`).

## 13. Not modelled

See the components with status `not_modelled` or `partly` in `PROJECT.json`:

* packet headers, codecs, sample arithmetic, subtitles: data without control;
* SIP text, REGISTER and its thread (which only logs the answers), ACK (which changes
  nothing), requests that do not parse; JSON and routing of HTTP, whose requests are
  the client steps of `JobControl` and `Ports`;
* the event list and the counters of the front ends: nothing depends on them;
* start-up and shutdown of the process, which run once and in sequence;
* what no part of the server uses: `SaveQueue`, `Message`, `audioMix`, leading-packet
  reordering, bandwidth pacing, raw UDP.

Nearly all lines of the repository are vendored libraries (asio, fmt, spdlog, a JSON
and an HTTP library, FFmpeg headers). They are external here: a model of them would
say nothing about this server.

## 14. Running

    tlc -workers 2 -config job_table.cfg MCJobControl.tla      # job_*
    tlc -workers 2 -config media_mix.cfg MCMediaProcess.tla    # media_*
    tlc -workers 2 -config ports.cfg MCPorts.tla
    tlc -workers 2 -config rtp_reorder.cfg RtpPipe.tla
    tlc -workers 2 -config rtp_receive.cfg RtpReceive.tla
    tlc -workers 2 -config udp_send.cfg UdpSender.tla
    tlc -workers 2 -config channel.cfg AudioChannelSeen.tla
    tlc -workers 2 -config signal.cfg MCSignalling.tla
    tlc -workers 2 -config signal_port.cfg Signalling.tla
    tlapm JobControlProofs.tla
    tlapm PortsProofs.tla
    tlapm RtpReceiveProofs.tla
    tlapm RtpPipeProofs.tla
    tlapm UdpSenderProofs.tla
    tlapm AudioChannelProofs.tla
    tlapm MediaProcessProofs.tla
    tlapm SignallingProofs.tla

`job_table`, `udp_send`, `rtp_receive` and `channel` take about two minutes each, the
others less than one.

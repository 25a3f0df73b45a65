# A TLA+ model of the CarPlay receiver

WirelessCarPlay is a receiver ("accessory") for wireless CarPlay: an iPhone (the
*controller*) finds it, connects over HTTP/RTSP, sets up audio and screen streams,
and sends it audio and video, while the accessory sends back commands, touches and
microphone audio. This directory holds a model of its core in TLA+, the instances
that TLC checks, and theorems that TLAPS checks for every instance.

Paths are relative to the repository. `Session.c` stands for
`source/Sources/AirPlayReceiverSession.c`, `Server.c` for
`source/Sources/AirPlayReceiverServer.c`; names such as `HTTPClient.c` are files of
`source/AccessorySDK/Support/`.

## 1. Inventory of the system

### Threads and queues

* **Server queue** (`queue` of the receiver server): a serial queue; server control
  commands, the periodic timer of a recording session, network-change callbacks,
  requests of the platform.
* **HTTP queue** (`httpQueue` of the receiver server): a serial queue; accepts and closes
  connections, handles every request, so it creates, sets up and tears down sessions.
* **Event queue**: a serial queue of each session; the HTTP client for commands, the
  reply timer.
* **Stream threads**: one per audio stream, one for the screen, one that sends
  microphone audio, one for timing, one that listens for beacons of an idle device.
* **The platform's audio callback**, which pulls audio at its own pace.

A thread that needs another queue's state goes there with `dispatch_sync`, or posts a
task. State of the buffered audio stream is under the session lock.

### Components

| Component | State it keeps | Operations | What is hard | What makes it correct |
|---|---|---|---|---|
| MainHigh audio stream (`Session.c`, `AirPlayReceiverSessionPriv.h`) | free and busy list of buffer nodes, duplicate window, loss tracker, retransmit requests, flush target, zero offset | set up, tear down, flush, receive RTP and RTCP, read | losses, duplicates, reordering, wrap-around, pools that run out, a flush overtaken by late packets, set-up after tear-down | nodes and requests are conserved; the busy list is in order; no packet is queued twice; nothing from before a flush plays; every unit plays at its time |
| Event channel (`Session.c`, `HTTPClient.c`) | pending count, reply timer, message list, client state, references of the session | send command, completion, timer, tear-down | callers, tear-down and finalisation all wait for the one queue; the connection breaks at any point | each accepted command is completed once and in order; the timer follows the count; the session outlives its commands; nobody waits for ever |
| Server, connections and sessions (`Server.c`, `Session.c`, `HTTPServer.c`) | connections, the session of each, announced/recording flags, playing, idle state and its watchers | accept, close, SETUP, RECORD, TEARDOWN, hijack, report a death, stop and start | two devices at once, set-ups that fail half way, a death that is reported while the world moves on | one announced connection; sessions live exactly as long as they are held; an announced device that vanishes is noticed |
| Main and alternate audio, jitter buffer (`Session.c`, `AirPlayUtils.c`) | free, received and prepared lists, playhead, buffering state; microphone ring, sender thread | put, decode, read, free; send | a decode thread that works without the lock on a node that is still in a list; a pool that runs out; a condition waited for without a predicate | nodes are conserved, audio is in order and heard once, there is room for the next packet; sender ends when told |
| Clock and timing (`AirTunesClock.c`, `Session.c`) | epoch of the clock, outstanding request, shift register of round trips | negotiate, send, receive, adjust, finalize | lost, late and doubled replies, a device whose clock jumps, a step between a request and its reply | negotiation ends and leaves the clock as good as its best measurement; the clock follows the device |
| Screen session (`AirPlayReceiverSessionScreen.c`) | stream state, thread, frames | start, stop, receive | stop while receiving | the thread ends, frames in order |
| CarPlay control client (`CarPlayControlClient.c`) | controllers found by Bonjour | found, lost, connect, disconnect | events after removal | no event of a lost controller |
| HTTP server and messages (`HTTPServer.c`, `HTTPMessage.c`, `HTTPUtils.c`) | connections, state of each, what was read ahead, what is left to write | read, process, write, close | requests sent ahead that no socket event announces any more; a connection closed from its own handler; the switch to encryption between two messages | each request is handled whole and answered in order; a connection lives while something of it runs and is freed afterwards |
| Pairing, MFi (`PairingUtils.c`, `MFiSAP.c`) | state of each exchange, keys | exchange steps | steps out of order, retries | both sides agree on the peer and the key |
| Dispatch queues (`DispatchLite.c`) | queues, work items, threads of the pool; sources, timers, the lists and the command socket of the select thread | async, sync, release; suspend, resume, cancel, set timer | a thread that ages out as work arrives; every thread waiting for another queue; a source cancelled while its event is queued, its handler runs or its socket is watched | serial queues run one task at a time, in order, and all of them; no source is used after it was freed, no readiness is lost |
| Asynchronous connections (`AsyncConnection.c`) | parallel connects | start, win, cancel | late winners | one result |
| Encrypted transport (`NetTransportChaCha20Poly1305.c`) | partial frame read, decrypted rest, write buffer | read, write | partial reads and writes | frames in order, nothing lost or written twice |
| Discovery, network changes (`BonjourBrowser.c`, `NetworkChangeListener.c`) | services known | browse, resolve | callbacks after stop | events alternate per service |
| Platform glue, utilities, mDNSResponder, cryptography | - | - | - | not protocol logic, or third-party |

### How the components interact

The HTTP server calls the receiver server for every connection created, message and
close. The receiver server owns connections; a connection owns one reference of its
session. A session reports its own death by an asynchronous control command to the
receiver server, which then removes **all** connections on the HTTP queue. A closing
connection tears its session down: streams first (joining their threads), then the
reply timer and the event client, each by `dispatch_sync` to the event queue, and then
gives up its reference. Commands in flight hold references of their own.

## 2. Modules

| Module | Models | Composed with |
|---|---|---|
| `ModArith` | `Mod16_*` and `Mod32_*` comparisons | extended by all audio modules |
| `Playout` | the effect of one read on the busy list, without the loop | extended by the next three |
| `PlayoutSteps` | abstract specification: queue a packet, read in one step | refined by `RenderLoop` |
| `RenderLoop` | the loop of `_GeneralAudioRender`, node by node and unit by unit | implements `PlayoutSteps` |
| `GeneralAudio` | the MainHigh stream: every handler under the session lock | uses `Playout` for its read |
| `MCGeneralAudio`, `MCAudio` | instances of it | |
| `JitterBuffer` | the buffer of main and alternate audio with its three threads | uses `ModArith` |
| `EventChannel` | commands, timer, HTTP client, tear-down of a session | on a queue as in `SerialQueues` |
| `ReceiverServer` | connections, sessions, watchers, deaths | on queues as in `SerialQueues` |
| `TimeSync` (`MCTimeSync`) | negotiation, timing thread, shift register, steps of the clock | |
| `HTTPConnection` | one connection with its message reader, its transport and its client | on sources as in `DispatchSource` |
| `SerialQueues` | abstract specification: what a dispatch queue promises | refined by `DispatchQueue` |
| `DispatchQueue` | queues, work items and the pool of threads | implements `SerialQueues` |
| `DispatchSource` | read, write and timer sources with the select thread | on a queue as in `SerialQueues` |
| `Sublists` | what is left of a list when elements are unlinked, by places | extended by `DispatchSource` and `HTTPConnection` |
| `ModArithProofs`, `GeneralAudioProofs`, `RenderLoopProofs`, `ReceiverServerProofs`, `EventChannelProofs`, `DispatchQueueProofs` | theorems | extend the module named |
| `StreamProofs` | theorems about `TimeSync` and `JitterBuffer`, by which and from which streams play | extends both |
| `ConnectionProofs` | theorems about `DispatchSource` and `HTTPConnection`, the sources and what runs on them | extends both |

### GeneralAudio

One action per handler, since each holds the session lock from its first access of the
state to its last. A packet is a triple of sequence number, timestamp and size; the
free list is a number (its nodes have no content), the busy list a sequence of nodes.
`hdr` is the timestamp in the packet's header, `ts` and `skip` are what the renderer
makes of them when it plays a part (`curr->ts`, `curr->ptr`). `busyNodeCount` is counted as
the code does: down where a node is stolen (`CountAfterTake`) and up where one is queued.

| Action | Code |
|---|---|
| `Setup`, `TearDown` | `_GeneralAudioSetup`, `_TearDownStream` |
| `FlushAudio` | `AirPlayReceiverSessionFlushAudio` |
| `ReceiveNothing`, `ReceiveDup`, `ReceiveRTP` | `_GeneralAudioReceiveRTP`, with `_GeneralAudioTrackDups`, `_GeneralAudioTrackLosses`, `_RetransmitsUpdate`, `_GeneralAudioProcessPacket` |
| `ReceiveFutile` | `_RetransmitsProcessResponse` |
| `ReadAudio` / `Render` | `AirPlayReceiverSessionReadAudio` / `_GeneralAudioRender` |
| `SenderSends`, `RequestTimesOut` | the controller and the clock (external) |

The network delivers any of the last `Delay + 1` packets, any number of times, in any
order, or never. `rtDangling` and `usedFreed` record storage that was freed and is
looked at: from there on the behaviour is undefined and the model stops.

`sampleTimeOffset = 0` means "not saved yet" in the code. The runs start at sample time
1 and end before the sample time wraps to 0. A stream whose first sample time is 0
saves the offset again at its second read, so its time axis moves by the length of one
read, once.

### RenderLoop

`pc` is between reads, in the loop, or behind the `exit` label; one action per branch
of the loop. The platform's buffer is a sequence of units, each named by the timestamp
of the audio in it, so that a pointer that is not moved with its timestamp shows.
`OnTime` says what the code asserts at the end of the function, `dst == lim` and
`nowTS == limTS`: the buffer is filled exactly, and each unit is silence or at its time.
`LoopIsOneStep` is the refinement `Atomic == INSTANCE PlayoutSteps`: between reads the
list is the abstract one, and while the loop runs the abstract list is the one the read
began with, until the last step takes all of the read's effect at once. `GeneralAudio`
uses the same definitions (`StopsAt`, `LeftAfter`, `FreedBy`, `AbortsFor`).

### EventChannel

`tasks` is the event queue. `SendCommand` and the tear-down append a task and wait, as
`dispatch_sync` does, until the queue has run it. `http` and `messageList` are the
client's state machine; `Answered`, `WriteDone` and `Breaks` are what its socket
reports. `refs` is the retain count: one for the connection, one for each caller that is
inside the call (its own reference, external), one for each command with a completion.
`completed` records what each completion was told: the response, nothing, an error, or
the body of its own request.

### ReceiverServer

A connection carries `didAnnounce`, `didRecord` and TCP keep-alive; a session object
carries its retain count, its streams, its idle state and what watches it: the
keep-alive socket and thread, and the periodic timer. `dying` is the report that the
server's queue is acting on while it waits for the HTTP queue. The last release of a session begins to
finalize it (`Release`), and `finalizing` says on which queue, which then does nothing else
(`Ready`) until `Finalize` has joined the keep-alive thread and freed the session. Meanwhile the
thread may time out: it is then `"late"`, retains a session whose count is 0 and queues a report on it,
but the session is freed all the same. When the server's queue comes to this report
(`AtLateReport`) the behaviour is undefined, and that queue stops in the model. What the code of the queue does
behind the last release (a hijack, then the SETUP) is merged into the step before `Finalize`. A SETUP first closes the
other announced connections (`Hijacked`), may create a session, sets up control and
streams, and goes through the idle transition (`Watched`, `TCPKeepAlive`); it may fail
at five points (`SetupFails`, plus `SetupRefused` before any of them), each with the
clean-up the code does there. `again` is a history variable: the connection went on
after a TEARDOWN of everything while TCP keep-alive was off. The code does not turn it
on again there, so a device that then sets up a new session is watched by nothing until
the next idle transition or RECORD; `Monitored` leaves these connections out.

### JitterBuffer

Three threads meet under `nodeLock`: the receive thread (`GetFreeNode`, then
`PutFreeNode` or `PacketFails`, with `Receive` for the network), the decode thread and
the audio device (`Read`). The decode thread checks, locks, passes over what is late or
unprepared and decodes; while it decodes it holds no lock, and the node it works on
stays in the received list, where a packet may overtake it. `decoding` is how it finds
it again. `RTPJitterBufferFree` is `SetDone`, `SignalDone` and `JoinThread`: `decodeDone` is
set without the lock that the decode thread looks at it under. Time is one event, the
end of the buffering window (`BufferingEnds`). A node is its timestamp and the samples
left in it.

### TimeSync

The owner is the thread of the RTSP requests: it initializes (`Initialize`), negotiates
(`Negotiate`, `NegotiateSends`, `NegotiateReceives`, ...), starts the timing thread and
later finalizes (`Finalize`, `Join`). The timing thread sends, receives and quits. A
request is known by the time at which it was sent, here by an id that no reply on the
way has. Offsets and round trips are in half units, so that they stay integral; clocks
are what they are ahead of a reference. `Adjust` is the part of `AirTunesClock_Adjust`
that steps the clock. The network loses requests and replies, delays them by the paths
of `Paths`, and delivers up to `MaxCopies` copies of each; the device's clock jumps once
per negotiation (`ServerJumps`).

### HTTPConnection

A message is a few units, of which a read or write moves any number. The client sends
requests ahead of the answers, in plain (`SendPlain`) up to the last pair-verify and in
frames (`BeginFrame`, `SendFrame`) after its response, reads at its own pace and may
leave. `ReadHandler` and `WriteHandler` are the handlers of the two sources;
`StateMachine` goes on inside them: `ReadHeader`, `ReadBody`, `HandleRequest`, `HandleFails`,
`Encrypt`, `Flush`, `WriteFails`, `ResponseWritten`. The transport is the bare socket or
`NetTransportChaCha20Poly1305`, which keeps the rest of a frame (`partial`), decrypted
units nobody asked for (`buffered`) and what the socket did not take (`written`). The
nonces count frames, so the order of frames stands for them. `ServerCloses` is the
server's close, `CancelHandler` the cancel handlers of the sources; `refs` the retain
count.

### SerialQueues and DispatchQueue

`SerialQueues` says what `EventChannel`, `ReceiverServer`, `HTTPConnection` and
`DispatchSource` assume: tasks start in the order they were submitted, a serial queue
runs one at a time, and every task starts and ends. `DispatchQueue` has one action per
critical section of a queue's lock or the pool's mutex: the list of each queue, the list
of queues to drain, and where each thread of the pool is, between waiting, being
signalled, aging out and draining. A task may `dispatch_sync` only to a queue of a
higher number than its own, the order the program follows: server queue, HTTP queue,
event queue of a session. `KeepsPromise` is the refinement, fairness included.

### DispatchSource

The select thread alone owns the lists of sources and timers. Owners suspend, resume,
cancel, set and release; each call becomes a command on a UDP socket connected to
itself, which `Wakes` reads. `SelectRound` is one return of `select()`: it queues the
handlers of what is ready or due; `QueueStep` runs the queue: a handler, the re-arming
behind it, a cancel handler or the last free. The socket belongs to the owner, who
closes it when the cancel handlers of all its sources have run.

## 3. Runs

Every property of a passing run is broken by at least one mutant of the code, listed in
`PROJECT.json`; the mutated forms stand beside the definitions ("Mutant: ...").

| Run | Properties | What it shows |
|---|---|---|
| `audio` | `TypeOK`, `NodesConserved`, `RequestsConserved`, `FlushedNotQueued` | all handlers in all orders over several short streams, and a longer one: gaps, pools that run out, a flush that completes |
| `audio_wrap` | `DuplicateCaught`, `NoRequestForQueued`, `BusyOrdered` | between two flushes, with both number spaces wrapping |
| `render_loop` | `OnTime`, `NoNeedlessSilence`, `LoopIsOneStep`, `ReadsEnd` | the playout loop on every short list, across the wrap of timestamps |
| `jitter` | `NodesConserved`, `InOrder`, `HeardOnce`, `RoomForNext` | packets lost, late, doubled and broken against decoding without the lock, reads and re-buffering |
| `event` | `CompletedInOrder`, `PendingIsUnanswered`, `RefsBalanced`, `WaitsEnd`, `CancelledCompletes` | two commands and a notice against a breaking connection and the tear-down |
| `server` | `OneAnnounced`, `RefsBalanced`, `PlayingHasSession`, `Monitored`, `DeathEnds` | two devices, two sessions, deaths, stops and starts |
| `time_sync` | `BestCounts`, `NegotiationEnds`, `ClockFollows` | negotiations and the timing thread over a bad network, with a device whose clock jumps |
| `http_connection` | `HandledWhole`, `AnsweredInOrder`, `AliveWhileUsed`, `Answered`, `ClosedIsFreed` | three requests sent ahead, in pieces, across the switch to encryption, with closes from both ends |
| `dispatch_queue` | `QueueAlive`, `PoolKeepsUp`, `KeepsPromise` | queues and pool implement the abstract serial queues |
| `dispatch_source` | `NoUseAfterFree`, `SocketOpenInHandler`, `Served`, `ReleasedIsFreed` | owners' calls against commands, queued events and running handlers |
| `server_session_died`, `jitter_wrap` | one each | see "Findings" |

### Bounds, and why they are enough

* `audio`: 2 nodes, so that the pool runs out and a node is taken from the busy list;
  packets of 2 units against reads of 3, so that a read cuts packets and spans them;
  each packet late by up to 2. Either (`MCAudio`) any number of streams of 3 packets, each with
  3 reads and a flush at any time; or one of 7 packets with one read, a flush at any time,
  no tear-down and no packet without audio in the queue. In the long one gaps of 1 and 2 are
  requested and longer ones give up (`MaxLoss`): with 2 requests their pool runs out in the middle of a gap,
  and a gap that gives up finds requests outstanding. Its timestamps reach 12, and a flush
  outlives its target by 5, longer than the network delays a packet, as the code assumes of
  its 3 seconds: it completes with packets queued behind it, and late ones from before it arrive
  afterwards.
* `audio_wrap`: 8 sequence numbers and 8 timestamps, 10 packets, so that both wrap with
  packets of both sides queued; packets late by up to 3, one less than the duplicate
  window of 4. The sender is not silent for half the number space, beyond which the
  code's comparisons mean nothing.
* `render_loop`: starts 3 units before timestamps wrap; packets start from 4 units before the
  read to 2 units after, decode to 0 or 3 units, two at a time; three reads.
* `jitter`: 6 packets of 2 samples, read by 3, so that reads cut packets; each packet late
  by up to 2 or lost, and decoded to 0, 1 or 2 samples; 6 nodes, with the watermark of the discard (4 samples) below them
  as in the code. `jitter_wrap` starts 4 before timestamps wrap.
* `event`: with two commands, one can be written, read or done while the other waits;
  a third would only repeat it. One notice shows that messages without completion do not count.
* `server`: two connections are what a hijack needs; one of them is a device that keeps
  alive by beacons. One stream is enough for idle and not idle. One report waits while another is
  acted on.
* `time_sync`: 3 places, of which a negotiation fills 2 and the timing thread overwrites
  all; 2 failures end the negotiation; three paths, of which the best, an asymmetric and a
  slow one; a jump far above the limit. One reply is on the way at a time, doubled, so
  that one may arrive as the answer to a later request; `BestCounts` is
  proved for every number of them.
* `http_connection`: three requests, two with bodies, of which the first is the last
  pair-verify: the switch happens with requests behind it. Frames of up to 3 units from
  the client and 1 from the server, and a socket that takes 2 units, so that reads and
  writes stop at every place in a message and in a frame.
* `dispatch_queue`: two serial queues and the global one, and three threads, one more
  than the serial queues may block; three tasks. The run fails with two threads, by
  design of the code, which has 128 against a handful of queues.
* `dispatch_source`: one socket source, one timer and three calls of their owners
  beside cancel and release, enough to suspend, resume and set again while an event of the
  source is queued.

Sizes are small against the code's (512 nodes, 2^16 numbers), but every comparison the
code makes between them (`check_compile_time` of nodes and window) is an assumption of
the module. Deadlock is checked in the runs of `ReceiverServer`. In the others the model may
stop: where freed storage is used or the bounds on packets, reads, tasks, calls or
requests are reached, and when the session is finalized (`EventChannel`), the buffer or
the sources are freed (`JitterBuffer`, `DispatchSource`) or the connection has gone
(`HTTPConnection`). What must not stop there is a liveness property.

### Fairness

* `render_loop`: the loop goes on while it is in a read. Nothing forces packets to
  arrive or reads to begin.
* `event`: the event queue runs its tasks; a thread whose `dispatch_sync` was signalled
  goes on; a tear-down that began is continued. No fairness for the socket or the device: it may never
  answer, which is why `CancelledCompletes` speaks of the forgotten client only.
* `server`: a finalization that began ends (weak fairness). Strong fairness for `TakeReport`, and for
  the HTTP queue's removal and stop: timers, network events and requests share these queues and are
  modelled without their place in them, and a first-in first-out queue does not let later tasks overtake.
  Each may wait for a finalization of another session on its queue, again and again.
* `jitter`: the decode thread and a free that began go on. Nothing forces packets or reads.
* `time_sync`: the negotiation sends and its waits time out; the thread is told to quit.
  Strong fairness for the timing thread only: of what it sends for ever some requests are
  answered, and some answer is to the last request. `NegotiationEnds` needs none of it:
  the device may be silent there.
* `http_connection`: a client that began a frame ends it and reads what it is sent; the
  sources fire and the queue runs (what `Served` and `KeepsPromise` show). The client need
  not send another request, and may leave.
* `dispatch_queue`: the threads run and the functions they call return.
* `dispatch_source`: the select thread and the queue go on, a cancel that began ends, and a
  timer that stays in the list is due again and again (strong fairness: time passes).

## 4. Findings

| Run | The code | What it says of itself |
|---|---|---|
| `server_session_died` | a report that a session died removes all connections, also a new device's that hijacked the dead one meanwhile (`Server.c:1118`) | `AirPlayCommon.h:724-726`: the qualifier names the session that died |
| `jitter_wrap` | the decode thread compares timestamps with a plain `>` (`AirPlayUtils.c:1002`), so packets behind the wrap are tossed as late | comment at `AirPlayUtils.c:1023`: "The node must have arrived late" |

### Known disagreements

The following are stated in the modules, marked "It does not hold.", and have no run of
their own; a configuration of the module that names them shows each.

* `DuplicateCaught` (`GeneralAudio`), when packets are late by the duplicate window or more: the window
  moves back with a late packet, so a late duplicate can pass it and reach the insertion
  walk, where an assertion says that it was "caught earlier" (`Session.c:2430`).
* `NoRetransmitAtResume` (`GeneralAudio`): a late packet from before a flush sets
  `receiveCount` again before it is dropped, and the first packet after the flush asks for
  flushed ones, against the comment at `Session.c:1203`.
* `RequestsAllocated` (`GeneralAudio`): tear-down frees the storage of requests but leaves
  `rtcpRTBusyList`, and the next set-up does not reset it (`Session.c:4880`,
  `AirPlayReceiverSessionPriv.h:221`).
* `ToldTheResponse` (`EventChannel`): a command that was not written when the connection
  broke completes with its own request as its response and no error (`Session.c:859`,
  `AirPlayReceiverSession.h:331`).
* `NoSelfSync` (`EventChannel`): the completion of a cancelled command may give up the last
  reference, and `_Finalize` then waits for the queue it runs on (`Session.c:870`, assertion at
  `DispatchLite.c:1338`).
* `ReportedPersists` (`ReceiverServer`): the keep-alive thread is joined only in `_Finalize`
  (`Session.c:1481`), so it may time out behind the last release, retain the session
  (`Session.c:3759`) and queue a report on it, which runs when the session is freed. `CFLite.h:222`
  says that one retains an object when "you want it to persist".
* `NoSelectError` (`DispatchSource`): the cancel handler closes the socket while the select
  thread may still watch it; `select()` fails and the thread sleeps for a second
  (`DispatchLite.c:2989`).
* `FreeEnds` (`JitterBuffer`): `decodeDone` and its signal may fall between the decode
  thread's look at it and its wait, so that the join never ends (`AirPlayUtils.c:592`).
* `CompletionRuns` (`HTTPConnection`): a connection that breaks before the pair-verify
  response is written never runs the completion of that response, whose context holds
  the connection, and is never freed (`Server.c:3039-3041`, `HTTPServer.c:943-947`).
* The comment "first time after a clock step, reset the stats" at the shift register of
  `_TimingProcessResponse` does not describe a state of the code: a step does not set
  `rtcpTIResponseCount` back, only a new negotiation does. `TimeSync` models the code.

`Monitored` leaves out connections that went on after a TEARDOWN of everything while TCP
keep-alive was off, and `RefsBalanced` says of a session with a late thread
(`ReportedPersists`) only that no connection has it, see `ReceiverServer`.

## 5. Proofs

The theorems hold for every value of the constants that satisfies the modules' named
assumptions (`GAModuli`, `GAWindow`, `GALimits`, `PlayoutSizes`, `LoopBounds`; `ServerSets`,
`NoneIsNoSession`, `LowPowerConns`, `ReportBound`; `CommandSets`; `Counts`, `EnoughFits`,
`Clocks`, `PathDelays`; `SerialAssumption`, `ThreadsAssumption`, `TasksAssumption`,
`NoneAssumption`; `SourcesAssumption`, `CallsAssumption`; `NodesAssumption`,
`SizesAssumption`, `TSAssumption`; `RequestsAssumption` and the `SizesAssumption` of
`HTTPConnection`). A theorem of the form
`H => (Spec => ...)` or `ASSUME H PROVE Spec => ...` needs `H` as well, a condition on the
constants that is named and explained below. The instances TLC runs on satisfy all of these, except that `audio_wrap`
lies outside `OneLap` on purpose.

* **`GeneralAudioProofs`**: `TypeCorrect` and `NodeConservation`
  (`Spec => []TypeOK`, `Spec => []NodesConserved`). The invariant is
  `IInv == TypeOK /\ NodesConserved`. Neither half is inductive alone: that
  `busyNodeCount - k` stays a natural number needs it to be the length of the busy
  list, and that the length is preserved needs the list to be one of nodes. Lemmas
  state what each helper (`AbortAll`, `KeepRequests`, `Schedule`, `MarkSent`,
  `CutAt`, ...) returns; there is one lemma per handler.
  Sequence numbers are finite, so cardinalities are numbers.

  `BusyListOrdered` (`Spec => []BusyOrdered`) needs nothing of the network: neighbours of
  the busy list are in order because the insertion walk compares with both, and all else
  takes nodes from its front or sets it back (`Inserted`, `Suffix`).

  The other four are about streams whose numbers do not come round, `OneLap`: at most
  `SeqMod` packets, each late by less than the duplicate window. Behind a lap the
  receiver itself cannot tell a node, a request or an entry of the window that survived
  from a new one of the same number; `audio_wrap` checks there, on its instance, that it
  does not matter to a stream that is read.
  `RetransmitNodesKept` (`OneLap => (Spec => []RequestsConserved)`): a request is taken for a
  packet that has none, because requests are for packets up to the last one received
  (`RequestsBehind`) and a gap lies ahead of it (`GapForward`).
  `NewPacketsOnly` (`Distinct => (Spec => []DuplicateCaught)`): each queued packet, and the
  last one received, is in the window as long as the network may deliver it again
  (`Remembered`); packets that may still arrive have different places in it (`SlotsDiffer`).
  `Distinct` adds that timestamps do not come round.
  `FlushedAudioIsGone` (`FlushFits => (SpecStreams => []FlushedNotQueued)`): the target is the
  time of some packet of the stream (`TargetIs`), and when the receiver takes the flush for
  completed the network has none left of before it. `FlushFits` says that it may: a packet
  is late by no more than the time that flushing outlives its target, and times compare
  like numbers.
  `QueuedIsNotAskedFor` (`OneLap => (SpecUnflushed => []NoRequestForQueued)`), between two
  flushes: what is queued or asked for is not ahead of the last packet received, so a gap
  asks for nothing that is there (`QueuedInv`).
* **`RenderLoopProofs`**: three theorems about reads of the platform, for any queue, sizes and
  times. `ReadsAreOnTime` (`Spec => []OnTime`): the loop keeps `Position` (the time reached
  is the begin of the read and what was written) and `InTime`; the work is in `PlayCurr`,
  where a unit at the pointer `skip` units behind the node's start is the unit at that time.
  `LoopImplementsRead` (`Spec => LoopIsOneStep`) is the refinement of `PlayoutSteps`: having
  seen the first `n` nodes (`Seen`), the loop has filled what `Filled` of `Playout` gives for
  them, given up the requests that `AbortsFor` gives and left the rest of the list; where it
  stops, `StopsAt` stops (`Stopped`). The step out of the loop is the abstract read, every
  other step of the loop a stutter.
  `SilenceIsNeeded` (`InReach => (Spec => []NoNeedlessSilence)`) looks at the whole list:
  `Spread` places each node at its distance from the time reached, without wrapping, in
  ascending order and no further than `Back` behind and `Front` ahead. Then a node that
  begins behind the window, and all behind it, have nothing for the rest of it, and `Uncovered`
  holds of each silent unit. It was checked with TLC, on two instances of up to 11 million
  states, before it was proved. Two conditions say that "before" and "after" mean something
  in half the range of timestamps: `2 * (Units + ReadUnits) < TSMod` in `PlayoutSizes`, for a
  packet and a read, and `InReach`, for the whole list with the latency and the network's
  delays. In the code the range is 2^32.
* **`ModArithProofs`**: the range of residues and of the signed difference, what carrying
  and borrowing do to them, their order (`ModOrder`, `ModCmpNear`), the slots of a window
  (`SlotsDiffer`), and sums and differences that wrap (`ModTurns`, `ModAdd`, `ModOffsets`,
  `ModCmpOffsets`, `ModPlace`).
* **`ReceiverServerProofs`**: `AtMostOneAnnounced` and `PlaysForSomeone`. `OneAnnounced`
  is not inductive because it speaks of a server that is up: that a server that starts finds no
  connection (`DownIsEmpty`) is added. `PlayingHasSession` needs
  `AnnouncedHasSession`, because it is the *session* of a closing connection that
  makes the server stop playing. `CloseKeepsInv` says that destroying any set of
  connections keeps all of it, and is used by close, removal and stop; `SetupKeepsInv`
  covers a SETUP that succeeds or fails.

  `SessionsRetainedExactly` (`Spec => []RefsBalanced`) and `DeviceIsWatched`
  (`Spec => []Monitored`) share the invariant `RefInv`: a session has one owner, which is
  linked (`OneOwner`, `OwnersLinked`), so that a close gives up one reference of it; its
  references are those of the owner, of the reports that wait and of the one being acted on,
  unless its thread was late (`Counted`), and one that is being finalized has no references unless its
  thread was late (`Unreferenced`); a linked connection without TCP keep-alive has a session with a keep-alive
  thread (`Watching`);
  and one that expired has sent a report that is not handled yet (`Expiring`): when it
  is, the connection is closed with all others. These are stated of connections, sessions
  and session objects given as parameters, since a SETUP closes the hijacked connections
  before it goes on with its own: the parts of a step are chained. Neither theorem is
  unconditional: the first exempts sessions whose keep-alive thread was late, of which it says that
  no connection has them, the second connections that went on after a TEARDOWN of everything
  while TCP keep-alive was off (`again`).
* **`EventChannelProofs`**: `CompletionsInOrder`, `PendingCounts` and
  `ReferencesBalance`, all the safety properties of the run `event`, for any finite sets of
  commands and notices. None is inductive. A command that completes is the first of the
  message list, so the order needs that the commands between acceptance and completion lie,
  each once and in order, in the message list and then in the tasks that add to it
  (`InOrder`: `AllThere`, `NoneElse`, `ListInOrder`, `ListFirst`, `TasksInOrder`,
  `AcceptedOnce`); `FirstIsNext` draws the conclusion. That a command is accepted once
  needs that its caller waits for one task (`Sends`); that the connection gives up one
  reference, that it waits for one task too (`Waits`); that an answer finds a message, how
  the client's state and its list go together (`Client`). `Kept` and its lemmas say what
  adding and taking tasks leaves of them. `CallBegins`, `CallEnds` and `CallGoesOn` count
  the calls in progress.
* **`StreamProofs`**, about `TimeSync`: `BestMeasurementCounts` (`Spec => []BestCounts`), for any register,
  delays, clocks, and any losses and copies. A request's id is not that of a reply on the
  way because there are more ids than replies (a pigeonhole argument over finite sets), so a
  reply that matches the outstanding request was sent under the present epoch and clock of
  the device (`Fresh`), and the offset it measures is wrong by at most half its round trip.
  While a negotiation lasts the register holds its round trips from the first place on, with
  the best one in use (`Negotiated`); behind it the places behind the index are the latest
  round trips (`Ring`).

  About `JitterBuffer`: `BufferTypesHold`, `BufferNodesConserved`, `BufferInOrder`,
  `BufferHeardOnce` (`ASSUME NoWrap PROVE BufferSpec => []NodesConserved` and so on) and
  `BufferRoomForNext` (`ASSUME NoWrap, EnoughNodes`). None is inductive: they share
  `BufferInv`. `ListsInv` says what each list is: received nodes are whole packets of the
  stream, prepared ones what the decoder gave of a packet, a part of it (`Part`), or without a
  decoder all of it (`Undecoded`), of which only the first may be cut; but for that one,
  nodes lie at least as far apart as their places (`Spaced`), so that the
  samples between two nodes bound the number of nodes between them; the prepared list ends by
  `nextDecodeTS`. `TimesInv` says where the playhead, `nextDecodeTS` and the last sample
  heard lie in the stream, `DecodeInv` that the node which is being decoded without the lock
  stays in the received list, `CountsInv` where the nodes are. `Picks` (a list without some of
  its nodes, their order kept) is what discarding, tossing and reading leave of a
  list, and `PicksReceived`, `PicksPrepared` and `PicksApart` say that it keeps what `ListsInv`
  states; `PutBusyNode` is where a node is added to the received list, behind all that are not
  after it. `Room`, for
  `BufferRoomForNext`, is a step further: behind a discard the samples buffered are no more than
  `Desired`, so by `Spaced` the lists hold fewer nodes than there are.

  `NoWrap` (`Top + L < Modulus /\ 2 * (MaxPackets * D + L) < Modulus`, `Top` being the end of
  the last packet): the timestamps of the stream do not wrap, and the stream is shorter than half
  of their range. It is needed: `jitter_wrap` shows what the plain comparison of
  `AirPlayUtils.c:1002` does otherwise. At 44.1 kHz the second half is 13 hours, but a stream
  starts with any timestamp, and the first half may then fail at any time.
  `EnoughNodes` (`Desired <= (Nodes - 3) * D`): the nodes that are in use when
  `RTPJitterBufferPutBusyNode` begins to discard (`AirPlayUtils.c:755`) hold at least what may
  stay. The code computes both numbers from the buffer's length (`AirPlayUtils.c:503-505`,
  `658-662`), twice the watermark's samples or 50 packets against 200 ms and more; packets of
  352 samples (47 of them are 375 ms) satisfy it, very small PCM packets do not, see
  "What is not modelled".
* **`DispatchQueueProofs`**: `QueuesStayAlive` (`Spec => []QueueAlive`),
  `PoolNeverFallsBehind` (`Spec => []PoolKeepsUp`) and `PoolImplementsQueues`, the
  refinement of `SerialQueues` without its fairness: initial states map to initial states,
  and each step to a step or a stutter. `NextIsStep` reduces the actions to eight kinds of
  step, so that the choice of the thread that is signalled or added plays no part below it,
  and `StepEffect` these to what they do to the tasks: nothing, or one comes, begins or
  ends. That a serial queue begins a task only when it runs none needs `Exclusion`: it is
  busy exactly while one thread is in the loop of its drain (`Busy`, `OneServes`), and
  while it is due one item of the pool or one thread that starts knows of it (`Due`).
  That an ending task disappears from `running`, and a new one is not known yet, needs
  that each task is in one place (`Once`) and that they are numbered in turn (`InTurn`).
  The queues stay alive because their references are counted (`Counted`): one of the
  creator, one of a list that is not empty, one of each thread that took the last task of
  the list and one of each drain of a serial queue. `PoolKeepsUp` is inductive by itself.
* **`ConnectionProofs`**, about `DispatchSource`: `FreedIsForgotten` (`Spec => []NoUseAfterFree`) and
  `HandlersFindSocketOpen` (`Spec => []SocketOpenInHandler`), for any sources and any number
  of calls. Nothing counts who knows of a source; that it is not used after it was freed
  rests on order alone. `Life` names the four stages: its owner has it; the owner released
  it, and the free is the last command about it; the select thread has dropped it, and the
  free is the last item queued for it; it is gone, and nothing anywhere is about it. A cancelled
  source is not armed again, so nothing is sent behind its free. A handler starts only while
  its source is not cancelled, and the cancel handler, the last of which closes the socket,
  waits in the queue behind it (`ClosedIsCanceled`, `EventsOpen`).
  Lemmas about `Sublist` say what unlinking leaves (`KthPlace`: a finite set of places is
  counted).

  About `HTTPConnection`: `ConnectionTypesHold`, `ConnectionAliveWhileUsed`,
  `ConnectionHandledWhole` and `ConnectionAnsweredInOrder` (`CnxSpec => []...`), for any number
  of requests, with or without bodies, any place of the pair-verify, and any sizes of frames, reads
  and the socket. `ConnectionAliveWhileUsed` rests on `RefsInv`, the count of the references:
  that of the server and those of both sources until it is stopped, one of each cancel handler
  to come and one of a completion that waits to run. The other two are about what is on
  its way, wherever it is cut. `MessagesInv` puts the pieces together again:
  `FlowInv`, what was handed on, what is read of the message, what was read behind it
  (`extra`) and what is still to come through the transport, decrypted (`Coming`), are together
  the requests asked for; `HeaderInv`, a header that was read ends at its first end, so
  it is the header of one request; `BackInv`, what the socket holds, what waits in
  the write buffer and what is to be framed are the responses not received yet; `TurnInv`,
  when the two sides are encrypted, so that nothing in plain is decrypted and no frame is read
  in plain. A read gives the beginning of `Coming` and leaves its rest (`Gives`, with
  `FramesRead` for a transport that takes in as many frames as it needs and keeps the rest of one);
  a write moves the boundary between socket and write buffer. `Decrypted` distributes over
  joining (`DecryptedJoin`): framing does not depend on where a read cut.

Only model-checked:

* all liveness (`ReadsEnd`, `WaitsEnd`, `CancelledCompletes`, `DeathEnds`, `NegotiationEnds`,
  `ClockFollows`, `Answered`, `ClosedIsFreed`, `Served`, `ReleasedIsFreed`) and the fairness of
  `KeepsPromise`: out of the prover's reach;
* `JitterBuffer` when timestamps wrap (`jitter_wrap`, where a claim of the code fails);
* `DuplicateCaught` and `NoRequestForQueued` of streams that come round (`audio_wrap`).

## 6. What is not modelled

In the modelled components:

* audio: failures to allocate or to start a thread, statistics, rate estimates and skew
  compensation, the sampling of round trips, decryption, the content of audio;
  `rtpOffsetApply`, which is dead code;
* jitter buffer and main audio: the microphone ring with its sender thread, set-up of the
  streams, PCM packets so small that they exhaust the pool below the watermark of the
  discard, `RTPJitterBufferReset`, which nothing calls;
* timing: the phase-locked loop that slews the clock, which is arithmetic over real time, and
  the thread that ticks it; failures of the calls of the socket;
* event channel: the wake-up probe of a sleeping device, events the device sends,
  bodies that arrive in parts, a client that cannot be created;
* HTTP: parsing and formatting, listeners, events to the client and detached
  connections, which the program does not use;
* dispatch: suspended queues, the main queue, groups, semaphores and `dispatch_after`,
  which are unused or wrappers; failures of the system's calls; the kqueue and Windows builds;
* server: Bonjour registration, properties, legacy (ANNOUNCE) requests, pairing,
  failure to create a session, the timing thread, and the storage of network
  listeners and timers. The controller is taken to send RECORD again only when it
  failed.

Weak points of the code that lie there, and that no property covers: Karn's algorithm
takes a request that was not sent yet for one sent once (`Session.c:3139`); an offset of
0 is "not saved" (`Session.c:2655`); a flush after a tear-down walks a freed busy list
(`Session.c:1190`); a second RECORD overwrites the periodic timer and the listener
(`Session.c:1152`), which hold no reference of the session or connection they are for
(`Session.c:1498`, `Server.c:3490`); the wake-up of the device blocks the event queue
(`Session.c:731`) and is dispatched by a beacon without a reference (`Session.c:3795`);
the sender of the microphone waits without a predicate (`Session.c:2178`); a SETUP that
fails behind the keep-alive socket leaves it and its thread (`Session.c:3612`); TCP
keep-alive stays off after a TEARDOWN of everything (`Server.c:3297`); a thread that
cannot be created leaves its queue marked as scheduled (`DispatchLite.c:887`) and a
command that is dropped by the loopback is lost (`DispatchLite.c:3289`); a read that
discards excess plays silence for it (`AirPlayUtils.c:1063`).

The other components of the inventory are not modelled yet, or are out of reach; the
component list in `PROJECT.json` gives the reason for each, and its hazard list names
the places where they bite. The repository contains much more code than these components:
mDNSResponder and the cryptographic libraries are third-party code, the string, file and
container utilities keep no state that lasts.

## 7. Plan

Most important first; what is above is done.

1. `AudioSender` and the stream threads: the microphone's ring (an abstract ring
   implemented by the mirrored one) and the sender's condition without a predicate.
2. `ScreenSession`: start, stop and the queue of frames.
3. `Pairing`: both sides of pair-setup and pair-verify with symbolic cryptography.
4. `AsyncConnection` and `CarPlayControlClient`: parallel connects of which one wins,
   controllers that are found, lost and disconnected.
5. Composition: `SessionControl`, in which a session's streams, event channel, timing and
   server connection are set up and torn down together.

Theorems planned: the duplicate window and the requests of streams that come round, under a
bound on what may survive a lap; the jitter buffer across a wrap of the timestamps, for the
parts that hold there; `RequestsBehind` and the other auxiliary invariants of the modules
above for the composition of item 5.

# TLA+ models of av_study

The repository holds four programs. The largest, `2_rtsp_server`, is an RTSP/RTP
streaming server with an event loop, a timer thread and a thread pool, and it is
what most of these modules are about. One models its forerunners in `1_rtsp_server`, one
the player of `0_hello_ffmpeg` and one the tool of `3_concurrent_test_tool`.
Paths below are relative to the repository; `R/` stands for `2_rtsp_server/`.

## 1. The system

Only the Windows build of the server compiles (the `timerfd` branch of
`Timer.cpp` names variables that do not exist), so that is the program that is
modelled. It has three threads:

| thread | started by | does |
|---|---|---|
| main | `main` | `EventScheduler::loop`: trigger events, then `SelectPoller::handleEvent` |
| timer | `EventScheduler::loop` (detached) | calls `TimerManager::handleRead` without a pause |
| worker | `ThreadPool::createNew(1)` | `ThreadPool::loop` |

A frame's way: a worker runs `handleTask`, which reads a unit of the file into a
frame of `mFrameInputQueue` and moves it to `mFrameOutputQueue`; every 1/fps
seconds the timer thread runs `Sink::handleTimeout`, which takes a frame from the
output queue, makes RTP packets of it, hands each to
`MediaSession::handleSendRtpPacket`, and returns the frame with a task that fills
it again. Meanwhile the main thread accepts clients, answers their requests, adds
`RtpInstance`s to the lists that the timer thread walks, and deletes connections.

### Inventory

| component | state | operations | hard behaviour | what makes it correct |
|---|---|---|---|---|
| Thread pool (`R/src/scheduler/ThreadPool.cpp`, `Thread.cpp`) | `mTaskQueue`, `mQuit`, condition variable | `addTask`, `loop`, `cancelThreads` | notification outside the mutex, spurious wakeups, quitting with a full queue | tasks run once, in order; no lost wakeup; the queue is drained |
| Frame pipeline (`MediaSource`, the two file sources, `Sink`) | two queues of frames per source, the file position | `handleTask`, `getFrameFromOutputQueue`, `putFrameToInputQueue`, `handleTimeout` | three threads, a mutex held across `addTask`, read errors | frames are conserved, not overwritten, sent in order; streams go on |
| Timers (`Timer.cpp`, `Event.cpp`) | `mTimers`, `mEvents`, the clock | add (three ways), remove, `stop`, `handleRead` | callbacks that take time and change the maps, an `int` difference | maps agree, never early, not too often, no starvation |
| Event loop and connections (`EventScheduler.cpp`, `SelectPoller.cpp`, `RtspServer.cpp`, `TcpConnection.cpp`) | `mEventMap`, fd sets, `mConnMap`, `mDisConnList`, trigger events | accept, read, disconnect, deferred delete | raw pointers collected before dispatch, reused descriptors, non-blocking reads | no dangling event, every report has its connection, all clients served |
| RTSP sessions (`RtspConnection.cpp`, `MediaSession.cpp`, `RtpInstance.h`) | per connection transport, instances and their sockets, per track a list of instances | the five requests, `~RtspConnection`, `handleSendRtpPacket` | two threads without a lock, deletion during sending, sockets closed in three places | each client gets its packets once, after PLAY, until TEARDOWN or its end; no socket is lost or closed under another's feet |
| RTP packetisation (`H264FileSink.cpp`, `AACFileSink.cpp`, `Rtp.cpp`) | `mSeq`, `mTimestamp` | `getFrameFromH264File`, `sendFrame` | start codes at the end of buffer and file, fragment boundaries, wrap-around | the file is cut at its NALUs, fragments reassemble to the NALU, one timestamp per picture |
| Buffer and framing (`Buffer.h`, `Buffer.cpp`, `TcpConnection::handleRead`, `handleReadBytes`, `parseRequest`, `handleRtpOverTcp`) | memory and two indices, the transport flag | `read`, `append`, `makeSpace`, `retrieve`, parsing of requests and packets | messages cut or joined by TCP, stale bytes behind the readable ones | bytes are neither lost nor read twice, answers match their request |
| Socket wrappers, logger, SDP, session map | - | - | - | - |
| `1_rtsp_server` (`main_h264`, `main_aac`, `main_av`) | locals of `doClient`: reply buffer, sockets, files, two threads | one client after the other: requests, then the files | stale reply buffers, sockets overwritten, threads that use the locals | answers in turn, nothing outlives its connection, files played to the end, everybody served |
| Player (`0_hello_ffmpeg/src/vPlayer_sdl2.cpp`) | exit and pause flags, SDL's event queue, the decoder | `sfp_refresh_thread`, the event loop, draining | flags without a lock, a queue that drops, two threads that end each other | every frame is shown once, the player ends, SDL only after the thread's last event |
| Test tool (`3_concurrent_test_tool`) | the count of clients online, FFmpeg's objects per client | client threads, reporter, `run` | seven calls that may fail, a count changed in two steps | the count is right, nothing is used or left behind, the tool ends |
| FFmpeg exercises (the two encoders of `0_hello_ffmpeg`) | - | - | - | - |
| `R/src/my_way` | language exercises | - | - | - |

`PROJECT.json` lists the hazards one by one, at the line where each bites, with the
properties that cover it or the reason why none does yet.

## 2. Modules

| module | models | composed of |
|---|---|---|
| `TaskService` | what the pool promises: a FIFO queue and workers that run one task each | - |
| `ThreadPool` | the pool with mutex, condition variable and `cancelThreads` | implements `TaskService` |
| `FramePipeline` | sources, workers, timer thread and main's constructors | uses `TaskService` for the pool |
| `TimerManager` | the timers and the timer thread | - |
| `RtspServer` | main's event loop, poller, connections and clients | - |
| `RtspSession` | requests, instances and their sockets, and the sending of packets | - |
| `Buffer` | the class `Buffer`, as operators on a record | - |
| `RtspInput` | what a connection makes of the bytes it receives | extends `Buffer` |
| `RtpStream` | the video from the file's bytes to the client's NALU: reader, sink, depacketizer | - |
| `EarlyServer` | the three programs of `1_rtsp_server` and their clients | - |
| `Player` | the player's two threads, SDL's queue and the decoder | - |
| `TestTool` | the test tool's clients, `main` and the reporter | - |
| `ThreadPoolProofs`, `FramePipelineProofs`, `TimerManagerProofs`, `RtspServerProofs`, `RtspSessionProofs`, `RtspInputProofs`, `RtpStreamProofs` | proofs about the module of that name | - |
| `ProgramProofs` | proofs about `EarlyServer`, `TestTool` and `Player` | extends the three |
| `MC*` | values of the constants for TLC | |

`FramePipeline` is composed with the *abstract* pool; `ThreadPool` is shown (by TLC
and by proof) to implement that one, so the pool's wakeups need not be repeated in
the pipeline. The other modules meet at named interfaces: `RtspServer` leaves open
whether a request succeeds (`HandleRead` or `HandleDisConnect`), `RtspInput` says which
bytes make a request, and `RtspSession` what the request does; `FramePipeline`'s
`SendFrame` is where `RtspSession`'s `StartSend` begins; `TimerManager`'s
`LateTimerServed` is the fairness of `Timeout(s)` and `StartSend(t)`. `RtpStream` opens
up what `FramePipeline` calls a unit and its sending; `SentInFileOrder` is why it may
read and send one frame after the other.

### How the state corresponds to the code

* **ThreadPool.** A critical section of `mMtx` is one action, because nothing of it
  can be seen outside. What lies between critical sections is separate: `Push` and
  `NotifyOne` (the mutex is released in between), `Quit`, `NotifyAll` and `Join`.
  `waitSet` is the set of workers blocked in `mCon.wait`; a notified worker stays at
  `"waiting"` outside of it until it gets the mutex and evaluates the predicate
  (`Wait`, `Break` or `Pop`). `SpuriousWakeup` is what the C++ standard allows.
  `started`, `handled`, `added`, `addedInTime` record history.
* **FramePipeline.** The mutex of each source is explicit (`mMtx`), because it is
  held over file reads (`LockSource` to `ReturnFromTask`) and over `addTask`
  (`PutFrameToInputQueue` to `AddTask`). A file is a sequence of units: `"nal"` is
  sent, `"aud"` is skipped by the loop of `H264FileMediaSource::handleTask`, `"bad"`
  is a place where a reader returns -1: a unit without start code or larger than
  `FRAME_MAX_SIZE`, a damaged ADTS header. A missing file is the empty sequence.
  `PosAfterError` gives the positions the two readers continue from. A frame's
  content is the number of the unit in it (`mBuf`). `SendFrame` reads it without a
  lock, as `sendFrame` does. Constructors add their tasks one at a time
  (`AddBootTask`) while workers already run, but before the timer thread exists.
* **TimerManager.** `mTimers` is the set of ids (its values are never read),
  `mEvents` the multimap as a sequence. `handleRead` is two actions, `Fire` and
  `Finish`, around the callback; between them the clock may advance and the callback
  may add or remove timers and stop events. The maps are used without a lock: main
  adds timers before `loop()`, later only callbacks do (`MayCall`). A callback that
  removes the timer it runs for would make `mEvents.erase(it)` undefined; no caller
  does, and the model excludes it. `Expired` keeps the `int` difference, modulo
  `IntMod`. The clock of a call is the one that `handleRead` read.
* **RtspServer.** A round of `loop` is `HandleTriggerEvents`, then `Select` or
  `SelectTimeout`, then one action for each ready event. The poller's map, its
  `fd_set` (of `FdSetSize` sockets; a further one is ignored, as Windows does) and
  the vector of ready events are separate variables, so that an event may outlive
  its connection if the code lets it. The system hands out any free descriptor.
  Write and error events are left out, nothing enables them.
* **RtspSession.** `<<c, t>>` names the `RtpInstance` of connection `c` for track
  `t`; a connection sets up a track once. `mSuffix[c]` only tells whether the last
  request's path names the session, which is what `~RtspConnection` asks.
  `handleSendRtpPacket` is `StartSend`, one `SendToNext` per entry, and `EndSend`;
  main's requests happen in between. `sockets` are the descriptors that are open. Each
  system call of `createRtpRtcpOverUdp` is a step: `SetupUdp` begins it, `CreateUdpSock`
  or `CreateFails`, `BindRtp`, `BindRtcp` or `BindFails` go on, up to `Tries` times;
  `attempt` has its locals. `~RtspConnection` is `Delete`, `DeleteRtpInstance` and
  `DeleteRtcpInstance` for each track, and `CloseClient`; each closes one descriptor,
  over TCP one that another has closed. Main is one thread and alone opens descriptors:
  nothing else of it happens meanwhile (`MainIsFree`), while packets are sent all along.
  A deleted instance stays in memory:
  reading it is undefined, and the model lets it look as it was or as not alive. A
  packet over TCP, or of a deleted instance, goes to whoever has the descriptor now.
  `played`, `watching` (until TEARDOWN) and `wire` record what the properties speak of.
* **Buffer, RtspInput.** A buffer is the record of its memory and its two indices; each
  method is an operator from buffer to buffer. `PeekAt` may look behind the readable
  bytes, where `mBuffer` still has what earlier messages left, or `Junk`. A byte of
  `RtspInput` stands for a piece of text or of a packet that the code never looks into
  (`Kinds`), so a read ends between two such pieces. `HandleRead` is `recv` of any
  number of the bytes in `pipe`; what `handleReadBytes` then does is `HandlePacket` for
  each packet and `WaitForBytes`, or `HandleRequest`, or `HandleDisConnect`. `Derail`
  is a packet's size that is read before it has arrived and may be negative, or text taken
  for a size that is readable and swallowed. It ends the model's behaviour: the code goes
  on with an index that has gone back, or in the middle of a message. The client sends packets only
  after its SETUP was answered, payload contains no line end, packets are shorter than
  2^15 bytes, and the handlers of the requests succeed (`RtspSession` has their failures).
* **Player.** `packet`, `held` and `shown` are numbers of packets of the file. The loop of
  `vPlayer_sdl` is `main`'s place between waiting, reading, sending and receiving;
  `sfp_refresh_thread` is `thread`. The two flags are plain variables that both write.
  `PushEvent` drops an event when SDL's queue is full; `breakLost` records that it was
  the BREAK. `PushBreak` and `Return` are two steps, main may take the BREAK in between,
  for nothing joins the thread; `Start` may leave main without a thread, as the result of
  `SDL_CreateThread` is not looked at. The decoder keeps `DecoderDelay` frames until it is drained. The
  specification is `PlayerSpec`, with `PlayerInit`, `PlayerNext` and `PlayerTypeOK`, so
  that one module can extend it beside `EarlyServer`.
* **TestTool.** Its specification is likewise `ToolSpec`. `pc[c]` is the call of
  `testPullAndDecodeStream` that client `c` makes next; each may fail, and then the thread
  goes to its end. `allocated[c]` is what it holds of FFmpeg, and `run` where `main` and
  its function of that name are. Counting in (`Online`) and out (`Offline`) are two steps each, `Lock`, which
  reads the count into `temp`, and `Unlock`, which writes it back; other threads and the
  reporter, which takes the mutex to log the count, may run in between.
* **RtpStream.** A file is a sequence of start codes and NALUs; the code sees their
  bytes (`Bytes`) only. `temp` is what `fread` delivered, `frame` where the NALU lies in
  it; `memcpy` may read on behind the delivered bytes, which is `Stale`. A round of
  `handleTask`'s loop is `ReadFrame`, also when it drops a delimiter or fails. A round of
  `sendFrame`'s loop is `SendFragment`. `SeqLimit` and `TimeLimit` are the widths of
  `mSeq` and `mTimestamp`. `Receive` is the client: it joins FU-A fragments with
  consecutive sequence numbers, as RFC 6184 says.
* **EarlyServer.** A request is its method and CSeq; `sBuf` is the request that the text
  in the buffer answers, `NoRequest` whatever `malloc` left there. `recv`, the handler and
  `send` are one action, for the server has one thread then; from PLAY on, the loops (the
  threads of `main_av`) read and send unit by unit beside each other and the clients.
  `SetupFails` is any of the four calls of SETUP failing. `again` counts SETUPs whose
  sockets a later one overwrote. No FILE is closed in the code, so `files` only grows.
  A client may leave at any point; sending to it then does nothing.

Operators marked *mutant of* are broken variants of the definition below them. They
are part of no specification; exchanging a definition for its mutant makes the run
report the property that `PROJECT.json` pairs it with, which shows that the property
depends on that piece of code.

## 3. Runs

| run | constants | shows |
|---|---|---|
| `FramePipeline` | 2 sources (intact AAC, damaged H.264 with a delimiter), 2 frames, 2 workers | `TypeOK`, `FrameConservation`, `NoTaskWithoutFrame`, `FilledFrameKept`, `SentInFileOrder`, `StreamNeverStops` |
| `FramePipeline_starves` | 1 source with a bad unit, 4 frames, 1 worker | `InputFrameFilled` fails |
| `ThreadPool` | 2 workers, 2 callers, 3 tasks | `TypeOK`, `NoLostWakeup`, `DrainedWhenDone`, `ImplementsService`, `EveryTaskHandled`, `CancelReturns` |
| `TimerManager` | 3 timers, 2 events, clock up to 3 | `TypeOK`, `MapsAgree`, `OnlyDueCalls`, `LateTimerServed` |
| `RtspServer` | 4 connections over 3 descriptors, an `fd_set` of 2, backlog 2 | `TypeOK`, `Consistent`, `ClosedIsDeleted` |
| `RtspSession` | 2 connections, 1 track, 3 descriptors, 2 tries | `Inv`, `SocketsOwned`, `SentToItsClient`, `PlayedIsServed` |
| `RtspSession_reuse` | 2 connections, 1 descriptor, 1 try | `PacketsAfterPlay` fails |
| `RtspInput` | 3 scripts of 5 or 6 messages, initial size 8 | `Inv`, `BytesKept`, `AllHandled` |
| `Player` | 3 files, decoder delay 1, queue of 3, 3 user events | `Inv`, `AllFramesShown`, `Ends` |
| `TestTool` | 2 clients, both test types | `CountCorrect`, `Resourced`, `ToolEnds` |
| `RtpStream` | 396 files of 1 to 3 units, buffer 13, packets of 3, 3 sequence numbers, 4 timestamps | `TypeOK`, `CutsAtNalus`, `NaluReceived`, `LastIsSent` |
| `EarlyServer` | 3 programs, 2 clients with 3 requests, 2 units a file, 3 files | `TypeOK`, `NoSocketLeft`, `PlayedInFull`, `EveryClientServed` |

`Inv` is a module's `TypeOK` with one more property: `ListedOnce` in `RtspSession`,
`HandledInOrder` in `RtspInput`, `LastEventAtRelease` in `Player`. So is `CountCorrect`
of `TestTool`, with `OnlineCounted`. What each property says, and of which lines, stands above its definition.

Bounds, and why they are enough:

* *FramePipeline*: two frames per source are the fewest for which one is filled while
  the other is sent; two sources share the pool and the timer thread; the program has
  one worker, two is the smallest number for which tasks of one source overlap. Files
  are read around their end.
* *ThreadPool*: each task is added once (`t \notin added`), so a behaviour ends when
  all were added and handled: `CHECK_DEADLOCK FALSE`. Two workers and two callers show
  every race of two pushes, notifications and sleeping workers; the third task lets a
  worker come back for more.
* *TimerManager*: `MaxTime` and `MaxId` bound the clock and the number of timers, and
  with the clock everything stops: `CHECK_DEADLOCK FALSE`. Delays, intervals and
  moments are chosen to collide, to be late by more than an interval, and to be tied.
  All moments lie less than `IntMod` ahead. A timer whose moment is a multiple of
  2^32 ms ahead would fire at once, because of the `int` of `Timer.cpp:161`; `RunAt`
  is not called in the repository.
* *RtspServer*: the listening descriptor lies between the clients', so it is dispatched
  before one and after the other; with four connections descriptors are used again.
  `FdSetSize` 2 leaves a client that is accepted and never read, as on Windows beyond
  `FD_SETSIZE` sockets; `ClosedIsDeleted` is stated for those that fit.
* *RtspSession*: two connections are enough for one that is deleted while the list is
  walked and another that gets its descriptor. Three descriptors let one of them have a
  track over UDP, or both be connected and one descriptor be free: the first socket of a try is then created
  and the second one is not. Two tries (ten in the code) are the fewest with one that
  follows a failed one; the theorems hold for any number of connections, descriptors and
  tries.
* *RtspInput*: eight bytes hold each message but no two requests, so that `read` fits,
  overflows, moves and grows. The scripts have packets between and
  behind requests, runs of them, and two sizes. A connection ends with its client:
  `CHECK_DEADLOCK FALSE`. `AllHandled` is stated for deliveries that keep messages apart
  (`ReadApart`); for the others `HandledInOrder` says that what is handled is right.
* *Player*: sound between pictures, a file without pictures and a damaged packet; a frame
  stays in the decoder, and the queue is shorter than the events that can meet in it. The
  player ends: `CHECK_DEADLOCK FALSE`. `Ends` excepts a lost BREAK, a thread that could not be
  created and a player that stays paused.
* *TestTool*: two clients are the fewest that can take each other's count. The process
  ends: `CHECK_DEADLOCK FALSE`.
* *RtpStream*: NALUs have 1, 2, 4, 6, 7 and 10 bytes: below, above and at multiples of
  `PktMax`, with one and with several complete fragments, and with zeros inside. With their
  start codes they fill the buffer exactly, or do not fit into it together with the next
  code, which is the reader's error; `LastIsSent` is stated for files without that. The
  counters wrap within one file.
* *EarlyServer*: a client waits while another is served. `MaxRequests` bounds the requests,
  so all stops when every client has left: `CHECK_DEADLOCK FALSE`. Three requests allow two
  SETUPs before PLAY, and a SETUP with the CSeq 3 as well as others. Two plays of
  `main_av` ask for four files, of which `MaxFiles` allows three. `NoSocketLeft` and
  `PlayedInFull` allow for the overwritten sockets and the last NALU.

Fairness. Threads are scheduled (weak fairness of their steps). A thread that waits
for a source's mutex gets it if it is free again and again (strong fairness of
`LockSource` and of the timer thread's steps); the mutexes of the platform do not
starve a waiter for ever. `Timeout(s)` and `StartSend(t)` are strongly fair because
`handleRead` serves each late timer (`LateTimerServed`). Clients, callers of
`addTask`, spurious wakeups and `cancelThreads` are not fair: they may never act.
`RtpStream` goes on as long as frames are read and timers fire, which `StreamNeverStops`
and `LateTimerServed` give for files without read errors, to which `LastIsSent` is limited.
In `EarlyServer` main and the two threads run, and each client leaves at some time
(`WF_vars(Leave(c))`): one that stays without asking anything blocks all others in
`recv`, and one that does not read blocks `send`, so without it nobody is promised
service.
`RtspInput` needs the main thread to read what has arrived and to handle it. The player's
threads run, its user may do nothing. In `TestTool` threads run, the mutex is given to
each that waits for it again and again, and streams end (`SF_vars(EndStream(c))`),
because nothing else ends a client that reads.

### Findings

1. **A read error starves a stream** (`FramePipeline_starves`).
   `handleTask` returns when the reader does (`H264FileMediaSource.cpp:39`,
   `AACFileMediaSource.cpp:32`); the frame stays, its task is gone. After
   `DEFAULT_FRAME_NUM` errors nothing is read any more, although the reader went back
   to the beginning of the file for the next try.
2. **Deleted instances keep sending** (`RtspSession_reuse`).
   `removeRtpInstance` erases from a copy of the list, and `~RtspConnection` does not
   even call it when the last request was a SETUP. The timer thread then uses the
   deleted instance, whose descriptor may be another client's by now.

Other behaviour that was met while modelling, and that the properties name as their
exceptions where they are concerned:

* TEARDOWN replies and changes nothing, so packets go on, against the comment at
  `RtspConnection.cpp:156`: `PlayedIsServed` asks for packets up to TEARDOWN only, and no
  property for their end; and after a SETUP for TCP one for UDP gets TCP (`:208`).
* `sendFrame` counts the bytes of the whole NALU (`H264FileSink.cpp:55`) but begins
  behind the first, so the last fragment ends with a byte that lies behind the NALU.
* A second request in one read is swallowed with the header fields of the first, and a
  request in two pieces ends the connection (`RtspConnection.cpp:110-186`).
* The size of an interleaved packet is read before it is known to have arrived, into a
  signed number of 16 bits (`RtspConnection.cpp:471`), and from what may be text: `Derail`.
* The player loses a quit that comes before its thread's first statements, waits for ever
  if the BREAK finds SDL's queue full or its thread could not be created, may leave SDL
  while the thread is still returning from `SDL_PushEvent` (`:144`, `:175`), never gives back the packets' memory, and calls
  `release_sdl(nullptr)` when FFmpeg cannot be set up (`vPlayer_sdl2.cpp:172`).
* The test tool never releases the options and the device: the comment at
  `FFmpegDecoder.cpp:176` says that the device must be released. A client counts itself
  out before its decoder is destroyed; the reporter reads `interval` by reference
  after `run` has returned.
* The early programs answer a SETUP with a CSeq other than 3 and 4 with an old reply
  (`rtsp_av.cpp`), lose the last NALU of a file and never close one.

## 4. Proofs

All proofs hold for every value of the constants that satisfies the assumption named in
the module (`PoolAssumption`, `PipelineAssumption`, `TimerAssumption`, `ServerAssumption`,
`SessionAssumption`, `BufferAssumption` and `InputAssumption`, `StreamAssumption`,
`PlayerAssumption`, `EarlyAssumption`, `ToolAssumption`): that sets are finite, numbers
are numbers, and the value that stands for nobody, nothing or no descriptor is none of
the others; of the files of `RtpStream`, that they consist of NALUs as H.264 has them
(`IsNalu`). TLC evaluates them all. One theorem has a hypothesis of its own,
`OnlyWhenDue`.
Each proof goes the same way: an inductive invariant (`IInv` in most modules) holds
initially, and one lemma for each action, or group of actions that change the same
variables, shows that it is kept.

* **`ThreadPoolProofs`.** The inductive invariant `IInv` has four parts. The types,
  with the fact that a worker has a task exactly in `"handle"`. *Wakeup*: sleeping
  workers are at `"waiting"`, nobody sleeps after `NotifyAll`, and a non-empty queue
  without quit has a notifier or a worker awake. *QueueOnce*: the queue holds a task
  at most once and none that was started. *Accounted*: an added task is queued, held
  by a worker or handled, a worker that left did so with an empty queue after quit.
  `NoLostWakeup` is not inductive alone: a worker that goes to sleep must be known to
  have found the queue empty. From `IInv` follow `PoolTypeOK`, `WakeupNotLost`,
  `TakenAtMostOnce` and `DrainedAtCancel`;
  `PoolImplementsService` shows that `Pop` and `Handle` are `Begin` and `End`, `Push`
  is `Submit`, and every other action a stutter.
* **`FramePipelineProofs`.** `IInv` has three parts. *Placed*: `TypeOK`,
  `FrameConservation` and `SinkBusy` (the timer thread has a frame exactly between taking
  it and putting it back). A step moves at most one frame, from the front of one queue to
  the back of another, and the first lemmas say what that does to a queue without
  repetitions. `FilledKept` follows: a worker writes only into the front of the input
  queue, which conservation keeps apart from all filled frames. *NoTaskWithoutFrame* is
  inductive as it stands, as a count: the tasks of a source in the queue, in hands of
  workers and still to be added are never more than the frames in its input queue;
  the counts are cardinalities of the positions a source has in the queue. *AllInOrder* is
  what `InFileOrder` needs: the unit sent last, the one in the sink's hands, those in the
  output queue and the one the reader finds next follow each other pairwise. The property
  speaks of two sends only; between them there may be any number of frames and any number
  of reads, of which one may fail and start the file again (`Follows`).
* **`TimerManagerProofs`.** Four parts besides the types. *MapsAgree*, for which `Insert`
  and `Erase` are shown to keep a sequence of timestamps in order, wherever they insert
  and whatever is equal. *Numbered*: ids are given in order, so that an id that was
  removed does not come back. *FiringListed*: while a callback runs, its timer is still
  in the multimap, and one that was passed over is stopped. *IntervalKept*: a timer that
  was called and waits is a repeating one, due an interval later than its call. From
  these follow `TypeInvariant` and `TimersAgree`. `OnlyWhenDue` needs that no timer lies
  `IntMod` or more ahead (`NotFarAhead`), as the difference of timestamps is cut to an
  `int`. For delays and intervals, which are `uint32_t`, that is so; for the moments of
  `RunAt` it is the theorem's hypothesis. `RunAt` has no caller in the repository.
* **`RtspServerProofs`.** `IInv` adds to the types that the two maps have exactly the live
  connections, each under a descriptor of its own (*Maps*); that listed descriptors
  belong to live connections and a trigger event is pending while there are any
  (*ListIsLive*); and that the events still to be dispatched are of live connections that
  are not listed yet (*ReadyIsLive*). The last is why deletion may be put off to the next
  round and why no connection is listed twice: `ContainersConsistent` says so for four
  containers at once, `ServerTypeOK` that the `fd_set` never overflows.
* **`RtspSessionProofs`.** `ListedOnce` needs that only what was set up is listed, and
  `SentToOwnClient` that only PLAY makes instances alive and that an instance over TCP
  has its connection's descriptor until both are deleted. `NoSocketLost`
  goes along the single system calls. One that succeeds gives a free descriptor to the
  connection whose turn it is, and one that fails closes what that connection has alone
  (`OneChanges`), as a destructor does (`OneCloses`); the others keep theirs.
  It needs three more facts: main does one thing at a time (*OneAtATime*), so that a
  descriptor closed twice is not another's in between; a descriptor that is being tried
  is no instance's yet (*Fresh*); and a try forgets both of its sockets when it fails,
  so it must have closed them (`AttemptKeeps`).
* **`RtspInputProofs`.** First `Buffer`: `ReadAppends` and `RetrieveDrops` say what `read`
  and `retrieve` do to the readable bytes, whether the memory grows, moves or has room.
  Then `InputIsAQueue`: each step of a connection is one of the two, for any script, any
  cutting and any initial size. `AnswersInOrder` is about what was sent and not yet
  handled, `Stream`: what is readable and behind it what is in the pipe. A delivery does
  not change it and handling drops its front. In it the CSeq of a request stands right
  behind its first line (*CSeqFollows*), messages begin in the order of sending
  (*InSequence*), and all of them come after what was handled (*HandledFirst*). So the
  first CSeq that `parseRequest` finds is that of its first line, however many other
  requests were read with it.
* **`RtpStreamProofs`.** A file is a sequence of pieces of any number and length, so what
  its bytes are needs an induction. The library's induction theorems cannot be used for
  that, but `NatLessThanWellFounded` and `WFMin` can: from them `SetInduction` shows that
  a set of numbers with 0 and with every successor is all of `Nat`, and an induction is
  an instance of it with the set of numbers for which the formula holds. That gives what
  `FlattenSeq` returns (`JoinsExists`, `JoinsAgree`, `FlattenIsJoined`) and the layout of
  a file (`UpToStep`, `UpToGrows`): each piece lies at its place. The reader stands at the
  beginning of a piece (*AtUnit*). What `fread` delivers begins with the start code, a
  start code within the NALU would contradict `IsNalu`, and so the first one that
  `findNextStartCode` finds is that of the next piece (`FoundBehind`, `ReadsPiece`): the
  frame is the NALU, the reader goes to the next piece, and `FramesAreNalus` follows.
  *Sending* says what the client has between two fragments: the NALU's first byte, which
  it builds from the FU-A indicator and header (`Decoded`), and the first
  `pktsSent * PktMax` of the bytes behind it; the sequence number is the one it waits for.
  From it and `FragmentsAre` (`mSize = PktNum * PktMax + RemainPktSize`) follows
  `NalusArrive`, also for the last fragment and for one that reads a byte behind the NALU.
* **`ProgramProofs`, the early servers.** `EarlyInv` says who waits in the queue (each
  client once and not served, *Waiting*, *Asking*), that no PLAY was answered while
  requests are read (*Served*), which sockets are open at which phase (*SocketsHeld*), and
  that the client has what the loops have sent as long as it is there (*Streams*). That
  no client is served twice is what keeps `received` within a file. From it follow
  `TypeCorrect`, `SocketsClosed` and `WholeFileArrives`.
* **`ProgramProofs`, the test tool.** `Exclusive` (exactly the owner of the mutex is
  between its read of the count and its write, so what it read is the count still) makes
  the two-step count right (`CountIsRight`); `Held` lists what a client has at each place
  of its way, from which `NothingUsedOrLeft` follows.
* **`ProgramProofs`, the player.** `BreakIsLast`: a BREAK is in the queue only when the refresh thread
  has nothing left but to return, and there is no thread before main leaves its beginning;
  from the two follows `BreakBeforeRelease`: the thread pushes nothing and writes no flag
  any more once main is at `SDL_Quit`. That it has returned by then does not follow, and is
  not so. `FramesInOrder` rests on `FramesInv`: what was shown and then what
  the decoder holds is in the order of the file, and together they are exactly the video
  packets read so far, but for the one that is about to be sent; draining begins at the
  end of the file and leaves nothing in the decoder; and unless the user quits or a packet
  is damaged, the thread ends only after that.

Each invariant and each action property of the passing runs is stated by a theorem.

Only model-checked:

* all liveness (`StreamNeverStops`, `EveryTaskHandled`, `CancelReturns`,
  `LateTimerServed`, `ClosedIsDeleted`, `PlayedIsServed`, `AllHandled`, `Ends`, `ToolEnds`,
  `LastIsSent`, `EveryClientServed`), which the prover cannot do under fairness;
* the two findings, which are counterexamples.

## 5. Not modelled, and the plan

Not modelled, and why:

* socket calls beyond their outcomes (`SocketsOps.cpp`, `InetAddress.cpp`): wrappers of
  system calls without state. `accept` does not fail in `EarlyServer`, where the program
  would end.
* SDP and reply texts, the session map and the logger: formatting, and a map that `main`
  fills once.
* multicast, which `main` has commented out; write and error events of the poller and the
  output buffer, which nothing fills for later.
* the bytes of the early programs' packets, the audio sink's header of four bytes (a frame
  with a CRC has two bytes more of header than `AACFileSink.cpp:37` removes), partial writes
  of interleaved packets (`RtpInstance.h:68`), and a `std::list` that is torn while it is
  walked (`MediaSession.cpp:92`): list insertions and writes are one step here.
* the two encoders of `0_hello_ffmpeg` and the exercises in `R/src/my_way`: sequential
  calls without a state of their own. FFmpeg and SDL are external wherever they are used.

What is left to do, in this order:

1. The way from a connection's output to the client's bytes, with partial writes, and the
   audio sink's packets.
2. What the framing does after `Derail`.

# A TLA+ model of AndroidtoMonitor

AndroidtoMonitor turns a phone into a second monitor: a Windows program grabs
a virtual display, encodes it and streams it over `adb forward` to an app that
decodes and shows it. This directory models it in TLA+, its concurrent core
first, checks it with TLC and proves its safety with TLAPS. Paths are relative
to the repository; `W/` stands for `windows/src/`, `A/` for
`android/app/src/main/java/dev/frogmagical/a2m/`.

## 1. The system

```
 PC                                                          phone
 main loop -> Encoder -> MF work queue -> Sender -> sender   TCP   accept thread    MediaCodec
 (capture,    (slot,     (Invoke)         (queue)   thread  =====> session threads -> DecoderManager
  pacing)      MFT)                                         adb    watchdog, UI       callbacks
      ^                                      |
      +------------- key frame asked for ----+
```

| component | state it keeps | operations | called by |
|---|---|---|---|
| start-up and end, `W/main.cpp:262-353, 430-462` | what has been started, exit code | `main`, `Encoder::Initialize` | the main thread |
| main loop, `W/main.cpp:354-429` | next deadline, `g_running` | pump, sleep, submit, check duration | the main thread; Ctrl-C on a console thread |
| `DesktopCapture`, `W/capture.cpp` | duplication, held frame, last picture, cursor, NV12 pool | `PumpFrame`, `ConvertLatestToNv12` | main loop |
| `Encoder`, `W/encoder.cpp` | transform, depth-1 input slot, open requests, map of capture times, callback | `SubmitFrame`, `Invoke`, `PullOutput`, `DeliverBitstream`, `Shutdown`, `ForceKeyFrame` | main; threads of the MF work queue; sender thread |
| `Sender`, `W/sender.cpp` | two-place queue, socket, backoff, seq | `Enqueue`, `ThreadMain`, `Stop` | work queue; its own thread; main |
| cursor shapes, `W/cursor.cpp` | none | `DecodePointerShape` | `DesktopCapture` |
| wire format, `W/protocol.cpp`, `docs/PROTOCOL.md` | none | header, Annex-B scan, AVCC conversion | encoder, sender |
| `TcpServer`, `A/TcpServer.kt` | server socket, `currentSocket`, `lastRecvAtMs`, `running` | `run`, `startWatchdog`, `handleSession`, `shutdown` | accept, watchdog, one thread per session, UI thread |
| `MainActivity`, `A/MainActivity.kt` | server, decoder, `connected` | listener, `surfaceCreated`, `surfaceDestroyed` | sessions; UI thread |
| `DecoderManager`, `A/DecoderManager.kt` | codec, backlog, free buffers, two flags | `configure`, `onVideoFrame`, codec callbacks, `reset`, `release` | sessions; codec's thread; UI thread |
| statistics, logging, adb set-up, `tools/` | counters; none | see section 8 | |

What makes it hard:

* **Locks given up half-way.** `Enqueue` releases its mutex between trimming
  and pushing (`sender.cpp:39-52`); `DecoderManager` writes `codec` and
  `waitingForConfig` outside its lock; `Invoke` asks for the next event before
  it does its own work, so two of them run at once (`encoder.cpp:93`).
* **Two queues that meet.** Frames and requests in the encoder, frames and
  buffers in the decoder: whoever comes second must find the other's entry.
* **Connections that end in many ways.** `adb forward` accepts although
  nobody listens, a peer goes without FIN, a new connection preempts an old
  one whose thread is still at work, and the surface goes away at any time.
* **A decoder that must not be fed a gap.** Frames are dropped in the
  sender's queue, the encoder's slot and the decoder's backlog.
* **Clocks.** Backoff, heartbeat, watchdog, paced submission, stalls.
* **A start in seven parts, each of which may fail**, ended partly by hand,
  partly by `goto cleanup` and partly by destructors, while threads of other
  parts still run.
* **Formats.** Start codes of three and four bytes, length prefixes that look
  like one, parameter sets that come with a frame, before it or never; cursor
  shapes in three encodings whose image and position come apart.

`PROJECT.json` lists the hazards one by one, at their lines, with the
properties that cover each.

## 2. Modules

| module | models | kind |
|---|---|---|
| `Sender` | `sender.cpp`: encoder's thread, sender thread, `Stop`, phone | detailed |
| `Connection` | what one watching the socket may rely on (PROTOCOL.md) | abstract, implemented by `Sender` |
| `TcpServer` | `TcpServer.kt`: accept, watchdog, sessions, shutdown, peers | detailed |
| `Decoder` | `DecoderManager.kt` and MediaCodec as it is used | detailed |
| `Receiver` | `MainActivity.kt`: `TcpServer` and `Decoder` composed | composition |
| `Encoder` | `encoder.cpp` from `SubmitFrame` on, and the transform as it is used | detailed |
| `Startup` | `main.cpp` around the loop and `Encoder::Initialize`, with `Encoder` inside | composition |
| `Bitstream` | the bytes: `protocol.cpp`'s helpers, `CacheSequenceHeader`, `DeliverBitstream` | algorithm on its inputs |
| `Capture` | main loop, `PumpFrame`, DXGI as it is used | detailed |
| `CursorShape` | `cursor.cpp`, and what a shape means to Windows | pure functions |
| `Picture` | what `PumpFrame` keeps and `ConvertLatestToNv12` draws | detailed, against `CursorShape` |
| `MCBitstream`, `MCPicture` | the access units, shapes and images TLC takes | |
| `SenderProofs`, `TcpServerProofs`, `DecoderProofs`, `ReceiverProofs`, `StartupProofs`, `CaptureProofs`, `PictureProofs`, `BitstreamProofs` | theorems | |

The modules are written to be checked and proved about alike: recursive
functions, no recursive operators; the parameters are constants with a named
assumption, and the configuration files give them their small values. Most are
instantiated for TLC directly by their `.cfg` files; where the values are
structured, an MC module defines them. Operators called "mutant" in their
comment are deliberately wrong variants of the definition after them; no
specification uses them. They record which mistake each property notices
(`mutants` in `PROJECT.json`).

### State and steps

A step is what a thread does between two points where another can interfere:
a critical section, one access to a volatile or atomic variable, one call on a
socket or into another component. A thread's position is a `pc`-like variable
(`pc`, `enq`, `stop`, `srv`, `watch`, `session`, `ui`, `at`); what it carries
from one step to the next, its locals, is a variable too (`hand`, `client`,
`old`, `wsock`, `mine`, `au`). Variables marked `*` are history, read by
properties only.

**Sender.** `queue`, `connected`, `seq`, `backoff` and `running` are the
members and locals of these names. `EnqueueTrim`, `EnqueueRecord`,
`EnqueuePush` are the three lock regions of `Enqueue`. `ThreadMain` is one
action per exit of its loop: `Top`, `SleepSlice`, `ConnectOk`/`ConnectFails`,
`ClearQueue`, `ClearRecord`, `HandshakeOk`/`HandshakeFails`, `AskForIdr`,
`TakeFront`, `VideoOk`/`VideoFails`, `NoHeartbeat`/`HeartbeatOk`/
`HeartbeatFails`, `DropConnection`, `CloseSocket`. A connect may fail though
somebody listens, and a send though the connection reaches the phone
(`SO_SNDTIMEO`, or any error). A send that fails may have
written part of its message, and `seq` is used up either way; a send on a
connection that no longer reaches the phone may still succeed, into a buffer.
Time is `healthy` (is the session 3 s old?) and `hbDue` (is a heartbeat due?).

**TcpServer.** `Bind`/`BindFails`, `Accept`, `Swap` (`getAndSet`), `CloseOld`, `Stamp`,
`Spawn` are the lines of `run`; `WatchdogLooks` and `WatchdogChecks` the two
reads of the watchdog; `OnConnected`, `GetInputStream`, `Check`, `ReadHeader`,
`ReadPayload`, `ReadFails`, `Deliver`, `CloseSession`, `Unset` (the
`compareAndSet` of line 176) and `OnDisconnected` a session; `ShutdownPort`,
`ShutdownClosesPort`, `ShutdownTakes` (`getAndSet`), `ShutdownCloses`,
`ShutdownWakes` the UI thread, which holds the socket it took in `taken`.
`socket.getInputStream()` (line 117) stands outside the `try`: on a socket that
has been closed meanwhile the session's thread dies there ("died") and
unregisters nothing. (Android ends an app on an uncaught exception; in the model
the other threads go on.) A socket is `waiting`, `up`, `half` (the peer
has left) or `closed`. `stale` says whether `lastRecvAtMs` is more than 3 s
ago; `Elapse` makes it so once a time has been written.

**Decoder.** `pending`, `avail`, `dropping`, `waiting` and `codec` are
`pendingFrames`, `availableInputIndices`, `droppingUntilIdr`,
`waitingForConfig` and `codec`. `configure` is `CallConfigure`, `StopCodec`,
`FreeCodec`, `DropCodec` (lines 208, 209, 213), `ClearInConfigure`, `Arm`,
`StartCodec`/`StartFails`, `AssignCodec`; `onVideoFrame` is `CallFrame`,
`FrameLocked` (`TakeIdr`, `DropTillIdr`, `TakeNext`), `TryFeed`; `reset` is
`CallReset`, `ResetLocked`; `release` is `StopInRelease`, `FreeInRelease`,
`QuitInRelease`; a callback is `CallbackBegins` and then
`OnInputBufferAvailable`. If `stop()` throws, `release()` is skipped and the
codec may go on without an owner. `Feed` may throw on a live codec: the frame is
lost, and the buffer is noted in `spoiled`. Buffers carry the codec instance they
came from.

**Receiver** joins the two: session *c* of the server is thread *c* of the
decoder, and is inside the decoder while it "delivers". `DropDecoder` is
`surfaceDestroyed` after the server's shutdown.

**Encoder.** `pending`, `needInput`, `drops`, `times`, `running`, `callback`
and `transform` are the members with an underscore. `SubmitFrame` then
`SubmitAsync` or `SubmitSync`; `Invoke`, `Rearm`, `NeedInput`, `PullOutput`,
`DeliverBitstream`, `CallBack` per thread of the work queue; `ShutdownCall`,
`ClearCallback`, `Flush`, `ClearSlot`, `Release`. A bitstream may be rejected,
an input refused, the output type may change in mid-stream. An event may not be
had (`encoder.cpp:85`), the next one not asked for (93, 445), an output not be
fetched (583-605): nobody follows up then, and the history variable `broken`
says so. `ClearSlot` comes after 50 ms, not after the `Invoke`s that run;
`outlasted` says that one still did, and one that then finds `transform_` null
is at "void".

**Startup** extends `Encoder` by what `main` does around it. `up` is the stack
of what has been started (COM, Winsock, Media Foundation, and the objects
`DesktopCapture`, `Encoder`, `Sender`), `todo` what is still to be ended. It is
not computed from `up`: each exit names its own list, the calls written by hand
after an early failure, or the destructors of what is in scope there followed
by the calls at the label `cleanup`. One action per start: `StartCom`,
`ListOnly`, `StartSubsystems`, `SetupAdbForward`, `InitCapture`,
`CaptureInitialized`, `StartSender`; `EndLoop`, `StopSender`, `ShutdownReturns`,
`End` (one call or destructor), `Return`.
`Encoder::Initialize` is `NoDeviceManager`, `SkipTransform`, `TakeTransform`,
`NoneLeft`, `TypesAccepted`/`TypesRefused`, `FallBack`, `BeginStreaming`; `mft`
is what has been done to the transform itself, beside the object's flags
`isHardware_` and `isAsync_`. `Encodes` are the steps of `Encoder`, where `main`
is in the loop or in `Shutdown`. `AskForKeyFrame` and `KeyFrameAsked` are the
sender's thread in `ForceKeyFrame`. So the encoder is checked from its
construction to its end, not from a state in which it is running already.

**Bitstream** works on bytes, for what goes wrong here goes wrong between bytes.
`CacheSequenceHeader` reads the transform's blob, `DeliverBitstream` takes an
access unit that the transform has written in one of four delimitations, turns
it into Annex-B, scans it, caches parameter sets and makes the frame.
`FindStartCode`, `LooksLikeAnnexB`, `NalsOf` and `Nal` (`ScanAnnexB`) and
`AvccToAnnexB` are `protocol.cpp`. `Write` and `Newer`, the reference, do not
look at bytes: they know the NAL units (`IsNal`, `SetsFirst`). `LikeStartCode`
says which units with lengths `LooksLikeAnnexB` takes for start codes.

**Picture** has a screen whose pixels have one level instead of three.
`PumpFrame` takes a pointer update, an image or both; `UpdatePointerShape`
decodes and uploads and may fail for either texture; `ConvertLatestToNv12`
draws the two layers over a copy (`Compose`, `ComposeFails`) or sends the image
as it is. `DecodeMonochrome`, `DecodeColor` and `DecodeMaskedColor` of
`CursorShape` are `cursor.cpp`, bit by bit and byte by byte; `Meant` is what
the pointer shape type says a pixel does to the screen.

**Capture.** Times are differences to now: `lead` (`nextFrameQpc - now`),
`nap`, `left`, `age`. `Tick` may come any number of times between two steps,
so every call may stall. Pictures are versions of the desktop; 0 is the empty
surface of a pointer-only update. `CreateDuplication`/`CreateFails`,
`AcquireTimeout`, `AcquireFails`, `AcquirePointer`, `AcquireImage`,
`CopyIntoOldSize`, `CopyFails` are the ways through `PumpFrame`; `fit` says
whether the desktop still has the size `lastBgra_` was made with, and
`CopyIntoOldSize` is what happens when it has not: `CopyResource` does nothing.
`Pace`, `Wake`, `Due`, `Convert`/`ConvertFails`, `Check` are the loop;
`Interrupt` is Ctrl-C.

## 3. What correct means

* **Sender**: bounded queue, an IDR only at its front, each frame accounted
  for, order kept over all connections (`QueueBound`, `IdrOnlyAtFront`,
  `Accounted`, `InOrder`); a new connection starts with the handshake, asks
  for a key frame before the first video (`WireSpec`, `AskedBeforeVideo`) and
  sends, of all that was encoded before its queue was cleared, at most one frame
  (`FreshAfterConnect`): the one that `Enqueue` has trimmed for but not yet
  pushed (`sender.cpp:48-52`) is out of `ClearQueue`'s reach. The backoff is that
  of all failures in a row (`BackoffHolds`); `Stop` is prompt and returns
  (`StopIsPrompt`, `StopReturns`); heartbeats go out (`HeartbeatSent`), and a
  phone that stays is reached once connects and sends to it no longer fail
  (`Reconnects`).
* **TcpServer**: one connection served (`OneConnection`); a replaced session
  hands over at most one more message (`OvertimeBound`) and does not unregister
  its successor (`NewestKept`); every session ends once its peer has nothing
  more to say (`SilentEnds`; in the model each peer falls silent after
  `MaxMsgs` messages, if it does not close, and only the watchdog can notice;
  "ends" includes the exception of line 117, after which the listener hears
  nothing); after `shutdown` every thread ends and no accepted socket stays open
  (`ShutdownEnds`). Of the port it says nothing: a `bind` that comes late leaves
  it open (hazard at `TcpServer.kt:59`).
* **Decoder**: bounded backlog (`BacklogBound`), no frame waits beside a free
  buffer (`NoIdleBuffer`), no buffer is lost on the way to `feed`
  (`NoBufferLost`), the frames that come to `feed` have no gap but before an IDR
  (`ReferenceIntegrity`), the backlog drains (`BacklogDrains`). `feed` itself is
  where the code stops caring: when it throws on a codec that goes on
  (`DecoderManager.kt:149`), the frame is a gap in what the codec gets and the
  buffer is lost. The properties name these buffers (`spoiled`) and frames as
  exceptions; once all buffers are gone, the backlog stands still.
* **Receiver**: no buffer lost on the way to `feed` and nothing left of an old
  stream, with the server's sessions driving the decoder (`NoBufferLost`,
  `IdleIsClean`).
* **Encoder**: no frame waits beside an open request (`NoIdleRequest`),
  each frame accounted for (`Accounted`), the callback gets them in order
  (`InOrder`); all that goes in comes out as long as no call of Media Foundation
  has failed (`AllComesOut`); only an `Invoke` that outlasts the 50 ms of
  `Shutdown` can find the transform gone (`NothingAfterRelease`).
* **Startup**: whatever fails, what was started is ended once, the newest
  first (`Unwound`); nobody calls what has ended: no `Invoke` the sender, none
  that was over when the 50 ms were the encoder or the transform, no
  `ForceKeyFrame` an encoder without transform, and no transform outlives Media
  Foundation (`Alive`); the transform that streams was set up for what it is,
  however often the choice was revised (`Usable`).
* **Bitstream**: the cached parameter sets are the newest the encoder has shown,
  to the byte (`CacheNewest`); the receiver gets every byte of the access unit
  behind nothing or those sets (`Faithful`); an IDR carries them as soon as they
  are known (docs/PROTOCOL.md:46 says every IDR), and a frame's flags say what it
  carries (`SelfContained`). All three hold until a transform that writes lengths
  puts out a unit whose first length reads as a start code (section 6).
  docs/PROTOCOL.md:44 promises start codes `00 00 00 01`; a transform's
  `00 00 01` is handed on as it is, and `Faithful` accepts that.
* **Picture**: when all that was handed out got through, the phone shows the
  desktop as Windows would, pointer and all (`AsOnDesktop`); when the last image
  did, no trace of an earlier pointer stays, whatever of the pointer failed
  (`NoTrail`); whatever of a shape's decoding or upload fails, it is drawn whole
  or not at all (`WholeShape`). When `Map` fails for one of two layers while
  drawing (`capture.cpp:630`), that picture has the other layer alone; no
  property speaks of such a picture.
* **Capture**: DXGI and the program agree on the held frame
  (`FrameReturned`), what is submitted is a real picture and never older than
  the one before (`RealPicture`), no burst after a stall (`NoBurst`), a static
  desktop goes on being sent (`StaticStillSent`), the loop ends (`LoopEnds`). The
  newest picture is shown (`EventuallyShown`) as long as the desktop has the size
  of `lastBgra_`, which is made once (`capture.cpp:389`): after a change of mode
  the old picture goes on being sent.

`AskedBeforeVideo`, `OvertimeBound`, `BacklogBound`, `NothingAfterRelease` and
the type invariants are proved
for every value of the constants (section 7) and therefore in no run.

## 4. Runs

| run | bounds | result |
|---|---|---|
| `Sender` | 2-place queue as in the code, 3 frames, the listener flips once, backoff 1, 2 (cap), seq modulo 2 | all hold |
| `Sender_oldest` | as `Sender`, but backoff 1, 2, 3, 2 flips, seq modulo 3 | violated, finding 1 |
| `TcpServer` | 2 connections that may overlap, 1 message each | all hold |
| `TcpServer_fresh` | as `TcpServer`, 2 messages each | violated, finding 2 |
| `Decoder` | 1 session thread, 2 connections of 5 frames, backlog 2 as in the code, 2 buffers | all hold |
| `Startup` | up to 2 transforms per enumeration; 2 work-queue threads, 2 open requests, map of 2, 3 frames | all hold |
| `Encoder_shutdown` | `Encoder` alone; 2 work-queue threads, 2 open requests, map of 3, 4 frames | violated, finding 3 |
| `Bitstream` | 60 access units with 2 to 812 bytes of slices, 2 versions of the parameter sets, 4 delimitations, `MaxPayload` 830 | all hold |
| `Capture` | frame time 2 ticks, poll 1, 3 versions, each in the old mode or another, duration none or 3 | all hold |
| `Picture` | screen of 3 x 2 pixels, 2 images, 5 shapes, 3 positions, pointer drawn or not | all hold |
| `Receiver` | 2 connections in a row, 3 messages each, 1 buffer | all hold |
| `Receiver_overlap` | 2 connections that may overlap, 2 messages each, 1 buffer | violated, finding 4 |

Why these bounds:

* `Sender`: three frames fill the queue and leave one to trim it; two steps of
  backoff reach the cap and stay there; a sequence modulo 2 wraps within a
  connection. Its safety properties are proved for all values of the
  constants, so the instance is as small as the liveness properties allow.
* `TcpServer`: two connections are what a preemption takes, and a third would
  meet a state the second has met; one message is what a session in overtime
  delivers (`OneConnection` and `OvertimeBound` are proved for any number).
* `Decoder`: five frames fill the backlog of two, overflow it and recover with
  an IDR; two buffers let one be in a callback while the other is free.
* `Startup`: every start fails once; two candidates let one be skipped and the
  next taken. Two workers are the overlap the re-arming of `Invoke` allows in the
  model; three frames exceed the map of two, and are one in the slot, one inside
  and one coming out.
* `Bitstream`: `FrameOf` and the caches depend on which types occur in a unit and
  in which order, and on the cached sets; the units have each type present and
  absent, alone and twice. Lengths 255, 256 and 512 are where a length prefix
  takes its second byte, 300 is one that looks like a start code but is not the
  first; the longest unit no longer fits once the sets are in front of it.
* `Capture`: a frame time of two ticks with a poll of one has polls between
  frames, frames late by less than one frame time, and stalls beyond two. `lead`
  stops at `-2T-1` because `main.cpp:384` distinguishes nothing below `-2T` there.
* `Picture`: a shape of each type, one of type unknown, and a monochrome one of
  ten pixels, whose rows have a second byte; positions inside, over the lower
  right corner, and beyond the left edge. Pixels are independent of each other but
  for their offsets, which the 3 x 2 screen has.
* `Receiver`: a handshake and two frames are what leaves a frame waiting for the
  only buffer when the connection ends.

The deadlock check is off wherever the system may stop: after `Stop`, shutdown,
the end of the program or the last message of a bounded run. `Capture`, `Picture`
and `Bitstream` have it on.

### Findings

1. **`Sender_oldest`.** "throw away the oldest non-IDR frame", says the comment
   at `sender.cpp:46`; the code pops the front, and by `IdrOnlyAtFront` an IDR
   that is queued is exactly there. No key frame is asked for.
2. **`TcpServer_fresh`.** A new socket is published (`TcpServer.kt:81`) before
   its time stamp (line 84). A watchdog that looks in between sees the old
   stamp and closes a connection that has just been accepted. It takes a peer
   that was silent for 3 s and then preempted, the usual course after a cable
   was pulled; the sender will reconnect.
3. **`Encoder_shutdown`.** `callback_` is checked at `encoder.cpp:626`,
   cleared at 707, called at 690, without a common lock.
4. **`Receiver_overlap`.** A preempted session ends with `onDisconnected`,
   hence `reset`, even after its successor configured the decoder: the
   successor's free buffers are forgotten and its stream stands still until
   the next handshake.

## 5. Fairness

A run with a liveness property uses the module's fair specification, for its
safety properties, too; the others use `Spec` without fairness.

* Threads run: weak fairness of each thread's next step (`ThreadMain`, `Run`,
  `Watchdog`, `HandleSession(c)`, `InCall(t)`, `Loop`, each worker). Mutexes
  are held for bounded work only; in `Sender` a lock region is one step, so
  weak fairness suffices.
* Time passes: weak fairness of `Tick`, `Elapse`.
* `Sender`: strong fairness of `~alive /\ SendFailed`. A connection that no
  longer reaches the phone cannot take messages for ever: its buffers fill and
  `SO_SNDTIMEO` (3 s) makes `send` fail. On a live connection a failure is
  possible at any send and never owed. `Reconnects` is about a way to the phone
  on which such failures (`Disturbed`) have an end; `StopReturns` and
  `HeartbeatSent` need no such premise.
* `Capture`: strong fairness of `CreateDuplication`, `AcquireImage` and
  `Convert`. DXGI may fail, but not each time for ever; `EventuallyShown` is
  about what the program does once it works again. `AcquireImage` is enabled
  only while the desktop has the size of `lastBgra_`, so nothing is owed after a
  change of mode.
* `Startup`: `main` goes on, except that it may stay in the loop for ever, and a
  call of `ForceKeyFrame` returns. The transform asks for input and encodes, the
  work queue delivers its events: Media Foundation's contract. That its calls
  succeed is not owed.
* `Decoder`: callbacks run and MediaCodec decodes what it was given. That `feed`
  succeeds is not owed.
* Nothing is owed by users, peers, the desktop or the phone's app.

## 6. Assumptions about what is not in the source

* `Prompt` (Decoder): a callback that has begun before `stop()` is over when
  `configure` clears the queue. Without it an index of the old codec may be
  offered to the new one, and `NoBufferLost` and `ReferenceIntegrity` fail.
* `Overlap` (TcpServer, Receiver): whether the peer connects again while its
  last session is open. `adb forward` permits it; the runs say which they take.
* `Sleep(50)` in `Encoder::Shutdown`: nothing is assumed of how long an `Invoke`
  runs. One that outlasts it uses a transform that may be gone; in the model it
  stops there ("void"), and what the program does then is left open. That each
  member is let go in one step is an abstraction: an `Invoke` may also be inside
  the very call whose object is released.
* MediaCodec's `onError` is only logged; a codec that stops for good without
  throwing from `feed` is not modelled, nor that a codec without an owner is
  collected. Nor is Media Foundation's `MEError`, which `Invoke` ignores.
* MediaCodec lends each buffer by one callback and again when its frame is
  rendered; the transform keeps frames in order and asks at most `Credits`
  times ahead; DXGI hands out one frame at a time.
* A handshake is well-formed (it is this sender's); a header is good or bad.
* `Startup`: the one call of `ForceKeyFrame` that may begin while `Sender::Stop`
  waits for the thread is taken to have begun just before. A transform's
  synchronous kind does not change after it was chosen.
* `Bitstream`: a NAL unit is as H.264 demands (no start code inside, no zero at
  its end; parameter sets before the slices of their access unit) and shorter
  than 2^31 bytes (`BitstreamAssumption`), a transform delimits its units in one way
  for as long as it lives.
  A unit with lengths whose first is 1 or 256 to 511 (`LikeStartCode`) begins like
  one with start codes and is taken for one: it goes out as it is. The history
  variable `misread` says that this has happened; the properties hold until then
  and say nothing of what follows, so they do not cover the hazard at
  `protocol.cpp:46`. They do show that it is the only one: `misread` is defined
  by the length, not by what `LooksLikeAnnexB` finds. Media Foundation's encoders
  write Annex-B, says the comment at `encoder.cpp:632`.
* `Picture`: a pointer's position is the upper left corner of its shape; rows of a
  shape's buffer may be longer than the shape is wide. The three colours are one
  level, and of a masked XOR an inversion and no change are told apart, for which
  see the comment at `cursor.cpp:103`. No texel of a shape has alpha 1, which the
  shader discards (`capture.cpp:52`) and blending would show as one level.

## 7. Proofs

The theorems hold for every value of the constants that satisfies the module's
`ASSUME` (at least one queue place, a positive frame time, ... ; finiteness
where a cardinality is counted), so for any number of connections, threads,
frames, buffers and transforms. Each follows from an inductive invariant, proved
action by action; TLC does not need it.

| module | theorems | why the property alone is not inductive |
|---|---|---|
| `SenderProofs` | `TypeCorrect`, `Bounded`, `CleanBoundary`, `NothingVanishes`, `Implements` (`Spec => WireSpec`) | `Holding` ties what each thread holds to its place; `Room`: between trimming and pushing the queue has room, for only `Enqueue` adds to it; `IdrFirst`: an IDR on its way into the queue finds it empty; `Phase`: which message was last on the wire at which place |
| | `NoStorm` | `Owed`: `backoff` is what the failures counted so far have made of it, or the thread is at the place where it is doubled; `BackoffOf`: the recursive function `Backoff` is what its equation says |
| | `SentInOrder`, `OneOldPicture`, `KeyFrameFirst`, `PromptStop` | `Order`: hand, queue and the argument of `Enqueue`, in this order, ascend and are newer than all that was sent; `Seen`: after the queue was cleared for a connection all of these were encoded after that, but for the one `Enqueue` held; `Budget`: how many messages the thread can still send from where it is |
| `TcpServerProofs` | `TypeCorrect`, `OneAtATime`, `NoMoreThanOne`, `NoneUnregistersAnother`, `OnlyHeld` | `Accepting`: the connection being accepted has no session yet and, while its socket is open, is current or the one `shutdown` has taken; `SocketFirst`: a session begins on an accepted socket and closes it before it ends; `OnItsWayOut`: a session that has delivered in overtime never passes the loop's condition again |
| `DecoderProofs` | `TypeCorrect`, `Bounded`, `NoneWaitsForTheOther` | `Called`: a thread about to take `lock` has a frame, one past its handshake a connection |
| | `Rested` | no strengthening: while nobody may deliver frames an IDR is awaited, and once all disconnects are over no frame is kept |
| | `BuffersKept`, `Decodable`, `OneThread` | `Instance`: `codec` is the instance that runs once it is assigned, and nothing from its release on, though one whose `stop()` threw may run without an owner; `Intact` and `Whole` (`Sound`, `Covered`): each buffer that is lent and not spoiled by an exception of `feed` is in exactly one of `posted`, a callback and `avail`, none that is queued is lent; `Joined` and `Contiguous` (`Chained`): the backlog goes on where `feed` was left, each frame after the one before it, and what the session delivers next fits behind it |
| `ReceiverProofs` | `EachAlone`, `ServerInApp`, `DecoderInApp` | a refinement: the composition's steps are steps of one component that leave the other's variables alone |
| | `Idle` | `Coupled`: where a session is in the server says where its thread is in the decoder |
| | `NoneLost`, `StreamIntact` | `Turns`: once a connection is accepted all before it are over, in the server and in the decoder |
| `StartupProofs` | `TypeCorrect`, `DeliveredInOrder`, `NothingVanishes` for `Encoder`'s own `Spec`, and `DeliveredInOrderToTheEnd`, `NothingVanishesToTheEnd` for `StartupSpec` | `Ordered`: from the callback back to main (last frame out, hands of the work queue, `ready`, `inside`, slot, sample) each place has newer frames than the one before; `Held`: `outputMutex_` is held by the one thread that has a frame, and nobody else has one; `Alone`: a synchronous transform leaves the work queue idle; `Hands`: one sample, one slot; `Still`: before streaming begins there is no frame, so the kind of transform may still change |
| | `NoneWaitsForTheOther`, `ReleasedLast` | for `Encoder`'s own `Spec`: `Kept`: counters and places; `Ending`: in `Shutdown` `running_` is false, so nobody enters, and from `Release` on every worker is idle or one has outlasted the sleep |
| | `EndedInReverse`, `NoneCallsTheDead`, `SetUpForWhatItIs`, `NoneWaitsFromStartToEnd` | `Shape`: how deep the stack is at each stage, and that `todo` mirrors it (`Written`, `Labelled`: each list in the code names what is started at its place); `Engine`: at which stages the encoder's flags may have which values; `Waited`: once `Shutdown` has slept no `Invoke` runs, unless one outlasted the sleep; `Chosen`: what has been done to the transform at each stage of `Initialize` |
| `CaptureProofs` | `TypeCorrect`, `NeverRefused`, `NoEmptySurface`, `Paced` | `Reset`: without a duplication no frame is held; `Known`: no picture is newer than the desktop, and a `lastBgra_` that has been made holds one; `Cadence`: how far behind the deadline can be, given how long ago the last frames were due |
| `PictureProofs` | `Mirrored`, `Traceless`, `DrawnWhole` | `Follows`: position, visibility and image are those handed out last; `Standing`: a shape that is kept stands for one handed out, with the textures it needs; `Made`: until the next `PumpFrame` the picture is composed of what is kept |
| `BitstreamProofs` | `SetsNewest`, `UnitsWhole`, `StartsAtIdr` | little is to be added (`IsKnown`: what is remembered is empty or a NAL unit); the work is in the lemmas about `protocol.cpp`'s helpers |

`Implements` maps `open` to `connected`: `ConnectOk` is `Open`, the accepted
or cut-short handshake is `Handshake`, every other message is `Follow`,
`DropConnection` and the closing steps are `Close`, the rest stutters.
In `StartupProofs` the lemmas about a step of `Encoder` serve both its own `Spec`
and `StartupSpec`.

Conditions some theorems have beside the `ASSUME`s, as `ASSUME ... PROVE`:

* `BuffersKept` and `Decodable` assume `Prompt` (section 6) and that the calls of
  the listener never overlap (`[]Serial`); `OneThread` is the instance of the run
  `Decoder`. Without `Serial` the run `Receiver_overlap` shows them false.
* `BuffersKept`, `Decodable`, `NoneLost` and `StreamIntact` allow `feed`, `start` and
  `stop` to throw at any time and speak of the way to `feed` (section 3): a buffer
  for which it throws on a live codec is in `spoiled`, a frame that it loses is
  not replaced.
* `NoneLost` and `StreamIntact` assume `Prompt` and `~Overlap`, and prove `Serial`
  from the server's behaviour, though each connection has a thread of its own: the
  app's own part in it. `Idle`, `ServerInApp` and `DecoderInApp` need neither.

How the longer arguments go:

* *Composition.* `EachAlone` proves `Spec => Server!Spec /\ Decoder!Spec`. From
  there the components' theorems carry over, and their inductive invariants can be
  cited where `Receiver`'s own are proved. `Coupled` and `Turns` only say what
  neither component knows of the other.
* *Backoff.* What a recursive function computes needs induction over its argument,
  and the library's induction theorems are out of reach of the provers. `NatSets`
  states induction for sets of numbers, `Begins` and `Iterates` build from it the
  function that the equation of `Backoff` describes, and `BackoffOf` concludes that
  `Backoff` satisfies its equation.
* *Picture.* `Stands(c, s)` says of a decoded shape that its two layers, one blended
  and then one inverting, turn each level of the screen into what shape `s` means
  there. It is proved for each format from the bytes of the buffer: a bit of a row
  (`MonochromeBit`, from `InRows`, `DivMod`, `Column` and `BitOf`), a pixel of a row
  (`ColourPixel`). `DrawsShown` carries it from a pixel of the shape to one of the
  screen. A masked shape is taken to hold 0 or 255 where its mask is 255, as the
  comment at `cursor.cpp:103` says of real cursors; for other values the code
  approximates, and the theorem says nothing.
* *Bytes.* `Laid(f, ns, w, e)` says where in the bytes `w` each of the units `ns`
  lies; `Layout` shows it of what `Write` writes, by induction over the units
  (`NatSets`). From there `StartCodesAre`: `FindStartCode` finds the start codes in
  front of the units and no other, for three bytes that look like one would lie in
  a delimiter, across its end, or within a unit; `NalAt`: what `ScanAnnexB` cuts out
  behind each is the unit, zeros of the next start code left off; `CachedIs`: so
  the cache is the last unit of its type. `HasPieces` shows that the recursion of
  `AvccToAnnexB`, which looks ahead from each offset, has a solution, and
  `AvccBecomesAnnexB` walks it back from the end: units with lengths come out as
  the same units with start codes, to the byte. `LooksWrong`: `LooksLikeAnnexB`
  mistakes them for start codes only when the first length is 1 or 256 to 511, the
  condition under which the three theorems stop.

Checked by TLC only: all liveness, which TLAPS cannot do under fairness. Every
invariant and every action property of a passing run is proved.

## 8. Not modelled

* The ring of four NV12 textures (`capture.cpp:703`): nothing in the code waits
  for a texture to be free, so a model would only restate the hope that three
  frame times are enough.
* The 20 bytes of a header and the JSON of the handshake; statistics, logging,
  formatting, UI text; `RunProcess`, D3D and codec properties, whose calls
  change no state of the program beyond success or failure.
* The conversion to NV12 and the colours of a cursor, as far as one level per
  pixel does not show them.
* No property covers what happens to old entries of `captureTimes_`
  (`encoder.cpp:481`), which only a statistic would notice, or a P frame dropped from the
  sender's queue (`sender.cpp:49`), for which nothing promises a key frame.
* A second server on the same port after the surface has come back; a common
  clock of the sender's heartbeat and the receiver's watchdog.
* The measuring tools, among them the two threads of `tools/m1/send_test.py:176`
  that write to one socket without a lock; scripts and build files.

## 9. Plan

What is left, in this order; the modules of section 2 are done.

1. `Stream`: encoder's GOP, sender's queue and decoder's backlog in one module:
   after every dropped reference, for how long the picture is broken.
2. `Activity`: surface created and destroyed again and again, `TcpServer`
   restarted on its port.
3. `SendTest`: the two unlocked threads of `tools/m1/send_test.py`; `Stats`:
   intervals of `stats.cpp`.

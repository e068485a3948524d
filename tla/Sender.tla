------------------------------- MODULE Sender -------------------------------
(***************************************************************************)
(* windows/src/sender.cpp: the encoder's thread pushes encoded frames      *)
(* into a two-place queue (Enqueue), the sender thread connects, sends the *)
(* handshake and then frames and heartbeats (ThreadMain), and main stops   *)
(* it (Stop).                                                              *)
(*                                                                         *)
(* A step is what one thread does between two points where another thread  *)
(* can interfere: a region under mutex_, a read or write of an atomic, a   *)
(* call into Stats, a call on the socket.  Enqueue gives mutex_ up around  *)
(* RecordDrop, so it is three steps.                                       *)
(*                                                                         *)
(* Time is not counted.  The 50 ms timeout of wait_for lets the thread     *)
(* leave the wait at any moment (so a notify is never needed for           *)
(* progress), Tick makes the next heartbeat due, Age makes the session     *)
(* 3 s old.                                                                *)
(***************************************************************************)
EXTENDS Integers, Sequences

CONSTANTS MaxQueue,     \* kMaxQueue
          MinBackoff,   \* kMinBackoffMs  } in any unit
          MaxBackoff,   \* kMaxBackoffMs  }
          Slice,        \* the sleep slice }
          SeqMod,       \* 2^32: seq_ is a uint32
          MaxFrames,    \* bound: frames the encoder delivers
          MaxFlips      \* bound: times the phone's listener goes or comes back

ASSUME SenderAssumption ==
    /\ MaxQueue \in Nat \ {0}
    /\ MinBackoff \in Nat \ {0} /\ MaxBackoff \in Nat /\ MinBackoff <= MaxBackoff
    /\ Slice \in Nat \ {0}
    /\ SeqMod \in Nat \ {0}
    /\ MaxFrames \in Nat /\ MaxFlips \in Nat

\* Marked *: history, read by properties only.
VARIABLES
    queue,      \* queue_, shared by the encoder's and the sender's thread
    \* the sender thread
    pc,         \* where ThreadMain is
    hand,       \* frame: <<>> when haveFrame is false
    cleared,    \* n in ClearQueue
    \* the socket
    connected,  \* connected_, and socket_ # INVALID_SOCKET
    seq,        \* seq_
    out,        \* * the last message the socket accepted on this connection
    late,       \* * messages sent whole after Stop was called (at most 3)
    \* the retry
    backoff,    \* backoffMs
    slept,      \* slept
    short,      \* * attempts in a row that failed or died young
    \* the connection
    alive,      \* does it reach the phone's app?
    healthy,    \* is it at least kHealthySessionMs old?
    hbDue,      \* has nextHeartbeatQpc passed?
    asked,      \* * was onNeedIdr_ called on it?
    mark,       \* * id of the newest frame encoded when ClearQueue ran
    caught,     \* * was that frame in Enqueue, trimmed for but not yet pushed?
    \* the encoder's thread, in Enqueue
    enq,        \* where Enqueue is
    given,      \* its argument: <<>> when not in Enqueue
    trimmed,    \* n
    offered,    \* * frames handed to Enqueue so far: the id of the newest
    \* totals
    drops,      \* totalDrops_
    frames,     \* totalFrames_
    lost,       \* * frames taken from the queue, then neither sent nor counted
    lastVideo,  \* * id of the last frame sent whole
    \* the phone
    peerUp,     \* does its app listen behind adb forward?
    flips,      \* how often that changed
    \* main
    running,    \* running_
    stop        \* where Stop is

thread  == <<pc, hand, cleared>>
socket  == <<connected, seq, out, late>>
retry   == <<backoff, slept, short>>
session == <<alive, healthy, hbDue, asked, mark, caught>>
encoder == <<enq, given, trimmed, offered>>
totals  == <<drops, frames, lost, lastVideo>>
phone   == <<peerUp, flips>>
main    == <<running, stop>>
vars    == <<queue, thread, socket, retry, session, encoder, totals, phone, main>>

-----------------------------------------------------------------------------
Frame   == [id : 1 .. MaxFrames, idr : BOOLEAN]
MsgType == {"handshake", "video", "heartbeat"}
Nothing == [type |-> "none", seq |-> 0, whole |-> TRUE]
Message == [type : MsgType, seq : 0 .. SeqMod - 1, whole : BOOLEAN]

Init ==
    /\ queue = <<>>
    /\ pc = "top" /\ hand = <<>> /\ cleared = 0
    /\ connected = FALSE /\ seq = 0 /\ out = Nothing /\ late = 0
    /\ backoff = 0 /\ slept = 0 /\ short = 0
    /\ alive = FALSE /\ healthy = FALSE /\ hbDue = TRUE /\ asked = FALSE /\ mark = 0
    /\ caught = FALSE
    /\ enq = "idle" /\ given = <<>> /\ trimmed = 0 /\ offered = 0
    /\ drops = 0 /\ frames = 0 /\ lost = 0 /\ lastVideo = 0
    /\ peerUp \in BOOLEAN /\ flips = 0
    /\ running = TRUE /\ stop = "live"

-----------------------------------------------------------------------------
(* Enqueue, on the encoder's callback thread (encoder.cpp:690).            *)

\* Mutant: the backlog is trimmed one frame too late (> for >=).
ExcessTooLate(idr) ==
    IF idr THEN Len(queue) ELSE IF Len(queue) > MaxQueue THEN 1 ELSE 0

\* Mutant: an IDR is queued behind the frames it makes obsolete.
ExcessWhenFull(idr) == IF Len(queue) >= MaxQueue THEN 1 ELSE 0

\* How many frames, from the front, make room for a new one.
Excess(idr) == IF idr THEN Len(queue) ELSE IF Len(queue) >= MaxQueue THEN 1 ELSE 0

\* The lock is taken and the queue trimmed; with nothing to trim the frame
\* is pushed before the lock is released.
EnqueueTrim(idr) ==
    LET f == [id |-> offered + 1, idr |-> idr]
        n == Excess(idr)
    IN /\ enq = "idle" /\ offered < MaxFrames
       /\ offered' = offered + 1
       /\ IF n = 0
          THEN queue' = Append(queue, f) /\ UNCHANGED <<enq, given, trimmed>>
          ELSE /\ queue' = SubSeq(queue, n + 1, Len(queue))
               /\ enq' = "record" /\ given' = <<f>> /\ trimmed' = n
       /\ UNCHANGED <<thread, socket, retry, session, totals, phone, main>>

\* RecordDrop, outside the lock.
EnqueueRecord ==
    /\ enq = "record" /\ enq' = "push"
    /\ drops' = drops + trimmed
    /\ trimmed' = 0
    /\ UNCHANGED <<queue, thread, socket, retry, session, given, offered, frames,
                   lost, lastVideo, phone, main>>

\* The lock is taken again for the push.
EnqueuePush ==
    /\ enq = "push" /\ enq' = "idle"
    /\ queue' = Append(queue, given[1])
    /\ given' = <<>>
    /\ UNCHANGED <<thread, socket, retry, session, trimmed, offered, totals, phone, main>>

Enqueue == (\E idr \in BOOLEAN : EnqueueTrim(idr)) \/ EnqueueRecord \/ EnqueuePush

-----------------------------------------------------------------------------
(* ThreadMain: connecting.                                                 *)

\* Lines 157-158.
Top ==
    /\ pc = "top"
    /\ pc' = IF ~running THEN "close" ELSE IF connected THEN "wait" ELSE "sleep"
    /\ slept' = 0
    /\ UNCHANGED <<queue, hand, cleared, socket, backoff, short, session, encoder,
                   totals, phone, main>>

\* Lines 160-161: sleep in slices, watching running_.
SleepSlice ==
    /\ pc = "sleep"
    /\ IF slept < backoff /\ running
       THEN slept' = slept + Slice /\ UNCHANGED pc
       ELSE pc' = (IF running THEN "connect" ELSE "close") /\ UNCHANGED slept
    /\ UNCHANGED <<queue, hand, cleared, socket, backoff, short, session, encoder,
                   totals, phone, main>>

Least(a, b) == IF a <= b THEN a ELSE b

\* The backoff after one more failure (lines 149 and 164).
Grow(b) == IF b = 0 THEN MinBackoff ELSE Least(2 * b, MaxBackoff)

\* What n failures in a row add up to; from some n on it no longer grows.
Backoff[n \in Nat] == IF n = 0 THEN 0 ELSE Grow(Backoff[n - 1])

\* Mutant: the backoff is forgotten between attempts.
ForgetfulPenalty ==
    /\ backoff' = MinBackoff
    /\ short' = IF Backoff[short] = MaxBackoff THEN short ELSE short + 1

Penalty ==
    /\ backoff' = Grow(backoff)
    /\ short' = IF Backoff[short] = MaxBackoff THEN short ELSE short + 1

\* TryConnect succeeds.  `adb forward` accepts even when nothing listens on
\* the phone: such a connection is not alive from the start.  everConnected_
\* and the count of reconnects feed the statistics only.
ConnectOk ==
    /\ pc = "connect" /\ pc' = "clear"
    /\ connected' = TRUE /\ out' = Nothing
    /\ alive' = peerUp /\ healthy' = FALSE /\ asked' = FALSE
    /\ UNCHANGED <<queue, hand, cleared, seq, late, retry, hbDue, mark, caught, encoder,
                   totals, phone, main>>

\* TryConnect fails (lines 163-167): socket or connect, whoever listens.
ConnectFails ==
    /\ pc = "connect" /\ pc' = "top"
    /\ Penalty
    /\ UNCHANGED <<queue, hand, cleared, socket, slept, session, encoder, totals,
                   phone, main>>

\* Mutant: the queue is not cleared when a connection is made.
KeepQueue ==
    /\ pc = "clear" /\ pc' = "handshake"
    /\ mark' = offered /\ caught' = (given # <<>>)
    /\ UNCHANGED <<queue, hand, cleared, socket, retry, alive, healthy, hbDue,
                   asked, encoder, totals, phone, main>>

\* ClearQueue, under the lock (lines 58-61).
ClearQueue ==
    /\ pc = "clear" /\ pc' = "record"
    /\ cleared' = Len(queue)
    /\ queue' = <<>>
    /\ mark' = offered /\ caught' = (given # <<>>)
    /\ UNCHANGED <<hand, socket, retry, alive, healthy, hbDue, asked, encoder,
                   totals, phone, main>>

\* Mutant: the frames ClearQueue discards are not counted.
ClearUncounted ==
    /\ pc = "record" /\ pc' = "handshake"
    /\ cleared' = 0
    /\ UNCHANGED <<queue, hand, socket, retry, session, encoder, totals, phone, main>>

\* RecordDrop in ClearQueue (line 62).
ClearRecord ==
    /\ pc = "record" /\ pc' = "handshake"
    /\ drops' = drops + cleared
    /\ cleared' = 0
    /\ UNCHANGED <<queue, hand, socket, retry, session, encoder, frames, lost,
                   lastVideo, phone, main>>

-----------------------------------------------------------------------------
(* ThreadMain: sending.                                                    *)

\* SendMessage hands every byte to the socket.  A connection that no longer
\* reaches the phone may still swallow messages.
Accepted(type) ==
    /\ out' = [type |-> type, seq |-> seq, whole |-> TRUE]
    /\ seq' = (seq + 1) % SeqMod
    /\ late' = IF running \/ late = 3 THEN late ELSE late + 1
    /\ UNCHANGED connected

\* SendAll fails, before or after some bytes went out; the number is used up.
\* It may fail on a connection that reaches the phone, too: send gives up
\* after SO_SNDTIMEO (line 81) and on any error (line 105).
Refused(type) ==
    /\ out' \in {out, [type |-> type, seq |-> seq, whole |-> FALSE]}
    /\ seq' = (seq + 1) % SeqMod
    /\ UNCHANGED <<connected, late>>

SendFails(type) ==
    /\ Refused(type)
    /\ pc' = "drop"
    /\ UNCHANGED <<queue, hand, cleared, retry, session, encoder, totals, phone, main>>

HandshakeOk ==
    /\ pc = "handshake" /\ pc' = "ask"
    /\ Accepted("handshake")
    /\ UNCHANGED <<queue, hand, cleared, retry, session, encoder, totals, phone, main>>

HandshakeFails == pc = "handshake" /\ SendFails("handshake")

\* Lines 184-185: onNeedIdr_ is Encoder::ForceKeyFrame, and the first
\* heartbeat is due at once.
AskForIdr ==
    /\ pc = "ask" /\ pc' = "wait"
    /\ asked' = TRUE /\ hbDue' = TRUE
    /\ UNCHANGED <<queue, hand, cleared, socket, retry, alive, healthy, mark,
                   caught, encoder, totals, phone, main>>

\* Mutant: running_ is not read after the wait.
TakeUnchecked ==
    /\ pc = "wait" /\ pc' = IF queue = <<>> THEN "beat" ELSE "video"
    /\ queue' = IF queue = <<>> THEN queue ELSE Tail(queue)
    /\ hand' = IF queue = <<>> THEN <<>> ELSE <<Head(queue)>>
    /\ UNCHANGED <<cleared, socket, retry, session, encoder, totals, phone, main>>

\* Mutant: the thread waits, without a timeout, for a frame only.
TakeWaitsForFrame == queue # <<>> /\ TakeUnchecked

\* Mutant: only a pass that sent a frame gets to the heartbeat.
TakeThenNoBeat ==
    /\ pc = "wait" /\ pc' = IF queue = <<>> THEN "top" ELSE "video"
    /\ queue' = IF queue = <<>> THEN queue ELSE Tail(queue)
    /\ hand' = IF queue = <<>> THEN <<>> ELSE <<Head(queue)>>
    /\ UNCHANGED <<cleared, socket, retry, session, encoder, totals, phone, main>>

\* Lines 188-200: wait_for returns (a frame, Stop or the timeout), the front
\* is taken, and running_ is read.  A frame taken after Stop is discarded.
TakeFront ==
    LET got == SubSeq(queue, 1, Least(1, Len(queue)))
    IN /\ pc = "wait"
       /\ queue' = SubSeq(queue, Len(got) + 1, Len(queue))
       /\ IF running
          THEN /\ hand' = got /\ UNCHANGED lost
               /\ pc' = IF got = <<>> THEN "beat" ELSE "video"
          ELSE lost' = lost + Len(got) /\ pc' = "close" /\ UNCHANGED hand
       /\ UNCHANGED <<cleared, socket, retry, session, encoder, drops, frames,
                      lastVideo, phone, main>>

\* Lines 202-211.
VideoOk ==
    /\ pc = "video" /\ pc' = "beat"
    /\ Accepted("video")
    /\ frames' = frames + 1
    /\ lastVideo' = hand[1].id
    /\ hand' = <<>>
    /\ UNCHANGED <<queue, cleared, retry, session, encoder, drops, lost, phone, main>>

\* Mutant: after a failed send of a frame the loop goes on with the socket.
VideoFailureIgnored ==
    /\ pc = "video" /\ pc' = "beat"
    /\ Refused("video")
    /\ lost' = lost + 1
    /\ hand' = <<>>
    /\ UNCHANGED <<queue, cleared, retry, session, encoder, drops, frames, lastVideo,
                   phone, main>>

VideoFails == pc = "video" /\ SendFails("video")

\* Lines 214-223: a heartbeat when one is due, then the loop again.
NoHeartbeat ==
    /\ pc = "beat" /\ pc' = "top"
    /\ ~hbDue
    /\ UNCHANGED <<queue, hand, cleared, socket, retry, session, encoder, totals,
                   phone, main>>

HeartbeatOk ==
    /\ pc = "beat" /\ pc' = "top"
    /\ hbDue /\ hbDue' = FALSE
    /\ Accepted("heartbeat")
    /\ UNCHANGED <<queue, hand, cleared, retry, alive, healthy, asked, mark, caught,
                   encoder,
                   totals, phone, main>>

\* Mutant: the result of the heartbeat's send is not looked at.
HeartbeatFailureIgnored ==
    /\ pc = "beat" /\ pc' = "top"
    /\ hbDue /\ hbDue' = FALSE
    /\ Refused("heartbeat")
    /\ UNCHANGED <<queue, hand, cleared, retry, alive, healthy, asked, mark, caught,
                   encoder,
                   totals, phone, main>>

HeartbeatFails == pc = "beat" /\ hbDue /\ SendFails("heartbeat")

\* CloseSocket; what is remembered of the connection goes with it.
Disconnect ==
    /\ connected' = FALSE /\ alive' = FALSE /\ healthy' = FALSE
    /\ asked' = FALSE /\ mark' = 0 /\ caught' = FALSE
    /\ UNCHANGED <<seq, out, late, hbDue>>

\* Mutant: the frame in hand is queued again, to be sent after a reconnect.
DropRequeues ==
    /\ pc = "drop" /\ pc' = "top"
    /\ Disconnect
    /\ queue' = IF Len(queue) < MaxQueue THEN queue \o hand ELSE queue
    /\ hand' = <<>>
    /\ UNCHANGED <<cleared, retry, encoder, totals, phone, main>>

\* dropConnection: close, and grow the backoff unless the session lived.
\* The frame in hand goes out of scope with the iteration.
DropConnection ==
    /\ pc = "drop" /\ pc' = "top"
    /\ Disconnect
    /\ IF healthy THEN backoff' = 0 /\ short' = 0 ELSE Penalty
    /\ hand' = <<>> /\ lost' = lost + Len(hand)
    /\ UNCHANGED <<queue, cleared, slept, encoder, drops, frames, lastVideo, phone,
                   main>>

\* CloseSocket at the end of the thread.
CloseSocket ==
    /\ pc = "close" /\ pc' = "done"
    /\ Disconnect
    /\ UNCHANGED <<queue, hand, cleared, retry, encoder, totals, phone, main>>

SendFailed == HandshakeFails \/ VideoFails \/ HeartbeatFails

ThreadMain ==
    \/ Top \/ SleepSlice \/ ConnectOk \/ ConnectFails \/ ClearQueue \/ ClearRecord
    \/ HandshakeOk \/ AskForIdr \/ TakeFront \/ VideoOk \/ NoHeartbeat \/ HeartbeatOk
    \/ SendFailed \/ DropConnection \/ CloseSocket

-----------------------------------------------------------------------------
(* Stop, on the main thread.                                               *)

StopCall ==
    /\ stop = "live" /\ stop' = "joining"
    /\ running' = FALSE
    /\ UNCHANGED <<queue, thread, socket, retry, session, encoder, totals, phone>>

\* join returns once the thread has ended; CloseSocket then finds no socket.
StopReturn ==
    /\ stop = "joining" /\ stop' = "stopped"
    /\ pc = "done"
    /\ UNCHANGED <<queue, thread, socket, retry, session, encoder, totals, phone, running>>

Stop == StopCall \/ StopReturn

-----------------------------------------------------------------------------
(* The phone and the clock.                                                *)

\* The app on the phone goes away (the connection with it) or comes back.
PeerFlips ==
    /\ flips < MaxFlips /\ flips' = flips + 1
    /\ peerUp' = ~peerUp
    /\ alive' = FALSE
    /\ UNCHANGED <<queue, thread, socket, retry, healthy, hbDue, asked, mark,
                   caught, encoder, totals, main>>

\* A second has passed since the last heartbeat.
Tick ==
    /\ connected /\ ~hbDue /\ hbDue' = TRUE
    /\ UNCHANGED <<queue, thread, socket, retry, alive, healthy, asked, mark,
                   caught, encoder, totals, phone, main>>

\* The session has become 3 s old.
Age ==
    /\ connected /\ ~healthy /\ healthy' = TRUE
    /\ UNCHANGED <<queue, thread, socket, retry, alive, hbDue, asked, mark,
                   caught, encoder, totals, phone, main>>

World == PeerFlips \/ Tick \/ Age

-----------------------------------------------------------------------------
Next == Enqueue \/ ThreadMain \/ Stop \/ World

Spec == Init /\ [][Next]_vars

\* The thread and a pending join run; Enqueue, once entered, returns; time
\* passes; a socket whose peer is gone cannot swallow messages for ever.
Fairness ==
    /\ WF_vars(ThreadMain)
    /\ WF_vars(StopReturn)
    /\ WF_vars(EnqueueRecord \/ EnqueuePush)
    /\ WF_vars(Tick)
    /\ SF_vars(~alive /\ SendFailed)

FairSpec == Spec /\ Fairness

-----------------------------------------------------------------------------
(* Properties.                                                             *)

\* Every variable keeps its range.
TypeOK ==
    /\ queue \in Seq(Frame)
    /\ pc \in {"top", "sleep", "connect", "clear", "record", "handshake", "ask",
               "wait", "video", "beat", "drop", "close", "done"}
    /\ hand \in Seq(Frame) /\ cleared \in Nat
    /\ connected \in BOOLEAN /\ seq \in 0 .. SeqMod - 1
    /\ out \in Message \cup {Nothing} /\ late \in 0 .. 3
    /\ backoff \in 0 .. MaxBackoff /\ slept \in Nat /\ short \in Nat
    /\ alive \in BOOLEAN /\ healthy \in BOOLEAN /\ hbDue \in BOOLEAN
    /\ asked \in BOOLEAN /\ mark \in 0 .. MaxFrames /\ caught \in BOOLEAN
    /\ enq \in {"idle", "record", "push"} /\ given \in Seq(Frame)
    /\ trimmed \in Nat /\ offered \in 0 .. MaxFrames
    /\ drops \in Nat /\ frames \in Nat /\ lost \in Nat /\ lastVideo \in 0 .. MaxFrames
    /\ peerUp \in BOOLEAN /\ flips \in 0 .. MaxFlips
    /\ running \in BOOLEAN /\ stop \in {"live", "joining", "stopped"}

\* The queue never holds more than kMaxQueue frames, although Enqueue gives
\* the lock up between making room and pushing (sender.cpp:39-52).
QueueBound == Len(queue) <= MaxQueue

\* An IDR in the queue is its front: the receiver resyncs on the first frame
\* it gets after a drop that an IDR caused (sender.cpp:35-37).
IdrOnlyAtFront == \A i \in 2 .. Len(queue) : ~queue[i].idr

\* Nothing is counted twice and nothing vanishes: each frame handed to
\* Enqueue is in one place, or was sent, counted as dropped, or (lines
\* 203-205 and 200) went down with its connection or with Stop.
Accounted ==
    offered = Len(given) + Len(queue) + Len(hand) + trimmed + cleared
              + drops + frames + lost

\* The frames from the last one sent to the newest one, in their order.
Pipeline == hand \o queue \o given

\* Frames are sent in the order they were encoded, none of them twice, over
\* all the connections of a run.
InOrder ==
    /\ \A i \in 1 .. Len(Pipeline) : lastVideo < Pipeline[i].id
    /\ \A i, j \in 1 .. Len(Pipeline) : i < j => Pipeline[i].id < Pipeline[j].id

\* Of the frames encoded before a new connection's queue was cleared
\* (sender.cpp:178) at most one is still sent on it: the one that Enqueue,
\* between its two lock regions, had taken out of ClearQueue's reach.
FreshAfterConnect ==
    connected /\ out.type = "video" /\ out.whole =>
        lastVideo > mark \/ (caught /\ lastVideo = mark)

\* On every connection the encoder is asked for a key frame before the first
\* frame goes out (sender.cpp:183-184).
AskedBeforeVideo == connected /\ out.type = "video" => asked

\* Once main has called Stop at most two more messages go out, whatever the
\* thread was doing.
StopIsPrompt == late <= 2

\* An attempt waits for as long as all the failures in a row before it
\* demand: a receiver that accepts and dies is not met with a storm of
\* connects (sender.cpp:132-135).
BackoffHolds == pc = "connect" => slept >= Backoff[short]

\* What a watcher of the socket sees is the protocol's connection.
Wire == INSTANCE Connection WITH open <- connected
WireSpec == Wire!Spec

\* Stop returns: no wait, sleep or send of the thread outlives it.
StopReturns == stop = "joining" ~> stop = "stopped"

\* A heartbeat that is due is sent, with or without video traffic, or the
\* connection is given up (sender.cpp:213).
HeartbeatSent == connected /\ hbDue ~> ~hbDue \/ ~connected

\* A connect fails although the app listens, or a send although it is read.
Disturbed ==
    \/ pc = "connect" /\ pc' = "top" /\ peerUp
    \/ pc' = "drop" /\ pc # "drop" /\ alive

\* When the phone's app stays and the way to it is not disturbed any more, the
\* sender ends up with a connection that reaches it, also when it must first
\* notice that the one it has does not (sender.cpp:145, 157).
Reconnects ==
    <>[](peerUp /\ running) /\ <>[][~Disturbed]_vars => <>[](connected /\ alive)

\* The comment at sender.cpp:46, "throw away the oldest non-IDR frame": an
\* Enqueue of a frame that is not an IDR never discards an IDR.
OldestNonIdrGoes ==
    [][enq = "idle" /\ enq' = "record" /\ ~given'[1].idr => ~queue[1].idr]_vars
=============================================================================

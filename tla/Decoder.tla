------------------------------ MODULE Decoder ------------------------------
(***************************************************************************)
(* DecoderManager.kt: frames arrive on session threads (onVideoFrame),     *)
(* input buffers on the codec's callback thread (onInputBufferAvailable),  *)
(* and a handshake or a disconnect rebuilds or clears the state (configure,*)
(* reset).  lock protects the queues; codec and waitingForConfig are       *)
(* written outside it.                                                     *)
(*                                                                         *)
(* A thread t serves one connection after another, the way a session       *)
(* thread calls the listener: a handshake, frames, a disconnect.  With one *)
(* thread nothing overlaps; module Receiver says which overlaps TcpServer  *)
(* permits with several.                                                   *)
(*                                                                         *)
(* MediaCodec is modelled from its use: a started codec lends the app its  *)
(* input buffers, one callback each; a queued buffer is decoded in order,  *)
(* rendered, and lent again; stop() removes the callbacks not yet begun.   *)
(* Any feed, start and stop may throw.  The latency statistics             *)
(* (ptsToRecvNs, PerfStats) are left out.  Once, the activity releases the *)
(* decoder and then forgets it: calls that are on their way go on.         *)
(***************************************************************************)
EXTENDS Integers, Sequences

CONSTANTS Threads,      \* threads that call the listener
          Indices,      \* input buffers of a codec
          MaxBacklog,   \* MAX_BACKLOG
          Prompt,       \* is a callback that began before stop() over by line 50?
          MaxConns,     \* bound: connections
          MaxFrames     \* bound: frames of a connection

ASSUME DecoderAssumption ==
    /\ Threads # {} /\ Indices # {}
    /\ MaxBacklog \in Nat \ {0}
    /\ Prompt \in BOOLEAN
    /\ MaxConns \in Nat /\ MaxFrames \in Nat

\* Marked *: history, read by properties only.
VARIABLES
    \* DecoderManager
    codec,      \* codec: 0, or the number of the instance
    pending,    \* pendingFrames
    avail,      \* availableInputIndices, each with the instance it came from
    dropping,   \* droppingUntilIdr
    waiting,    \* waitingForConfig
    holder,     \* the thread in tryFeedLocked, with lock: <<>> or <<t>>
    \* the callback thread, in onInputBufferAvailable and not yet in lock
    cb,         \* <<>> or <<the buffer>>
    activity,   \* MainActivity has the decoder, is in release, or has forgotten it
    \* the codec
    live,       \* the instance that is started: 0 or its number
    made,       \* instances made so far
    posted,     \* buffers whose callback waits for the callback thread
    lent,       \* buffers that are the app's
    queued,     \* buffers that are the codec's, with their frames
    spoiled,    \* * buffers for which feed threw: the app's for good
    rendered,   \* * the last frame rendered: <<>> or <<f>>
    handed,     \* * the last frame feed had for this instance: <<>> or <<f>>
    \* the threads
    pc,         \* where each thread is
    arg,        \* its argument in onVideoFrame: <<>> or <<f>>
    mine,       \* mc in configure
    conn,       \* its connection
    got,        \* frames of that connection so far
    conns       \* connections so far

queues  == <<pending, avail, dropping>>
running == <<live, posted, lent, queued, spoiled>>
media   == <<running, made, rendered, handed>>
callers == <<pc, arg, mine, conn, got, conns>>
vars    == <<codec, queues, waiting, holder, cb, activity, media, callers>>

-----------------------------------------------------------------------------
Frame  == [conn : 1 .. MaxConns, n : 1 .. MaxFrames, idr : BOOLEAN]
Buffer == [of : Nat, index : Indices]

Goto(t, l) == pc' = [pc EXCEPT ![t] = l]

Init ==
    /\ codec = 0 /\ pending = <<>> /\ avail = <<>> /\ dropping = FALSE
    /\ waiting = TRUE /\ holder = <<>> /\ cb = <<>> /\ activity = "has"
    /\ live = 0 /\ made = 0 /\ posted = {} /\ lent = {} /\ queued = <<>>
    /\ spoiled = {} /\ rendered = <<>> /\ handed = <<>>
    /\ pc = [t \in Threads |-> "closed"] /\ arg = [t \in Threads |-> <<>>]
    /\ mine = [t \in Threads |-> 0] /\ conn = [t \in Threads |-> 0]
    /\ got = [t \in Threads |-> 0] /\ conns = 0

-----------------------------------------------------------------------------
\* codec is the instance that is started.
Active == codec # 0 /\ codec = live

(* feed(index, f), called with lock held.  On a live codec it may throw all *)
(* the same (the frame does not fit, the codec refuses it), lines 144-151;  *)
(* then the frame is lost, and the buffer is the app's and in no queue.  A  *)
(* missing codec, or a buffer that is not the app's, loses the frame, too.  *)

Feed(b, f) ==
    IF Active /\ b.index \in lent
    THEN /\ \/ /\ lent' = lent \ {b.index}
               /\ queued' = Append(queued, [index |-> b.index, frame |-> f])
               /\ UNCHANGED spoiled
            \/ /\ spoiled' = spoiled \cup {b.index}
               /\ UNCHANGED <<lent, queued>>
         /\ handed' = <<f>>
    ELSE UNCHANGED <<lent, queued, spoiled, handed>>

-----------------------------------------------------------------------------
(* configure.                                                              *)

\* A handshake arrives on t's next connection.
CallConfigure(t) ==
    /\ pc[t] = "closed" /\ conns < MaxConns /\ activity # "forgot"
    /\ conns' = conns + 1
    /\ conn' = [conn EXCEPT ![t] = conns + 1]
    /\ got' = [got EXCEPT ![t] = 0]
    /\ Goto(t, "release")
    /\ UNCHANGED <<codec, queues, waiting, holder, cb, activity, media, arg, mine>>

\* The codec ends and takes its buffers back, if it has been started.
Ends ==
    IF Active
    THEN live' = 0 /\ posted' = {} /\ lent' = {} /\ queued' = <<>> /\ spoiled' = {}
    ELSE UNCHANGED running

\* releaseCodecOnly, line 208.  If stop() throws, release() is skipped, and
\* the codec may go on although nobody has it.
StopCodec(t) ==
    /\ pc[t] = "release"
    /\ \/ Ends /\ Goto(t, "free")
       \/ codec # 0 /\ UNCHANGED running /\ Goto(t, "null")
    /\ UNCHANGED <<codec, queues, waiting, holder, cb, activity, made, rendered, handed,
                   arg, mine, conn, got, conns>>

\* Line 209, of the codec there is by now.
FreeCodec(t) ==
    /\ pc[t] = "free" /\ Goto(t, "null")
    /\ Ends
    /\ UNCHANGED <<codec, queues, waiting, holder, cb, activity, made, rendered, handed,
                   arg, mine, conn, got, conns>>

\* Line 213.
DropCodec(t) ==
    /\ pc[t] = "null" /\ Goto(t, "clear")
    /\ codec' = 0
    /\ UNCHANGED <<queues, waiting, holder, cb, activity, media, arg, mine, conn, got, conns>>

ClearQueues ==
    /\ holder = <<>>
    /\ pending' = <<>> /\ avail' = <<>> /\ dropping' = FALSE

\* Lines 50-55.
ClearInConfigure(t) ==
    /\ pc[t] = "clear" /\ Goto(t, "arm")
    /\ Prompt => cb = <<>>
    /\ ClearQueues
    /\ UNCHANGED <<codec, waiting, holder, cb, activity, media, arg, mine, conn, got, conns>>

\* Lines 56-61: the handshake's dimensions may be useless.
Arm(t) ==
    /\ pc[t] = "arm"
    /\ waiting' = TRUE
    /\ Goto(t, "start") \/ Goto(t, "open")
    /\ UNCHANGED <<codec, queues, holder, cb, activity, media, arg, mine, conn, got, conns>>

\* Lines 64-74, the codec is created and started; the callbacks may come
\* from here on.  The surface takes one started codec at a time: as long as
\* another has it, the handshake ends in StartFails.
StartCodec(t) ==
    /\ pc[t] = "start" /\ Goto(t, "assign")
    /\ live = 0
    /\ made' = made + 1 /\ live' = made + 1
    /\ mine' = [mine EXCEPT ![t] = made + 1]
    /\ posted' = Indices /\ lent' = Indices
    /\ queued' = <<>> /\ spoiled' = {} /\ handed' = <<>>
    /\ UNCHANGED <<codec, queues, waiting, holder, cb, activity, rendered, arg, conn, got, conns>>

\* Lines 77-80.
StartFails(t) ==
    /\ pc[t] = "start" /\ Goto(t, "open")
    /\ codec' = 0
    /\ UNCHANGED <<queues, waiting, holder, cb, activity, media, arg, mine, conn, got, conns>>

\* Line 75.
AssignCodec(t) ==
    /\ pc[t] = "assign" /\ Goto(t, "open")
    /\ codec' = mine[t]
    /\ UNCHANGED <<queues, waiting, holder, cb, activity, media, arg, mine, conn, got, conns>>

Configure(t) ==
    \/ CallConfigure(t) \/ StopCodec(t) \/ FreeCodec(t) \/ DropCodec(t)
    \/ ClearInConfigure(t) \/ Arm(t) \/ StartCodec(t) \/ StartFails(t) \/ AssignCodec(t)

-----------------------------------------------------------------------------
(* onVideoFrame.                                                           *)

\* Lines 101-107, before lock is taken: without a codec, or while an IDR is
\* awaited, the frame is dropped.
CallFrame(t, idr) ==
    /\ pc[t] = "open" /\ got[t] < MaxFrames /\ activity # "forgot"
    /\ got' = [got EXCEPT ![t] = @ + 1]
    /\ IF codec = 0 \/ (waiting /\ ~idr)
       THEN UNCHANGED <<pc, arg>>
       ELSE /\ Goto(t, "frame")
            /\ arg' = [arg EXCEPT ![t] =
                         <<[conn |-> conn[t], n |-> got[t] + 1, idr |-> idr]>>]
    /\ UNCHANGED <<codec, queues, waiting, holder, cb, activity, media, mine, conn, conns>>

\* Mutant: a frame that finds the backlog full is dropped, the next is not.
DropOne(t, f) ==
    /\ ~f.idr /\ Len(pending) >= MaxBacklog
    /\ Goto(t, "open")
    /\ UNCHANGED <<pending, dropping, waiting, holder>>

\* Lines 111-115.
TakeIdr(t, f) ==
    /\ f.idr
    /\ pending' = <<f>> /\ dropping' = FALSE /\ waiting' = FALSE
    /\ holder' = <<t>> /\ Goto(t, "feed")

\* Lines 117-126: a full backlog drops this frame and all up to the next IDR.
DropTillIdr(t, f) ==
    /\ ~f.idr /\ (dropping \/ Len(pending) >= MaxBacklog)
    /\ dropping' = TRUE
    /\ Goto(t, "open")
    /\ UNCHANGED <<pending, waiting, holder>>

\* Mutant: the frame is fed on the next callback only.
TakeNextLazily(t, f) ==
    /\ ~f.idr /\ ~dropping /\ Len(pending) < MaxBacklog
    /\ pending' = Append(pending, f)
    /\ Goto(t, "open")
    /\ UNCHANGED <<dropping, waiting, holder>>

TakeNext(t, f) ==
    /\ ~f.idr /\ ~dropping /\ Len(pending) < MaxBacklog
    /\ pending' = Append(pending, f)
    /\ holder' = <<t>> /\ Goto(t, "feed")
    /\ UNCHANGED <<dropping, waiting>>

\* Lines 110-129, with lock.
FrameLocked(t) ==
    /\ pc[t] = "frame" /\ holder = <<>>
    /\ LET f == arg[t][1] IN TakeIdr(t, f) \/ DropTillIdr(t, f) \/ TakeNext(t, f)
    /\ arg' = [arg EXCEPT ![t] = <<>>]
    /\ UNCHANGED <<codec, avail, cb, activity, media, mine, conn, got, conns>>

\* tryFeedLocked, one turn of its loop.
TryFeed(t) ==
    /\ pc[t] = "feed"
    /\ IF pending # <<>> /\ avail # <<>>
       THEN /\ Feed(Head(avail), Head(pending))
            /\ pending' = Tail(pending) /\ avail' = Tail(avail)
            /\ UNCHANGED <<holder, pc>>
       ELSE /\ holder' = <<>> /\ Goto(t, "open")
            /\ UNCHANGED <<pending, avail, lent, queued, spoiled, handed>>
    /\ UNCHANGED <<codec, dropping, waiting, cb, activity, live, made, posted, rendered,
                   arg, mine, conn, got, conns>>

OnVideoFrame(t) ==
    (\E idr \in BOOLEAN : CallFrame(t, idr)) \/ FrameLocked(t) \/ TryFeed(t)

-----------------------------------------------------------------------------
(* reset, on a disconnect.                                                 *)

CallReset(t) ==
    /\ pc[t] \in {"open", "closed"} /\ activity # "forgot" /\ Goto(t, "reset")
    /\ waiting' = TRUE
    /\ UNCHANGED <<codec, queues, holder, cb, activity, media, arg, mine, conn, got, conns>>

ResetLocked(t) ==
    /\ pc[t] = "reset" /\ Goto(t, "closed")
    /\ ClearQueues
    /\ UNCHANGED <<codec, waiting, holder, cb, activity, media, arg, mine, conn, got, conns>>

Reset(t) == CallReset(t) \/ ResetLocked(t)

-----------------------------------------------------------------------------
(* release, on the UI thread (surfaceDestroyed, onDestroy).                *)

\* Line 208, as in configure.
StopInRelease ==
    /\ activity = "has"
    /\ \/ Ends /\ activity' = "freeing"
       \/ codec # 0 /\ UNCHANGED running /\ activity' = "nulling"
    /\ UNCHANGED <<codec, queues, waiting, holder, cb, made, rendered, handed, callers>>

\* Line 209.
FreeInRelease ==
    /\ activity = "freeing" /\ activity' = "nulling"
    /\ Ends
    /\ UNCHANGED <<codec, queues, waiting, holder, cb, made, rendered, handed, callers>>

\* Line 213, and quitSafely (line 203): no callback begins any more.
QuitInRelease ==
    /\ activity = "nulling" /\ activity' = "released"
    /\ codec' = 0
    /\ UNCHANGED <<queues, waiting, holder, cb, media, callers>>

Release == StopInRelease \/ FreeInRelease \/ QuitInRelease

\* decoder = null in MainActivity.
Forget ==
    /\ activity = "released" /\ activity' = "forgot"
    /\ UNCHANGED <<codec, queues, waiting, holder, cb, media, callers>>

-----------------------------------------------------------------------------
(* The codec and its callback thread.                                      *)

\* The callback thread enters onInputBufferAvailable.
CallbackBegins ==
    /\ cb = <<>> /\ activity \notin {"released", "forgot"}
    /\ \E i \in posted :
          /\ cb' = <<[of |-> live, index |-> i]>>
          /\ posted' = posted \ {i}
    /\ UNCHANGED <<codec, queues, waiting, holder, activity, live, made, lent, queued,
                   spoiled, rendered, handed, callers>>

\* Mutant: the index is kept although a frame is waiting for one.
CallbackKeeps ==
    /\ cb # <<>> /\ holder = <<>>
    /\ cb' = <<>>
    /\ avail' = Append(avail, cb[1])
    /\ UNCHANGED <<codec, pending, dropping, waiting, holder, activity, media, callers>>

\* Mutant: an index that no frame waits for is not kept.
CallbackForgets ==
    /\ cb # <<>> /\ holder = <<>>
    /\ cb' = <<>>
    /\ IF pending # <<>>
       THEN Feed(cb[1], Head(pending)) /\ pending' = Tail(pending)
       ELSE UNCHANGED <<pending, lent, queued, spoiled, handed>>
    /\ UNCHANGED <<codec, avail, dropping, waiting, holder, activity, live, made, posted,
                   rendered, callers>>

\* Lines 156-163, with lock.  Which codec called is not looked at.
OnInputBufferAvailable ==
    /\ cb # <<>> /\ holder = <<>>
    /\ cb' = <<>>
    /\ IF pending # <<>>
       THEN /\ Feed(cb[1], Head(pending))
            /\ pending' = Tail(pending) /\ UNCHANGED avail
       ELSE /\ avail' = Append(avail, cb[1])
            /\ UNCHANGED <<pending, lent, queued, spoiled, handed>>
    /\ UNCHANGED <<codec, dropping, waiting, holder, activity, live, made, posted, rendered,
                   callers>>

\* A frame is decoded and rendered, its buffer lent again.
Decode ==
    /\ queued # <<>>
    /\ rendered' = <<Head(queued).frame>>
    /\ queued' = Tail(queued)
    /\ posted' = posted \cup {Head(queued).index}
    /\ lent' = lent \cup {Head(queued).index}
    /\ UNCHANGED <<codec, queues, waiting, holder, cb, activity, live, made, spoiled,
                   handed, callers>>

Media == CallbackBegins \/ OnInputBufferAvailable \/ Decode

-----------------------------------------------------------------------------
Next == Media \/ Release \/ Forget \/ \E t \in Threads : Configure(t) \/ OnVideoFrame(t) \/ Reset(t)

Spec == Init /\ [][Next]_vars

\* A thread inside a call returns, the codec decodes, callbacks run.
InCall(t) == pc[t] \notin {"closed", "open"} /\ (Configure(t) \/ OnVideoFrame(t) \/ Reset(t))

FairSpec ==
    /\ Spec
    /\ \A t \in Threads : WF_vars(InCall(t))
    /\ WF_vars(CallbackBegins) /\ WF_vars(OnInputBufferAvailable) /\ WF_vars(Decode)

-----------------------------------------------------------------------------
(* Properties.                                                             *)

Pcs  == {"closed", "release", "free", "null", "clear", "arm", "start", "assign", "open",
         "frame", "feed", "reset"}
Acts == {"has", "freeing", "nulling", "released", "forgot"}

\* Every variable keeps its range.
TypeOK ==
    /\ codec \in 0 .. made /\ live \in 0 .. made /\ made \in Nat
    /\ pending \in Seq(Frame) /\ avail \in Seq(Buffer) /\ cb \in Seq(Buffer)
    /\ dropping \in BOOLEAN /\ waiting \in BOOLEAN
    /\ holder \in Seq(Threads) /\ activity \in Acts
    /\ posted \subseteq Indices /\ lent \subseteq Indices
    /\ spoiled \subseteq Indices /\ queued \in Seq([index : Indices, frame : Frame])
    /\ rendered \in Seq(Frame) /\ handed \in Seq(Frame)
    /\ pc \in [Threads -> Pcs]
    /\ arg \in [Threads -> Seq(Frame)]
    /\ mine \in [Threads -> 0 .. made]
    /\ conn \in [Threads -> 0 .. conns] /\ got \in [Threads -> 0 .. MaxFrames]
    /\ conns \in 0 .. MaxConns

\* The backlog is bounded, whatever the codec's pace (DecoderManager.kt:27, :121).
BacklogBound == Len(pending) <= MaxBacklog

\* A frame and a buffer never wait for each other: outside lock one of the
\* two queues is empty (tryFeedLocked, onInputBufferAvailable).
NoIdleBuffer == holder = <<>> => pending = <<>> \/ avail = <<>>

\* f can be decoded right after g.
Follows(g, f) == f.idr \/ (g # <<>> /\ g[1].conn = f.conn /\ g[1].n + 1 = f.n)

\* Each frame that comes to feed is an IDR, or comes right after the one before
\* it in its stream, on the same codec: frames are dropped up to the next IDR or
\* not at all (DecoderManager.kt:104, :117-126).  That is where the code's care
\* ends: a frame that feed itself loses is a gap in what the codec gets.
ReferenceIntegrity ==
    [][handed' # handed /\ handed' # <<>> => Follows(handed, handed'[1])]_vars

\* Buffers do not leak on the way to feed: each one lent to the app is on its way
\* to, or in, availableInputIndices, from configure to the disconnect, except
\* those for which feed has thrown (DecoderManager.kt:132-163).
NoBufferLost ==
    \A t \in Threads :
        pc[t] \in {"open", "frame", "feed"} /\ Active /\ activity = "has" =>
        lent = posted \cup {avail[i].index : i \in 1 .. Len(avail)}
                      \cup {cb[i].index : i \in 1 .. Len(cb)} \cup spoiled

\* The backlog drains again and again, until the decoder is released or feed has
\* thrown for each of the buffers.
BacklogDrains == []<>(pending = <<>> \/ activity # "has" \/ spoiled = Indices)
=============================================================================

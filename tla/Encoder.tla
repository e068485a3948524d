------------------------------ MODULE Encoder ------------------------------
(***************************************************************************)
(* encoder.cpp: main hands NV12 frames to a Media Foundation transform     *)
(* (SubmitFrame) and ends it (Shutdown); the MF work queue's threads run   *)
(* Invoke, which feeds the depth-1 slot pending_ on METransformNeedInput   *)
(* and takes a frame out on METransformHaveOutput.  Invoke asks for the    *)
(* next event before it does its work, so two of them run at once; mutex_  *)
(* guards the slot, outputMutex_ the output.  A software transform may be  *)
(* synchronous: then all of it happens in SubmitFrame.                     *)
(*                                                                         *)
(* Frames are numbered as they are submitted; the number stands for the    *)
(* sample time, too.  The bitstream is not looked at: its conversion and   *)
(* scan (protocol.cpp) may reject a frame or find it too long.             *)
(*                                                                         *)
(* The transform is modelled from its use: it asks for input at most       *)
(* Credits times ahead, keeps the order of frames (B-frames are disabled), *)
(* and posts one event per frame it has encoded.                           *)
(***************************************************************************)
EXTENDS Integers, Sequences, FiniteSets

CONSTANTS Workers,      \* threads of the MF work queue
          Credits,      \* requests for input the transform has open at once
          MapBound,     \* the bound of captureTimes_ (32)
          MaxFrames     \* bound: frames submitted

ASSUME EncoderAssumption ==
    /\ IsFiniteSet(Workers)
    /\ Credits \in Nat \ {0} /\ MapBound \in Nat \ {0} /\ MaxFrames \in Nat

\* Marked *: history, read by properties only.
VARIABLES
    \* main
    pc,         \* where SubmitFrame or Shutdown is
    sample,     \* sample in SubmitFrame: <<>> or <<f>>
    submitted,  \* frames submitted so far: the newest one's number
    \* the slot
    pending,    \* pending_: <<>> or <<f>>
    needInput,  \* needInput_
    drops,      \* encoderDrops_
    \* the rest of the object
    times,      \* captureTimes_: the frames that have an entry
    running,    \* running_
    callback,   \* is callback_ set?
    transform,  \* is transform_ set?
    \* Invoke
    at,         \* where each thread of the work queue is
    au,         \* the frame in its hands: <<>> or <<f>>
    holder,     \* who has outputMutex_: <<>> or <<w>>
    \* the transform
    isAsync,    \* isAsync_
    inside,     \* frames taken in, not yet encoded
    ready,      \* frames encoded, not yet taken out
    settled,    \* has the output type settled (after a stream change)?
    events,     \* events posted
    armed,      \* is a BeginGetEvent open?
    \* history
    delivered,  \* * frames the callback got
    lastOut,    \* * the last of them
    lost,       \* * frames lost without being counted as drops
    empty,      \* * was an empty callback_ called?
    broken,     \* * did a call of Media Foundation fail, so that an event or an
                \*   output is not followed up?
    outlasted   \* * did an Invoke outlast the Sleep(50) of Shutdown?

main     == <<pc, sample, submitted>>
slot     == <<pending, needInput, drops>>
object   == <<running, callback, transform>>
invoke   == <<at, au, holder>>
frames   == <<inside, ready>>
queue    == <<events, armed>>
history  == <<delivered, lastOut, empty, broken, outlasted>>
vars     == <<main, slot, times, object, invoke, isAsync, frames, settled, queue,
              history, lost>>

Init ==
    /\ pc = "idle" /\ sample = <<>> /\ submitted = 0
    /\ pending = <<>> /\ needInput = 0 /\ drops = 0
    /\ times = {} /\ running = TRUE /\ callback = TRUE /\ transform = TRUE
    /\ at = [w \in Workers |-> "idle"] /\ au = [w \in Workers |-> <<>>]
    /\ holder = <<>>
    /\ isAsync \in BOOLEAN
    /\ inside = <<>> /\ ready = <<>> /\ settled = FALSE
    /\ events = <<>> /\ armed = isAsync
    /\ delivered = 0 /\ lastOut = 0 /\ lost = 0 /\ empty = FALSE
    /\ broken = FALSE /\ outlasted = FALSE

-----------------------------------------------------------------------------
(* SubmitFrame.                                                            *)

\* Line 482: the oldest entries go.
Trim(ts) == {t \in ts : Cardinality({u \in ts : u > t}) < MapBound}

\* Lines 457-483: a sample is made and its capture time noted.
SubmitFrame ==
    /\ pc = "idle" /\ submitted < MaxFrames
    /\ pc' = IF isAsync THEN "slot" ELSE "sync"
    /\ submitted' = submitted + 1
    /\ sample' = <<submitted + 1>>
    /\ times' = Trim(times \cup {submitted + 1})
    /\ UNCHANGED <<slot, object, invoke, isAsync, frames, settled, queue, history, lost>>

\* TryFeedLocked, with p in the slot, n requests open and k frames lost.
TryFeed(p, n, k) ==
    IF p = <<>> \/ n = 0
    THEN pending' = p /\ needInput' = n /\ lost' = k /\ UNCHANGED inside
    ELSE /\ pending' = <<>>
         /\ \/ needInput' = n - 1 /\ inside' = inside \o p /\ lost' = k
            \/ needInput' = n /\ lost' = k + 1 /\ UNCHANGED inside

\* Mutant: the frame waits for the next request.
SubmitAsyncLazily ==
    /\ pc = "slot" /\ pc' = "idle"
    /\ drops' = drops + Len(pending)
    /\ pending' = sample
    /\ sample' = <<>>
    /\ UNCHANGED <<submitted, needInput, times, object, invoke, isAsync, frames,
                   settled, queue, history, lost>>

\* Mutant: the frame that is replaced is not counted.
SubmitAsyncUncounted ==
    /\ pc = "slot" /\ pc' = "idle"
    /\ TryFeed(sample, needInput, lost)
    /\ sample' = <<>>
    /\ UNCHANGED <<submitted, drops, times, object, invoke, isAsync, ready, settled,
                   queue, history>>

\* Lines 485-494, with mutex_: the newest frame takes the slot.
SubmitAsync ==
    /\ pc = "slot" /\ pc' = "idle"
    /\ drops' = drops + Len(pending)
    /\ TryFeed(sample, needInput, lost)
    /\ sample' = <<>>
    /\ UNCHANGED <<submitted, times, object, invoke, isAsync, ready, settled, queue,
                   history>>

\* Lines 496-506 and DrainSyncOutputs: with room made or not, the frame is
\* taken in or refused, and the first n frames inside come out; those in
\* scanned are access units, those in good are not too long either.
SubmitSync ==
    /\ pc = "sync" /\ pc' = "idle"
    /\ sample' = <<>>
    /\ \E accepted \in BOOLEAN :
          LET all == IF accepted THEN inside \o sample ELSE inside
          IN \E n \in 0 .. Len(all) : \E scanned \in SUBSET (1 .. n) :
             \E good \in SUBSET scanned :
                /\ inside' = SubSeq(all, n + 1, Len(all))
                /\ times' = times \ {all[i] : i \in scanned}
                /\ delivered' = delivered + Cardinality(good)
                /\ lost' = lost + (n - Cardinality(good)) + (IF accepted THEN 0 ELSE 1)
                /\ \/ good = {} /\ UNCHANGED lastOut
                   \/ \E i \in good : (\A j \in good : j <= i) /\ lastOut' = all[i]
    /\ UNCHANGED <<submitted, slot, object, invoke, isAsync, ready, settled, queue,
                   empty, broken, outlasted>>

-----------------------------------------------------------------------------
(* Invoke, on a thread w of the work queue.                                *)

Goto(w, l) == at' = [at EXCEPT ![w] = l]

\* Lines 81-88: an event is delivered; after Shutdown, or when it cannot be
\* had, it is left alone, and the next one is not asked for.
Invoke(w) ==
    /\ at[w] = "idle" /\ armed /\ events # <<>>
    /\ armed' = FALSE /\ events' = Tail(events)
    /\ \/ running /\ Goto(w, IF Head(events) = "need" THEN "armNeed" ELSE "armOut")
          /\ UNCHANGED broken
       \/ running /\ Goto(w, "idle") /\ broken' = TRUE
       \/ ~running /\ Goto(w, "idle") /\ UNCHANGED broken
    /\ UNCHANGED <<main, slot, times, object, au, holder, isAsync, frames, settled,
                   delivered, lastOut, empty, outlasted, lost>>

\* Mutant: only a request for input asks for the next event.
RearmForInput(w) ==
    /\ at[w] \in {"armNeed", "armOut"}
    /\ Goto(w, IF at[w] = "armNeed" THEN "need" ELSE "out")
    /\ armed' = (running /\ at[w] = "armNeed")
    /\ UNCHANGED <<main, slot, times, object, au, holder, isAsync, frames, settled,
                   events, history, lost>>

\* Line 93; nobody looks at the result of BeginGetEvent.
Rearm(w) ==
    /\ at[w] \in {"armNeed", "armOut"}
    /\ Goto(w, IF at[w] = "armNeed" THEN "need" ELSE "out")
    /\ \/ armed' = running /\ UNCHANGED broken
       \/ running /\ armed' = FALSE /\ broken' = TRUE
    /\ UNCHANGED <<main, slot, times, object, au, holder, isAsync, frames, settled,
                   events, delivered, lastOut, empty, outlasted, lost>>

\* Lines 96-101, with mutex_.
NeedInput(w) ==
    /\ at[w] = "need" /\ Goto(w, "idle")
    /\ TryFeed(pending, needInput + 1, lost)
    /\ UNCHANGED <<main, drops, times, object, au, holder, isAsync, ready, settled,
                   queue, history>>

\* Mutant: outputMutex_ is not taken.
PullOutputUnlocked(w) ==
    /\ at[w] = "out" /\ ready # <<>>
    /\ Goto(w, "deliver")
    /\ au' = [au EXCEPT ![w] = <<Head(ready)>>] /\ ready' = Tail(ready)
    /\ settled' = TRUE
    /\ UNCHANGED <<main, slot, times, object, holder, isAsync, inside, queue, history,
                   lost>>

\* Lines 103-104 and PullOutput: a frame is taken out, or (a stream change,
\* announced before the first frame) the type is renewed and the frame
\* announced again, or (no sample or buffer, the type not renewed, ProcessOutput
\* failing) the frame stays inside, or (after a flush) there is nothing.  When
\* Shutdown has let go of transform_, a null pointer is called: the thread
\* does nothing more, and what the program does then is left open.
PullOutput(w) ==
    /\ at[w] = "out" /\ holder = <<>>
    /\ \/ /\ ready # <<>>
          /\ holder' = <<w>> /\ Goto(w, "deliver")
          /\ au' = [au EXCEPT ![w] = <<Head(ready)>>] /\ ready' = Tail(ready)
          /\ settled' = TRUE /\ UNCHANGED <<events, broken>>
       \/ /\ ready # <<>> /\ ~settled /\ settled' = TRUE
          /\ events' = Append(events, "out")
          /\ Goto(w, "idle") /\ UNCHANGED <<holder, au, ready, broken>>
       \/ /\ ready # <<>> /\ broken' = TRUE
          /\ Goto(w, "idle") /\ UNCHANGED <<holder, au, ready, settled, events>>
       \/ /\ ready = <<>> /\ transform
          /\ Goto(w, "idle") /\ UNCHANGED <<holder, au, ready, settled, events, broken>>
       \/ /\ ~transform
          /\ Goto(w, "void") /\ UNCHANGED <<holder, au, ready, settled, events, broken>>
    /\ UNCHANGED <<main, slot, times, object, isAsync, inside, armed, delivered,
                   lastOut, empty, outlasted, lost>>

\* Lines 626-689: without callback_, or with a bitstream that is no access
\* unit or too long, the frame is lost.
DeliverBitstream(w) ==
    /\ at[w] = "deliver"
    /\ \/ /\ callback /\ Goto(w, "call")
          /\ times' = times \ {au[w][1]}
          /\ UNCHANGED <<au, holder, lost>>
       \/ /\ Goto(w, "idle") /\ holder' = <<>> /\ lost' = lost + 1
          /\ au' = [au EXCEPT ![w] = <<>>]
          /\ times' \in {times, times \ {au[w][1]}}
    /\ UNCHANGED <<main, slot, object, isAsync, frames, settled, queue, history>>

\* Line 690, Sender::Enqueue; callback_ is read without a lock.
CallBack(w) ==
    /\ at[w] = "call" /\ Goto(w, "idle")
    /\ IF callback THEN delivered' = delivered + 1 /\ lastOut' = au[w][1]
                        /\ UNCHANGED <<lost, empty>>
       ELSE lost' = lost + 1 /\ empty' = TRUE /\ UNCHANGED <<delivered, lastOut>>
    /\ au' = [au EXCEPT ![w] = <<>>] /\ holder' = <<>>
    /\ UNCHANGED <<main, slot, times, object, isAsync, frames, settled, queue, broken,
                   outlasted>>

WorkQueue(w) ==
    \/ Invoke(w) \/ Rearm(w) \/ NeedInput(w) \/ PullOutput(w) \/ DeliverBitstream(w)
    \/ CallBack(w)

-----------------------------------------------------------------------------
(* Shutdown, on main's thread, after Sender::Stop.                         *)

\* Line 698.
ShutdownCall ==
    /\ pc = "idle" /\ running /\ running' = FALSE
    /\ pc' = "uncall"
    /\ UNCHANGED <<sample, submitted, slot, times, callback, transform, invoke, isAsync,
                   frames, settled, queue, history, lost>>

\* Line 707.
ClearCallback ==
    /\ pc = "uncall" /\ pc' = "flush"
    /\ callback' = FALSE
    /\ UNCHANGED <<sample, submitted, slot, times, running, transform, invoke, isAsync,
                   frames, settled, queue, history, lost>>

\* Lines 709-717: what is inside the transform is discarded.
Flush ==
    /\ pc = "flush" /\ pc' = "sleep"
    /\ lost' = lost + Len(inside) + Len(ready)
    /\ inside' = <<>> /\ ready' = <<>>
    /\ UNCHANGED <<sample, submitted, slot, times, object, invoke, isAsync, settled,
                   queue, history>>

\* Lines 720-725: after 50 ms, whatever runs, the slot is cleared.
ClearSlot ==
    /\ pc = "sleep" /\ pc' = "release"
    /\ outlasted' = (\E w \in Workers : at[w] # "idle")
    /\ lost' = lost + Len(pending) /\ pending' = <<>>
    /\ UNCHANGED <<sample, submitted, needInput, drops, times, object, invoke, isAsync,
                   frames, settled, queue, delivered, lastOut, empty, broken>>

\* Lines 727-731: the transform goes, with what it took in after the flush.
Release ==
    /\ pc = "release" /\ pc' = "down"
    /\ transform' = FALSE
    /\ lost' = lost + Len(inside) + Len(ready)
    /\ inside' = <<>> /\ ready' = <<>>
    /\ UNCHANGED <<sample, submitted, slot, times, running, callback, invoke, isAsync,
                   settled, queue, history>>

Shutdown == ShutdownCall \/ ClearCallback \/ Flush \/ ClearSlot \/ Release

-----------------------------------------------------------------------------
(* The transform.                                                          *)

Streaming == transform /\ pc \notin {"sleep", "release", "down"}

\* Requests for input that have not been answered.
Open ==
    needInput + Cardinality({i \in 1 .. Len(events) : events[i] = "need"})
              + Cardinality({w \in Workers : at[w] \in {"armNeed", "need"}})

\* METransformNeedInput.
AskForInput ==
    /\ isAsync /\ Streaming /\ Open < Credits
    /\ events' = Append(events, "need")
    /\ UNCHANGED <<main, slot, times, object, invoke, isAsync, frames, settled, armed,
                   history, lost>>

\* METransformHaveOutput.
Encode ==
    /\ isAsync /\ Streaming /\ inside # <<>>
    /\ ready' = Append(ready, Head(inside)) /\ inside' = Tail(inside)
    /\ events' = Append(events, "out")
    /\ UNCHANGED <<main, slot, times, object, invoke, isAsync, settled, armed, history,
                   lost>>

Transform == AskForInput \/ Encode

-----------------------------------------------------------------------------
Submit == SubmitFrame \/ SubmitAsync \/ SubmitSync

Next == Submit \/ Shutdown \/ Transform \/ \E w \in Workers : WorkQueue(w)

Spec == Init /\ [][Next]_vars

-----------------------------------------------------------------------------
(* Properties.                                                             *)

Ids == 1 .. MaxFrames

\* Every variable keeps its range; the slot and main hold one frame at most.
TypeOK ==
    /\ pc \in {"idle", "slot", "sync", "uncall", "flush", "sleep", "release", "down"}
    /\ sample \in Seq(Ids) /\ Len(sample) <= 1 /\ submitted \in 0 .. MaxFrames
    /\ pending \in Seq(Ids) /\ Len(pending) <= 1
    /\ needInput \in Nat /\ drops \in Nat
    /\ times \subseteq Ids /\ running \in BOOLEAN /\ callback \in BOOLEAN
    /\ transform \in BOOLEAN
    /\ at \in [Workers -> {"idle", "armNeed", "armOut", "need", "out", "deliver", "call",
                       "void"}]
    /\ au \in [Workers -> Seq(Ids)] /\ holder \in Seq(Workers)
    /\ isAsync \in BOOLEAN /\ settled \in BOOLEAN
    /\ inside \in Seq(Ids) /\ ready \in Seq(Ids)
    /\ events \in Seq({"need", "out"}) /\ armed \in BOOLEAN
    /\ delivered \in Nat /\ lastOut \in 0 .. MaxFrames /\ lost \in Nat
    /\ empty \in BOOLEAN /\ broken \in BOOLEAN /\ outlasted \in BOOLEAN

\* A frame and a request for one never wait for each other: whoever comes
\* second feeds the transform (TryFeedLocked).
NoIdleRequest == pending = <<>> \/ needInput = 0

\* Frames that main or a thread of the work queue holds.
InHand == Len(sample) + Cardinality({w \in Workers : au[w] # <<>>})

\* Each frame submitted is in one place, or came out, or is counted as
\* dropped, or was lost by a failure or to Shutdown.
Accounted ==
    submitted = InHand + Len(pending) + Len(inside) + Len(ready)
                + drops + lost + delivered

\* With two Invokes at once, the callback still gets the frames one by one
\* and in their order (outputMutex_).
InOrder == [][lastOut' # lastOut => lastOut < lastOut']_vars

\* An Invoke that runs when Shutdown has let go of the transform already ran
\* when its 50 ms were over: an event that arrives later is left alone.
NothingAfterRelease == ~transform => outlasted \/ \A w \in Workers : at[w] = "idle"

\* An asynchronous transform holds no frame for ever: each request and each
\* output is followed up, unless a call of Media Foundation has failed, after
\* which nobody follows up (encoder.cpp:85, 93, 445, 583-605).  (A synchronous
\* transform keeps what it likes.)
AllComesOut ==
    []<>(isAsync /\ ~broken => InHand + Len(pending) + Len(inside) + Len(ready) = 0)

\* The comment at encoder.cpp:719, Shutdown gives an Invoke in flight a moment
\* to see that running_ is false: no Invoke calls a callback_ that Shutdown
\* has cleared.
NoEmptyCall == ~empty
=============================================================================

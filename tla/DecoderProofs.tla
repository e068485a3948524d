---------------------------- MODULE DecoderProofs ----------------------------
(***************************************************************************)
(* What module Decoder promises, for every number of threads, of input     *)
(* buffers, of connections and frames, and for every bound of the backlog. *)
(***************************************************************************)
EXTENDS Decoder, SequenceTheorems, TLAPS

\* A thread about to take lock has a frame; a thread that is past its
\* handshake has a connection.
Called ==
    \A t \in Threads :
        /\ pc[t] = "frame" => arg[t] # <<>>
        /\ pc[t] \notin {"closed", "reset"} => conn[t] \in 1 .. MaxConns

IInv == TypeOK /\ Called /\ BacklogBound /\ NoIdleBuffer

QueueItem == [index : Indices, frame : Frame]

USE DecoderAssumption

\* The empty sequence is one of any type, and has no elements.
LEMMA Nothing == \A S : <<>> \in Seq(S) /\ Len(<<>>) = 0
BY EmptySeq

\* A sequence of one element, its length and that element.
LEMMA OneOf ==
    ASSUME NEW S, NEW e \in S
    PROVE  <<e>> \in Seq(S) /\ Len(<<e>>) = 1 /\ <<e>>[1] = e /\ <<e>> # <<>>
OBVIOUS

\* feed keeps the codec's buffers and the frames it was given well-typed
\* (DecoderManager.kt:142-152).
LEMMA FeedType ==
    ASSUME TypeOK, NEW b \in Buffer, NEW f \in Frame, Feed(b, f)
    PROVE  /\ lent' \subseteq Indices /\ spoiled' \subseteq Indices
           /\ queued' \in Seq(QueueItem) /\ handed' \in Seq(Frame)
<1>1. /\ lent \subseteq Indices /\ spoiled \subseteq Indices /\ b.index \in Indices
      /\ queued \in Seq(QueueItem) /\ handed \in Seq(Frame)
    BY DEF TypeOK, QueueItem, Buffer
<1>2. [index |-> b.index, frame |-> f] \in QueueItem
    BY DEF QueueItem, Buffer
<1>3. CASE Active /\ b.index \in lent
    <2>1. queued' \in Seq(QueueItem)
        BY <1>1, <1>2, <1>3, AppendProperties DEF Feed
    <2>2. handed' \in Seq(Frame)
        BY <1>3, OneOf DEF Feed
    <2> QED
        BY <1>1, <1>3, <2>1, <2>2 DEF Feed
<1>4. CASE ~(Active /\ b.index \in lent)
    BY <1>1, <1>4 DEF Feed
<1> QED
    BY <1>3, <1>4

\* stop() and release() take every buffer back (DecoderManager.kt:208-209).
LEMMA EndsType ==
    ASSUME TypeOK, Ends
    PROVE  /\ live' \in 0 .. made /\ posted' \subseteq Indices /\ lent' \subseteq Indices
           /\ spoiled' \subseteq Indices /\ queued' \in Seq(QueueItem)
<1>1. /\ live \in 0 .. made /\ posted \subseteq Indices /\ lent \subseteq Indices
      /\ queued \in Seq(QueueItem) /\ made \in Nat /\ spoiled \subseteq Indices
    BY DEF TypeOK, QueueItem
<1>2. CASE Active
    <2>1. live' = 0 /\ posted' = {} /\ lent' = {} /\ queued' = <<>> /\ spoiled' = {}
        BY <1>2 DEF Ends
    <2>2. queued' \in Seq(QueueItem)
        BY <2>1, Nothing
    <2> QED
        BY <1>1, <2>1, <2>2
<1>3. CASE ~Active
    BY <1>1, <1>3 DEF Ends, running
<1> QED
    BY <1>2, <1>3

\* A decoder that has just been made meets the invariant.
LEMMA InitIInv == Init => IInv
<1> SUFFICES ASSUME Init PROVE IInv
    OBVIOUS
<1>1. TypeOK
    <2>1. /\ pending \in Seq(Frame) /\ avail \in Seq(Buffer) /\ cb \in Seq(Buffer)
          /\ holder \in Seq(Threads) /\ queued \in Seq(QueueItem)
          /\ rendered \in Seq(Frame) /\ handed \in Seq(Frame)
        BY Nothing DEF Init
    <2>2. /\ arg \in [Threads -> Seq(Frame)]
        BY Nothing DEF Init
    <2>3. /\ mine \in [Threads -> 0 .. made] /\ conn \in [Threads -> 0 .. conns]
          /\ got \in [Threads -> 0 .. MaxFrames] /\ conns \in 0 .. MaxConns
          /\ codec \in 0 .. made /\ live \in 0 .. made /\ made \in Nat
        BY DEF Init
    <2>4. dropping \in BOOLEAN /\ waiting \in BOOLEAN
        BY DEF Init
    <2> QED
        BY <2>1, <2>2, <2>3, <2>4 DEF Init, TypeOK, QueueItem, Pcs, Acts
<1>2. Called
    BY DEF Init, Called
<1>3. BacklogBound /\ NoIdleBuffer
    BY Nothing DEF Init, BacklogBound, NoIdleBuffer
<1> QED
    BY <1>1, <1>2, <1>3 DEF IInv

\* No step takes a variable out of its range.
LEMMA NextType == IInv /\ [Next]_vars => TypeOK'
<1> SUFFICES ASSUME IInv, [Next]_vars PROVE TypeOK'
    OBVIOUS
<1>0. TypeOK /\ Called
    BY DEF IInv
<1> USE <1>0 DEF TypeOK, Pcs, Acts, queues, media, running, callers, Goto
<1>1. CASE UNCHANGED vars
    BY <1>1 DEF vars
<1>2. ASSUME NEW t \in Threads, CallConfigure(t) PROVE TypeOK'
    <2>1. conns' = conns + 1 /\ conns' \in 0 .. MaxConns
        BY <1>2 DEF CallConfigure
    <2>2. conn' \in [Threads -> 0 .. conns']
        <3>1. conn' = [conn EXCEPT ![t] = conns + 1]
            BY <1>2 DEF CallConfigure
        <3> DEFINE S == 0 .. conns + 1
        <3>2. conns + 1 \in S /\ \A n \in 0 .. conns : n \in S
            OBVIOUS
        <3>3. conns' = conns + 1
            BY <2>1
        <3> HIDE DEF S
        <3>4. conn' \in [Threads -> S]
            BY <3>1, <3>2
        <3> QED
            BY <3>3, <3>4 DEF S
    <2>3. got' \in [Threads -> 0 .. MaxFrames]
        BY <1>2 DEF CallConfigure
    <2> QED
        BY <1>2, <2>1, <2>2, <2>3 DEF CallConfigure
<1>3. ASSUME NEW t \in Threads, StopCodec(t) \/ FreeCodec(t) \/ DropCodec(t) PROVE TypeOK'
    <2>1. CASE Ends /\ (StopCodec(t) \/ FreeCodec(t))
        <3>1. /\ live' \in 0 .. made /\ posted' \subseteq Indices /\ lent' \subseteq Indices
              /\ spoiled' \subseteq Indices /\ queued' \in Seq(QueueItem)
            BY <2>1, EndsType
        <3> QED
            BY <2>1, <3>1 DEF StopCodec, FreeCodec, QueueItem
    <2>2. CASE UNCHANGED running /\ StopCodec(t)
        BY <2>2 DEF StopCodec
    <2>3. CASE DropCodec(t)
        <3>1. codec' \in 0 .. made /\ pc' \in [Threads -> Pcs]
            BY <2>3 DEF DropCodec
        <3>2. /\ UNCHANGED <<pending, avail, dropping, waiting, holder, cb, activity>>
              /\ UNCHANGED <<live, made, posted, lent, queued, spoiled, rendered, handed>>
              /\ UNCHANGED <<arg, mine, conn, got, conns>>
            BY <2>3 DEF DropCodec
        <3> QED
            BY <3>1, <3>2
    <2> QED
        BY <1>3, <2>1, <2>2, <2>3 DEF StopCodec, FreeCodec
<1>4. ASSUME NEW t \in Threads, ClearInConfigure(t) \/ ResetLocked(t) PROVE TypeOK'
    <2>1. /\ pending' \in Seq(Frame) /\ avail' \in Seq(Buffer) /\ dropping' = FALSE
        BY <1>4, Nothing DEF ClearInConfigure, ResetLocked, ClearQueues
    <2> QED
        BY <1>4, <2>1 DEF ClearInConfigure, ResetLocked
<1>5. ASSUME NEW t \in Threads, Arm(t) \/ CallReset(t) PROVE TypeOK'
    BY <1>5 DEF Arm, CallReset
<1>6. ASSUME NEW t \in Threads, StartCodec(t) PROVE TypeOK'
    <2>1. /\ made' \in Nat /\ live' \in 0 .. made' /\ codec \in 0 .. made'
          /\ mine' \in [Threads -> 0 .. made']
        BY <1>6, SMTT(20) DEF StartCodec
    <2>2. queued' \in Seq(QueueItem) /\ handed' \in Seq(Frame)
        BY <1>6, Nothing DEF StartCodec
    <2> QED
        BY <1>6, <2>1, <2>2 DEF StartCodec, QueueItem
<1>7. ASSUME NEW t \in Threads, StartFails(t) \/ AssignCodec(t) PROVE TypeOK'
    <2>1. codec' \in 0 .. made
        BY <1>7 DEF StartFails, AssignCodec
    <2> QED
        BY <1>7, <2>1 DEF StartFails, AssignCodec
<1>8. ASSUME NEW t \in Threads, NEW idr \in BOOLEAN, CallFrame(t, idr) PROVE TypeOK'
    <2>a. MaxFrames \in Nat
        BY DecoderAssumption DEF DecoderAssumption
    <2>b. got[t] \in 0 .. MaxFrames
        OBVIOUS
    <2>c. got[t] < MaxFrames
        BY <1>8 DEF CallFrame
    <2>d. got' = [got EXCEPT ![t] = got[t] + 1]
        BY <1>8 DEF CallFrame
    <2>e. got[t] + 1 \in 1 .. MaxFrames
        BY <2>a, <2>b, <2>c, SMTT(20)
    <2>f. got' \in [Threads -> 0 .. MaxFrames]
        BY <2>a, <2>d, <2>e, SMTT(20)
    <2>1. got' \in [Threads -> 0 .. MaxFrames] /\ got[t] + 1 \in 1 .. MaxFrames
        BY <2>e, <2>f
    <2>2. conn[t] \in 1 .. MaxConns
        BY <1>8 DEF CallFrame, Called
    <2> DEFINE f == [conn |-> conn[t], n |-> got[t] + 1, idr |-> idr]
    <2>3. f \in Frame
        BY <2>1, <2>2 DEF Frame
    <2>4. <<f>> \in Seq(Frame)
        BY <2>3, OneOf
    <2>5. arg' = arg \/ arg' = [arg EXCEPT ![t] = <<f>>]
        BY <1>8 DEF CallFrame
    <2> HIDE DEF f
    <2>6. arg' \in [Threads -> Seq(Frame)]
        BY <2>4, <2>5
    <2>7. pc' = pc \/ pc' = [pc EXCEPT ![t] = "frame"]
        BY <1>8 DEF CallFrame
    <2> QED
        BY <1>8, <2>1, <2>6, <2>7 DEF CallFrame
<1>9. ASSUME NEW t \in Threads, FrameLocked(t) PROVE TypeOK'
    <2> DEFINE f == arg[t][1]
    <2>1. f \in Frame
        <3>1. arg[t] # <<>> /\ arg[t] \in Seq(Frame)
            BY <1>9 DEF FrameLocked, Called
        <3>2. 1 \in 1 .. Len(arg[t])
            BY <3>1, EmptySeq
        <3> QED
            BY <3>1, <3>2, ElementOfSeq
    <2>2. TakeIdr(t, f) \/ DropTillIdr(t, f) \/ TakeNext(t, f)
        BY <1>9 DEF FrameLocked
    <2> HIDE DEF f
    <2>3. pending' \in Seq(Frame)
        <3>1. pending' = <<f>> \/ pending' = pending \/ pending' = Append(pending, f)
            BY <2>2 DEF TakeIdr, DropTillIdr, TakeNext
        <3>2. <<f>> \in Seq(Frame) /\ Append(pending, f) \in Seq(Frame)
            BY <2>1, OneOf, AppendProperties
        <3> QED
            BY <3>1, <3>2
    <2>4. holder' \in Seq(Threads)
        <3>1. holder' = <<t>> \/ holder' = holder
            BY <2>2 DEF TakeIdr, DropTillIdr, TakeNext
        <3>2. <<t>> \in Seq(Threads)
            BY OneOf
        <3> QED
            BY <3>1, <3>2
    <2>5. dropping' \in BOOLEAN /\ waiting' \in BOOLEAN
        BY <2>2 DEF TakeIdr, DropTillIdr, TakeNext
    <2>6. pc' = [pc EXCEPT ![t] = "feed"] \/ pc' = [pc EXCEPT ![t] = "open"]
        BY <2>2 DEF TakeIdr, DropTillIdr, TakeNext
    <2>7. arg' \in [Threads -> Seq(Frame)]
        BY <1>9, Nothing DEF FrameLocked
    <2> QED
        BY <1>9, <2>3, <2>4, <2>5, <2>6, <2>7 DEF FrameLocked
<1>10. ASSUME NEW t \in Threads, TryFeed(t) PROVE TypeOK'
    <2>1. CASE pending # <<>> /\ avail # <<>>
        <3>1. /\ Head(pending) \in Frame /\ Tail(pending) \in Seq(Frame)
              /\ Head(avail) \in Buffer /\ Tail(avail) \in Seq(Buffer)
            BY <2>1, HeadTailProperties
        <3>2. Feed(Head(avail), Head(pending))
            BY <1>10, <2>1 DEF TryFeed
        <3>3. /\ lent' \subseteq Indices /\ spoiled' \subseteq Indices
              /\ queued' \in Seq(QueueItem) /\ handed' \in Seq(Frame)
            BY <3>1, <3>2, FeedType
        <3> QED
            BY <1>10, <2>1, <3>1, <3>3 DEF TryFeed, QueueItem
    <2>2. CASE ~(pending # <<>> /\ avail # <<>>)
        <3>1. holder' \in Seq(Threads)
            BY <1>10, <2>2, Nothing DEF TryFeed
        <3> QED
            BY <1>10, <2>2, <3>1 DEF TryFeed
    <2> QED
        BY <2>1, <2>2
<1>11. CASE Release
    <2>1. CASE Ends /\ (StopInRelease \/ FreeInRelease)
        <3>1. /\ live' \in 0 .. made /\ posted' \subseteq Indices /\ lent' \subseteq Indices
              /\ spoiled' \subseteq Indices /\ queued' \in Seq(QueueItem)
            BY <2>1, EndsType
        <3> QED
            BY <2>1, <3>1 DEF StopInRelease, FreeInRelease, QueueItem
    <2>2. CASE UNCHANGED running /\ StopInRelease
        BY <2>2 DEF StopInRelease
    <2>3. CASE QuitInRelease
        BY <2>3 DEF QuitInRelease
    <2> QED
        BY <1>11, <2>1, <2>2, <2>3 DEF Release, StopInRelease, FreeInRelease
<1>12. CASE Forget
    BY <1>12 DEF Forget
<1>13. CASE CallbackBegins
    <2>1. PICK i \in posted : /\ cb' = <<[of |-> live, index |-> i]>>
                              /\ posted' = posted \ {i}
        BY <1>13 DEF CallbackBegins
    <2>2. [of |-> live, index |-> i] \in Buffer
        BY DEF Buffer
    <2>3. cb' \in Seq(Buffer)
        BY <2>1, <2>2, OneOf
    <2> QED
        BY <1>13, <2>1, <2>3 DEF CallbackBegins
<1>14. CASE OnInputBufferAvailable
    <2>1. cb[1] \in Buffer
        <3>1. 1 \in 1 .. Len(cb)
            BY <1>14, EmptySeq DEF OnInputBufferAvailable
        <3> QED
            BY <3>1, ElementOfSeq
    <2>2. cb' \in Seq(Buffer)
        BY <1>14, Nothing DEF OnInputBufferAvailable
    <2>3. CASE pending # <<>>
        <3>1. Head(pending) \in Frame /\ Tail(pending) \in Seq(Frame)
            BY <2>3, HeadTailProperties
        <3>2. Feed(cb[1], Head(pending))
            BY <1>14, <2>3 DEF OnInputBufferAvailable
        <3>3. /\ lent' \subseteq Indices /\ spoiled' \subseteq Indices
              /\ queued' \in Seq(QueueItem) /\ handed' \in Seq(Frame)
            BY <2>1, <3>1, <3>2, FeedType
        <3> QED
            BY <1>14, <2>2, <2>3, <3>1, <3>3 DEF OnInputBufferAvailable, QueueItem
    <2>4. CASE pending = <<>>
        <3>1. avail' \in Seq(Buffer)
            <4>1. avail' = Append(avail, cb[1])
                BY <1>14, <2>4 DEF OnInputBufferAvailable
            <4> QED
                BY <2>1, <4>1, AppendProperties
        <3> QED
            BY <1>14, <2>2, <2>4, <3>1 DEF OnInputBufferAvailable
    <2> QED
        BY <2>3, <2>4
<1>15. CASE Decode
    <2>1. /\ Head(queued) \in QueueItem /\ Tail(queued) \in Seq(QueueItem)
        BY <1>15, HeadTailProperties DEF Decode, QueueItem
    <2>2. Head(queued).index \in Indices /\ Head(queued).frame \in Frame
        BY <2>1 DEF QueueItem
    <2>3. rendered' \in Seq(Frame)
        BY <1>15, <2>2, OneOf DEF Decode
    <2> QED
        BY <1>15, <2>1, <2>2, <2>3 DEF Decode, QueueItem
<1> QED
    BY <1>1, <1>2, <1>3, <1>4, <1>5, <1>6, <1>7, <1>8, <1>9, <1>10, <1>11, <1>12,
       <1>13, <1>14, <1>15
    DEF Next, Media, Configure, OnVideoFrame, Reset

\* A call of the listener carries its frame and its connection along.
LEMMA NextCalled == IInv /\ [Next]_vars => Called'
<1> SUFFICES ASSUME IInv, [Next]_vars PROVE Called'
    OBVIOUS
<1>1. /\ Called
      /\ pc \in [Threads -> Pcs]
      /\ arg \in [Threads -> Seq(Frame)] /\ conn \in [Threads -> 0 .. conns]
      /\ conns \in 0 .. MaxConns
    BY DEF IInv, TypeOK
<1> USE DEF Pcs
<1>2. CASE UNCHANGED <<pc, arg, conn>>
    BY <1>1, <1>2 DEF Called
<1>3. ASSUME NEW t \in Threads, CallConfigure(t) PROVE Called'
    <2>1. /\ conn' = [conn EXCEPT ![t] = conns + 1] /\ conns + 1 \in 1 .. MaxConns
          /\ pc' = [pc EXCEPT ![t] = "release"] /\ arg' = arg
        BY <1>1, <1>3 DEF CallConfigure, Goto
    <2> QED
        BY <1>1, <2>1 DEF Called
<1>4. ASSUME NEW t \in Threads,
             StopCodec(t) \/ FreeCodec(t) \/ DropCodec(t) \/ ClearInConfigure(t)
             \/ Arm(t) \/ StartCodec(t) \/ StartFails(t) \/ AssignCodec(t)
      PROVE  Called'
    <2>1. /\ pc[t] \in {"release", "free", "null", "clear", "arm", "start", "assign"}
          /\ \E l \in {"free", "null", "clear", "arm", "start", "assign", "open"} :
                pc' = [pc EXCEPT ![t] = l]
          /\ arg' = arg /\ conn' = conn
        BY <1>4
        DEF StopCodec, FreeCodec, DropCodec, ClearInConfigure, Arm, StartCodec,
            StartFails, AssignCodec, Goto
    <2> QED
        BY <1>1, <2>1 DEF Called
<1>5. ASSUME NEW t \in Threads, NEW idr \in BOOLEAN, CallFrame(t, idr) PROVE Called'
    <2>1. CASE UNCHANGED <<pc, arg>>
        BY <1>2, <1>5, <2>1 DEF CallFrame
    <2>2. CASE ~UNCHANGED <<pc, arg>>
        <3> DEFINE f == [conn |-> conn[t], n |-> got[t] + 1, idr |-> idr]
        <3>1. /\ pc[t] = "open" /\ pc' = [pc EXCEPT ![t] = "frame"]
              /\ arg' = [arg EXCEPT ![t] = <<f>>] /\ conn' = conn
            BY <1>5, <2>2 DEF CallFrame, Goto
        <3>2. <<f>> # <<>>
            BY OneOf
        <3> HIDE DEF f
        <3> QED
            BY <1>1, <3>1, <3>2 DEF Called
    <2> QED
        BY <2>1, <2>2
<1>6. ASSUME NEW t \in Threads, FrameLocked(t) PROVE Called'
    <2>1. /\ pc[t] = "frame" /\ \E l \in {"feed", "open"} : pc' = [pc EXCEPT ![t] = l]
          /\ arg' = [arg EXCEPT ![t] = <<>>] /\ conn' = conn
        BY <1>6 DEF FrameLocked, TakeIdr, DropTillIdr, TakeNext, Goto
    <2> QED
        BY <1>1, <2>1 DEF Called
<1>7. ASSUME NEW t \in Threads, TryFeed(t) PROVE Called'
    <2>1. /\ pc[t] = "feed" /\ (pc' = pc \/ pc' = [pc EXCEPT ![t] = "open"])
          /\ arg' = arg /\ conn' = conn
        BY <1>7 DEF TryFeed, Goto
    <2> QED
        BY <1>1, <2>1 DEF Called
<1>8. ASSUME NEW t \in Threads, CallReset(t) \/ ResetLocked(t) PROVE Called'
    <2>1. /\ \E l \in {"reset", "closed"} : pc' = [pc EXCEPT ![t] = l]
          /\ arg' = arg /\ conn' = conn
        BY <1>8 DEF CallReset, ResetLocked, Goto
    <2> QED
        BY <1>1, <2>1 DEF Called
<1>9. CASE Media \/ Release \/ Forget \/ UNCHANGED vars
    BY <1>2, <1>9
    DEF Media, CallbackBegins, OnInputBufferAvailable, Decode, Release, StopInRelease,
        FreeInRelease, QuitInRelease, Forget, vars, callers
<1> QED
    BY <1>3, <1>4, <1>5, <1>6, <1>7, <1>8, <1>9
    DEF Next, Configure, OnVideoFrame, Reset

\* The backlog grows by one frame where it is below its bound, and an IDR
\* replaces it (DecoderManager.kt:111-126); whoever leaves lock has emptied
\* one of the two queues.
LEMMA NextQueues == IInv /\ [Next]_vars => BacklogBound' /\ NoIdleBuffer'
<1> SUFFICES ASSUME IInv, [Next]_vars PROVE BacklogBound' /\ NoIdleBuffer'
    OBVIOUS
<1>1. /\ BacklogBound /\ NoIdleBuffer
      /\ pending \in Seq(Frame) /\ Len(pending) \in Nat
      /\ MaxBacklog \in Nat \ {0}
    BY DEF IInv, TypeOK
<1>2. CASE UNCHANGED <<pending, avail, holder>>
    BY <1>1, <1>2 DEF BacklogBound, NoIdleBuffer
<1>3. CASE pending' = <<>> /\ avail' = <<>>
    BY <1>1, <1>3, Nothing DEF BacklogBound, NoIdleBuffer
<1>4. ASSUME NEW t \in Threads, FrameLocked(t) PROVE BacklogBound' /\ NoIdleBuffer'
    <2> DEFINE f == arg[t][1]
    <2>1. /\ avail' = avail
          /\ TakeIdr(t, f) \/ DropTillIdr(t, f) \/ TakeNext(t, f)
        BY <1>4 DEF FrameLocked
    <2> HIDE DEF f
    <2>2. CASE TakeIdr(t, f)
        <3>1. Len(pending') = 1 /\ holder' # <<>>
            BY <2>2, OneOf DEF TakeIdr
        <3> QED
            BY <1>1, <3>1 DEF BacklogBound, NoIdleBuffer
    <2>3. CASE DropTillIdr(t, f)
        BY <1>2, <2>1, <2>3 DEF DropTillIdr
    <2>4. CASE TakeNext(t, f)
        <3>1. /\ pending' = Append(pending, f) /\ Len(pending) < MaxBacklog
              /\ holder' = <<t>>
            BY <2>4 DEF TakeNext
        <3>2. Len(pending') = Len(pending) + 1 /\ holder' # <<>>
            BY <1>1, <3>1, OneOf
        <3> QED
            BY <1>1, <3>1, <3>2 DEF BacklogBound, NoIdleBuffer
    <2> QED
        BY <2>1, <2>2, <2>3, <2>4
<1>5. ASSUME NEW t \in Threads, TryFeed(t) PROVE BacklogBound' /\ NoIdleBuffer'
    <2>1. CASE pending # <<>> /\ avail # <<>>
        <3>1. pending' = Tail(pending) /\ holder' = holder
            BY <1>5, <2>1 DEF TryFeed
        <3>2. Len(pending') = Len(pending) - 1
            BY <1>1, <2>1, <3>1, HeadTailProperties
        <3>3. holder # <<>>
            BY <1>1, <2>1 DEF NoIdleBuffer
        <3> QED
            BY <1>1, <3>1, <3>2, <3>3 DEF BacklogBound, NoIdleBuffer
    <2>2. CASE ~(pending # <<>> /\ avail # <<>>)
        <3>1. pending' = pending /\ avail' = avail
            BY <1>5, <2>2 DEF TryFeed
        <3> QED
            BY <1>1, <2>2, <3>1 DEF BacklogBound, NoIdleBuffer
    <2> QED
        BY <2>1, <2>2
<1>6. CASE OnInputBufferAvailable
    <2>1. CASE pending # <<>>
        <3>1. pending' = Tail(pending) /\ avail' = avail /\ avail = <<>>
            BY <1>1, <1>6, <2>1 DEF OnInputBufferAvailable, NoIdleBuffer
        <3>2. Len(pending') = Len(pending) - 1
            BY <1>1, <2>1, <3>1, HeadTailProperties
        <3> QED
            BY <1>1, <3>1, <3>2 DEF BacklogBound, NoIdleBuffer
    <2>2. CASE pending = <<>>
        BY <1>1, <1>6, <2>2 DEF OnInputBufferAvailable, BacklogBound, NoIdleBuffer
    <2> QED
        BY <2>1, <2>2
<1>7. ASSUME NEW t \in Threads, ClearInConfigure(t) \/ ResetLocked(t)
      PROVE  BacklogBound' /\ NoIdleBuffer'
    BY <1>3, <1>7 DEF ClearInConfigure, ResetLocked, ClearQueues
<1>8. ASSUME NEW t \in Threads, NEW idr \in BOOLEAN,
             CallConfigure(t) \/ StopCodec(t) \/ FreeCodec(t) \/ DropCodec(t) \/ Arm(t)
             \/ StartCodec(t) \/ StartFails(t) \/ AssignCodec(t) \/ CallFrame(t, idr)
             \/ CallReset(t)
      PROVE  BacklogBound' /\ NoIdleBuffer'
    BY <1>2, <1>8
    DEF CallConfigure, StopCodec, FreeCodec, DropCodec, Arm, StartCodec, StartFails,
        AssignCodec, CallFrame, CallReset, queues
<1>9. CASE CallbackBegins \/ Decode \/ Release \/ Forget \/ UNCHANGED vars
    BY <1>2, <1>9
    DEF CallbackBegins, Decode, Release, StopInRelease, FreeInRelease, QuitInRelease,
        Forget, vars, queues
<1> QED
    BY <1>4, <1>5, <1>6, <1>7, <1>8, <1>9
    DEF Next, Media, Configure, OnVideoFrame, Reset

\* The invariant is inductive.
LEMMA NextIInv == IInv /\ [Next]_vars => IInv'
BY NextType, NextCalled, NextQueues DEF IInv

\* It holds in every reachable state.
THEOREM Invariance == Spec => []IInv
BY InitIInv, NextIInv, PTL DEF Spec

\* Every variable keeps its range, with any number of threads.
THEOREM TypeCorrect == Spec => []TypeOK
<1>1. IInv => TypeOK
    BY DEF IInv
<1> QED
    BY Invariance, <1>1, PTL

\* The backlog is bounded, also while sessions overlap (DecoderManager.kt:121).
THEOREM Bounded == Spec => []BacklogBound
<1>1. IInv => BacklogBound
    BY DEF IInv
<1> QED
    BY Invariance, <1>1, PTL

\* No frame waits beside a free buffer (tryFeedLocked, onInputBufferAvailable).
THEOREM NoneWaitsForTheOther == Spec => []NoIdleBuffer
<1>1. IInv => NoIdleBuffer
    BY DEF IInv
<1> QED
    BY Invariance, <1>1, PTL
-----------------------------------------------------------------------------
(* A decoder nobody uses.  This needs no order among the threads.          *)

Serving == {"open", "frame", "feed"}

\* While no thread may deliver frames an IDR is awaited; when the last
\* disconnect is over, too, no frame is kept.
Rest ==
    /\ (\A t \in Threads : pc[t] \notin Serving) => waiting
    /\ (\A t \in Threads : pc[t] \notin Serving \cup {"reset"}) => pending = <<>>

\* A thread goes to rest by way of a reset only (DecoderManager.kt:189-197).
LEMMA NextRest == IInv /\ Rest /\ [Next]_vars => Rest'
<1> SUFFICES ASSUME IInv, Rest, [Next]_vars PROVE Rest'
    OBVIOUS
<1>1. pc \in [Threads -> Pcs]
    BY DEF IInv, TypeOK, Pcs
<1> USE <1>1 DEF Rest, Serving, queues, media, running, callers, Goto
<1>2. CASE UNCHANGED <<pc, waiting, pending>>
    BY <1>2
<1>3. ASSUME NEW t \in Threads, CallConfigure(t) PROVE Rest'
    BY <1>3 DEF CallConfigure
<1>4. ASSUME NEW t \in Threads, StopCodec(t) \/ FreeCodec(t) \/ DropCodec(t) PROVE Rest'
    <2>1. /\ pc[t] \in {"release", "free", "null"} /\ UNCHANGED <<waiting, pending>>
          /\ \E l \in {"free", "null", "clear"} : pc' = [pc EXCEPT ![t] = l]
        BY <1>4 DEF StopCodec, FreeCodec, DropCodec
    <2> QED
        BY <2>1
<1>5. ASSUME NEW t \in Threads, ClearInConfigure(t) \/ ResetLocked(t) PROVE Rest'
    BY <1>5 DEF ClearInConfigure, ResetLocked, ClearQueues
<1>6. ASSUME NEW t \in Threads, Arm(t) \/ CallReset(t) PROVE Rest'
    BY <1>6 DEF Arm, CallReset
<1>7. ASSUME NEW t \in Threads, StartCodec(t) \/ StartFails(t) \/ AssignCodec(t) PROVE Rest'
    BY <1>7 DEF StartCodec, StartFails, AssignCodec
<1>8. ASSUME NEW t \in Threads, NEW idr \in BOOLEAN, CallFrame(t, idr) PROVE Rest'
    BY <1>8 DEF CallFrame
<1>9. ASSUME NEW t \in Threads, FrameLocked(t) PROVE Rest'
    <2>1. pc[t] = "frame" /\ \E l \in {"feed", "open"} : pc' = [pc EXCEPT ![t] = l]
        BY <1>9 DEF FrameLocked, TakeIdr, DropTillIdr, TakeNext
    <2> QED
        BY <2>1
<1>10. ASSUME NEW t \in Threads, TryFeed(t) PROVE Rest'
    <2>1. pc[t] = "feed" /\ (pc' = pc \/ pc' = [pc EXCEPT ![t] = "open"])
        BY <1>10 DEF TryFeed
    <2>2. pc'[t] \in Serving
        BY <2>1
    <2> QED
        BY <2>2
<1>11. CASE OnInputBufferAvailable
    <2>1. CASE pending = <<>>
        BY <1>11, <2>1 DEF OnInputBufferAvailable
    <2>2. CASE pending # <<>>
        BY <1>11, <2>2 DEF OnInputBufferAvailable
    <2> QED
        BY <2>1, <2>2
<1>12. CASE CallbackBegins \/ Decode \/ Release \/ Forget \/ UNCHANGED vars
    BY <1>2, <1>12
    DEF CallbackBegins, Decode, Release, StopInRelease, FreeInRelease, QuitInRelease,
        Forget, vars
<1> QED
    BY <1>3, <1>4, <1>5, <1>6, <1>7, <1>8, <1>9, <1>10, <1>11, <1>12
    DEF Next, Media, Configure, OnVideoFrame, Reset

LEMMA InitRest == Init => Rest
BY DEF Init, Rest, Serving

\* A decoder nobody uses keeps no frame and will show nothing before an IDR
\* (reset, DecoderManager.kt:189-197), whatever the order of the calls before.
THEOREM Rested == Spec => []Rest
BY InitRest, NextRest, Invariance, PTL DEF Spec
-----------------------------------------------------------------------------
(* The codec's input buffers: those whose callback is posted (p), those in *)
(* availableInputIndices (a), the one in a callback (c), all that are lent *)
(* to the app (l), and those that are queued (q).                          *)

\* No buffer is in two places, and the app holds none that is not lent.
Sound(p, a, c, l, q) ==
    /\ p \subseteq l
    /\ \A i \in 1 .. Len(a) : a[i].index \in l /\ a[i].index \notin p
    /\ \A i, j \in 1 .. Len(a) : a[i].index = a[j].index => i = j
    /\ Len(c) <= 1
    /\ Len(c) = 1 => c[1].index \in l /\ c[1].index \notin p
    /\ Len(c) = 1 => \A i \in 1 .. Len(a) : a[i].index # c[1].index
    /\ \A i \in 1 .. Len(q) : q[i].index \notin l
    /\ \A i, j \in 1 .. Len(q) : q[i].index = q[j].index => i = j

\* Each buffer that is lent is in one of the places.
Covered(p, a, c, l) ==
    \A k \in l :
        \/ k \in p
        \/ Len(c) = 1 /\ c[1].index = k
        \/ \E i \in 1 .. Len(a) : a[i].index = k

\* A codec lends all its buffers when it is started.
LEMMA AllPosted ==
    ASSUME NEW S
    PROVE  Sound(S, <<>>, <<>>, S, <<>>) /\ Covered(S, <<>>, <<>>, S)
BY Nothing DEF Sound, Covered

\* A callback begins.
LEMMA Begun ==
    ASSUME NEW p, NEW l, NEW q, NEW a \in Seq(Buffer), NEW b \in Buffer,
           b.index \in p, Sound(p, a, <<>>, l, q)
    PROVE  /\ Sound(p \ {b.index}, a, <<b>>, l, q)
           /\ Covered(p, a, <<>>, l) => Covered(p \ {b.index}, a, <<b>>, l)
<1>1. Len(<<b>>) = 1 /\ <<b>>[1] = b /\ Len(<<>>) = 0
    BY Nothing, OneOf
<1> QED
    BY <1>1 DEF Sound, Covered

\* The buffer of a callback is kept in availableInputIndices.
LEMMA Kept ==
    ASSUME NEW p, NEW l, NEW q, NEW a \in Seq(Buffer), NEW c \in Seq(Buffer), Len(c) = 1,
           Sound(p, a, c, l, q)
    PROVE  /\ Sound(p, Append(a, c[1]), <<>>, l, q)
           /\ Covered(p, a, c, l) => Covered(p, Append(a, c[1]), <<>>, l)
<1> DEFINE b == c[1]
           s == Append(a, b)
<1>1. b \in Buffer /\ Len(<<>>) = 0
    BY Nothing
<1>2. /\ Len(s) = Len(a) + 1 /\ s[Len(a) + 1] = b
      /\ \A i \in 1 .. Len(a) : s[i] = a[i]
    BY <1>1, AppendProperties
<1>3. Len(a) \in Nat
    OBVIOUS
<1> HIDE DEF s
<1>4. Sound(p, s, <<>>, l, q)
    <2>1. \A i \in 1 .. Len(s) : s[i].index \in l /\ s[i].index \notin p
        BY <1>1, <1>2, <1>3 DEF Sound
    <2>2. \A i, j \in 1 .. Len(s) : s[i].index = s[j].index => i = j
        <3>1. \A i \in 1 .. Len(a) : a[i].index # b.index
            BY DEF Sound
        <3>2. \A i, j \in 1 .. Len(a) : a[i].index = a[j].index => i = j
            BY DEF Sound
        <3> QED
            BY <1>2, <1>3, <3>1, <3>2
    <2> QED
        BY <1>1, <2>1, <2>2 DEF Sound
<1>5. ASSUME Covered(p, a, c, l) PROVE Covered(p, s, <<>>, l)
    <2> SUFFICES ASSUME NEW k \in l, k \notin p
                 PROVE  \E i \in 1 .. Len(s) : s[i].index = k
        BY <1>1 DEF Covered
    <2>1. CASE c[1].index = k
        BY <1>2, <1>3, <2>1
    <2>2. CASE \E i \in 1 .. Len(a) : a[i].index = k
        BY <1>2, <1>3, <2>2
    <2> QED
        BY <1>5, <2>1, <2>2 DEF Covered
<1> QED
    BY <1>4, <1>5 DEF s

\* q with one more buffer, which is lent no longer.
LEMMA QueuedMore ==
    ASSUME NEW l, NEW q \in Seq(QueueItem), NEW e \in QueueItem, e.index \in l,
           \A i \in 1 .. Len(q) : q[i].index \notin l,
           \A i, j \in 1 .. Len(q) : q[i].index = q[j].index => i = j
    PROVE  LET r == Append(q, e)
           IN  /\ \A i \in 1 .. Len(r) : r[i].index \notin l \ {e.index}
               /\ \A i, j \in 1 .. Len(r) : r[i].index = r[j].index => i = j
<1> DEFINE r == Append(q, e)
<1>1. /\ Len(r) = Len(q) + 1 /\ r[Len(q) + 1] = e
      /\ \A i \in 1 .. Len(q) : r[i] = q[i]
    BY AppendProperties
<1>2. Len(q) \in Nat
    OBVIOUS
<1> HIDE DEF r
<1>3. \A i \in 1 .. Len(r) : r[i].index \notin l \ {e.index}
    BY <1>1, <1>2
<1>4. \A i, j \in 1 .. Len(r) : r[i].index = r[j].index => i = j
    BY <1>1, <1>2
<1> QED
    BY <1>3, <1>4 DEF r

\* A frame is fed into the buffer of a callback, or that buffer is lost.
LEMMA FedFromCallback ==
    ASSUME NEW p, NEW l, NEW q \in Seq(QueueItem), NEW a \in Seq(Buffer),
           NEW c \in Seq(Buffer), NEW e \in QueueItem, Len(c) = 1,
           Sound(p, a, c, l, q)
    PROVE  /\ Sound(p, a, <<>>, l, q)
           /\ e.index = c[1].index => Sound(p, a, <<>>, l \ {e.index}, Append(q, e))
           /\ e.index = c[1].index => Sound(p, a, <<>>, l \ {e.index}, q)
           /\ e.index = c[1].index /\ Covered(p, a, c, l) => Covered(p, a, <<>>, l \ {e.index})
<1>1. Len(<<>>) = 0
    BY Nothing
<1>2. Sound(p, a, <<>>, l, q)
    BY <1>1 DEF Sound
<1>3. ASSUME e.index = c[1].index
      PROVE  Sound(p, a, <<>>, l \ {e.index}, Append(q, e))
    <2>1. e.index \in l
        BY <1>3 DEF Sound
    <2> DEFINE r == Append(q, e)
    <2>2. /\ \A i \in 1 .. Len(r) : r[i].index \notin l \ {e.index}
          /\ \A i, j \in 1 .. Len(r) : r[i].index = r[j].index => i = j
        BY <2>1, QueuedMore DEF Sound
    <2> HIDE DEF r
    <2>3. Sound(p, a, <<>>, l \ {e.index}, r)
        BY <1>1, <1>3, <2>2 DEF Sound
    <2> QED
        BY <2>3 DEF r
<1>4. ASSUME e.index = c[1].index, Covered(p, a, c, l)
      PROVE  Covered(p, a, <<>>, l \ {e.index})
    BY <1>1, <1>4 DEF Covered
<1>5. ASSUME e.index = c[1].index PROVE Sound(p, a, <<>>, l \ {e.index}, q)
    BY <1>1, <1>5 DEF Sound
<1> QED
    BY <1>2, <1>3, <1>4, <1>5

\* What is left of availableInputIndices when its head is gone.
LEMMA Rump ==
    ASSUME NEW a \in Seq(Buffer), a # <<>>
    PROVE  /\ Head(a) = a[1] /\ Len(a) \in Nat \ {0} /\ Len(Tail(a)) = Len(a) - 1
           /\ \A i \in 1 .. Len(a) - 1 : Tail(a)[i] = a[i + 1]
BY HeadTailProperties, EmptySeq

\* A frame is fed into the first free buffer, or that buffer is lost.
LEMMA FedFromAvail ==
    ASSUME NEW p, NEW l, NEW q \in Seq(QueueItem), NEW a \in Seq(Buffer),
           NEW c \in Seq(Buffer), NEW e \in QueueItem, a # <<>>,
           Sound(p, a, c, l, q)
    PROVE  /\ Sound(p, Tail(a), c, l, q)
           /\ e.index = Head(a).index => Sound(p, Tail(a), c, l \ {e.index}, Append(q, e))
           /\ e.index = Head(a).index => Sound(p, Tail(a), c, l \ {e.index}, q)
           /\ e.index = Head(a).index /\ Covered(p, a, c, l)
                => Covered(p, Tail(a), c, l \ {e.index})
<1> DEFINE s == Tail(a)
<1>1. /\ Head(a) = a[1] /\ Len(a) \in Nat \ {0} /\ Len(s) = Len(a) - 1
      /\ \A i \in 1 .. Len(a) - 1 : s[i] = a[i + 1]
    BY Rump
<1> HIDE DEF s
<1>2. Sound(p, s, c, l, q)
    <2>1. \A i \in 1 .. Len(s) : s[i] = a[i + 1] /\ i + 1 \in 1 .. Len(a)
        BY <1>1
    <2>2. \A i \in 1 .. Len(s) : s[i].index \in l /\ s[i].index \notin p
        BY <2>1 DEF Sound
    <2>3. ASSUME NEW i \in 1 .. Len(s), NEW j \in 1 .. Len(s), s[i].index = s[j].index
          PROVE  i = j
        <3>1. i + 1 = j + 1
            BY <2>1, <2>3, ZenonT(40) DEF Sound
        <3> QED
            BY <3>1
    <2>4. Len(c) = 1 => \A i \in 1 .. Len(s) : s[i].index # c[1].index
        BY <2>1 DEF Sound
    <2> QED
        BY <2>2, <2>3, <2>4 DEF Sound
<1>3. ASSUME e.index = Head(a).index
      PROVE  Sound(p, s, c, l \ {e.index}, Append(q, e))
    <2>1. e.index = a[1].index /\ e.index \in l
        BY <1>1, <1>3 DEF Sound
    <2> DEFINE r == Append(q, e)
    <2>2. /\ \A i \in 1 .. Len(r) : r[i].index \notin l \ {e.index}
          /\ \A i, j \in 1 .. Len(r) : r[i].index = r[j].index => i = j
        BY <2>1, QueuedMore DEF Sound
    <2> HIDE DEF r
    <2>3. e.index \notin p /\ \A i \in 1 .. Len(s) : s[i].index # e.index
        BY <1>1, <2>1, SMTT(20) DEF Sound
    <2>4. Len(c) = 1 => c[1].index # e.index
        BY <1>1, <2>1 DEF Sound
    <2>5. Sound(p, s, c, l \ {e.index}, r)
        BY <1>2, <2>2, <2>3, <2>4 DEF Sound
    <2> QED
        BY <2>5 DEF r
<1>5. ASSUME e.index = Head(a).index PROVE Sound(p, s, c, l \ {e.index}, q)
    <2>1. e.index = a[1].index /\ e.index \in l
        BY <1>1, <1>5 DEF Sound
    <2>2. e.index \notin p /\ \A i \in 1 .. Len(s) : s[i].index # e.index
        BY <1>1, <2>1, SMTT(20) DEF Sound
    <2>3. Len(c) = 1 => c[1].index # e.index
        BY <1>1, <2>1 DEF Sound
    <2> QED
        BY <1>2, <2>2, <2>3 DEF Sound
<1>4. ASSUME e.index = Head(a).index, Covered(p, a, c, l)
      PROVE  Covered(p, s, c, l \ {e.index})
    <2> SUFFICES ASSUME NEW k \in l \ {e.index}, k \notin p, ~(Len(c) = 1 /\ c[1].index = k)
                 PROVE  \E i \in 1 .. Len(s) : s[i].index = k
        BY DEF Covered
    <2>1. PICK i \in 1 .. Len(a) : a[i].index = k
        BY <1>4 DEF Covered
    <2>2. i # 1 /\ i - 1 \in 1 .. Len(s)
        BY <1>1, <1>4, <2>1
    <2>3. s[i - 1] = a[(i - 1) + 1]
        BY <1>1, <2>2
    <2>4. s[i - 1] = a[i]
        BY <2>3
    <2> QED
        BY <2>1, <2>2, <2>4
<1> QED
    BY <1>2, <1>3, <1>4, <1>5 DEF s

\* A frame is decoded and its buffer lent again.
LEMMA LentAgain ==
    ASSUME NEW p, NEW l, NEW q \in Seq(QueueItem), NEW a \in Seq(Buffer),
           NEW c \in Seq(Buffer), q # <<>>, Sound(p, a, c, l, q)
    PROVE  LET k == Head(q).index
           IN  /\ Sound(p \cup {k}, a, c, l \cup {k}, Tail(q))
               /\ Covered(p, a, c, l) => Covered(p \cup {k}, a, c, l \cup {k})
<1> DEFINE k == Head(q).index
           r == Tail(q)
<1>1. /\ Head(q) = q[1] /\ Len(q) \in Nat \ {0} /\ Len(r) = Len(q) - 1
      /\ \A i \in 1 .. Len(q) - 1 : r[i] = q[i + 1]
    BY HeadTailProperties, EmptySeq
<1>2. k = q[1].index /\ k \notin l
    BY <1>1 DEF Sound
<1> HIDE DEF r, k
<1>3. /\ \A i \in 1 .. Len(r) : r[i].index \notin l \cup {k}
      /\ \A i, j \in 1 .. Len(r) : r[i].index = r[j].index => i = j
    <2>1. \A i \in 1 .. Len(r) : r[i] = q[i + 1] /\ i + 1 \in 1 .. Len(q)
        BY <1>1
    <2>2. \A i \in 1 .. Len(r) : r[i].index \notin l /\ r[i].index # k
        <3> SUFFICES ASSUME NEW i \in 1 .. Len(r)
                     PROVE  r[i].index \notin l /\ r[i].index # k
            OBVIOUS
        <3>1. r[i] = q[i + 1] /\ i + 1 \in 1 .. Len(q) /\ i + 1 # 1 /\ 1 \in 1 .. Len(q)
            BY <1>1, <2>1
        <3>2. q[i + 1].index \notin l /\ q[i + 1].index # q[1].index
            BY <3>1 DEF Sound
        <3> QED
            BY <1>2, <3>1, <3>2
    <2>3. ASSUME NEW i \in 1 .. Len(r), NEW j \in 1 .. Len(r), r[i].index = r[j].index
          PROVE  i = j
        <3>1. i + 1 = j + 1
            BY <2>1, <2>3, SMTT(20) DEF Sound
        <3> QED
            BY <3>1
    <2> QED
        BY <2>2, <2>3
<1>4. Sound(p \cup {k}, a, c, l \cup {k}, r)
    BY <1>2, <1>3 DEF Sound
<1>5. Covered(p, a, c, l) => Covered(p \cup {k}, a, c, l \cup {k})
    BY DEF Covered
<1> QED
    BY <1>4, <1>5 DEF r, k

\* configure and reset forget the free buffers.
LEMMA Forgotten ==
    ASSUME NEW p, NEW l, NEW q, NEW a \in Seq(Buffer), NEW c, Sound(p, a, c, l, q)
    PROVE  Sound(p, <<>>, c, l, q)
BY Nothing DEF Sound
-----------------------------------------------------------------------------
(* Threads that do not overlap.                                            *)

\* One thread at a time is anywhere between its handshake and its disconnect.
Serial == \A s, t \in Threads : pc[s] # "closed" /\ pc[t] # "closed" => s = t

\* codec is the instance that is started, once it is assigned.  From its
\* release on codec is null, or the instance is no longer started; one whose
\* stop() threw may go on with nobody to have it, and then no other starts.
\* While there is none the queues stay as configure has cleared them.
Instance ==
    /\ \A t \in Threads : pc[t] = "assign" => mine[t] = live /\ live # 0
    /\ codec # 0 /\ live # 0 => codec = live
    /\ live = 0 => posted = {} /\ queued = <<>>
    /\ \A t \in Threads : pc[t] \in {"clear", "arm", "start", "assign"} => codec = 0
    /\ \A t \in Threads : pc[t] \in {"arm", "start"} /\ live = 0 => avail = <<>> /\ cb = <<>>

\* The buffers of the codec that is started; all of them are in their places
\* while frames may be delivered and the decoder is not released.
Usable == lent \ spoiled

Intact ==
    live # 0 => /\ Sound(posted, avail, cb, Usable, queued)
                /\ spoiled \subseteq lent
                /\ \A i \in 1 .. Len(queued) : queued[i].index \notin spoiled

Whole ==
    /\ activity = "has"
    /\ \/ Active /\ \E t \in Threads : pc[t] \in Serving
       \/ \E t \in Threads : pc[t] = "assign"
    => Covered(posted, avail, cb, Usable)

\* What a step of the decoder may rely on.
Typed ==
    /\ pc \in [Threads -> Pcs]
    /\ codec \in Nat /\ live \in Nat /\ made \in Nat /\ mine \in [Threads -> Nat]
    /\ pending \in Seq(Frame) /\ avail \in Seq(Buffer) /\ cb \in Seq(Buffer)
    /\ posted \subseteq Indices /\ lent \subseteq Indices /\ spoiled \subseteq Indices
    /\ queued \in Seq(QueueItem)
    /\ handed \in Seq(Frame)

LEMMA IInvTyped == IInv => Typed
<1> SUFFICES ASSUME IInv PROVE Typed
    OBVIOUS
<1>1. TypeOK
    BY DEF IInv
<1>2. codec \in Nat /\ live \in Nat /\ made \in Nat /\ mine \in [Threads -> Nat]
    BY <1>1 DEF TypeOK
<1> QED
    BY <1>1, <1>2 DEF TypeOK, Typed, Pcs, QueueItem

\* What stop() and release() leave (DecoderManager.kt:208-209).
LEMMA Stopped ==
    ASSUME Typed, Instance, Ends
    PROVE  /\ \/ ~Active /\ UNCHANGED running
              \/ Active /\ live' = 0 /\ posted' = {} /\ queued' = <<>>
           /\ codec # 0 => live' = 0
<1>1. CASE Active
    BY <1>1 DEF Ends
<1>2. CASE ~Active
    <2>1. UNCHANGED running /\ live' = live
        BY <1>2 DEF Ends, running
    <2>2. codec # 0 => live = 0
        BY <1>2 DEF Active, Instance
    <2> QED
        BY <1>2, <2>1, <2>2
<1> QED
    BY <1>1, <1>2

LEMMA NextInstance ==
    ASSUME Prompt, IInv, Serial, Instance, [Next]_vars
    PROVE  Instance'
<1>1. Typed
    BY IInvTyped
<1> USE <1>1 DEF Typed, Pcs, Instance, Serial, queues, media, running, callers, Goto
<1>2. CASE UNCHANGED <<pc, codec, mine, live, posted, queued, avail, cb>>
    BY <1>2
<1>3. ASSUME NEW t \in Threads, CallConfigure(t) PROVE Instance'
    BY <1>3 DEF CallConfigure
<1>4. ASSUME NEW t \in Threads, StopCodec(t) \/ FreeCodec(t) \/ DropCodec(t) PROVE Instance'
    <2>1. /\ pc[t] \in {"release", "free", "null"} /\ UNCHANGED <<mine, avail, cb>>
          /\ \E l \in {"free", "null", "clear"} : pc' = [pc EXCEPT ![t] = l]
        BY <1>4 DEF StopCodec, FreeCodec, DropCodec
    <2>2. \A s \in Threads : s # t => pc[s] = "closed"
        BY <2>1
    <2>3. CASE Ends /\ (StopCodec(t) \/ FreeCodec(t))
        <3>1. /\ codec' = codec /\ \E l \in {"free", "null"} : pc' = [pc EXCEPT ![t] = l]
            BY <2>3 DEF StopCodec, FreeCodec
        <3>2. \/ UNCHANGED <<live, posted, queued>>
              \/ live' = 0 /\ posted' = {} /\ queued' = <<>>
            BY <2>3, Stopped DEF running
        <3> QED
            BY <2>2, <2>1, <3>1, <3>2
    <2>4. CASE UNCHANGED running /\ StopCodec(t)
        <3>1. codec' = codec /\ \E l \in {"free", "null"} : pc' = [pc EXCEPT ![t] = l]
            BY <2>4 DEF StopCodec
        <3> QED
            BY <2>1, <2>2, <2>4, <3>1
    <2>5. CASE DropCodec(t)
        <3>1. codec' = 0 /\ UNCHANGED <<live, posted, queued>> /\ pc' = [pc EXCEPT ![t] = "clear"]
            BY <2>5 DEF DropCodec
        <3> QED
            BY <2>1, <2>2, <3>1
    <2> QED
        BY <1>4, <2>3, <2>4, <2>5 DEF StopCodec, FreeCodec
<1>5. ASSUME NEW t \in Threads, ClearInConfigure(t) PROVE Instance'
    <2>1. /\ pc[t] = "clear" /\ pc' = [pc EXCEPT ![t] = "arm"] /\ avail' = <<>>
          /\ cb = <<>> /\ UNCHANGED <<codec, mine, live, posted, queued, cb>>
        BY <1>5 DEF ClearInConfigure, ClearQueues
    <2> QED
        BY <2>1
<1>6. ASSUME NEW t \in Threads, ResetLocked(t) PROVE Instance'
    <2>1. /\ pc[t] = "reset" /\ pc' = [pc EXCEPT ![t] = "closed"] /\ avail' = <<>>
          /\ UNCHANGED <<codec, mine, live, posted, queued, cb>>
        BY <1>6 DEF ResetLocked, ClearQueues
    <2> QED
        BY <2>1
<1>7. ASSUME NEW t \in Threads, Arm(t) PROVE Instance'
    <2>1. /\ pc[t] = "arm" /\ \E l \in {"start", "open"} : pc' = [pc EXCEPT ![t] = l]
          /\ UNCHANGED <<codec, mine, live, posted, queued, avail, cb>>
        BY <1>7 DEF Arm
    <2> QED
        BY <2>1
<1>8. ASSUME NEW t \in Threads, CallReset(t) PROVE Instance'
    BY <1>8 DEF CallReset
<1>9. ASSUME NEW t \in Threads, StartCodec(t) PROVE Instance'
    <2>1. /\ pc[t] = "start" /\ pc' = [pc EXCEPT ![t] = "assign"] /\ live = 0
          /\ live' = made + 1 /\ mine' = [mine EXCEPT ![t] = made + 1]
          /\ codec' = codec
        BY <1>9 DEF StartCodec
    <2>2. \A s \in Threads : s # t => pc[s] = "closed"
        BY <2>1
    <2>3. codec = 0
        BY <2>1, <2>2
    <2> QED
        BY <2>1, <2>2, <2>3
<1>10. ASSUME NEW t \in Threads, StartFails(t) PROVE Instance'
    BY <1>10 DEF StartFails
<1>11. ASSUME NEW t \in Threads, AssignCodec(t) PROVE Instance'
    <2>1. /\ pc[t] = "assign" /\ pc' = [pc EXCEPT ![t] = "open"] /\ codec' = mine[t]
          /\ UNCHANGED <<mine, live, posted, queued, avail, cb>>
        BY <1>11 DEF AssignCodec
    <2>2. \A s \in Threads : s # t => pc[s] = "closed"
        BY <2>1
    <2> QED
        BY <2>1, <2>2
<1>12. ASSUME NEW t \in Threads, NEW idr \in BOOLEAN, CallFrame(t, idr) PROVE Instance'
    BY <1>12 DEF CallFrame
<1>13. ASSUME NEW t \in Threads, FrameLocked(t) PROVE Instance'
    <2>1. /\ pc[t] = "frame" /\ \E l \in {"feed", "open"} : pc' = [pc EXCEPT ![t] = l]
          /\ UNCHANGED <<codec, mine, live, posted, queued, avail, cb>>
        BY <1>13 DEF FrameLocked, TakeIdr, DropTillIdr, TakeNext
    <2> QED
        BY <2>1
<1>14. ASSUME NEW t \in Threads, TryFeed(t) PROVE Instance'
    <2>1. /\ pc[t] = "feed" /\ (pc' = pc \/ pc' = [pc EXCEPT ![t] = "open"])
          /\ UNCHANGED <<codec, mine, live, posted, cb>>
          /\ live = 0 => queued' = queued
        BY <1>14 DEF TryFeed, Feed, Active
    <2>2. \A s \in Threads : s # t => pc[s] = "closed"
        BY <2>1
    <2> QED
        BY <2>1, <2>2
<1>15. CASE Release
    <2>1. UNCHANGED <<pc, mine, avail, cb>>
        BY <1>15 DEF Release, StopInRelease, FreeInRelease, QuitInRelease
    <2>2. CASE Ends /\ (StopInRelease \/ FreeInRelease)
        <3>1. codec' = codec
            BY <2>2 DEF StopInRelease, FreeInRelease
        <3>2. \/ UNCHANGED <<live, posted, queued>>
              \/ Active /\ live' = 0 /\ posted' = {} /\ queued' = <<>>
            BY <2>2, Stopped
        <3> QED
            BY <2>1, <3>1, <3>2 DEF Active
    <2>3. CASE UNCHANGED running /\ StopInRelease
        BY <1>2, <2>1, <2>3 DEF StopInRelease
    <2>4. CASE QuitInRelease
        BY <2>1, <2>4 DEF QuitInRelease
    <2> QED
        BY <1>15, <2>2, <2>3, <2>4 DEF Release, StopInRelease, FreeInRelease
<1>16. CASE CallbackBegins
    BY <1>16 DEF CallbackBegins
<1>17. CASE OnInputBufferAvailable
    <2>1. /\ cb # <<>> /\ cb' = <<>> /\ UNCHANGED <<pc, codec, mine, live, posted>>
          /\ live = 0 => queued' = queued
        BY <1>17 DEF OnInputBufferAvailable, Feed, Active
    <2> QED
        BY <2>1
<1>18. CASE Decode
    BY <1>18 DEF Decode
<1>19. CASE Forget \/ UNCHANGED vars
    BY <1>2, <1>19 DEF Forget, vars
<1> QED
    BY <1>3, <1>4, <1>5, <1>6, <1>7, <1>8, <1>9, <1>10, <1>11, <1>12, <1>13, <1>14,
       <1>15, <1>16, <1>17, <1>18, <1>19
    DEF Next, Media, Configure, OnVideoFrame, Reset

\* A sequence of at most one element that is not empty.
LEMMA JustOne ==
    ASSUME NEW S, NEW c \in Seq(S), c # <<>>, Len(c) <= 1
    PROVE  Len(c) = 1 /\ c[1] \in S
<1>1. Len(c) \in Nat /\ Len(c) # 0
    BY EmptySeq
<1>2. Len(c) <= 1
    OBVIOUS
<1>3. \A n \in Nat : n # 0 /\ n <= 1 => n = 1
    OBVIOUS
<1>4. Len(c) = 1
    BY <1>1, <1>2, <1>3
<1> QED
    BY <1>4, ElementOfSeq

\* feed, in terms of the buffer and the frame it puts together.
LEMMA FeedBuffers ==
    ASSUME NEW b \in Buffer, NEW f \in Frame, Feed(b, f)
    PROVE  \E e \in QueueItem :
              /\ e.index = b.index /\ e.frame = f
              /\ Active /\ b.index \in lent
                   => /\ \/ /\ lent' = lent \ {e.index} /\ queued' = Append(queued, e)
                            /\ spoiled' = spoiled
                         \/ /\ spoiled' = spoiled \cup {e.index}
                            /\ lent' = lent /\ queued' = queued
                      /\ handed' = <<f>>
              /\ ~(Active /\ b.index \in lent) => UNCHANGED <<lent, queued, spoiled, handed>>
<1> DEFINE e == [index |-> b.index, frame |-> f]
<1>1. e \in QueueItem /\ e.index = b.index /\ e.frame = f
    BY DEF QueueItem, Buffer
<1>2. /\ Active /\ b.index \in lent
           => /\ \/ /\ lent' = lent \ {b.index} /\ queued' = Append(queued, e)
                    /\ spoiled' = spoiled
                 \/ /\ spoiled' = spoiled \cup {b.index}
                    /\ lent' = lent /\ queued' = queued
              /\ handed' = <<f>>
      /\ ~(Active /\ b.index \in lent) => UNCHANGED <<lent, queued, spoiled, handed>>
    BY DEF Feed
<1> HIDE DEF e
<1> QED
    BY <1>1, <1>2

\* What feed does to the buffers that can be used: the one it is given is gone.
LEMMA FeedUses ==
    ASSUME NEW b \in Buffer, NEW f \in Frame, Feed(b, f), Active, b.index \in Usable,
           queued \in Seq(QueueItem), spoiled \subseteq lent,
           \A i \in 1 .. Len(queued) : queued[i].index \notin Usable,
           \A i \in 1 .. Len(queued) : queued[i].index \notin spoiled
    PROVE  /\ \E e \in QueueItem :
                 /\ e.index = b.index
                 /\ Usable' = Usable \ {e.index}
                 /\ queued' = queued \/ queued' = Append(queued, e)
           /\ spoiled' \subseteq lent'
           /\ \A i \in 1 .. Len(queued') : queued'[i].index \notin spoiled'
           /\ handed' = <<f>>
<1>1. PICK e \in QueueItem :
         /\ e.index = b.index
         /\ \/ /\ lent' = lent \ {e.index} /\ queued' = Append(queued, e)
               /\ spoiled' = spoiled
            \/ /\ spoiled' = spoiled \cup {e.index}
               /\ lent' = lent /\ queued' = queued
         /\ handed' = <<f>>
    BY FeedBuffers DEF Usable
<1>2. e.index \in lent /\ e.index \notin spoiled
    BY <1>1 DEF Usable
<1>3. CASE lent' = lent \ {e.index} /\ queued' = Append(queued, e) /\ spoiled' = spoiled
    <2>1. /\ Len(queued') = Len(queued) + 1 /\ queued'[Len(queued) + 1] = e
          /\ \A i \in 1 .. Len(queued) : queued'[i] = queued[i]
        BY <1>3, AppendProperties
    <2>2. \A i \in 1 .. Len(queued') : queued'[i].index \notin spoiled'
        <3>1. ASSUME NEW i \in 1 .. Len(queued')
              PROVE  i \in 1 .. Len(queued) \/ i = Len(queued) + 1
            BY <2>1
        <3> QED
            BY <1>2, <1>3, <2>1, <3>1
    <2> QED
        BY <1>1, <1>2, <1>3, <2>2 DEF Usable
<1>4. CASE spoiled' = spoiled \cup {e.index} /\ lent' = lent /\ queued' = queued
    BY <1>1, <1>2, <1>4 DEF Usable
<1> QED
    BY <1>1, <1>3, <1>4

\* Buffers move from place to place, and none is lost on the way: what feed
\* is given belongs to the codec it is given to.
LEMMA NextBuffers ==
    ASSUME Prompt, IInv, Rest, Serial, Instance, Intact, Whole, [Next]_vars
    PROVE  Intact' /\ Whole'
<1>1. Typed
    BY IInvTyped
<1> USE <1>1 DEF Typed, Pcs, Intact, Whole, Serving, queues, media, callers, Goto
<1>2. CASE UNCHANGED <<pc, activity, codec, running, avail, cb>>
    BY <1>2 DEF running, Active, Usable
<1>3. ASSUME NEW t \in Threads, NEW idr \in BOOLEAN,
             CallConfigure(t) \/ DropCodec(t) \/ Arm(t) \/ StartFails(t)
             \/ CallFrame(t, idr) \/ FrameLocked(t) \/ CallReset(t)
      PROVE  Intact' /\ Whole'
    <2>1. UNCHANGED <<activity, running, avail, cb>>
        BY <1>3
        DEF CallConfigure, DropCodec, Arm, StartFails, CallFrame, FrameLocked, CallReset
    <2>2. UNCHANGED <<live, lent, spoiled, posted, queued>> /\ Usable' = Usable
        BY <2>1 DEF running, Usable
    <2>3. Intact'
        BY <2>1, <2>2
    <2>4. \A s \in Threads : pc[s] # "assign" => pc'[s] # "assign"
        BY <1>3
        DEF CallConfigure, DropCodec, Arm, StartFails, CallFrame, FrameLocked, TakeIdr,
            DropTillIdr, TakeNext, CallReset
    <2>5. CASE DropCodec(t) \/ Arm(t) \/ StartFails(t)
        <3>1. codec' = 0
            BY <2>5 DEF DropCodec, Arm, StartFails, Instance
        <3> QED
            BY <2>1, <2>2, <2>3, <2>4, <3>1 DEF Active
    <2>6. CASE CallConfigure(t) \/ CallFrame(t, idr) \/ FrameLocked(t) \/ CallReset(t)
        <3>1. /\ codec' = codec
              /\ \A s \in Threads : pc[s] \notin Serving => pc'[s] \notin Serving
            BY <2>6
            DEF CallConfigure, CallFrame, FrameLocked, TakeIdr, DropTillIdr, TakeNext,
                CallReset
        <3> QED
            BY <2>1, <2>2, <2>3, <2>4, <3>1 DEF Active
    <2> QED
        BY <1>3, <2>5, <2>6
<1>4. ASSUME NEW t \in Threads, StopCodec(t) \/ FreeCodec(t) PROVE Intact' /\ Whole'
    <2>1. /\ pc[t] \in {"release", "free"} /\ UNCHANGED <<codec, activity, avail, cb>>
          /\ \E l \in {"free", "null"} : pc' = [pc EXCEPT ![t] = l]
          /\ Ends \/ UNCHANGED running
        BY <1>4 DEF StopCodec, FreeCodec
    <2>2. \A s \in Threads : pc'[s] \notin Serving \cup {"assign"}
        BY <2>1 DEF Serial
    <2>3. Whole'
        BY <2>2
    <2>4. CASE UNCHANGED running
        BY <2>1, <2>3, <2>4 DEF running, Usable
    <2>5. CASE live' = 0
        BY <2>3, <2>5
    <2> QED
        BY <2>1, <2>4, <2>5, Stopped
<1>5. ASSUME NEW t \in Threads, ClearInConfigure(t) \/ ResetLocked(t) PROVE Intact' /\ Whole'
    <2>1. /\ avail' = <<>> /\ UNCHANGED <<activity, running, cb>>
          /\ pc[t] \in {"clear", "reset"}
          /\ \E l \in {"arm", "closed"} : pc' = [pc EXCEPT ![t] = l]
        BY <1>5 DEF ClearInConfigure, ResetLocked, ClearQueues
    <2>2. UNCHANGED <<live, lent, spoiled, posted, queued>> /\ Usable' = Usable
        BY <2>1 DEF running, Usable
    <2>3. Intact'
        BY <2>1, <2>2, Forgotten
    <2>4. \A s \in Threads : pc'[s] \notin Serving \cup {"assign"}
        BY <2>1 DEF Serial
    <2> QED
        BY <2>3, <2>4
<1>6. ASSUME NEW t \in Threads, StartCodec(t) PROVE Intact' /\ Whole'
    <2>1. /\ avail' = <<>> /\ cb' = <<>> /\ posted' = Indices /\ lent' = Indices
          /\ queued' = <<>> /\ spoiled' = {}
        BY <1>6 DEF StartCodec, Instance
    <2>2. Usable' = Indices /\ Len(queued') = 0
        BY <2>1, Nothing DEF Usable
    <2> QED
        BY <2>1, <2>2, AllPosted
<1>13. ASSUME NEW t \in Threads, AssignCodec(t) PROVE Intact' /\ Whole'
    <2>1. /\ pc[t] = "assign" /\ UNCHANGED <<activity, running, avail, cb>>
        BY <1>13 DEF AssignCodec
    <2>2. UNCHANGED <<live, lent, spoiled, posted, queued>> /\ Usable' = Usable
        BY <2>1 DEF running, Usable
    <2>3. activity = "has" => Covered(posted, avail, cb, Usable)
        BY <2>1
    <2> QED
        BY <2>1, <2>2, <2>3
<1>7. ASSUME NEW t \in Threads, TryFeed(t) PROVE Intact' /\ Whole'
    <2>1. /\ pc[t] = "feed" /\ (pc' = pc \/ pc' = [pc EXCEPT ![t] = "open"])
          /\ UNCHANGED <<activity, codec, live, posted, cb>>
        BY <1>7 DEF TryFeed
    <2>a. \A s \in Threads : pc'[s] # "assign"
        BY <2>1 DEF Serial
    <2>2. CASE ~(pending # <<>> /\ avail # <<>>)
        <3>1. UNCHANGED <<avail, lent, spoiled, queued>>
            BY <1>7, <2>2 DEF TryFeed
        <3> QED
            BY <2>1, <2>a, <3>1 DEF Usable, Active
    <2>3. CASE pending # <<>> /\ avail # <<>>
        <3>1. /\ Head(pending) \in Frame /\ Head(avail) \in Buffer /\ Head(avail) = avail[1]
              /\ 1 \in 1 .. Len(avail)
            BY <2>3, HeadTailProperties, EmptySeq
        <3>2. avail' = Tail(avail) /\ Feed(Head(avail), Head(pending))
            BY <1>7, <2>3 DEF TryFeed
        <3>3. CASE live = 0
            BY <2>1, <2>a, <3>3 DEF Active
        <3>4. CASE live # 0 /\ ~Active
            <4>1. UNCHANGED <<lent, queued, spoiled>>
                BY <3>2, <3>4 DEF Feed
            <4>2. PICK e \in QueueItem : e.index = Head(avail).index
                BY <3>1, <3>2, FeedBuffers
            <4>3. Sound(posted, Tail(avail), cb, Usable, queued)
                BY <2>3, <3>4, <4>2, FedFromAvail
            <4> QED
                BY <2>1, <2>a, <3>2, <3>4, <4>1, <4>3 DEF Usable, Active
        <3>5. CASE Active
            <4>1. live # 0 /\ Sound(posted, avail, cb, Usable, queued)
                BY <3>5 DEF Active
            <4>2. Head(avail).index \in Usable
                BY <3>1, <4>1 DEF Sound
            <4>3. \A i \in 1 .. Len(queued) : queued[i].index \notin Usable
                BY <4>1 DEF Sound
            <4>4. /\ \E e \in QueueItem :
                        /\ e.index = Head(avail).index
                        /\ Usable' = Usable \ {e.index}
                        /\ queued' = queued \/ queued' = Append(queued, e)
                  /\ spoiled' \subseteq lent'
                  /\ \A i \in 1 .. Len(queued') : queued'[i].index \notin spoiled'
                BY <3>1, <3>2, <3>5, <4>1, <4>2, <4>3, FeedUses
            <4>5. PICK e \in QueueItem :
                     /\ e.index = Head(avail).index
                     /\ Usable' = Usable \ {e.index}
                     /\ queued' = queued \/ queued' = Append(queued, e)
                BY <4>4
            <4>b. /\ Sound(posted, Tail(avail), cb, Usable \ {e.index}, Append(queued, e))
                  /\ Sound(posted, Tail(avail), cb, Usable \ {e.index}, queued)
                BY <2>3, <4>1, <4>5, FedFromAvail
            <4>6. Sound(posted, avail', cb, Usable', queued')
                <5>1. CASE queued' = queued
                    BY <3>2, <4>5, <4>b, <5>1
                <5>2. CASE queued' = Append(queued, e)
                    BY <3>2, <4>5, <4>b, <5>2
                <5> QED
                    BY <4>5, <5>1, <5>2
            <4>7. activity = "has" => Covered(posted, avail, cb, Usable)
                BY <2>1, <3>5
            <4>8. activity = "has" => Covered(posted, avail', cb, Usable')
                BY <2>3, <3>2, <4>1, <4>5, <4>7, FedFromAvail
            <4> QED
                BY <2>1, <4>4, <4>6, <4>8
        <3> QED
            BY <3>3, <3>4, <3>5
    <2> QED
        BY <2>2, <2>3
<1>8. CASE Release
    <2>1. activity' # "has" /\ UNCHANGED <<avail, cb>>
        BY <1>8 DEF Release, StopInRelease, FreeInRelease, QuitInRelease
    <2>2. Ends \/ UNCHANGED running
        BY <1>8 DEF Release, StopInRelease, FreeInRelease, QuitInRelease
    <2>3. UNCHANGED running \/ live' = 0
        BY <2>2, Stopped
    <2>4. CASE UNCHANGED running
        BY <2>1, <2>4 DEF running, Usable
    <2>5. CASE live' = 0
        BY <2>1, <2>5
    <2> QED
        BY <2>3, <2>4, <2>5
<1>9. CASE Forget \/ UNCHANGED vars
    <2>1. CASE Forget
        <3>1. /\ activity' # "has"
              /\ UNCHANGED <<live, posted, lent, queued, spoiled, avail, cb>>
            BY <2>1 DEF Forget, running
        <3> QED
            BY <3>1 DEF Usable
    <2> QED
        BY <1>2, <1>9, <2>1 DEF vars
<1>10. CASE CallbackBegins
    <2>1. PICK i \in posted : cb' = <<[of |-> live, index |-> i]>> /\ posted' = posted \ {i}
        BY <1>10 DEF CallbackBegins
    <2> DEFINE b == [of |-> live, index |-> i]
    <2>2. b \in Buffer /\ b.index = i
        BY DEF Buffer
    <2>3. cb = <<>> /\ UNCHANGED <<pc, activity, codec, live, lent, spoiled, queued, avail>>
        BY <1>10 DEF CallbackBegins
    <2> HIDE DEF b
    <2>4. cb' = <<b>> /\ posted' = posted \ {b.index}
        BY <2>1, <2>2 DEF b
    <2>5. Usable' = Usable /\ (Active' <=> Active)
        BY <2>3 DEF Usable, Active
    <2>6. live # 0
        BY <2>1 DEF Instance
    <2>7. Sound(posted, avail, <<>>, Usable, queued)
        BY <2>3, <2>6
    <2>8. b.index \in posted
        BY <2>2
    <2>9. /\ Sound(posted \ {b.index}, avail, <<b>>, Usable, queued)
          /\ Covered(posted, avail, <<>>, Usable)
               => Covered(posted \ {b.index}, avail, <<b>>, Usable)
        BY <2>2, <2>7, <2>8, Begun
    <2>a. Intact'
        BY <2>3, <2>4, <2>5, <2>6, <2>9
    <2> QED
        BY <2>3, <2>4, <2>5, <2>9, <2>a
<1>11. CASE OnInputBufferAvailable
    <2>1. cb # <<>> /\ cb' = <<>> /\ UNCHANGED <<pc, activity, codec, live, posted>>
        BY <1>11 DEF OnInputBufferAvailable
    <2>2. CASE live = 0
        <3>1. \A s \in Threads : pc[s] # "assign"
            BY <2>2 DEF Instance
        <3> QED
            BY <2>1, <2>2, <3>1 DEF Active
    <2>3. CASE live # 0
        <3>1. Len(cb) = 1 /\ cb[1] \in Buffer
            <4>1. Len(cb) <= 1
                BY <2>3 DEF Sound
            <4> QED
                BY <2>1, <4>1, JustOne
        <3>2. CASE pending = <<>>
            <4>1. avail' = Append(avail, cb[1]) /\ UNCHANGED <<lent, queued, spoiled>>
                BY <1>11, <3>2 DEF OnInputBufferAvailable
            <4>2. Usable' = Usable /\ (Active' <=> Active)
                BY <2>1, <4>1 DEF Usable, Active
            <4>3. Sound(posted, avail', <<>>, Usable, queued)
                BY <2>3, <3>1, <4>1, Kept
            <4>4. Covered(posted, avail, cb, Usable) => Covered(posted, avail', <<>>, Usable)
                BY <2>3, <3>1, <4>1, Kept
            <4> QED
                BY <2>1, <2>3, <4>1, <4>2, <4>3, <4>4
        <3>3. CASE pending # <<>>
            <4>1. Head(pending) \in Frame
                BY <3>3, HeadTailProperties
            <4>2. avail' = avail /\ Feed(cb[1], Head(pending))
                BY <1>11, <3>3 DEF OnInputBufferAvailable
            <4>3. \A s \in Threads : pc[s] # "assign"
                BY <3>3 DEF Rest, Serial
            <4>4. CASE ~Active
                <5>1. UNCHANGED <<lent, queued, spoiled>>
                    BY <4>2, <4>4 DEF Feed
                <5>2. PICK e \in QueueItem : e.index = cb[1].index
                    BY <3>1, <4>1, <4>2, FeedBuffers
                <5>3. Sound(posted, avail, <<>>, Usable, queued)
                    BY <2>3, <3>1, <5>2, FedFromCallback
                <5> QED
                    BY <2>1, <2>3, <4>2, <4>3, <4>4, <5>1, <5>3 DEF Usable, Active
            <4>5. CASE Active
                <5>1. Sound(posted, avail, cb, Usable, queued)
                    BY <2>3
                <5>2. cb[1].index \in Usable
                    BY <3>1, <5>1 DEF Sound
                <5>3. \A i \in 1 .. Len(queued) : queued[i].index \notin Usable
                    BY <5>1 DEF Sound
                <5>4. /\ \E e \in QueueItem :
                            /\ e.index = cb[1].index
                            /\ Usable' = Usable \ {e.index}
                            /\ queued' = queued \/ queued' = Append(queued, e)
                      /\ spoiled' \subseteq lent'
                      /\ \A i \in 1 .. Len(queued') : queued'[i].index \notin spoiled'
                    BY <2>3, <3>1, <4>1, <4>2, <4>5, <5>2, <5>3, FeedUses
                <5>5. PICK e \in QueueItem :
                         /\ e.index = cb[1].index
                         /\ Usable' = Usable \ {e.index}
                         /\ queued' = queued \/ queued' = Append(queued, e)
                    BY <5>4
                <5>a. /\ Sound(posted, avail, <<>>, Usable \ {e.index}, Append(queued, e))
                      /\ Sound(posted, avail, <<>>, Usable \ {e.index}, queued)
                    BY <3>1, <5>1, <5>5, FedFromCallback
                <5>6. Sound(posted, avail, <<>>, Usable', queued')
                    <6>1. CASE queued' = queued
                        BY <5>5, <5>a, <6>1
                    <6>2. CASE queued' = Append(queued, e)
                        BY <5>5, <5>a, <6>2
                    <6> QED
                        BY <5>5, <6>1, <6>2
                <5>7. Covered(posted, avail, cb, Usable)
                        => Covered(posted, avail, <<>>, Usable')
                    BY <3>1, <5>1, <5>5, FedFromCallback
                <5> QED
                    BY <2>1, <4>2, <4>3, <4>5, <5>4, <5>6, <5>7 DEF Active
            <4> QED
                BY <4>4, <4>5
        <3> QED
            BY <3>2, <3>3
    <2> QED
        BY <2>2, <2>3
<1>12. CASE Decode
    <2> DEFINE k == Head(queued).index
    <2>1. /\ queued # <<>> /\ queued' = Tail(queued)
          /\ posted' = posted \cup {k} /\ lent' = lent \cup {k}
          /\ UNCHANGED <<pc, activity, codec, live, spoiled, avail, cb>>
        BY <1>12 DEF Decode
    <2>2. live # 0
        BY <2>1 DEF Instance
    <2>3. /\ Head(queued) = queued[1] /\ Len(queued) \in Nat \ {0}
          /\ Len(Tail(queued)) = Len(queued) - 1
          /\ \A i \in 1 .. Len(queued) - 1 : Tail(queued)[i] = queued[i + 1]
        BY <2>1, HeadTailProperties, EmptySeq
    <2>4. k \notin spoiled
        BY <2>2, <2>3
    <2>5. Usable' = Usable \cup {k}
        BY <2>1, <2>4 DEF Usable
    <2>6. \A i \in 1 .. Len(queued') : queued'[i].index \notin spoiled'
        <3> SUFFICES ASSUME NEW i \in 1 .. Len(queued) - 1
                     PROVE  Tail(queued)[i].index \notin spoiled
            BY <2>1, <2>3
        <3>1. Tail(queued)[i] = queued[i + 1] /\ i + 1 \in 1 .. Len(queued)
            BY <2>3
        <3> QED
            BY <2>2, <3>1
    <2>7. Sound(posted \cup {k}, avail, cb, Usable \cup {k}, Tail(queued))
        BY <2>1, <2>2, LentAgain
    <2>8. Covered(posted, avail, cb, Usable)
            => Covered(posted \cup {k}, avail, cb, Usable \cup {k})
        BY <2>1, <2>2, LentAgain
    <2>9. Intact'
        BY <2>1, <2>2, <2>5, <2>6, <2>7
    <2> HIDE DEF k
    <2> QED
        BY <2>1, <2>5, <2>8, <2>9 DEF Active
<1> QED
    BY <1>3, <1>4, <1>5, <1>6, <1>7, <1>8, <1>9, <1>10, <1>11, <1>12, <1>13
    DEF Next, Media, Configure, OnVideoFrame, Reset
-----------------------------------------------------------------------------
(* The frames on their way to the codec: pendingFrames (p) behind the last *)
(* frame the codec was given (g).                                          *)

\* Each can be decoded right after the one before it.
Chained(p, g) ==
    /\ p # <<>> => Follows(g, p[1])
    /\ \A i \in 1 .. Len(p) - 1 : Follows(<<p[i]>>, p[i + 1])

\* The newest of them is frame n of connection c.
EndsWith(p, g, c, n) ==
    /\ p # <<>> => p[Len(p)].conn = c /\ p[Len(p)].n = n
    /\ p = <<>> => g # <<>> /\ g[1].conn = c /\ g[1].n = n

\* A frame is appended that can be decoded after the newest one.
LEMMA Linked ==
    ASSUME NEW p \in Seq(Frame), NEW g \in Seq(Frame), NEW f \in Frame,
           Chained(p, g),
           (f.idr /\ p = <<>>) \/ EndsWith(p, g, f.conn, f.n - 1)
    PROVE  Chained(Append(p, f), g) /\ EndsWith(Append(p, f), g, f.conn, f.n)
<1> DEFINE q == Append(p, f)
<1>1. /\ Len(q) = Len(p) + 1 /\ q[Len(p) + 1] = f /\ q # <<>>
      /\ \A i \in 1 .. Len(p) : q[i] = p[i]
    BY AppendProperties
<1>2. Len(p) \in Nat /\ (p = <<>> <=> Len(p) = 0) /\ f.n \in Int
    BY EmptySeq DEF Frame
<1> HIDE DEF q
<1>3. EndsWith(q, g, f.conn, f.n)
    BY <1>1, <1>2 DEF EndsWith
<1>4. CASE p = <<>>
    <2>1. Follows(g, q[1])
        BY <1>1, <1>2, <1>4 DEF EndsWith, Follows
    <2> QED
        BY <1>1, <1>2, <1>3, <1>4, <2>1 DEF Chained, q
<1>5. CASE p # <<>>
    <2>1. p[Len(p)].conn = f.conn /\ p[Len(p)].n = f.n - 1
        BY <1>5 DEF EndsWith
    <2>2. Follows(<<p[Len(p)]>>, f)
        BY <1>2, <2>1 DEF Follows
    <2>3. Follows(g, q[1])
        BY <1>1, <1>2, <1>5 DEF Chained
    <2>4. ASSUME NEW i \in 1 .. Len(q) - 1 PROVE Follows(<<q[i]>>, q[i + 1])
        <3>1. i \in 1 .. Len(p)
            BY <1>1, <1>2
        <3>2. CASE i = Len(p)
            BY <1>1, <1>2, <2>2, <3>1, <3>2
        <3>3. CASE i # Len(p)
            <4>1. i \in 1 .. Len(p) - 1 /\ i + 1 \in 1 .. Len(p)
                BY <1>2, <3>1, <3>3
            <4> QED
                BY <1>1, <4>1 DEF Chained
        <3> QED
            BY <3>2, <3>3
    <2> QED
        BY <1>3, <2>3, <2>4 DEF Chained, q
<1> QED
    BY <1>4, <1>5

\* The first frame is given to the codec.
LEMMA Given ==
    ASSUME NEW p \in Seq(Frame), NEW g, p # <<>>, Chained(p, g)
    PROVE  /\ Chained(Tail(p), <<Head(p)>>) /\ Follows(g, Head(p))
           /\ \A c, n : EndsWith(p, g, c, n) => EndsWith(Tail(p), <<Head(p)>>, c, n)
<1> DEFINE q == Tail(p)
           h == <<Head(p)>>
<1>1. /\ Head(p) = p[1] /\ Len(p) \in Nat \ {0} /\ q \in Seq(Frame) /\ Len(q) = Len(p) - 1
      /\ \A i \in 1 .. Len(p) - 1 : q[i] = p[i + 1]
    BY HeadTailProperties, EmptySeq
<1>2. h = <<p[1]>> /\ h # <<>> /\ h[1] = p[1]
    BY <1>1
<1>3. q = <<>> <=> Len(q) = 0
    BY <1>1, EmptySeq
<1> HIDE DEF q, h
<1>4. Follows(g, Head(p))
    BY <1>1 DEF Chained
<1>5. q # <<>> => Follows(h, q[1])
    <2> SUFFICES ASSUME q # <<>> PROVE Follows(h, q[1])
        OBVIOUS
    <2>1. Len(q) # 0 /\ 1 \in 1 .. Len(p) - 1
        BY <1>1, <1>3
    <2> QED
        BY <1>1, <1>2, <2>1 DEF Chained
<1>6. ASSUME NEW i \in 1 .. Len(q) - 1 PROVE Follows(<<q[i]>>, q[i + 1])
    <2>1. i + 1 \in 1 .. Len(p) - 1 /\ i \in 1 .. Len(p) - 1
        BY <1>1
    <2>2. q[i] = p[i + 1] /\ q[i + 1] = p[(i + 1) + 1]
        BY <1>1, <2>1
    <2> QED
        BY <2>1, <2>2 DEF Chained
<1>7. ASSUME NEW c, NEW n, EndsWith(p, g, c, n) PROVE EndsWith(q, h, c, n)
    <2>1. p[Len(p)].conn = c /\ p[Len(p)].n = n
        BY <1>7 DEF EndsWith
    <2>2. CASE q = <<>>
        <3>1. Len(p) = 1
            BY <1>1, <1>3, <2>2
        <3> QED
            BY <1>2, <2>1, <2>2, <3>1 DEF EndsWith
    <2>3. CASE q # <<>>
        <3>1. Len(q) \in 1 .. Len(p) - 1 /\ Len(q) + 1 = Len(p)
            BY <1>1, <1>3, <2>3
        <3>2. q[Len(q)] = p[Len(p)]
            BY <1>1, <3>1
        <3> QED
            BY <2>1, <2>3, <3>2 DEF EndsWith
    <2> QED
        BY <2>2, <2>3
<1> QED
    BY <1>4, <1>5, <1>6, <1>7 DEF Chained, q, h

\* The frames on their way, while there is a codec.
Joined == Active => Chained(pending, handed)

\* What a thread brings next can be decoded after what is there, unless the
\* decoder drops it.
Next1(t) ==
    /\ pc[t] \in {"open", "feed"} /\ ~waiting /\ ~dropping
         => EndsWith(pending, handed, conn[t], got[t])
    /\ pc[t] = "frame" =>
         /\ arg[t][1].conn = conn[t] /\ arg[t][1].n = got[t]
         /\ waiting => arg[t][1].idr
         /\ ~waiting /\ ~dropping /\ ~arg[t][1].idr
              => EndsWith(pending, handed, conn[t], got[t] - 1)

Contiguous == Active => \A t \in Threads : Next1(t)

\* Whoever feeds a frame while there is a codec has a buffer for it.
LEMMA FeedSucceeds ==
    ASSUME Typed, Instance, Intact, Active, NEW f \in Frame, NEW b \in Buffer,
           Feed(b, f),
           \/ Len(cb) = 1 /\ b = cb[1]
           \/ \E i \in 1 .. Len(avail) : b = avail[i]
    PROVE  handed' = <<f>>
<1>1. live # 0
    BY DEF Active
<1>2. b.index \in lent
    BY <1>1 DEF Intact, Sound, Usable
<1> QED
    BY <1>2, FeedBuffers

\* The frames are passed on from place to place in their order.
LEMMA PassedOn ==
    ASSUME Typed, Instance, Intact, Joined, Active, pending # <<>>,
           NEW b \in Buffer, Feed(b, Head(pending)), pending' = Tail(pending),
           \/ Len(cb) = 1 /\ b = cb[1]
           \/ \E i \in 1 .. Len(avail) : b = avail[i]
    PROVE  /\ handed' = <<Head(pending)>>
           /\ Chained(pending', handed')
           /\ Follows(handed, Head(pending))
           /\ \A c, n : EndsWith(pending, handed, c, n) => EndsWith(pending', handed', c, n)
<1>1. pending \in Seq(Frame) /\ Head(pending) \in Frame /\ Chained(pending, handed)
    BY HeadTailProperties DEF Typed, Joined
<1>2. handed' = <<Head(pending)>>
    BY <1>1, FeedSucceeds
<1> QED
    BY <1>1, <1>2, Given

\* The step of a thread that feeds.
LEMMA TryFeedStep ==
    ASSUME Typed, Instance, Intact, Joined, Active, NEW t \in Threads, TryFeed(t)
    PROVE  /\ Chained(pending', handed')
           /\ \A c, n : EndsWith(pending, handed, c, n) => EndsWith(pending', handed', c, n)
           /\ handed' # handed => Follows(handed, handed'[1])
<1>1. CASE pending # <<>> /\ avail # <<>>
    <2>1. Head(avail) \in Buffer /\ Head(avail) = avail[1] /\ 1 \in 1 .. Len(avail)
        BY <1>1, Rump, HeadTailProperties DEF Typed
    <2>2. Feed(Head(avail), Head(pending)) /\ pending' = Tail(pending)
        BY <1>1 DEF TryFeed
    <2>3. /\ handed' = <<Head(pending)>> /\ Chained(pending', handed')
          /\ Follows(handed, Head(pending))
          /\ \A c, n : EndsWith(pending, handed, c, n) => EndsWith(pending', handed', c, n)
        BY <1>1, <2>1, <2>2, PassedOn
    <2>4. handed'[1] = Head(pending)
        BY <2>3
    <2> QED
        BY <2>3, <2>4
<1>2. CASE ~(pending # <<>> /\ avail # <<>>)
    BY <1>2 DEF TryFeed, Joined
<1> QED
    BY <1>1, <1>2

\* The step of the callback thread.
LEMMA CallbackStep ==
    ASSUME Typed, Instance, Intact, Joined, Active, OnInputBufferAvailable
    PROVE  /\ Chained(pending', handed')
           /\ \A c, n : EndsWith(pending, handed, c, n) => EndsWith(pending', handed', c, n)
           /\ handed' # handed => Follows(handed, handed'[1])
<1>1. CASE pending # <<>>
    <2>1. cb \in Seq(Buffer) /\ cb # <<>> /\ Len(cb) <= 1
        BY DEF Active, Intact, Sound, Typed, OnInputBufferAvailable
    <2>2. Len(cb) = 1 /\ cb[1] \in Buffer
        BY <2>1, JustOne
    <2>3. Feed(cb[1], Head(pending)) /\ pending' = Tail(pending)
        BY <1>1 DEF OnInputBufferAvailable
    <2>4. /\ handed' = <<Head(pending)>> /\ Chained(pending', handed')
          /\ Follows(handed, Head(pending))
          /\ \A c, n : EndsWith(pending, handed, c, n) => EndsWith(pending', handed', c, n)
        BY <1>1, <2>2, <2>3, PassedOn
    <2>5. handed'[1] = Head(pending)
        BY <2>4
    <2> QED
        BY <2>4, <2>5
<1>2. CASE pending = <<>>
    BY <1>2 DEF OnInputBufferAvailable, Joined
<1> QED
    BY <1>1, <1>2

\* The frames a step may give to the codec (ReferenceIntegrity, as an action).
Fits == handed' # handed /\ handed' # <<>> => Follows(handed, handed'[1])

\* A thread that is in a call is alone, and a codec that is there is started.
LEMMA Alone ==
    ASSUME Serial, NEW t \in Threads, pc[t] # "closed"
    PROVE  \A s \in Threads : s # t => pc[s] = "closed"
BY DEF Serial

\* A thread with lock has a frame to put into the backlog.
LEMMA Brings ==
    ASSUME IInv, NEW t \in Threads, pc[t] = "frame"
    PROVE  arg[t][1] \in Frame
<1>1. arg[t] # <<>> /\ arg[t] \in Seq(Frame)
    BY DEF IInv, TypeOK, Called
<1>2. 1 \in 1 .. Len(arg[t])
    BY <1>1, EmptySeq
<1> QED
    BY <1>1, <1>2, ElementOfSeq

\* A frame that TakeIdr or TakeNext puts at the end of the backlog can be
\* decoded after the one before it (DecoderManager.kt:111-128).
LEMMA FrameLockedStep ==
    ASSUME IInv, Serial, Joined, Contiguous, Active, NEW t \in Threads, FrameLocked(t)
    PROVE  Chained(pending', handed') /\ Next1(t)'
<1> DEFINE f == arg[t][1]
<1>1. /\ pc[t] = "frame" /\ UNCHANGED <<codec, handed, conn, got>>
      /\ TakeIdr(t, f) \/ DropTillIdr(t, f) \/ TakeNext(t, f)
    BY DEF FrameLocked, media, running
<1>2. f \in Frame /\ handed \in Seq(Frame) /\ pending \in Seq(Frame)
    BY <1>1, Brings DEF IInv, TypeOK
<1>3. /\ f.conn = conn[t] /\ f.n = got[t] /\ (waiting => f.idr)
      /\ ~waiting /\ ~dropping /\ ~f.idr => EndsWith(pending, handed, conn[t], got[t] - 1)
      /\ Chained(pending, handed)
    BY <1>1 DEF Contiguous, Next1, Joined
<1>4. pc \in [Threads -> Pcs]
    BY DEF IInv, TypeOK, Pcs
<1> HIDE DEF f
<1>5. CASE TakeIdr(t, f)
    <2>1. f.idr /\ pending' = <<f>> /\ pc' = [pc EXCEPT ![t] = "feed"]
        BY <1>5 DEF TakeIdr, Goto
    <2>2. Chained(<<>>, handed) /\ <<>> \in Seq(Frame) /\ Append(<<>>, f) = <<f>>
        BY <1>2, Nothing DEF Chained
    <2>3. Chained(<<f>>, handed) /\ EndsWith(<<f>>, handed, f.conn, f.n)
        BY <1>2, <2>1, <2>2, Linked
    <2> QED
        BY <1>1, <1>3, <1>4, <2>1, <2>3 DEF Next1
<1>6. CASE DropTillIdr(t, f)
    BY <1>1, <1>3, <1>4, <1>6 DEF DropTillIdr, Goto, Next1
<1>7. CASE TakeNext(t, f)
    <2>1. /\ ~f.idr /\ ~dropping /\ pending' = Append(pending, f)
          /\ pc' = [pc EXCEPT ![t] = "feed"]
        BY <1>7 DEF TakeNext, Goto
    <2>2. EndsWith(pending, handed, f.conn, f.n - 1)
        BY <1>3, <2>1
    <2>3. Chained(pending', handed) /\ EndsWith(pending', handed, f.conn, f.n)
        BY <1>2, <1>3, <2>1, <2>2, Linked
    <2> QED
        BY <1>1, <1>3, <1>4, <2>1, <2>3 DEF Next1
<1> QED
    BY <1>1, <1>5, <1>6, <1>7

\* Frames reach the codec without a gap, and a thread's next frame follows
\* what is there or is dropped.
LEMMA NextFrames ==
    ASSUME Prompt, IInv, Rest, Serial, Serial', Instance, Intact, Joined, Contiguous,
           [Next]_vars
    PROVE  Joined' /\ Contiguous' /\ Fits
<1>1. Typed
    BY IInvTyped
<1> USE <1>1 DEF Typed, Pcs, queues, media, running, callers, Goto
<1>2. CASE UNCHANGED <<codec, live, pending, handed, waiting, dropping, pc, arg, conn, got>>
    BY <1>2 DEF Joined, Contiguous, Next1, Fits, Active
<1>3. CASE ~Active' /\ handed' = handed
    BY <1>3 DEF Joined, Contiguous, Fits
<1>4. ASSUME NEW t \in Threads, CallConfigure(t) PROVE Joined' /\ Contiguous' /\ Fits
    <2>1. /\ pc' = [pc EXCEPT ![t] = "release"]
          /\ \A s \in Threads : s # t => conn'[s] = conn[s] /\ got'[s] = got[s]
          /\ UNCHANGED <<codec, live, pending, handed, waiting, dropping, arg>>
        BY <1>4 DEF CallConfigure, IInv, TypeOK
    <2>2. \A s \in Threads : Next1(s) => Next1(s)'
        BY <2>1 DEF Next1
    <2> QED
        BY <2>1, <2>2 DEF Joined, Contiguous, Fits, Active
<1>5. ASSUME NEW t \in Threads, StopCodec(t) \/ FreeCodec(t) \/ DropCodec(t) \/ StartFails(t)
      PROVE  Joined' /\ Contiguous' /\ Fits
    <2>1. CASE DropCodec(t) \/ StartFails(t)
        BY <1>3, <2>1 DEF DropCodec, StartFails, Active
    <2>2. CASE StopCodec(t) \/ FreeCodec(t)
        <3>1. /\ pc[t] \in {"release", "free"} /\ (Ends \/ UNCHANGED running)
              /\ \E l \in {"free", "null"} : pc' = [pc EXCEPT ![t] = l]
              /\ UNCHANGED <<codec, pending, handed, waiting, dropping, arg, conn, got>>
            BY <2>2 DEF StopCodec, FreeCodec
        <3>2. CASE Ends
            <4>1. ~Active'
                BY <3>1, <3>2, Stopped DEF Active
            <4> QED
                BY <1>3, <3>1, <4>1
        <3>3. CASE UNCHANGED running
            <4>1. \A s \in Threads : Next1(s) => Next1(s)'
                BY <3>1 DEF Next1
            <4> QED
                BY <3>1, <3>3, <4>1 DEF Joined, Contiguous, Fits, Active
        <3> QED
            BY <3>1, <3>2, <3>3
    <2> QED
        BY <1>5, <2>1, <2>2
<1>6. ASSUME NEW t \in Threads, ClearInConfigure(t) \/ ResetLocked(t)
      PROVE  Joined' /\ Contiguous' /\ Fits
    <2>1. /\ pc[t] \in {"clear", "reset"} /\ pending' = <<>>
          /\ \E l \in {"arm", "closed"} : pc' = [pc EXCEPT ![t] = l]
          /\ UNCHANGED <<codec, handed>>
        BY <1>6 DEF ClearInConfigure, ResetLocked, ClearQueues
    <2>2. \A s \in Threads : pc'[s] \in {"closed", "arm"}
        BY <2>1, Alone
    <2>3. Chained(pending', handed')
        BY <2>1, Nothing DEF Chained
    <2> QED
        BY <2>1, <2>2, <2>3 DEF Joined, Contiguous, Next1, Fits
<1>7. ASSUME NEW t \in Threads, Arm(t) PROVE Joined' /\ Contiguous' /\ Fits
    <2>1. /\ pc[t] = "arm" /\ UNCHANGED <<codec, handed>>
        BY <1>7 DEF Arm
    <2>2. codec = 0
        BY <2>1 DEF Instance
    <2> QED
        BY <1>3, <2>1, <2>2 DEF Active
<1>8. ASSUME NEW t \in Threads, StartCodec(t) PROVE Joined' /\ Contiguous' /\ Fits
    <2>1. pc[t] = "start" /\ codec' = codec /\ handed' = <<>>
        BY <1>8 DEF StartCodec
    <2>2. codec = 0
        BY <2>1 DEF Instance
    <2> QED
        BY <2>1, <2>2 DEF Joined, Contiguous, Fits, Active
<1>9. ASSUME NEW t \in Threads, AssignCodec(t) PROVE Joined' /\ Contiguous' /\ Fits
    <2>1. /\ pc[t] = "assign" /\ pc' = [pc EXCEPT ![t] = "open"]
          /\ UNCHANGED <<pending, handed, waiting>>
        BY <1>9 DEF AssignCodec
    <2>2. \A s \in Threads : s # t => pc[s] = "closed"
        BY <2>1, Alone
    <2>3. waiting /\ pending = <<>>
        BY <2>1, <2>2 DEF Rest, Serving
    <2>4. Chained(pending', handed')
        BY <2>1, <2>3, Nothing DEF Chained
    <2> QED
        BY <2>1, <2>2, <2>3, <2>4 DEF Joined, Contiguous, Next1, Fits
<1>10. ASSUME NEW t \in Threads, NEW idr \in BOOLEAN, CallFrame(t, idr)
       PROVE  Joined' /\ Contiguous' /\ Fits
    <2>1. /\ pc[t] = "open" /\ got' = [got EXCEPT ![t] = got[t] + 1]
          /\ UNCHANGED <<codec, live, pending, handed, waiting, dropping, conn>>
        BY <1>10 DEF CallFrame
    <2>2. \A s \in Threads : s # t => pc[s] = "closed"
        BY <2>1, Alone
    <2>3. got \in [Threads -> 0 .. MaxFrames] /\ arg \in [Threads -> Seq(Frame)]
        BY DEF IInv, TypeOK
    <2>4. got'[t] = got[t] + 1 /\ got[t] \in Int /\ (got[t] + 1) - 1 = got[t]
        BY <2>1, <2>3
    <2>5. CASE ~Active
        BY <1>3, <2>1, <2>5 DEF Active
    <2>6. CASE Active /\ waiting /\ ~idr
        <3>1. UNCHANGED <<pc, arg>>
            BY <1>10, <2>6 DEF CallFrame, Active
        <3> QED
            BY <2>1, <2>2, <2>6, <3>1 DEF Joined, Contiguous, Next1, Fits, Active
    <2>7. CASE Active /\ ~(waiting /\ ~idr)
        <3> DEFINE f == [conn |-> conn[t], n |-> got[t] + 1, idr |-> idr]
        <3>1. /\ pc' = [pc EXCEPT ![t] = "frame"] /\ arg' = [arg EXCEPT ![t] = <<f>>]
            BY <1>10, <2>7 DEF CallFrame, Active
        <3>2. /\ arg'[t][1].conn = conn[t] /\ arg'[t][1].n = got[t] + 1
              /\ arg'[t][1].idr = idr
            BY <2>3, <3>1
        <3> HIDE DEF f
        <3>3. ~waiting /\ ~dropping => EndsWith(pending, handed, conn[t], got[t])
            BY <2>1, <2>7 DEF Contiguous, Next1
        <3>4. Next1(t)'
            BY <2>1, <2>4, <2>7, <3>1, <3>2, <3>3 DEF Next1
        <3>5. \A s \in Threads : s # t => Next1(s)'
            BY <2>2, <3>1 DEF Next1
        <3> QED
            BY <2>1, <2>7, <3>4, <3>5 DEF Joined, Contiguous, Fits, Active
    <2> QED
        BY <2>5, <2>6, <2>7
<1>11. ASSUME NEW t \in Threads, FrameLocked(t) PROVE Joined' /\ Contiguous' /\ Fits
    <2>1. /\ pc[t] = "frame" /\ \E l \in {"feed", "open"} : pc' = [pc EXCEPT ![t] = l]
          /\ UNCHANGED <<codec, live, handed>>
        BY <1>11 DEF FrameLocked, TakeIdr, DropTillIdr, TakeNext
    <2>2. CASE ~Active
        BY <1>3, <2>1, <2>2 DEF Active
    <2>3. CASE Active
        <3>1. Chained(pending', handed') /\ Next1(t)'
            BY <1>11, <2>3, FrameLockedStep
        <3>2. \A s \in Threads : s # t => pc'[s] = "closed"
            BY <2>1, Alone
        <3> QED
            BY <2>1, <3>1, <3>2 DEF Joined, Contiguous, Next1, Fits, Active
    <2> QED
        BY <2>2, <2>3
<1>12. ASSUME NEW t \in Threads, TryFeed(t) PROVE Joined' /\ Contiguous' /\ Fits
    <2>1. /\ pc[t] = "feed" /\ (pc' = pc \/ pc' = [pc EXCEPT ![t] = "open"])
          /\ UNCHANGED <<codec, live, waiting, dropping, conn, got>>
          /\ ~Active => handed' = handed
        BY <1>12 DEF TryFeed, Feed
    <2>2. CASE ~Active
        BY <1>3, <2>1, <2>2 DEF Active
    <2>3. CASE Active
        <3>1. /\ Chained(pending', handed')
              /\ \A c, n : EndsWith(pending, handed, c, n) => EndsWith(pending', handed', c, n)
              /\ handed' # handed => Follows(handed, handed'[1])
            BY <1>12, <2>3, TryFeedStep
        <3>2. \A s \in Threads : s # t => pc'[s] = "closed"
            BY <2>1, Alone
        <3>3. ~waiting /\ ~dropping => EndsWith(pending, handed, conn[t], got[t])
            BY <2>1, <2>3 DEF Contiguous, Next1
        <3>4. pc'[t] \in {"feed", "open"}
            BY <2>1
        <3>5. Next1(t)'
            BY <2>1, <3>1, <3>3, <3>4 DEF Next1
        <3> QED
            BY <2>1, <3>1, <3>2, <3>5 DEF Joined, Contiguous, Next1, Fits, Active
    <2> QED
        BY <2>2, <2>3
<1>13. ASSUME NEW t \in Threads, CallReset(t) PROVE Joined' /\ Contiguous' /\ Fits
    <2>1. /\ pc' = [pc EXCEPT ![t] = "reset"] /\ UNCHANGED <<codec, live, pending, handed>>
        BY <1>13 DEF CallReset
    <2>2. \A s \in Threads : pc'[s] \in {"closed", "reset"}
        BY <2>1 DEF Serial
    <2> QED
        BY <2>1, <2>2 DEF Joined, Contiguous, Next1, Fits, Active
<1>14. CASE OnInputBufferAvailable
    <2>1. /\ UNCHANGED <<codec, live, waiting, dropping, pc, arg, conn, got>>
          /\ ~Active => handed' = handed
        BY <1>14 DEF OnInputBufferAvailable, Feed
    <2>2. CASE ~Active
        BY <1>3, <2>1, <2>2 DEF Active
    <2>3. CASE Active
        <3>1. /\ Chained(pending', handed')
              /\ \A c, n : EndsWith(pending, handed, c, n) => EndsWith(pending', handed', c, n)
              /\ handed' # handed => Follows(handed, handed'[1])
            BY <1>14, <2>3, CallbackStep
        <3>2. \A t \in Threads : Next1(t) => Next1(t)'
            BY <2>1, <3>1 DEF Next1
        <3> QED
            BY <2>1, <3>1, <3>2 DEF Joined, Contiguous, Fits, Active
    <2> QED
        BY <2>2, <2>3
<1>15. CASE Release
    <2>1. UNCHANGED <<pending, handed, waiting, dropping, pc, arg, conn, got>>
        BY <1>15 DEF Release, StopInRelease, FreeInRelease, QuitInRelease
    <2>2. CASE Ends /\ codec' = codec
        <3>1. ~Active'
            BY <2>2, Stopped DEF Active
        <3> QED
            BY <1>3, <2>1, <3>1
    <2>3. CASE UNCHANGED running /\ codec' = codec
        BY <1>2, <2>1, <2>3
    <2>4. CASE codec' = 0
        BY <1>3, <2>1, <2>4 DEF Active
    <2> QED
        BY <1>15, <2>2, <2>3, <2>4 DEF Release, StopInRelease, FreeInRelease, QuitInRelease
<1>16. CASE CallbackBegins \/ Decode \/ Forget \/ UNCHANGED vars
    BY <1>2, <1>16 DEF CallbackBegins, Decode, Forget, vars
<1> QED
    BY <1>4, <1>5, <1>6, <1>7, <1>8, <1>9, <1>10, <1>11, <1>12, <1>13, <1>14, <1>15, <1>16
    DEF Next, Media, Configure, OnVideoFrame, Reset

\* What holds while no two calls overlap.
Serialized == IInv /\ Rest /\ Instance /\ Intact /\ Whole /\ Joined /\ Contiguous

LEMMA InitSerialized == Init => Serialized
<1> SUFFICES ASSUME Init PROVE Serialized
    OBVIOUS
<1>1. IInv /\ Rest
    BY InitIInv, InitRest
<1>2. Instance /\ Intact /\ Whole /\ Joined /\ Contiguous
    BY DEF Init, Instance, Intact, Whole, Joined, Contiguous, Active
<1> QED
    BY <1>1, <1>2 DEF Serialized

LEMMA NextSerialized ==
    ASSUME Prompt, Serialized, Serial, Serial', [Next]_vars
    PROVE  Serialized' /\ Fits
<1>1. IInv' /\ Rest'
    BY NextIInv, NextRest DEF Serialized
<1>2. Instance'
    BY NextInstance DEF Serialized
<1>3. Intact' /\ Whole'
    BY NextBuffers DEF Serialized
<1>4. Joined' /\ Contiguous' /\ Fits
    BY NextFrames DEF Serialized
<1> QED
    BY <1>1, <1>2, <1>3, <1>4 DEF Serialized

\* Where no two calls of the listener overlap and a callback is over before
\* configure clears the queues, the invariant holds.
THEOREM SerialInvariance ==
    ASSUME Prompt PROVE Spec /\ []Serial => []Serialized
BY InitSerialized, NextSerialized, PTL DEF Spec

\* Then no buffer is lost but those for which feed throws, at any point of any
\* sequence of connections, frames and callbacks (DecoderManager.kt:132-163).
THEOREM BuffersKept ==
    ASSUME Prompt PROVE Spec /\ []Serial => []NoBufferLost
<1>1. Serialized => NoBufferLost
    <2> SUFFICES ASSUME Serialized, NEW t \in Threads, pc[t] \in Serving, Active,
                        activity = "has"
                 PROVE  lent = posted \cup {avail[i].index : i \in 1 .. Len(avail)}
                                      \cup {cb[i].index : i \in 1 .. Len(cb)} \cup spoiled
        BY DEF NoBufferLost, Serving
    <2>1. /\ Typed /\ spoiled \subseteq lent
          /\ Sound(posted, avail, cb, Usable, queued) /\ Covered(posted, avail, cb, Usable)
        BY IInvTyped DEF Serialized, Intact, Whole, Active
    <2>2. Len(cb) \in Nat /\ Len(cb) <= 1
        BY <2>1 DEF Sound, Typed
    <2>3. ASSUME NEW i \in 1 .. Len(cb) PROVE i = 1 /\ Len(cb) = 1
        <3>1. \A n \in Nat : n <= 1 /\ i \in 1 .. n => i = 1 /\ n = 1
            OBVIOUS
        <3> QED
            BY <2>2, <3>1
    <2>4. Len(cb) = 1 => 1 \in 1 .. Len(cb)
        OBVIOUS
    <2>5. Usable = posted \cup {avail[i].index : i \in 1 .. Len(avail)}
                          \cup {cb[i].index : i \in 1 .. Len(cb)}
        BY <2>1, <2>2, <2>3, <2>4 DEF Sound, Covered
    <2> QED
        BY <2>1, <2>5 DEF Usable
<1> QED
    BY SerialInvariance, <1>1, PTL

\* Then every frame that comes to feed is an IDR or comes right after the one
\* before it, however the frames of one connection meet the codec's callbacks
\* (DecoderManager.kt:104-163).  feed may lose it, and nobody is told.
THEOREM Decodable ==
    ASSUME Prompt PROVE Spec /\ []Serial => ReferenceIntegrity
<1>1. ASSUME Serialized, Serial, Serial', [Next]_vars
      PROVE  [handed' # handed /\ handed' # <<>> => Follows(handed, handed'[1])]_vars
    BY <1>1, NextSerialized DEF Fits
<1> QED
    BY SerialInvariance, <1>1, PTL DEF Spec, ReferenceIntegrity

\* The same for one session thread, as a phone has it whose sessions never
\* overlap: feed alone may lose a buffer, and what comes to it can be decoded.
THEOREM OneThread ==
    ASSUME Prompt, \A s, t \in Threads : s = t
    PROVE  Spec => []NoBufferLost /\ ReferenceIntegrity
<1>1. Serial
    BY DEF Serial
<1> QED
    BY BuffersKept, Decodable, <1>1, PTL
=============================================================================

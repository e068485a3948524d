---------------------------- MODULE SenderProofs ----------------------------
(***************************************************************************)
(* Theorems about module Sender, for every queue bound, backoff, sequence  *)
(* modulus and number of frames.  IInv is the inductive invariant; each of *)
(* its parts is there for one of the properties it implies.                *)
(***************************************************************************)
EXTENDS Sender, SequenceTheorems, WellFoundedInduction, TLAPS

-----------------------------------------------------------------------------
(* The inductive invariant.                                                *)

\* What the threads hold in their hands at each point of their loops.
Holding ==
    /\ pc = "video" => Len(hand) = 1
    /\ pc \notin {"video", "drop"} => hand = <<>>
    /\ pc # "record" => cleared = 0
    /\ Len(hand) <= 1
    /\ enq = "idle" => given = <<>> /\ trimmed = 0
    /\ enq = "push" => trimmed = 0
    /\ enq # "idle" => Len(given) = 1 /\ offered >= 1

\* Between trimming and pushing there is a free place, whatever the sender's
\* thread does meanwhile: it only takes frames out.
Room ==
    /\ enq = "idle" => Len(queue) <= MaxQueue
    /\ enq # "idle" => Len(queue) < MaxQueue

\* An IDR on its way into the queue finds it empty.
IdrFirst ==
    /\ IdrOnlyAtFront
    /\ enq # "idle" /\ given[1].idr => queue = <<>>

\* What the socket has seen when the thread is at each point.
Phase ==
    /\ pc \in {"sleep", "connect", "done"} => ~connected
    /\ pc \in {"clear", "record", "handshake"} => connected /\ out = Nothing
    /\ pc \in {"ask", "wait", "video", "beat", "drop"} => connected
    /\ pc \in {"ask", "wait", "video", "beat"} \/ (pc = "top" /\ connected) =>
         out # Nothing /\ out.whole /\ seq = (out.seq + 1) % SeqMod

IInv == TypeOK /\ Holding /\ Room /\ IdrFirst /\ Accounted /\ Phase

-----------------------------------------------------------------------------
(* Lemmas about the helpers.                                               *)

\* The backoff grows to its cap and no further.
LEMMA GrowType ==
    ASSUME NEW b \in 0 .. MaxBackoff
    PROVE  Grow(b) \in 0 .. MaxBackoff
BY SenderAssumption DEF Grow, Least

\* Dropping the first n frames of the queue.
LEMMA Rest ==
    ASSUME NEW q \in Seq(Frame), NEW n \in 0 .. Len(q)
    PROVE  /\ SubSeq(q, n + 1, Len(q)) \in Seq(Frame)
           /\ Len(SubSeq(q, n + 1, Len(q))) = Len(q) - n
           /\ \A i \in 1 .. Len(q) - n : SubSeq(q, n + 1, Len(q))[i] = q[n + i]
<1>1. n + 1 \in Int /\ Len(q) \in Int /\ \A i \in n + 1 .. Len(q) : q[i] \in Frame
  OBVIOUS
<1> QED
  BY <1>1, SubSeqProperties

\* A sequence of one frame, its length and that frame.
LEMMA OneFrame ==
    ASSUME NEW f \in Frame
    PROVE  <<f>> \in Seq(Frame) /\ Len(<<f>>) = 1 /\ <<f>>[1] = f
OBVIOUS

\* The empty sequence is a sequence of frames without elements.
LEMMA NoFrame == <<>> \in Seq(Frame) /\ Len(<<>>) = 0
BY EmptySeq

\* Enqueue discards no more frames than the queue holds.
LEMMA ExcessFits ==
    ASSUME TypeOK, NEW idr \in BOOLEAN
    PROVE  Excess(idr) \in 0 .. Len(queue)
BY SenderAssumption DEF TypeOK, Excess

-----------------------------------------------------------------------------
\* A sender that has just been started meets the invariant.
LEMMA InitIInv == Init => IInv
<1> SUFFICES ASSUME Init PROVE IInv
  OBVIOUS
<1> USE SenderAssumption DEF Init
<1>1. TypeOK
  <2>1. /\ connected \in BOOLEAN /\ alive \in BOOLEAN /\ healthy \in BOOLEAN
        /\ hbDue \in BOOLEAN /\ asked \in BOOLEAN /\ running \in BOOLEAN
        /\ caught \in BOOLEAN
        /\ out \in Message \cup {Nothing}
    OBVIOUS
  <2> QED
    BY <2>1 DEF TypeOK
<1>2. Holding
  BY NoFrame DEF Holding
<1>3. Room /\ IdrFirst /\ Accounted /\ Phase
  BY NoFrame DEF Room, IdrFirst, IdrOnlyAtFront, Accounted, Phase
<1> QED
  BY <1>1, <1>2, <1>3 DEF IInv

\* The invariant is inductive.
LEMMA NextIInv == IInv /\ [Next]_vars => IInv'
<1> SUFFICES ASSUME IInv, [Next]_vars PROVE IInv'
  OBVIOUS
<1> USE SenderAssumption DEF IInv
<1>1. ASSUME NEW idr \in BOOLEAN, EnqueueTrim(idr) PROVE IInv'
  <2> DEFINE f == [id |-> offered + 1, idr |-> idr]
             n == Excess(idr)
  <2>1. f \in Frame /\ offered' \in 0 .. MaxFrames /\ offered' = offered + 1
    BY <1>1 DEF EnqueueTrim, TypeOK, Frame
  <2>2. n \in 0 .. Len(queue)
    BY <1>1, ExcessFits
  <2>3. CASE n = 0
    <3>1. queue' = Append(queue, f) /\ UNCHANGED <<enq, given, trimmed>> /\ enq = "idle"
      BY <1>1, <2>3 DEF EnqueueTrim
    <3>2. Len(queue) < MaxQueue /\ (idr => queue = <<>>)
      BY <2>3, <3>1 DEF Excess, TypeOK, Room
    <3> QED
      BY <1>1, <2>1, <3>1, <3>2 DEF EnqueueTrim, TypeOK, Holding, Room, IdrFirst,
           IdrOnlyAtFront, Accounted, Phase, thread, socket, retry, session, totals,
           phone, main
  <2>4. CASE n # 0
    <3>1. /\ queue' = SubSeq(queue, n + 1, Len(queue))
          /\ enq' = "record" /\ given' = <<f>> /\ trimmed' = n /\ enq = "idle"
      BY <1>1, <2>4 DEF EnqueueTrim
    <3>2. /\ queue' \in Seq(Frame) /\ Len(queue') = Len(queue) - n
          /\ \A i \in 1 .. Len(queue) - n : queue'[i] = queue[n + i]
      BY <2>2, <3>1, Rest DEF TypeOK
    <3>3. Len(queue') < MaxQueue /\ (idr => queue' = <<>>)
      <4>1. CASE idr
        BY <2>2, <3>1, <3>2, <4>1, EmptySeq DEF Excess, TypeOK
      <4>2. CASE ~idr
        BY <2>4, <3>1, <3>2, <4>2 DEF Excess, TypeOK, Room
      <4> QED BY <4>1, <4>2
    <3>4. TypeOK'
      BY <1>1, <2>1, <2>2, <3>1, <3>2, <3>3 DEF EnqueueTrim, TypeOK, Holding,
           thread, socket, retry, session, totals, phone, main
    <3>5. Holding'
      BY <1>1, <2>1, <2>2, <3>1, <3>2, <3>3 DEF EnqueueTrim, TypeOK, Holding,
           thread, socket, retry, session, totals, phone, main
    <3>6. Room'
      BY <1>1, <2>1, <2>2, <3>1, <3>2, <3>3 DEF EnqueueTrim, TypeOK, Room, Holding,
           thread, socket, retry, session, totals, phone, main
    <3>7. IdrFirst'
      BY <1>1, <2>1, <2>2, <3>1, <3>2, <3>3 DEF EnqueueTrim, TypeOK, Holding,
           IdrFirst, IdrOnlyAtFront, thread, socket, retry, session, totals, phone,
           main
    <3>8. Accounted'
      <4>1. Len(given) = 0 /\ Len(given') = 1 /\ trimmed = 0 /\ trimmed' = n
        BY <2>1, <3>1, OneFrame, NoFrame DEF Holding
      <4>2. Len(queue') = Len(queue) - n /\ offered' = offered + 1
        BY <2>1, <3>2
      <4>3. UNCHANGED <<thread, totals>>
        BY <1>1 DEF EnqueueTrim
      <4> HIDE DEF n, f
      <4> QED
        BY <2>2, <4>1, <4>2, <4>3 DEF TypeOK, Accounted, thread, totals
    <3>9. Phase'
      BY <1>1, <2>1, <2>2, <3>1, <3>2, <3>3 DEF EnqueueTrim, TypeOK, Phase,
           Holding, thread, socket, retry, session, totals, phone, main
    <3> QED
      BY <3>4, <3>5, <3>6, <3>7, <3>8, <3>9
  <2> QED BY <2>3, <2>4
<1>2. CASE EnqueueRecord
  BY <1>2 DEF EnqueueRecord, TypeOK, Holding, Room, IdrFirst, IdrOnlyAtFront,
       Accounted, Phase, thread, socket, retry, session, phone, main
<1>3. CASE EnqueuePush
  <2>0. given \in Seq(Frame) /\ Len(given) = 1 /\ given[1] \in Frame /\ given' = <<>>
    <3>1. given \in Seq(Frame) /\ Len(given) = 1 /\ given' = <<>>
      BY <1>3 DEF EnqueuePush, TypeOK, Holding
    <3> QED
      BY <3>1, ElementOfSeq
  <2>1. TypeOK'
    BY <1>3, <2>0, NoFrame DEF EnqueuePush, TypeOK, Holding, Frame, thread, socket, retry,
         session, totals, phone, main
  <2>2. Holding'
    BY <1>3, <2>0, NoFrame DEF EnqueuePush, TypeOK, Holding, thread, socket, retry, session,
         totals, phone, main
  <2>3. Room'
    BY <1>3, <2>0, NoFrame DEF EnqueuePush, TypeOK, Room, Holding, thread, socket, retry, session,
         totals, phone, main
  <2>4. IdrFirst'
    BY <1>3, <2>0, NoFrame DEF EnqueuePush, TypeOK, Holding, IdrFirst, IdrOnlyAtFront, thread,
         socket, retry, session, totals, phone, main
  <2>5. Accounted'
    BY <1>3, <2>0, NoFrame DEF EnqueuePush, TypeOK, Holding, Accounted, thread, socket, retry,
         session, totals, phone, main
  <2>6. Phase'
    BY <1>3, <2>0, NoFrame DEF EnqueuePush, TypeOK, Phase, Holding, thread, socket, retry,
         session, totals, phone, main
  <2> QED
    BY <2>1, <2>2, <2>3, <2>4, <2>5, <2>6
<1>4. CASE Top
  BY <1>4 DEF Top, TypeOK, Holding, Room, IdrFirst, IdrOnlyAtFront,
       Accounted, Phase, socket, session, encoder, totals, phone, main
<1>5. CASE SleepSlice
  BY <1>5 DEF SleepSlice, TypeOK, Holding, Room, IdrFirst, IdrOnlyAtFront,
       Accounted, Phase, socket, session, encoder, totals, phone, main
<1>6. CASE ConnectOk
  BY <1>6, ZenonT(40) DEF ConnectOk, TypeOK, Holding, Room, IdrFirst, IdrOnlyAtFront,
       Accounted, Phase, retry, encoder, totals, phone, main
<1>7. CASE ConnectFails
  BY <1>7, GrowType DEF ConnectFails, Penalty, TypeOK, Holding, Room, IdrFirst,
       IdrOnlyAtFront, Accounted, Phase, socket, session, encoder, totals, phone, main
<1>8. CASE ClearQueue
  BY <1>8 DEF ClearQueue, TypeOK, Holding, Room, IdrFirst, IdrOnlyAtFront,
       Accounted, Phase, socket, retry, encoder, totals, phone, main
<1>9. CASE ClearRecord
  BY <1>9 DEF ClearRecord, TypeOK, Holding, Room, IdrFirst, IdrOnlyAtFront,
       Accounted, Phase, socket, retry, session, encoder, phone, main
<1>10. ASSUME NEW type \in MsgType, Accepted(type)
       PROVE  /\ seq' \in 0 .. SeqMod - 1 /\ out' \in Message /\ late' \in 0 .. 3
              /\ out' # Nothing /\ out'.whole /\ seq' = (out'.seq + 1) % SeqMod
              /\ connected' = connected
  BY <1>10 DEF Accepted, TypeOK, Message, MsgType, Nothing
<1>11. CASE HandshakeOk
  BY <1>10, <1>11 DEF HandshakeOk, TypeOK, Holding, Room, IdrFirst, IdrOnlyAtFront,
       Accounted, Phase, MsgType, retry, session, encoder, totals, phone, main
<1>12. CASE AskForIdr
  BY <1>12 DEF AskForIdr, TypeOK, Holding, Room, IdrFirst, IdrOnlyAtFront,
       Accounted, Phase, socket, retry, encoder, totals, phone, main
<1>13. CASE TakeFront
  <2> DEFINE k == Least(1, Len(queue))
             got == SubSeq(queue, 1, k)
  <2>1. k \in 0 .. Len(queue) /\ k <= 1
    BY DEF Least, TypeOK
  <2>2. got \in Seq(Frame) /\ Len(got) = k
    <3>1. 1 \in Int /\ k \in Int /\ \A i \in 1 .. k : queue[i] \in Frame
      BY <2>1 DEF TypeOK
    <3> QED
      BY <2>1, <3>1, SubSeqProperties
  <2>3. /\ queue' = SubSeq(queue, k + 1, Len(queue))
        /\ Len(queue') = Len(queue) - k /\ queue' \in Seq(Frame)
        /\ \A i \in 1 .. Len(queue) - k : queue'[i] = queue[k + i]
    <3>1. queue' = SubSeq(queue, k + 1, Len(queue))
      BY <1>13, <2>2 DEF TakeFront
    <3> QED
      BY <2>1, <3>1, Rest DEF TypeOK
  <2> HIDE DEF k, got
  <2>4. /\ hand' \in Seq(Frame) /\ lost' \in Nat
        /\ Len(hand') + lost' = Len(hand) + lost + k
        /\ IF running THEN hand' = got ELSE hand' = hand
        /\ pc' \in {"beat", "video", "close"}
        /\ UNCHANGED <<cleared, socket, retry, session, encoder, drops, frames,
                       lastVideo, phone, main>>
    <3>1. hand = <<>> /\ pc = "wait"
      BY <1>13 DEF TakeFront, Holding
    <3>2. CASE running
      <4>1. hand' = got /\ lost' = lost
        BY <1>13, <3>2 DEF TakeFront, got, k
      <4> QED
        BY <1>13, <2>1, <2>2, <3>1, <3>2, <4>1, NoFrame DEF TakeFront, TypeOK
    <3>3. CASE ~running
      <4>1. hand' = hand /\ lost' = lost + k /\ pc' = "close"
        BY <1>13, <2>2, <3>3 DEF TakeFront, got, k
      <4> QED
        BY <1>13, <2>1, <3>1, <3>3, <4>1, NoFrame DEF TakeFront, TypeOK
    <3> QED
      BY <3>2, <3>3
  <2>5. pc = "wait" /\ hand = <<>> /\ (pc' = "video" => Len(hand') = 1)
                   /\ (pc' # "video" => hand' = <<>>)
    <3>1. hand = <<>> /\ pc = "wait"
      BY <1>13 DEF TakeFront, Holding
    <3>2. k # 0 <=> got # <<>>
      BY <2>2, NoFrame, EmptySeq
    <3> QED
      <4>1. CASE running
        <5>1. hand' = got /\ pc' = IF got = <<>> THEN "beat" ELSE "video"
          BY <1>13, <4>1 DEF TakeFront, got, k
        <5> QED
          BY <2>1, <2>2, <3>1, <3>2, <5>1
      <4>2. CASE ~running
        <5>1. hand' = hand /\ pc' = "close"
          BY <1>13, <4>2 DEF TakeFront
        <5> QED
          BY <3>1, <5>1
      <4> QED
        BY <4>1, <4>2
  <2>6. TypeOK'
    BY <2>3, <2>4 DEF TypeOK, socket, retry, session, encoder, phone, main
  <2>7. Holding'
    BY <2>1, <2>2, <2>4, <2>5, NoFrame DEF TypeOK, Holding, encoder
  <2>8. Room'
    <3>1. enq' = enq
      BY <2>4 DEF encoder
    <3>2. Len(queue) \in Nat /\ k \in Nat /\ Len(queue') = Len(queue) - k
      BY <2>1, <2>3 DEF TypeOK
    <3>3. MaxQueue \in Nat
      BY SenderAssumption DEF SenderAssumption
    <3>4. Room
      OBVIOUS
    <3> QED
      BY <3>1, <3>2, <3>3, <3>4 DEF Room
  <2>9. IdrFirst'
    <3>1. IdrOnlyAtFront'
      BY <2>1, <2>3 DEF TypeOK, IdrFirst, IdrOnlyAtFront
    <3>2. enq' # "idle" /\ given'[1].idr => queue' = <<>>
      <4>1. queue = <<>> => Len(queue') = 0
        BY <2>1, <2>3, NoFrame
      <4> QED
        BY <2>3, <2>4, <4>1, EmptySeq DEF IdrFirst, encoder
    <3> QED
      BY <3>1, <3>2 DEF IdrFirst
  <2>10. Accounted'
    <3>1. /\ Len(given') = Len(given) /\ trimmed' = trimmed /\ cleared' = cleared
          /\ drops' = drops /\ frames' = frames /\ offered' = offered
      BY <2>4 DEF encoder
    <3>2. /\ Len(given) \in Nat /\ Len(queue) \in Nat /\ Len(hand) \in Nat
          /\ Len(queue') \in Nat /\ Len(hand') \in Nat
      BY <2>3, <2>4 DEF TypeOK
    <3>3. Len(queue') = Len(queue) - k /\ Len(hand') + lost' = Len(hand) + lost + k
      BY <2>3, <2>4
    <3> QED
      <4>1. /\ offered \in Nat /\ trimmed \in Nat /\ cleared \in Nat /\ drops \in Nat
            /\ frames \in Nat /\ lost \in Nat /\ lost' \in Nat /\ k \in Nat
        BY <2>1, <2>3, <2>4 DEF TypeOK
      <4> QED
        BY <3>1, <3>2, <3>3, <4>1 DEF Accounted
  <2>11. Phase'
    BY <2>4, <2>5 DEF Phase, socket
  <2> QED
    BY <2>6, <2>7, <2>8, <2>9, <2>10, <2>11
<1>14. CASE VideoOk
  <2>0. Len(hand) = 1 /\ hand[1] \in Frame /\ hand' = <<>>
    <3>1. hand \in Seq(Frame) /\ Len(hand) = 1 /\ hand' = <<>>
      BY <1>14 DEF VideoOk, TypeOK, Holding
    <3> QED
      BY <3>1, ElementOfSeq
  <2>1. TypeOK'
    BY <1>10, <1>14, <2>0, NoFrame DEF VideoOk, TypeOK, Holding, Frame, MsgType, retry, session,
         encoder, phone, main
  <2>2. Holding'
    BY <1>10, <1>14, <2>0, NoFrame DEF VideoOk, TypeOK, Holding, MsgType, retry, session, encoder,
         phone, main
  <2>3. Room'
    BY <1>10, <1>14, <2>0, NoFrame DEF VideoOk, TypeOK, Room, Holding, MsgType, retry, session,
         encoder, phone, main
  <2>4. IdrFirst'
    BY <1>10, <1>14, <2>0, NoFrame DEF VideoOk, TypeOK, Holding, IdrFirst, IdrOnlyAtFront,
         MsgType, retry, session, encoder, phone, main
  <2>5. Accounted'
    BY <1>10, <1>14, <2>0, NoFrame DEF VideoOk, TypeOK, Holding, Accounted, MsgType, retry,
         session, encoder, phone, main
  <2>6. Phase'
    BY <1>10, <1>14, <2>0, NoFrame DEF VideoOk, TypeOK, Phase, Holding, MsgType, retry, session,
         encoder, phone, main
  <2> QED
    BY <2>1, <2>2, <2>3, <2>4, <2>5, <2>6
<1>15. CASE NoHeartbeat
  BY <1>15 DEF NoHeartbeat, TypeOK, Holding, Room, IdrFirst, IdrOnlyAtFront,
       Accounted, Phase, socket, retry, session, encoder, totals, phone, main
<1>16. CASE HeartbeatOk
  <2>0. caught' \in BOOLEAN /\ asked' \in BOOLEAN /\ hbDue' \in BOOLEAN
        /\ alive' \in BOOLEAN /\ healthy' \in BOOLEAN
    BY <1>16 DEF HeartbeatOk, TypeOK
  <2>1. TypeOK'
    BY <1>10, <1>16, <2>0 DEF HeartbeatOk, TypeOK, MsgType, retry, encoder, totals, phone, main
  <2> QED
    BY <1>10, <1>16, <2>1 DEF HeartbeatOk, TypeOK, Holding, Room, IdrFirst, IdrOnlyAtFront,
         Accounted, Phase, MsgType, retry, encoder, totals, phone, main
<1>17. CASE SendFailed
  <2>1. PICK type \in MsgType : SendFails(type) /\ pc \in {"handshake", "video", "beat"}
    BY <1>17 DEF SendFailed, HandshakeFails, VideoFails, HeartbeatFails, MsgType
  <2>2. seq' \in 0 .. SeqMod - 1 /\ out' \in Message \cup {Nothing}
    <3>1. [type |-> type, seq |-> seq, whole |-> FALSE] \in Message
      BY DEF TypeOK, Message
    <3> QED
      <4>1. out' \in {out, [type |-> type, seq |-> seq, whole |-> FALSE]}
        BY <2>1 DEF SendFails, Refused
      <4>2. seq' = (seq + 1) % SeqMod
        BY <2>1 DEF SendFails, Refused
      <4> QED
        <5>1. out' \in Message \cup {Nothing}
          BY <3>1, <4>1 DEF TypeOK
        <5>2. seq' \in 0 .. SeqMod - 1
          BY <4>2 DEF TypeOK
        <5> QED
          BY <5>1, <5>2
  <2> QED
    BY <2>1, <2>2 DEF SendFails, Refused, TypeOK, Holding, Room, IdrFirst,
         IdrOnlyAtFront, Accounted, Phase, retry, session, encoder, totals, phone, main
<1>18. CASE DropConnection
  <2>0. /\ hand' = <<>> /\ backoff' \in 0 .. MaxBackoff /\ short' \in Nat
        /\ connected' \in BOOLEAN /\ alive' \in BOOLEAN /\ healthy' \in BOOLEAN
        /\ asked' \in BOOLEAN /\ caught' \in BOOLEAN
    <3>1. hand' = <<>> /\ connected' = FALSE /\ alive' = FALSE /\ healthy' = FALSE
          /\ asked' = FALSE /\ caught' = FALSE
      BY <1>18 DEF DropConnection, Disconnect
    <3>2. backoff' \in 0 .. MaxBackoff /\ short' \in Nat
      <4>1. CASE healthy
        <5>1. backoff' = 0 /\ short' = 0
          BY <1>18, <4>1 DEF DropConnection, Disconnect
        <5> QED
          BY <5>1
      <4>2. CASE ~healthy
        <5>1. Penalty
          BY <1>18, <4>2 DEF DropConnection, Disconnect
        <5> QED
          BY <5>1, GrowType DEF Penalty, TypeOK
      <4> QED
        BY <4>1, <4>2
    <3> QED
      BY <3>1, <3>2
  <2>1. TypeOK'
    BY <1>18, <2>0, NoFrame DEF DropConnection, Disconnect, TypeOK, Holding, encoder,
         phone, main
  <2>2. Holding'
    BY <1>18, <2>0, NoFrame DEF DropConnection, Disconnect, TypeOK, Holding, encoder,
         phone, main
  <2>3. Room'
    BY <1>18, <2>0, NoFrame DEF DropConnection, Disconnect, TypeOK, Room, Holding, encoder,
         phone, main
  <2>4. IdrFirst'
    BY <1>18, <2>0, NoFrame DEF DropConnection, Disconnect, TypeOK, Holding, IdrFirst,
         IdrOnlyAtFront, encoder, phone, main
  <2>5. Accounted'
    BY <1>18, <2>0, NoFrame DEF DropConnection, Disconnect, TypeOK, Holding, Accounted,
         encoder, phone, main
  <2>6. Phase'
    BY <1>18, <2>0, NoFrame DEF DropConnection, Disconnect, TypeOK, Phase, Holding,
         encoder, phone, main
  <2> QED
    BY <2>1, <2>2, <2>3, <2>4, <2>5, <2>6
<1>19. CASE CloseSocket
  <2>0. /\ connected' \in BOOLEAN /\ alive' \in BOOLEAN /\ healthy' \in BOOLEAN
        /\ asked' \in BOOLEAN /\ caught' \in BOOLEAN
    BY <1>19 DEF CloseSocket, Disconnect
  <2>1. TypeOK'
    BY <1>19, <2>0 DEF CloseSocket, Disconnect, TypeOK, Holding, retry, encoder, totals, phone,
         main
  <2>2. Holding'
    BY <1>19 DEF CloseSocket, Disconnect, TypeOK, Holding, retry, encoder, totals, phone, main
  <2>3. Room'
    BY <1>19 DEF CloseSocket, Disconnect, TypeOK, Room, Holding, retry, encoder, totals, phone,
         main
  <2>4. IdrFirst'
    BY <1>19 DEF CloseSocket, Disconnect, TypeOK, Holding, IdrFirst, IdrOnlyAtFront, retry,
         encoder, totals, phone, main
  <2>5. Accounted'
    BY <1>19 DEF CloseSocket, Disconnect, TypeOK, Holding, Accounted, retry, encoder, totals,
         phone, main
  <2>6. Phase'
    BY <1>19 DEF CloseSocket, Disconnect, TypeOK, Phase, Holding, retry, encoder, totals,
         phone, main
  <2> QED
    BY <2>1, <2>2, <2>3, <2>4, <2>5, <2>6
<1>20. CASE Stop
  <2>0. /\ running' \in BOOLEAN /\ stop' \in {"live", "joining", "stopped"}
        /\ UNCHANGED <<queue, thread, socket, retry, session, encoder, totals, phone>>
    BY <1>20 DEF Stop, StopCall, StopReturn, TypeOK
  <2>1. TypeOK'
    BY <2>0 DEF TypeOK, Holding, thread, socket,
         retry, session, encoder, totals, phone
  <2>2. Holding'
    BY <2>0 DEF TypeOK, Holding, thread, socket,
         retry, session, encoder, totals, phone
  <2>3. Room'
    BY <2>0 DEF TypeOK, Room, Holding, thread, socket,
         retry, session, encoder, totals, phone
  <2>4. IdrFirst'
    BY <2>0 DEF TypeOK, Holding, IdrFirst,
         IdrOnlyAtFront, thread, socket, retry, session, encoder, totals, phone
  <2>5. Accounted'
    BY <2>0 DEF TypeOK, Holding, Accounted, thread,
         socket, retry, session, encoder, totals, phone
  <2>6. Phase'
    BY <2>0 DEF TypeOK, Phase, Holding, thread,
         socket, retry, session, encoder, totals, phone
  <2> QED
    BY <2>1, <2>2, <2>3, <2>4, <2>5, <2>6
<1>21. CASE World
  <2>0. /\ peerUp' \in BOOLEAN /\ alive' \in BOOLEAN /\ healthy' \in BOOLEAN
        /\ hbDue' \in BOOLEAN /\ flips' \in 0 .. MaxFlips
        /\ UNCHANGED <<queue, thread, socket, retry, encoder, totals, main, asked, mark>>
        /\ caught' = caught
    <3>1. CASE PeerFlips
      <4>1. peerUp' \in BOOLEAN /\ alive' \in BOOLEAN
        BY <3>1 DEF PeerFlips
      <4>2. flips' \in 0 .. MaxFlips
        BY <3>1 DEF PeerFlips, TypeOK
      <4> QED
        BY <3>1, <4>1, <4>2 DEF PeerFlips, TypeOK
    <3>2. CASE Tick
      BY <3>2 DEF Tick, TypeOK, phone
    <3>3. CASE Age
      BY <3>3 DEF Age, TypeOK, phone
    <3> QED
      BY <1>21, <3>1, <3>2, <3>3 DEF World
  <2>1. TypeOK'
    BY <2>0 DEF TypeOK, Holding, thread, socket,
         retry, encoder, totals, phone, main
  <2>2. Holding'
    BY <2>0 DEF TypeOK, Holding, thread, socket,
         retry, encoder, totals, phone, main
  <2>3. Room'
    BY <2>0 DEF TypeOK, Room, Holding, thread,
         socket, retry, encoder, totals, phone, main
  <2>4. IdrFirst'
    BY <2>0 DEF TypeOK, Holding, IdrFirst,
         IdrOnlyAtFront, thread, socket, retry, encoder, totals, phone, main
  <2>5. Accounted'
    BY <2>0 DEF TypeOK, Holding, Accounted, thread,
         socket, retry, encoder, totals, phone, main
  <2>6. Phase'
    BY <2>0 DEF TypeOK, Phase, Holding, thread,
         socket, retry, encoder, totals, phone, main
  <2> QED
    BY <2>1, <2>2, <2>3, <2>4, <2>5, <2>6
<1>22. CASE UNCHANGED vars
  BY <1>22 DEF vars, TypeOK, Holding, Room, IdrFirst, IdrOnlyAtFront, Accounted,
       Phase, thread, socket, retry, session, encoder, totals, phone, main
<1> QED
  BY <1>1, <1>2, <1>3, <1>4, <1>5, <1>6, <1>7, <1>8, <1>9, <1>11, <1>12, <1>13,
     <1>14, <1>15, <1>16, <1>17, <1>18, <1>19, <1>20, <1>21, <1>22
     DEF Next, Enqueue, ThreadMain

-----------------------------------------------------------------------------
(* The theorems.                                                           *)

\* The invariant holds in every reachable state.
THEOREM Invariance == Spec => []IInv
<1> QED
  BY InitIInv, NextIInv, PTL DEF Spec

\* Every variable keeps its range: in particular the backoff never exceeds
\* its cap (sender.cpp:149, :164) and nothing is taken from an empty queue.
THEOREM TypeCorrect == Spec => []TypeOK
<1>1. IInv => TypeOK
  BY DEF IInv
<1> QED
  BY <1>1, Invariance, PTL

\* The queue is bounded by kMaxQueue, although Enqueue releases the lock
\* between trimming and pushing (sender.cpp:39-52).
THEOREM Bounded == Spec => []QueueBound
<1>1. IInv => QueueBound
  BY SenderAssumption DEF IInv, TypeOK, Room, QueueBound
<1> QED
  BY <1>1, Invariance, PTL

\* An IDR is only ever the front of the queue (sender.cpp:34-44).
THEOREM CleanBoundary == Spec => []IdrOnlyAtFront
<1>1. IInv => IdrOnlyAtFront
  BY DEF IInv, IdrFirst
<1> QED
  BY <1>1, Invariance, PTL

\* Every frame is in one place, sent, counted as dropped or lost with its
\* connection, at every interleaving of Enqueue and the sender's thread.
THEOREM NothingVanishes == Spec => []Accounted
<1>1. IInv => Accounted
  BY DEF IInv
<1> QED
  BY <1>1, Invariance, PTL

\* The sender implements the connection of PROTOCOL.md: the handshake comes
\* first and once, numbers have no gap, nothing follows a torn message.
LEMMA WireInit == Init => Wire!Init
BY DEF Init, Wire!Init, Nothing, Wire!Nothing

\* Each step of the sender is a step of the wire, or leaves it as it is.
LEMMA WireNext == IInv /\ IInv' /\ [Next]_vars => [Wire!Next]_<<connected, out>>
<1> SUFFICES ASSUME IInv, IInv', [Next]_vars
             PROVE  Wire!Next \/ UNCHANGED <<connected, out>>
  OBVIOUS
<1> USE SenderAssumption DEF IInv
<1>1. Nothing = Wire!Nothing /\ Message = Wire!Message /\ MsgType = Wire!MsgType
  BY DEF Nothing, Wire!Nothing, Message, Wire!Message, MsgType, Wire!MsgType, Wire!SeqNo
<1>2. CASE ConnectOk
  <2>1. ~connected /\ connected' /\ out' = Nothing
    BY <1>2 DEF ConnectOk, Phase
  <2> QED
    BY <1>1, <2>1, <1>2 DEF Wire!Next, Wire!Open, ConnectOk, TypeOK
<1>3. ASSUME pc = "handshake", out' # out, connected' = connected, out'.type = "handshake"
      PROVE  Wire!Next
  <2>1. connected /\ out = Nothing /\ out' \in Message
    BY <1>3 DEF Phase, TypeOK
  <2> QED
    BY <1>1, <1>3, <2>1 DEF Wire!Next, Wire!Handshake
<1>4. ASSUME pc \in {"video", "beat"}, out' # out, connected' = connected,
             out' # Nothing, out'.type # "handshake", out'.seq = seq
      PROVE  Wire!Next
  <2>1. connected /\ out # Nothing /\ out.whole /\ seq = (out.seq + 1) % SeqMod
        /\ out' \in Message
    BY <1>4 DEF Phase, TypeOK
  <2> QED
    BY <1>1, <1>4, <2>1 DEF Wire!Next, Wire!Follow
<1>5. CASE HandshakeOk \/ VideoOk \/ HeartbeatOk
  <2>1. PICK type \in MsgType : /\ Accepted(type)
                                /\ \/ pc = "handshake" /\ type = "handshake"
                                   \/ pc \in {"video", "beat"} /\ type # "handshake"
    BY <1>5 DEF HandshakeOk, VideoOk, HeartbeatOk, MsgType
  <2>2. /\ out'.type = type /\ out'.seq = seq /\ connected' = connected
        /\ out' # Nothing
    BY <2>1 DEF Accepted, Nothing, MsgType
  <2> QED
    BY <1>3, <1>4, <2>1, <2>2
<1>6. CASE SendFailed
  <2>1. PICK type \in MsgType : /\ SendFails(type)
                                /\ \/ pc = "handshake" /\ type = "handshake"
                                   \/ pc \in {"video", "beat"} /\ type # "handshake"
    BY <1>6 DEF SendFailed, HandshakeFails, VideoFails, HeartbeatFails, MsgType
  <2>2. connected' = connected
        /\ (out' = out \/ out' = [type |-> type, seq |-> seq, whole |-> FALSE])
    BY <2>1 DEF SendFails, Refused
  <2>3. CASE out' = out
    BY <2>2, <2>3
  <2>4. CASE out' # out
    <3>1. out'.type = type /\ out'.seq = seq /\ out' # Nothing
      BY <2>1, <2>2, <2>4 DEF Nothing, MsgType
    <3> QED
      BY <1>3, <1>4, <2>1, <2>2, <2>4, <3>1
  <2> QED
    BY <2>3, <2>4
<1>7. CASE DropConnection \/ CloseSocket
  <2>1. connected' = FALSE /\ out' = out
    BY <1>7 DEF DropConnection, CloseSocket, Disconnect
  <2> QED
    BY <2>1 DEF Wire!Next, Wire!Close, TypeOK
<1>8. CASE Enqueue \/ Top \/ SleepSlice \/ ConnectFails \/ ClearQueue \/ ClearRecord
           \/ AskForIdr \/ TakeFront \/ NoHeartbeat \/ Stop \/ World \/ UNCHANGED vars
  BY <1>8 DEF Enqueue, EnqueueTrim, EnqueueRecord, EnqueuePush, Top, SleepSlice,
       ConnectFails, ClearQueue, ClearRecord, AskForIdr, TakeFront, NoHeartbeat,
       Stop, StopCall, StopReturn, World, PeerFlips, Tick, Age, vars, socket
<1> QED
  BY <1>2, <1>5, <1>6, <1>7, <1>8 DEF Next, ThreadMain

\* What the sender writes to a socket is a connection as the protocol has it:
\* a handshake, then messages in sequence, and nothing after a broken one.
THEOREM Implements == Spec => WireSpec
<1>1. Init => Wire!Init
  BY WireInit
<1>2. IInv /\ IInv' /\ [Next]_vars => [Wire!Next]_<<connected, out>>
  BY WireNext
<1> QED
  BY <1>1, <1>2, Invariance, PTL DEF Spec, WireSpec, Wire!Spec

-----------------------------------------------------------------------------
(* The order of the frames on the wire, over all connections; what a new   *)
(* connection may carry; and how much goes out after Stop.                 *)

-----------------------------------------------------------------------------
(* The frames in the hand h of the sender's thread, in the queue q, and in *)
(* the argument g of Enqueue, of which the newest is number n.             *)

\* They are in the order in which they were encoded.
Line(h, q, g, n) ==
    /\ h \in Seq(Frame) /\ Len(h) <= 1
    /\ q \in Seq(Frame)
    /\ g \in Seq(Frame) /\ Len(g) <= 1
    /\ \A i, j \in 1 .. Len(q) : i < j => q[i].id < q[j].id
    /\ \A i \in 1 .. Len(q) : q[i].id <= n
    /\ Len(h) = 1 => h[1].id <= n
    /\ Len(h) = 1 => \A i \in 1 .. Len(q) : h[1].id < q[i].id
    /\ Len(g) = 1 => g[1].id = n
    /\ Len(g) = 1 => \A i \in 1 .. Len(q) : q[i].id < n
    /\ Len(g) = 1 /\ Len(h) = 1 => h[1].id < n

\* All of them are newer than frame m.
Newer(m, h, q, g) ==
    /\ Len(h) = 1 => m < h[1].id
    /\ \A i \in 1 .. Len(q) : m < q[i].id
    /\ Len(g) = 1 => m < g[1].id

\* What is left of a queue when its first k frames are taken.
IsRest(r, q, k) ==
    /\ r \in Seq(Frame) /\ Len(r) = Len(q) - k
    /\ \A i \in 1 .. Len(q) - k : r[i] = q[k + i]

\* Frames are numbered by integers.
LEMMA Numbered ==
    ASSUME NEW q \in Seq(Frame)
    PROVE  \A i \in 1 .. Len(q) : q[i].id \in Int
<1>1. \A f \in Frame : f.id \in Int
    BY DEF Frame
<1>2. \A i \in 1 .. Len(q) : q[i] \in Frame
    OBVIOUS
<1> QED
    BY <1>1, <1>2

\* Trimming the queue leaves the rest in order.
LEMMA LineRest ==
    ASSUME NEW h, NEW q, NEW g, NEW n \in Nat, NEW m \in Nat, NEW r, NEW k \in 0 .. Len(q),
           Line(h, q, g, n), Newer(m, h, q, g), IsRest(r, q, k)
    PROVE  Line(h, r, g, n) /\ Newer(m, h, r, g)
<1>1. q \in Seq(Frame) /\ r \in Seq(Frame)
    BY DEF Line, IsRest
<1>2. \A i \in 1 .. Len(r) : k + i \in 1 .. Len(q) /\ r[i] = q[k + i]
    BY <1>1 DEF IsRest
<1>3. \A i, j \in 1 .. Len(r) : i < j => k + i < k + j
    BY <1>1
<1>4. Line(h, r, g, n)
    BY <1>1, <1>2, <1>3 DEF Line
<1>5. Newer(m, h, r, g)
    BY <1>2 DEF Newer
<1> QED
    BY <1>4, <1>5

\* A new frame on its way into the queue.
LEMMA LineGiven ==
    ASSUME NEW h, NEW q, NEW n \in Nat, NEW m \in 0 .. n, NEW f \in Frame, f.id = n + 1,
           Line(h, q, <<>>, n), Newer(m, h, q, <<>>)
    PROVE  Line(h, q, <<f>>, n + 1) /\ Newer(m, h, q, <<f>>)
<1>1. <<f>> \in Seq(Frame) /\ Len(<<f>>) = 1 /\ <<f>>[1] = f
    BY OneFrame
<1>2. q \in Seq(Frame) /\ h \in Seq(Frame)
    BY DEF Line
<1>3. \A i \in 1 .. Len(q) : q[i].id \in Int /\ q[i].id <= n
    BY <1>2, Numbered DEF Line
<1>4. \A i \in 1 .. Len(q) : q[i].id <= n + 1 /\ q[i].id < n + 1
    BY <1>3
<1>5. Len(h) = 1 => h[1].id <= n + 1 /\ h[1].id < n + 1
    <2> SUFFICES ASSUME Len(h) = 1 PROVE h[1].id <= n + 1 /\ h[1].id < n + 1
        OBVIOUS
    <2>1. h[1].id \in Int
        BY <1>2, Numbered
    <2>2. h[1].id <= n
        BY DEF Line
    <2> QED
        BY <2>1, <2>2
<1>6. m < f.id
    OBVIOUS
<1>7. Line(h, q, <<f>>, n + 1)
    BY <1>1, <1>4, <1>5 DEF Line
<1>8. Newer(m, h, q, <<f>>)
    BY <1>1, <1>6 DEF Newer
<1> QED
    BY <1>7, <1>8

\* The frame is pushed.
LEMMA LinePushed ==
    ASSUME NEW h, NEW q, NEW g, NEW n \in Nat, NEW m \in Nat, Len(g) = 1,
           Line(h, q, g, n), Newer(m, h, q, g)
    PROVE  Line(h, Append(q, g[1]), <<>>, n) /\ Newer(m, h, Append(q, g[1]), <<>>)
<1> DEFINE a == Append(q, g[1])
<1>1. q \in Seq(Frame) /\ g[1] \in Frame /\ Len(q) \in Nat
    BY ElementOfSeq DEF Line
<1>2. a \in Seq(Frame)
    BY <1>1
<1>3. Len(a) = Len(q) + 1
    BY <1>1
<1>4. a[Len(q) + 1] = g[1] /\ \A i \in 1 .. Len(q) : a[i] = q[i]
    BY <1>1
<1> HIDE DEF a
<1>5. \A i \in 1 .. Len(a) : i \in 1 .. Len(q) \/ i = Len(q) + 1
    BY <1>1, <1>3
<1>6. \A i, j \in 1 .. Len(a) : i < j => i \in 1 .. Len(q)
    BY <1>1, <1>3
<1>7. g[1].id = n /\ \A i \in 1 .. Len(q) : q[i].id < n /\ q[i].id <= n
    BY DEF Line
<1>8. \A i, j \in 1 .. Len(a) : i < j => a[i].id < a[j].id
    BY <1>4, <1>5, <1>6, <1>7 DEF Line
<1>9. \A i \in 1 .. Len(a) : a[i].id <= n
    BY <1>4, <1>5, <1>7
<1>10. Len(h) = 1 => \A i \in 1 .. Len(a) : h[1].id < a[i].id
    BY <1>4, <1>5, <1>7 DEF Line
<1>11. Line(h, a, <<>>, n)
    BY <1>2, <1>8, <1>9, <1>10, NoFrame DEF Line
<1>12. Newer(m, h, a, <<>>)
    BY <1>4, <1>5, NoFrame DEF Newer
<1> QED
    BY <1>11, <1>12 DEF a

\* The front is taken into the hand.
LEMMA LineTaken ==
    ASSUME NEW q, NEW g, NEW n \in Nat, NEW m \in Nat, NEW h, NEW r,
           Line(<<>>, q, g, n), Newer(m, <<>>, q, g), IsRest(r, q, 1), Len(q) >= 1,
           h \in Seq(Frame), Len(h) = 1, h[1] = q[1]
    PROVE  Line(h, r, g, n) /\ Newer(m, h, r, g)
<1>1. q \in Seq(Frame) /\ r \in Seq(Frame) /\ Len(q) \in Nat
    BY DEF Line, IsRest
<1>2. 1 \in 0 .. Len(q) /\ 1 \in 1 .. Len(q)
    BY <1>1
<1>3. Line(<<>>, r, g, n) /\ Newer(m, <<>>, r, g)
    BY <1>2, LineRest
<1>4. \A i \in 1 .. Len(r) : 1 + i \in 1 .. Len(q) /\ 1 < 1 + i /\ r[i] = q[1 + i]
    BY <1>1 DEF IsRest
<1>5. \A i \in 1 .. Len(r) : h[1].id < r[i].id
    BY <1>2, <1>4 DEF Line
<1>6. h[1].id <= n
    BY <1>2 DEF Line
<1>7. Len(g) = 1 => h[1].id < n
    BY <1>2 DEF Line
<1>8. Line(h, r, g, n)
    BY <1>3, <1>5, <1>6, <1>7 DEF Line
<1>9. Newer(m, h, r, g)
    BY <1>2, <1>3 DEF Newer
<1> QED
    BY <1>8, <1>9

\* The hand is emptied, and the queue.
LEMMA LineEmptied ==
    ASSUME NEW h, NEW q, NEW g, NEW n \in Nat, NEW m \in Nat,
           Line(h, q, g, n), Newer(m, h, q, g)
    PROVE  /\ Line(<<>>, q, g, n) /\ Newer(m, <<>>, q, g)
           /\ Line(h, <<>>, g, n) /\ Newer(m, h, <<>>, g)
<1>1. Line(<<>>, q, g, n) /\ Newer(m, <<>>, q, g)
    BY NoFrame DEF Line, Newer
<1>2. Line(h, <<>>, g, n)
    BY NoFrame DEF Line
<1>3. Newer(m, h, <<>>, g)
    BY NoFrame DEF Newer
<1> QED
    BY <1>1, <1>2, <1>3

\* Frames are numbered from 1.
LEMMA FrameId ==
    ASSUME NEW g \in Seq(Frame), Len(g) = 1
    PROVE  g[1].id \in Nat \ {0}
<1>1. \A f \in Frame : f.id \in Nat \ {0}
    BY DEF Frame
<1>2. g[1] \in Frame
    BY ElementOfSeq
<1> QED
    BY <1>1, <1>2

\* What is newer than some frame is newer than none.
LEMMA NewerThanNone ==
    ASSUME NEW h, NEW q, NEW g, NEW n \in Nat, NEW m \in Nat,
           Line(h, q, g, n), Newer(m, h, q, g)
    PROVE  Newer(0, h, q, g)
<1>1. h \in Seq(Frame) /\ q \in Seq(Frame) /\ g \in Seq(Frame)
    BY DEF Line
<1>2. \A i \in 1 .. Len(q) : q[i].id \in Int /\ m < q[i].id
    BY <1>1, Numbered DEF Newer
<1>3. Len(h) = 1 => h[1].id \in Int /\ m < h[1].id
    BY <1>1, FrameId DEF Newer
<1>4. Len(g) = 1 => g[1].id \in Int /\ m < g[1].id
    BY <1>1, FrameId DEF Newer
<1>5. \A k \in Int : m < k => 0 < k
    OBVIOUS
<1> QED
    BY <1>2, <1>3, <1>4, <1>5 DEF Newer

-----------------------------------------------------------------------------
(* The order of the frames.                                                *)

\* The newest frame that had been pushed when the queue was cleared.
Settled == IF caught THEN mark - 1 ELSE mark

\* The frames on their way are in order, and newer than the last one sent and
\* than those that were in the queue when the connection was made.
Order ==
    /\ Line(hand, queue, given, offered)
    /\ Newer(lastVideo, hand, queue, given)
    /\ Newer(Settled, hand, queue, given)
    /\ lastVideo <= offered /\ Settled \in 0 .. offered

\* What the steps leave alone, as far as the order is concerned.
Belt == <<hand, queue, given, offered, lastVideo, mark, caught>>

\* The numbers the order is about are counted from 0.
LEMMA Counters == TypeOK /\ Order => offered \in Nat /\ lastVideo \in Nat /\ Settled \in Nat
BY SenderAssumption DEF TypeOK, Order

\* No frame is on its way when the sender starts.
LEMMA InitOrder == Init => Order
BY NoFrame DEF Init, Order, Line, Newer, Settled

\* Enqueue (sender.cpp:29-52).
LEMMA EnqueueOrder == IInv /\ IInv' /\ Order /\ Enqueue => Order'
<1> SUFFICES ASSUME IInv, IInv', Order, Enqueue PROVE Order'
    OBVIOUS
<1>0. offered \in Nat /\ lastVideo \in Nat /\ Settled \in Nat
    BY Counters DEF IInv
<1>1. ASSUME NEW idr \in BOOLEAN, EnqueueTrim(idr) PROVE Order'
    <2> DEFINE f == [id |-> offered + 1, idr |-> idr]
               n == Excess(idr)
    <2>1. /\ enq = "idle" /\ offered' = offered + 1
          /\ UNCHANGED <<hand, lastVideo, Settled>>
        BY <1>1 DEF EnqueueTrim, Settled, thread, totals, session
    <2>2. given = <<>>
        BY <2>1 DEF IInv, Holding
    <2>3. f \in Frame /\ f.id = offered + 1
        BY <1>0, <1>1, SenderAssumption DEF EnqueueTrim, Frame
    <2>4. n \in 0 .. Len(queue)
        BY <1>1, ExcessFits DEF IInv
    <2>5. lastVideo \in 0 .. offered /\ Settled \in 0 .. offered
        BY <1>0 DEF Order
    <2>6. offered + 1 \in Nat /\ lastVideo <= offered + 1 /\ Settled <= offered + 1
        BY <1>0, <2>5
    <2>7. <<f>> \in Seq(Frame) /\ Len(<<f>>) = 1 /\ <<f>>[1] = f
        BY <2>3, OneFrame
    <2>8. CASE n = 0
        <3>1. queue' = Append(queue, f) /\ given' = given
            BY <1>1, <2>8 DEF EnqueueTrim
        <3>2. Line(hand, queue, <<f>>, offered + 1) /\ Newer(lastVideo, hand, queue, <<f>>)
              /\ Newer(Settled, hand, queue, <<f>>)
            BY <1>0, <2>2, <2>3, <2>5, LineGiven DEF Order
        <3> HIDE DEF f
        <3>3. Line(hand, Append(queue, f), <<>>, offered + 1)
              /\ Newer(lastVideo, hand, Append(queue, f), <<>>)
              /\ Newer(Settled, hand, Append(queue, f), <<>>)
            BY <1>0, <2>6, <2>7, <3>2, LinePushed
        <3> QED
            BY <2>1, <2>2, <2>6, <3>1, <3>3 DEF Order
    <2>9. CASE n # 0
        <3>1. queue' = SubSeq(queue, n + 1, Len(queue)) /\ given' = <<f>>
            BY <1>1, <2>9 DEF EnqueueTrim
        <3>2. IsRest(queue', queue, n)
            BY <2>4, <3>1, Rest DEF IInv, TypeOK, IsRest
        <3> HIDE DEF f, n
        <3>3. Line(hand, queue', <<>>, offered) /\ Newer(lastVideo, hand, queue', <<>>)
              /\ Newer(Settled, hand, queue', <<>>)
            BY <1>0, <2>2, <2>4, <3>2, LineRest DEF Order
        <3>4. Line(hand, queue', <<f>>, offered + 1) /\ Newer(lastVideo, hand, queue', <<f>>)
              /\ Newer(Settled, hand, queue', <<f>>)
            BY <1>0, <2>3, <2>5, <3>3, LineGiven
        <3> QED
            BY <2>1, <2>6, <3>1, <3>4 DEF Order
    <2> QED
        BY <2>8, <2>9
<1>2. CASE EnqueueRecord
    <2>1. UNCHANGED Belt
        BY <1>2 DEF EnqueueRecord, Belt, thread, session
    <2> QED
        BY <2>1 DEF Belt, Order, Settled
<1>3. CASE EnqueuePush
    <2>1. /\ queue' = Append(queue, given[1]) /\ given' = <<>>
          /\ UNCHANGED <<hand, offered, lastVideo, Settled>>
        BY <1>3 DEF EnqueuePush, Settled, thread, session, totals
    <2>2. Len(given) = 1
        BY <1>3 DEF EnqueuePush, IInv, Holding
    <2>3. Line(hand, Append(queue, given[1]), <<>>, offered)
          /\ Newer(lastVideo, hand, Append(queue, given[1]), <<>>)
          /\ Newer(Settled, hand, Append(queue, given[1]), <<>>)
        BY <1>0, <2>2, LinePushed DEF Order
    <2> QED
        BY <2>1, <2>3 DEF Order
<1> QED
    BY <1>1, <1>2, <1>3 DEF Enqueue

\* The sender's thread (sender.cpp:139-230).
LEMMA ThreadOrder == IInv /\ IInv' /\ Order /\ ThreadMain => Order'
<1> SUFFICES ASSUME IInv, IInv', Order, ThreadMain PROVE Order'
    OBVIOUS
<1>0. offered \in Nat /\ lastVideo \in Nat /\ Settled \in Nat
    BY Counters DEF IInv
<1>1. CASE UNCHANGED Belt
    BY <1>1 DEF Belt, Order, Settled
<1>2. CASE Top \/ SleepSlice \/ ConnectOk \/ ConnectFails \/ ClearRecord \/ HandshakeOk
           \/ AskForIdr \/ NoHeartbeat \/ HeartbeatOk \/ SendFailed
    BY <1>1, <1>2 DEF Top, SleepSlice, ConnectOk, ConnectFails, ClearRecord, HandshakeOk,
         AskForIdr, NoHeartbeat, HeartbeatOk, SendFailed, HandshakeFails, VideoFails,
         HeartbeatFails, SendFails, Belt, session, encoder, totals
<1>3. CASE ClearQueue
    <2>1. /\ queue' = <<>> /\ mark' = offered /\ caught' = (given # <<>>)
          /\ UNCHANGED <<hand, given, offered, lastVideo>>
        BY <1>3 DEF ClearQueue, encoder, totals
    <2>2. hand = <<>>
        BY <1>3 DEF ClearQueue, IInv, Holding
    <2>3. Line(hand, <<>>, given, offered) /\ Newer(lastVideo, hand, <<>>, given)
        BY <1>0, LineEmptied DEF Order
    <2>4. given \in Seq(Frame) /\ (given = <<>> \/ Len(given) = 1)
        BY EmptySeq DEF Order, Line, IInv, Holding
    <2>5. Len(given) = 1 => given[1].id = offered /\ offered > 0
        <3>1. Len(given) = 1 => given[1].id = offered /\ given[1].id \in Nat \ {0}
            BY <2>4, FrameId DEF Order, Line
        <3> QED
            BY <3>1
    <2>6. CASE given = <<>>
        <3>1. Settled' = offered
            BY <2>1, <2>6 DEF Settled
        <3>2. Newer(offered, <<>>, <<>>, <<>>)
            BY NoFrame DEF Newer
        <3> QED
            BY <1>0, <2>1, <2>2, <2>3, <2>6, <3>1, <3>2 DEF Order
    <2>7. CASE Len(given) = 1
        <3>1. given # <<>>
            BY <2>7
        <3>2. Settled' = offered - 1
            BY <2>1, <3>1 DEF Settled
        <3>3. Settled' \in 0 .. offered /\ Settled' < given[1].id
            BY <1>0, <2>5, <2>7, <3>2
        <3>4. Newer(Settled', <<>>, <<>>, given)
            BY <2>5, <3>3, NoFrame DEF Newer
        <3> QED
            BY <2>1, <2>2, <2>3, <3>3, <3>4 DEF Order
    <2> QED
        BY <2>4, <2>6, <2>7
<1>4. CASE TakeFront
    <2> DEFINE k == Least(1, Len(queue))
               got == SubSeq(queue, 1, k)
    <2>1. pc = "wait" /\ UNCHANGED <<given, offered, lastVideo, Settled>>
        BY <1>4 DEF TakeFront, Settled, encoder, session
    <2>2. hand = <<>>
        BY <2>1 DEF IInv, Holding
    <2>3. queue \in Seq(Frame) /\ Len(queue) \in Nat
        BY DEF Order, Line
    <2>4. k \in 0 .. Len(queue) /\ (k = 0 \/ k = 1) /\ (k = 0 => Len(queue) = 0)
        BY <2>3 DEF Least
    <2>5. got \in Seq(Frame) /\ Len(got) = k
        <3>1. \A i \in 1 .. k : queue[i] \in Frame
            BY <2>3, <2>4
        <3> QED
            BY <2>3, <2>4, <3>1, SubSeqProperties
    <2>6. k = 1 => got[1] = queue[1]
        BY <2>3, <2>4
    <2>7. queue' = SubSeq(queue, k + 1, Len(queue))
        BY <1>4, <2>5 DEF TakeFront
    <2>8. hand' = got \/ hand' = hand
        BY <1>4 DEF TakeFront
    <2>9. IsRest(queue', queue, k)
        BY <2>3, <2>4, <2>7, Rest DEF IsRest
    <2> HIDE DEF k, got
    <2>10. Line(<<>>, queue', given, offered) /\ Newer(lastVideo, <<>>, queue', given)
           /\ Newer(Settled, <<>>, queue', given)
        BY <1>0, <2>2, <2>4, <2>9, LineRest DEF Order
    <2>11. CASE hand' = <<>>
        BY <2>1, <2>10, <2>11 DEF Order
    <2>12. CASE hand' = got /\ k = 1
        <3>1. Line(hand', queue', given, offered) /\ Newer(lastVideo, hand', queue', given)
              /\ Newer(Settled, hand', queue', given)
            BY <1>0, <2>2, <2>4, <2>5, <2>6, <2>9, <2>12, LineTaken DEF Order
        <3> QED
            BY <2>1, <3>1 DEF Order
    <2>13. CASE hand' = got /\ k = 0
        BY <2>5, <2>11, <2>13, EmptySeq
    <2> QED
        BY <2>2, <2>4, <2>8, <2>11, <2>12, <2>13
<1>5. CASE VideoOk
    <2>1. /\ pc = "video" /\ hand' = <<>> /\ lastVideo' = hand[1].id
          /\ UNCHANGED <<queue, given, offered, Settled>>
        BY <1>5 DEF VideoOk, Settled, encoder, session
    <2>2. Len(hand) = 1
        BY <2>1 DEF IInv, Holding
    <2>3. Line(<<>>, queue, given, offered) /\ Newer(Settled, <<>>, queue, given)
        BY <1>0, LineEmptied DEF Order
    <2>4. lastVideo' <= offered
        BY <2>1, <2>2 DEF Order, Line
    <2>5. Newer(lastVideo', <<>>, queue, given)
        BY <2>1, <2>2, NoFrame DEF Order, Line, Newer
    <2> QED
        BY <2>1, <2>3, <2>4, <2>5 DEF Order
<1>6. CASE DropConnection
    <2>1. /\ hand' = <<>> /\ UNCHANGED <<queue, given, offered, lastVideo>>
          /\ Settled' = 0
        BY <1>6 DEF DropConnection, Disconnect, Settled, encoder
    <2>2. Line(<<>>, queue, given, offered) /\ Newer(lastVideo, <<>>, queue, given)
        BY <1>0, LineEmptied DEF Order
    <2>3. Newer(0, <<>>, queue, given)
        BY <1>0, <2>2, NewerThanNone
    <2> QED
        BY <1>0, <2>1, <2>2, <2>3 DEF Order
<1>7. CASE CloseSocket
    <2>1. UNCHANGED <<hand, queue, given, offered, lastVideo>> /\ Settled' = 0
        BY <1>7 DEF CloseSocket, Disconnect, Settled, encoder, totals
    <2>2. Newer(0, hand, queue, given)
        BY <1>0, NewerThanNone DEF Order
    <2> QED
        BY <1>0, <2>1, <2>2 DEF Order
<1> QED
    BY <1>2, <1>3, <1>4, <1>5, <1>6, <1>7 DEF ThreadMain

\* The order is kept by every step.
LEMMA NextOrder == IInv /\ IInv' /\ Order /\ [Next]_vars => Order'
<1> SUFFICES ASSUME IInv, IInv', Order, [Next]_vars PROVE Order'
    OBVIOUS
<1>1. CASE Stop \/ World \/ UNCHANGED vars
    <2>1. UNCHANGED Belt
        BY <1>1 DEF Stop, StopCall, StopReturn, World, PeerFlips, Tick, Age, vars, Belt,
             thread, session, encoder, totals
    <2> QED
        BY <2>1 DEF Belt, Order, Settled
<1> QED
    BY <1>1, EnqueueOrder, ThreadOrder DEF Next

-----------------------------------------------------------------------------
(* What a connection has seen.                                             *)

\* Video is on the wire only after the key frame was asked for, and the last
\* picture is newer than all that was encoded when the connection's queue was
\* cleared, or the one frame that Enqueue held then.
Seen ==
    /\ pc \in {"wait", "video", "beat"} \/ (pc = "top" /\ connected) => asked
    /\ pc = "ask" => out.type = "handshake"
    /\ AskedBeforeVideo
    /\ FreshAfterConnect

\* Nothing has been seen at the start.
LEMMA InitSeen == Init => Seen
BY DEF Init, Seen, AskedBeforeVideo, FreshAfterConnect

\* Every step keeps what a connection may have seen.
LEMMA NextSeen == IInv /\ IInv' /\ Order /\ Seen /\ [Next]_vars => Seen'
<1> SUFFICES ASSUME IInv, IInv', Order, Seen, [Next]_vars PROVE Seen'
    OBVIOUS
<1> USE DEF Seen, AskedBeforeVideo, FreshAfterConnect
<1>0. Phase /\ Phase'
    BY DEF IInv
<1>1. CASE UNCHANGED <<pc, connected, out, asked, mark, caught, lastVideo>>
    BY <1>1
<1>2. CASE Enqueue \/ Stop \/ World \/ UNCHANGED vars
    BY <1>1, <1>2 DEF Enqueue, EnqueueTrim, EnqueueRecord, EnqueuePush, Stop, StopCall,
         StopReturn, World, PeerFlips, Tick, Age, vars, thread, socket, session, totals
<1>3. CASE Top
    BY <1>0, <1>3 DEF Top, Phase, socket, session, totals
<1>4. CASE SleepSlice
    BY <1>0, <1>4 DEF SleepSlice, Phase, socket, session, totals
<1>5. CASE ConnectOk
    BY <1>5 DEF ConnectOk, Nothing
<1>6. CASE ConnectFails
    BY <1>0, <1>6 DEF ConnectFails, Phase, socket, session, totals
<1>7. CASE ClearQueue \/ ClearRecord
    BY <1>0, <1>7 DEF ClearQueue, ClearRecord, Phase, Nothing, socket, session, totals
<1>8. CASE HandshakeOk
    BY <1>8 DEF HandshakeOk, Accepted, session, totals
<1>9. CASE AskForIdr
    BY <1>9 DEF AskForIdr, socket, totals
<1>10. CASE TakeFront
    BY <1>10 DEF TakeFront, socket, session
<1>11. CASE VideoOk
    <2>1. Len(hand) = 1
        BY <1>11 DEF VideoOk, IInv, Holding
    <2>2. mark' = mark /\ caught' = caught /\ lastVideo' = hand[1].id /\ pc = "video"
          /\ pc' = "beat"
          /\ asked' = asked
        BY <1>11 DEF VideoOk, session
    <2>3. lastVideo' > mark' \/ (caught' /\ lastVideo' = mark')
        <3>1. Settled < hand[1].id /\ hand[1].id \in Int /\ mark \in Int
            <4>1. hand \in Seq(Frame)
                BY DEF Order, Line
            <4> QED
                <5>1. Settled < hand[1].id
                    BY <2>1 DEF Order, Newer
                <5>2. hand[1].id \in Int
                    BY <2>1, <4>1, FrameId
                <5>3. mark \in Int
                    BY SenderAssumption DEF IInv, TypeOK
                <5> QED
                    BY <5>1, <5>2, <5>3
        <3>2. CASE caught
            <4>1. mark - 1 < hand[1].id
                BY <3>1, <3>2 DEF Settled
            <4>2. hand[1].id > mark \/ hand[1].id = mark
                BY <3>1, <4>1
            <4> QED
                BY <2>2, <3>2, <4>2
        <3>3. CASE ~caught
            <4>1. mark < hand[1].id
                BY <3>1, <3>3 DEF Settled
            <4> QED
                BY <2>2, <4>1
        <3> QED
            BY <3>2, <3>3
    <2> QED
        BY <2>2, <2>3
<1>12. CASE NoHeartbeat
    BY <1>12 DEF NoHeartbeat, socket, session, totals
<1>13. CASE HeartbeatOk
    BY <1>13 DEF HeartbeatOk, Accepted, totals
<1>14. CASE SendFailed
    <2>1. PICK type \in MsgType : /\ SendFails(type)
                                  /\ \/ pc = "handshake" /\ type = "handshake"
                                     \/ pc \in {"video", "beat"}
        BY <1>14 DEF SendFailed, HandshakeFails, VideoFails, HeartbeatFails, MsgType
    <2>2. /\ pc' = "drop" /\ UNCHANGED <<connected, asked, mark, caught, lastVideo>>
          /\ (out' = out \/ out' = [type |-> type, seq |-> seq, whole |-> FALSE])
        BY <2>1 DEF SendFails, Refused, session, totals
    <2> QED
        BY <2>1, <2>2
<1>15. CASE DropConnection \/ CloseSocket
    BY <1>15 DEF DropConnection, CloseSocket, Disconnect, totals
<1> QED
    BY <1>2, <1>3, <1>4, <1>5, <1>6, <1>7, <1>8, <1>9, <1>10, <1>11, <1>12, <1>13, <1>14,
       <1>15 DEF Next, ThreadMain

-----------------------------------------------------------------------------
(* After Stop.                                                             *)

\* How much may have gone out since Stop, by where the thread is.
Budget ==
    /\ running => late = 0
    /\ pc \in {"sleep", "connect", "clear", "record", "handshake", "video"} => late = 0
    /\ pc \in {"ask", "wait", "beat"} => late <= 1
    /\ late <= 2

\* Nothing has gone out at the start.
LEMMA InitBudget == Init => Budget
BY DEF Init, Budget

\* From its place the thread reaches its end with at most two messages.
LEMMA NextBudget == IInv /\ Budget /\ [Next]_vars => Budget'
<1> SUFFICES ASSUME IInv, Budget, [Next]_vars PROVE Budget'
    OBVIOUS
<1> USE DEF Budget
<1>0. late \in Nat
    BY DEF IInv, TypeOK
<1>1. CASE UNCHANGED <<pc, late, running>>
    BY <1>1
<1>2. CASE Enqueue \/ World \/ UNCHANGED vars
    BY <1>1, <1>2 DEF Enqueue, EnqueueTrim, EnqueueRecord, EnqueuePush, World, PeerFlips,
         Tick, Age, vars, thread, socket, main
<1>3. CASE Stop
    BY <1>3 DEF Stop, StopCall, StopReturn, thread, socket
<1>4. CASE Top \/ SleepSlice
    BY <1>4 DEF Top, SleepSlice, socket, main
<1>5. CASE ConnectOk \/ ConnectFails \/ ClearQueue \/ ClearRecord \/ AskForIdr
           \/ NoHeartbeat \/ DropConnection \/ CloseSocket
    <2>1. late' = late /\ running' = running
        BY <1>5 DEF ConnectOk, ConnectFails, ClearQueue, ClearRecord, AskForIdr, NoHeartbeat,
             DropConnection, CloseSocket, Disconnect, socket, main
    <2>2. \/ pc = "connect"
          \/ pc = "clear" /\ pc' = "record"
          \/ pc = "record" /\ pc' = "handshake"
          \/ pc = "ask" /\ pc' = "wait"
          \/ pc' = "top"
          \/ pc' = "done"
        BY <1>5 DEF ConnectOk, ConnectFails, ClearQueue, ClearRecord, AskForIdr, NoHeartbeat,
             DropConnection, CloseSocket
    <2>3. late <= 2
        OBVIOUS
    <2> QED
        BY <1>0, <2>1, <2>2, <2>3
<1>6. CASE HandshakeOk \/ VideoOk \/ HeartbeatOk
    <2>1. running' = running /\ late' = IF running \/ late = 3 THEN late ELSE late + 1
        BY <1>6 DEF HandshakeOk, VideoOk, HeartbeatOk, Accepted, main
    <2>2. \/ pc = "handshake" /\ pc' = "ask"
          \/ pc = "video" /\ pc' = "beat"
          \/ pc = "beat" /\ pc' = "top"
        BY <1>6 DEF HandshakeOk, VideoOk, HeartbeatOk
    <2>3. CASE pc = "beat"
        BY <1>0, <2>1, <2>2, <2>3
    <2>4. CASE pc = "handshake"
        BY <1>0, <2>1, <2>2, <2>4
    <2>5. CASE pc = "video"
        BY <1>0, <2>1, <2>2, <2>5
    <2> QED
        BY <2>2, <2>3, <2>4, <2>5
<1>7. CASE TakeFront
    <2>1. /\ pc = "wait" /\ late' = late /\ running' = running
          /\ IF running THEN pc' \in {"beat", "video"} ELSE pc' = "close"
        BY <1>7 DEF TakeFront, socket, main
    <2>2. CASE running
        BY <2>1, <2>2
    <2>3. CASE ~running
        BY <1>0, <2>1, <2>3
    <2> QED
        BY <2>2, <2>3
<1>8. CASE SendFailed
    <2>1. pc' = "drop" /\ late' = late /\ running' = running
        BY <1>8 DEF SendFailed, HandshakeFails, VideoFails, HeartbeatFails, SendFails,
             Refused, main
    <2> QED
        BY <2>1
<1> QED
    BY <1>2, <1>3, <1>4, <1>5, <1>6, <1>7, <1>8 DEF Next, ThreadMain

-----------------------------------------------------------------------------
(* The theorems.                                                           *)

\* The inductive invariant of this module.
Promise == IInv /\ Order /\ Seen /\ Budget

\* The invariant holds in every reachable state.
THEOREM Promised == Spec => []Promise
<1>1. Init => Promise
    BY InitIInv, InitOrder, InitSeen, InitBudget DEF Promise
<1>2. Promise /\ [Next]_vars => Promise'
    BY NextIInv, NextOrder, NextSeen, NextBudget DEF Promise
<1> QED
    BY <1>1, <1>2, PTL DEF Spec

\* Once main has called Stop at most two more messages go out (sender.cpp:188-230).
THEOREM PromptStop == Spec => []StopIsPrompt
<1>1. Promise => StopIsPrompt
    BY DEF Promise, Budget, StopIsPrompt
<1> QED
    BY Promised, <1>1, PTL

\* On every connection the key frame is asked for before the first frame goes
\* out (sender.cpp:183-184).
THEOREM KeyFrameFirst == Spec => []AskedBeforeVideo
<1>1. Promise => AskedBeforeVideo
    BY DEF Promise, Seen
<1> QED
    BY Promised, <1>1, PTL

\* Of the frames encoded before the queue was cleared for a connection only one
\* may be sent on it: the one Enqueue held between its two lock regions
\* (sender.cpp:48, 178).
THEOREM OneOldPicture == Spec => []FreshAfterConnect
<1>1. Promise => FreshAfterConnect
    BY DEF Promise, Seen
<1> QED
    BY Promised, <1>1, PTL

\* Two sequences in order, the first before the second.
LEMMA Joined ==
    ASSUME NEW a \in Seq(Frame), NEW b \in Seq(Frame), NEW m \in Nat,
           \A i, j \in 1 .. Len(a) : i < j => a[i].id < a[j].id,
           \A i, j \in 1 .. Len(b) : i < j => b[i].id < b[j].id,
           \A i \in 1 .. Len(a), j \in 1 .. Len(b) : a[i].id < b[j].id,
           \A i \in 1 .. Len(a) : m < a[i].id,
           \A i \in 1 .. Len(b) : m < b[i].id
    PROVE  /\ a \o b \in Seq(Frame)
           /\ \A i \in 1 .. Len(a \o b) :
                 \/ i \in 1 .. Len(a) /\ (a \o b)[i] = a[i]
                 \/ i - Len(a) \in 1 .. Len(b) /\ (a \o b)[i] = b[i - Len(a)]
           /\ \A i, j \in 1 .. Len(a \o b) : i < j => (a \o b)[i].id < (a \o b)[j].id
           /\ \A i \in 1 .. Len(a \o b) : m < (a \o b)[i].id
<1> DEFINE c == a \o b
           k == Len(a)
<1>1. c \in Seq(Frame) /\ k \in Nat /\ Len(b) \in Nat /\ Len(c) = k + Len(b)
    OBVIOUS
<1>2. \A i \in 1 .. k : c[i] = a[i]
    OBVIOUS
<1>3. \A i \in 1 .. Len(c) : i > k => c[i] = b[i - k]
    OBVIOUS
<1> HIDE DEF c
<1>4. \A i \in 1 .. Len(c) : \/ i \in 1 .. k /\ c[i] = a[i]
                             \/ i - k \in 1 .. Len(b) /\ c[i] = b[i - k]
    <2> TAKE i \in 1 .. Len(c)
    <2>1. CASE i <= k
        BY <1>1, <1>2, <2>1 DEF k
    <2>2. CASE i > k
        <3>1. i - k \in 1 .. Len(b)
            BY <1>1, <2>2
        <3> QED
            BY <1>3, <2>2, <3>1
    <2>3. i <= k \/ i > k
        BY <1>1
    <2> QED
        BY <2>1, <2>2, <2>3
<1> HIDE DEF k
<1>5. \A i \in 1 .. Len(c) : m < c[i].id
    BY <1>4 DEF k
<1>6. ASSUME NEW i \in 1 .. Len(c), NEW j \in 1 .. Len(c), i < j
      PROVE  c[i].id < c[j].id
    <2>1. CASE i \in 1 .. k /\ c[i] = a[i] /\ j \in 1 .. k /\ c[j] = a[j]
        BY <1>6, <2>1 DEF k
    <2>2. CASE i \in 1 .. k /\ c[i] = a[i] /\ j - k \in 1 .. Len(b) /\ c[j] = b[j - k]
        BY <2>2 DEF k
    <2>3. CASE /\ i - k \in 1 .. Len(b) /\ c[i] = b[i - k]
               /\ j - k \in 1 .. Len(b) /\ c[j] = b[j - k]
        <3>1. i - k < j - k
            BY <1>1, <1>6
        <3> QED
            BY <2>3, <3>1
    <2>4. ~(i - k \in 1 .. Len(b) /\ j \in 1 .. k)
        BY <1>1, <1>6
    <2> QED
        BY <1>4, <2>1, <2>2, <2>3, <2>4
<1> QED
    BY <1>1, <1>4, <1>5, <1>6 DEF c, k

\* A sequence of at most one frame is in order.
LEMMA Single ==
    ASSUME NEW a \in Seq(Frame), Len(a) <= 1
    PROVE  /\ \A i, j \in 1 .. Len(a) : ~(i < j)
           /\ \A i \in 1 .. Len(a) : i = 1 /\ Len(a) = 1
<1>1. PICK n \in Nat : n = Len(a)
    OBVIOUS
<1>2. n = 0 \/ n = 1
    BY <1>1
<1>3. CASE n = 0
    BY <1>1, <1>3
<1>4. CASE n = 1
    BY <1>1, <1>4
<1> QED
    BY <1>2, <1>3, <1>4

\* Frames are sent in the order they were encoded, none of them twice, over
\* all the connections of a run.
THEOREM SentInOrder == Spec => []InOrder
<1>1. Promise => InOrder
    <2> SUFFICES ASSUME Promise PROVE InOrder
        OBVIOUS
    <2>0. lastVideo \in Nat
        BY Counters DEF Promise, IInv
    <2>1. /\ hand \in Seq(Frame) /\ queue \in Seq(Frame) /\ given \in Seq(Frame)
          /\ Len(hand) <= 1 /\ Len(given) <= 1
        BY DEF Promise, Order, Line
    <2>2. /\ \A i, j \in 1 .. Len(hand) : i < j => hand[i].id < hand[j].id
          /\ \A i, j \in 1 .. Len(given) : i < j => given[i].id < given[j].id
          /\ \A i \in 1 .. Len(hand) : i = 1 /\ Len(hand) = 1
          /\ \A i \in 1 .. Len(given) : i = 1 /\ Len(given) = 1
        BY <2>1, Single
    <2>3. /\ \A i, j \in 1 .. Len(queue) : i < j => queue[i].id < queue[j].id
          /\ \A i \in 1 .. Len(hand), j \in 1 .. Len(queue) : hand[i].id < queue[j].id
          /\ \A i \in 1 .. Len(queue), j \in 1 .. Len(given) : queue[i].id < given[j].id
          /\ \A i \in 1 .. Len(hand), j \in 1 .. Len(given) : hand[i].id < given[j].id
        BY <2>2 DEF Promise, Order, Line
    <2>4. /\ \A i \in 1 .. Len(hand) : lastVideo < hand[i].id
          /\ \A i \in 1 .. Len(queue) : lastVideo < queue[i].id
          /\ \A i \in 1 .. Len(given) : lastVideo < given[i].id
        BY <2>2 DEF Promise, Order, Newer
    <2> DEFINE p == hand \o queue
    <2>5. /\ p \in Seq(Frame)
          /\ \A i \in 1 .. Len(p) :
                \/ i \in 1 .. Len(hand) /\ p[i] = hand[i]
                \/ i - Len(hand) \in 1 .. Len(queue) /\ p[i] = queue[i - Len(hand)]
          /\ \A i, j \in 1 .. Len(p) : i < j => p[i].id < p[j].id
          /\ \A i \in 1 .. Len(p) : lastVideo < p[i].id
        BY <2>0, <2>1, <2>2, <2>3, <2>4, Joined
    <2> HIDE DEF p
    <2>6. \A i \in 1 .. Len(p), j \in 1 .. Len(given) : p[i].id < given[j].id
        BY <2>3, <2>5
    <2>7. /\ \A i, j \in 1 .. Len(p \o given) :
                i < j => (p \o given)[i].id < (p \o given)[j].id
          /\ \A i \in 1 .. Len(p \o given) : lastVideo < (p \o given)[i].id
        BY <2>0, <2>1, <2>2, <2>4, <2>5, <2>6, Joined
    <2> QED
        BY <2>7 DEF InOrder, Pipeline, p
<1> QED
    BY Promised, <1>1, PTL

-----------------------------------------------------------------------------
(* The backoff.  Backoff is a recursive function; that it satisfies its    *)
(* equation is shown first, by an induction over the sets it needs.        *)

\* What holds of 0, and of n + 1 when it holds of n, holds of every number.
LEMMA NatSets ==
    ASSUME NEW S, 0 \in S, \A n \in Nat : n \in S => n + 1 \in S
    PROVE  Nat \subseteq S
<1> DEFINE R == {p \in Nat \X Nat : p[1] < p[2]}
           T == Nat \ S
<1> SUFFICES ASSUME T # {} PROVE FALSE
    OBVIOUS
<1>1. IsWellFoundedOn(R, Nat)
    BY NatLessThanWellFounded DEF OpToRel
<1>2. \E x \in T : \A y \in T : ~ (<<y, x>> \in R)
    <2>1. T \subseteq Nat
        OBVIOUS
    <2> HIDE DEF R, T
    <2> QED
        BY <1>1, <2>1, WFMin
<1>3. PICK x \in T : \A y \in T : ~ (<<y, x>> \in R)
    BY <1>2
<1>4. x - 1 \in T
    OBVIOUS
<1>5. <<x - 1, x>> \in R
    BY <1>4
<1> QED
    BY <1>3, <1>4, <1>5

\* g begins with z and goes on with G, n times.
Begins(T, z, G, g, n) ==
    /\ g \in [0 .. n -> T] /\ g[0] = z
    /\ \A i \in 0 .. n : i < n => g[i + 1] = G[g[i]]

\* There is a sequence that begins with z and goes on with G for ever.
LEMMA Iterates ==
    ASSUME NEW T, NEW z \in T, NEW G \in [T -> T]
    PROVE  \E f \in [Nat -> T] : f[0] = z /\ \A n \in Nat : f[n + 1] = G[f[n]]
<1> DEFINE B(g, n) == Begins(T, z, G, g, n)
           S == {n \in Nat : \E g : B(g, n)}
<1>1. 0 \in S
    <2> DEFINE g == [i \in 0 .. 0 |-> z]
    <2>1. B(g, 0)
        BY DEF Begins
    <2> QED
        BY <2>1
<1>2. ASSUME NEW n \in Nat, n \in S PROVE n + 1 \in S
    <2>1. PICK g : B(g, n)
        BY <1>2
    <2> DEFINE h == [i \in 0 .. n + 1 |-> IF i <= n THEN g[i] ELSE G[g[n]]]
    <2>2. g \in [0 .. n -> T] /\ g[0] = z /\ \A i \in 0 .. n : i < n => g[i + 1] = G[g[i]]
        BY <2>1 DEF Begins
    <2>3. h \in [0 .. n + 1 -> T]
        BY <2>2
    <2>4. h[0] = z
        BY <2>2
    <2>5. ASSUME NEW i \in 0 .. n + 1, i < n + 1 PROVE h[i + 1] = G[h[i]]
        BY <2>2, <2>5
    <2>6. B(h, n + 1)
        BY <2>3, <2>4, <2>5 DEF Begins
    <2> QED
        BY <2>6
<1>3. \A n \in Nat : \E g : B(g, n)
    <2>1. Nat \subseteq S
        <3> HIDE DEF S
        <3> QED
            BY <1>1, <1>2, NatSets
    <2> QED
        BY <2>1
<1>4. ASSUME NEW n \in Nat, NEW g, NEW h, B(g, n + 1), B(h, n)
      PROVE  \A i \in 0 .. n : g[i] = h[i]
    <2> DEFINE E == {i \in Nat : i <= n => g[i] = h[i]}
    <2>1. 0 \in E
        BY <1>4 DEF Begins
    <2>2. ASSUME NEW i \in Nat, i \in E PROVE i + 1 \in E
        <3> SUFFICES ASSUME i + 1 <= n PROVE g[i + 1] = h[i + 1]
            OBVIOUS
        <3>1. i \in 0 .. n /\ i < n /\ i \in 0 .. n + 1 /\ i < n + 1
            OBVIOUS
        <3>2. g[i] = h[i] /\ g[i + 1] = G[g[i]] /\ h[i + 1] = G[h[i]]
            BY <1>4, <2>2, <3>1 DEF Begins
        <3> QED
            BY <3>2
    <2>3. Nat \subseteq E
        <3> HIDE DEF E
        <3> QED
            BY <2>1, <2>2, NatSets
    <2> QED
        BY <2>3
<1> DEFINE F(n) == CHOOSE g : B(g, n)
           f == [n \in Nat |-> F(n)[n]]
<1>5. \A n \in Nat : B(F(n), n)
    <2> HIDE DEF B
    <2> QED
        BY <1>3
<1> HIDE DEF F
<1>6. f \in [Nat -> T]
    BY <1>5 DEF Begins
<1>7. f[0] = z
    BY <1>5 DEF Begins
<1>8. ASSUME NEW n \in Nat PROVE f[n + 1] = G[f[n]]
    <2>1. B(F(n + 1), n + 1) /\ B(F(n), n)
        BY <1>5
    <2>2. F(n + 1)[n] = F(n)[n]
        BY <1>4, <2>1
    <2>3. F(n + 1)[n + 1] = G[F(n + 1)[n]]
        BY <2>1 DEF Begins
    <2> QED
        BY <2>2, <2>3
<1> QED
    BY <1>6, <1>7, <1>8

\* What the failures in a row add up to, one by one.
LEMMA BackoffOf ==
    /\ Backoff[0] = 0
    /\ \A n \in Nat : Backoff[n] \in 0 .. MaxBackoff /\ Backoff[n + 1] = Grow(Backoff[n])
<1> DEFINE T == 0 .. MaxBackoff
           G == [b \in T |-> Grow(b)]
           D(b) == [n \in Nat |-> IF n = 0 THEN 0 ELSE Grow(b[n - 1])]
<1>1. G \in [T -> T] /\ 0 \in T
    BY GrowType, SenderAssumption DEF SenderAssumption
<1>2. PICK f \in [Nat -> T] : f[0] = 0 /\ \A n \in Nat : f[n + 1] = G[f[n]]
    <2> HIDE DEF G, T
    <2> QED
        BY <1>1, Iterates, SMTT(20)
<1>3. f = D(f)
    <2>1. ASSUME NEW n \in Nat PROVE f[n] = D(f)[n]
        <3>1. CASE n = 0
            BY <1>2, <3>1
        <3>2. CASE n # 0
            <4>1. n - 1 \in Nat /\ (n - 1) + 1 = n
                BY <3>2
            <4>2. f[n] = G[f[n - 1]] /\ f[n - 1] \in T
                BY <1>2, <4>1
            <4> QED
                BY <3>2, <4>2
        <3> QED
            BY <3>1, <3>2
    <2> QED
        BY <2>1
<1>4. Backoff = CHOOSE b : b = D(b)
    BY DEF Backoff
<1>5. Backoff = D(Backoff)
    <2> HIDE DEF D
    <2> QED
        BY <1>3, <1>4
<1>6. Backoff[0] = 0 /\ \A n \in Nat : Backoff[n + 1] = Grow(Backoff[n])
    BY <1>5
<1>7. \A n \in Nat : Backoff[n] \in T
    <2> DEFINE S == {n \in Nat : Backoff[n] \in T}
    <2>1. 0 \in S /\ \A n \in Nat : n \in S => n + 1 \in S
        BY <1>1, <1>6, GrowType
    <2>2. Nat \subseteq S
        <3> HIDE DEF S
        <3> QED
            BY <2>1, NatSets
    <2> QED
        BY <2>2
<1> QED
    BY <1>6, <1>7

\* The backoff is what the failures so far demand, and an attempt is made
\* only after it (sender.cpp:149, :158-167).
Owed ==
    /\ backoff = Backoff[short]
    /\ pc = "connect" => slept >= backoff

LEMMA InitOwed == Init => Owed
BY BackoffOf DEF Init, Owed

\* One more failure; at the cap the count stops with the backoff.
LEMMA PenaltyOwed ==
    ASSUME IInv, Owed, Penalty
    PROVE  backoff' = Backoff[short'] /\ backoff' \in 0 .. MaxBackoff
<1>1. short \in Nat /\ backoff \in 0 .. MaxBackoff /\ backoff' = Grow(backoff)
    BY DEF IInv, TypeOK, Penalty
<1>2. CASE Backoff[short] = MaxBackoff
    <2>1. Grow(MaxBackoff) = MaxBackoff
        BY SenderAssumption DEF SenderAssumption, Grow, Least
    <2> QED
        BY <1>1, <1>2, <2>1 DEF Owed, Penalty
<1>3. CASE Backoff[short] # MaxBackoff
    BY <1>1, <1>3, BackoffOf DEF Owed, Penalty
<1> QED
    BY <1>2, <1>3

LEMMA NextOwed == IInv /\ Owed /\ [Next]_vars => Owed'
<1> SUFFICES ASSUME IInv, Owed, [Next]_vars PROVE Owed'
    OBVIOUS
<1>1. CASE UNCHANGED <<pc, backoff, slept, short>>
    BY <1>1 DEF Owed
<1>2. CASE UNCHANGED <<backoff, short>> /\ pc' # "connect"
    BY <1>2 DEF Owed
<1>3. CASE Enqueue \/ Stop \/ World \/ UNCHANGED vars
    BY <1>1, <1>3 DEF Enqueue, EnqueueTrim, EnqueueRecord, EnqueuePush, Stop, StopCall,
         StopReturn, World, PeerFlips, Tick, Age, thread, retry, vars
<1>4. CASE Top \/ ClearQueue \/ ClearRecord \/ HandshakeOk \/ AskForIdr \/ TakeFront
           \/ VideoOk \/ NoHeartbeat \/ HeartbeatOk \/ SendFailed \/ CloseSocket \/ ConnectOk
    <2>1. UNCHANGED <<backoff, short>> /\ pc' # "connect"
        BY <1>4 DEF Top, ClearQueue, ClearRecord, HandshakeOk, AskForIdr, TakeFront, VideoOk,
             NoHeartbeat, HeartbeatOk, SendFailed, HandshakeFails, VideoFails,
             HeartbeatFails, SendFails, CloseSocket, ConnectOk, retry
    <2> QED
        BY <1>2, <2>1
<1>5. CASE SleepSlice
    <2>1. UNCHANGED <<backoff, short>>
        BY <1>5 DEF SleepSlice
    <2>2. slept \in Nat /\ backoff \in Nat
        BY DEF IInv, TypeOK
    <2>3. pc' = "connect" => slept' = slept /\ ~(slept < backoff)
        BY <1>5 DEF SleepSlice
    <2> QED
        BY <2>1, <2>2, <2>3 DEF Owed
<1>6. CASE ConnectFails
    BY <1>6, PenaltyOwed DEF ConnectFails, Owed
<1>7. CASE DropConnection
    BY <1>7, PenaltyOwed, BackoffOf DEF DropConnection, Owed
<1> QED
    BY <1>3, <1>4, <1>5, <1>6, <1>7 DEF Next, ThreadMain

\* Every attempt has waited for as long as all the failures in a row before it
\* demand, from the first to the capped backoff (sender.cpp:132-167).
THEOREM NoStorm == Spec => []BackoffHolds
<1>1. Owed => BackoffHolds
    BY DEF Owed, BackoffHolds
<1> QED
    BY Promised, InitOwed, NextOwed, <1>1, PTL DEF Spec, Promise
=============================================================================

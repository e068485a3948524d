--------------------------- MODULE StartupProofs ---------------------------
(***************************************************************************)
(* What modules Encoder and Startup promise, for every number of threads   *)
(* of the work queue, of open requests, of frames and of transforms        *)
(* enumerated: whatever was started is ended in reverse order, nobody      *)
(* calls what has ended, the transform that streams is set up for what it  *)
(* is; the callback gets the frames in their order and each frame is       *)
(* accounted for.  The lemmas about a step of Encoder serve its own Spec   *)
(* and StartupSpec.                                                        *)
(***************************************************************************)
EXTENDS Startup, FiniteSetTheorems, TLAPS

-----------------------------------------------------------------------------
(* The encoder on its own, after module Encoder's Spec: the slot for a     *)
(* frame and the requests for one, and the end of the transform.           *)

Places == {"idle", "armNeed", "armOut", "need", "out", "deliver", "call", "void"}

\* What the two invariants need of the types.
Kept == needInput \in Nat /\ at \in [Workers -> Places]

\* From its first line on Shutdown has stopped new work; from Release on
\* none is left but what outlasted the sleep.
Ending ==
    /\ pc \in {"uncall", "flush", "sleep", "release", "down"} => ~running
    /\ pc \in {"release", "down"} => outlasted \/ \A w \in Workers : at[w] = "idle"
    /\ ~transform => pc = "down"

IInv == Kept /\ NoIdleRequest /\ Ending

USE DEF Places

\* An encoder that has just been initialised meets the invariant.
LEMMA InitIInv == Init => IInv
<1> SUFFICES ASSUME Init PROVE IInv
    OBVIOUS
<1>1. Kept
    BY DEF Init, Kept
<1>2. NoIdleRequest
    BY DEF Init, NoIdleRequest
<1>3. Ending
    BY DEF Init, Ending
<1> QED
    BY <1>1, <1>2, <1>3 DEF IInv

\* TryFeedLocked never leaves a frame and a request side by side
\* (encoder.cpp:509-521).
LEMMA FedSlot ==
    ASSUME NEW p, NEW n \in Nat, NEW k, TryFeed(p, n, k)
    PROVE  NoIdleRequest' /\ needInput' \in Nat
BY DEF TryFeed, NoIdleRequest

\* The slot and the requests meet in TryFeedLocked only.
LEMMA NextSlot == Kept /\ NoIdleRequest /\ [Next]_vars => NoIdleRequest' /\ needInput' \in Nat
<1> SUFFICES ASSUME Kept, NoIdleRequest, [Next]_vars
             PROVE  NoIdleRequest' /\ needInput' \in Nat
    OBVIOUS
<1>0. needInput \in Nat
    BY DEF Kept
<1>1. CASE UNCHANGED <<pending, needInput>>
    BY <1>0, <1>1 DEF NoIdleRequest
<1>2. CASE SubmitAsync
    BY <1>0, <1>2, FedSlot DEF SubmitAsync
<1>3. ASSUME NEW w \in Workers, NeedInput(w) PROVE NoIdleRequest' /\ needInput' \in Nat
    BY <1>0, <1>3, FedSlot DEF NeedInput
<1>4. CASE ClearSlot
    BY <1>0, <1>4 DEF ClearSlot, NoIdleRequest
<1>5. CASE SubmitFrame \/ SubmitSync
    BY <1>1, <1>5 DEF SubmitFrame, SubmitSync, slot
<1>6. CASE ShutdownCall \/ ClearCallback \/ Flush \/ Release
    BY <1>1, <1>6 DEF ShutdownCall, ClearCallback, Flush, Release, slot
<1>7. CASE Transform
    BY <1>1, <1>7 DEF Transform, AskForInput, Encode, slot
<1>8. ASSUME NEW w \in Workers,
             Invoke(w) \/ Rearm(w) \/ PullOutput(w) \/ DeliverBitstream(w) \/ CallBack(w)
      PROVE  NoIdleRequest' /\ needInput' \in Nat
    BY <1>1, <1>8 DEF Invoke, Rearm, PullOutput, DeliverBitstream, CallBack, slot
<1>9. CASE UNCHANGED vars
    BY <1>1, <1>9 DEF vars, slot
<1> QED
    BY <1>2, <1>3, <1>4, <1>5, <1>6, <1>7, <1>8, <1>9
    DEF Next, Submit, Shutdown, WorkQueue

\* A thread of the work queue moves on its own.
LEMMA NextPlaces == Kept /\ [Next]_vars => at' \in [Workers -> Places]
<1> SUFFICES ASSUME Kept, [Next]_vars PROVE at' \in [Workers -> Places]
    OBVIOUS
<1>1. at' = at \/ \E w \in Workers : \E l \in Places : at' = [at EXCEPT ![w] = l]
    BY DEF Next, Submit, SubmitFrame, SubmitAsync, SubmitSync, Shutdown, ShutdownCall,
           ClearCallback, Flush, ClearSlot, Release, Transform, AskForInput, Encode,
           WorkQueue, Invoke, Rearm, NeedInput, PullOutput, DeliverBitstream, CallBack,
           Goto, invoke, vars
<1> QED
    BY <1>1 DEF Kept

\* Once Shutdown has slept no Invoke begins to work (encoder.cpp:81, 720-731).
LEMMA NextEnding == Kept /\ Ending /\ [Next]_vars => Ending'
<1> SUFFICES ASSUME Kept, Ending, [Next]_vars PROVE Ending'
    OBVIOUS
<1> USE DEF Ending, Kept, object, main, invoke, history
<1>1. CASE UNCHANGED <<pc, running, transform, at, outlasted>>
    BY <1>1
<1>2. CASE SubmitFrame
    BY <1>2 DEF SubmitFrame
<1>3. CASE SubmitAsync
    BY <1>3 DEF SubmitAsync
<1>4. CASE SubmitSync
    BY <1>4 DEF SubmitSync
<1>5. CASE ShutdownCall
    BY <1>5 DEF ShutdownCall
<1>6. CASE ClearCallback \/ Flush
    BY <1>6 DEF ClearCallback, Flush
<1>7. CASE ClearSlot
    BY <1>7 DEF ClearSlot
<1>8. CASE Release
    BY <1>8 DEF Release
<1>9. CASE Transform
    BY <1>1, <1>9 DEF Transform, AskForInput, Encode
<1>10. ASSUME NEW w \in Workers, Invoke(w) PROVE Ending'
    BY <1>10 DEF Invoke, Goto
<1>11. ASSUME NEW w \in Workers,
              Rearm(w) \/ NeedInput(w) \/ PullOutput(w) \/ DeliverBitstream(w)
              \/ CallBack(w)
       PROVE  Ending'
    <2>1. at[w] # "idle" /\ UNCHANGED <<pc, running, transform, outlasted>>
        BY <1>11 DEF Rearm, NeedInput, PullOutput, DeliverBitstream, CallBack
    <2> QED
        BY <2>1
<1>12. CASE UNCHANGED vars
    BY <1>1, <1>12 DEF vars
<1> QED
    BY <1>2, <1>3, <1>4, <1>5, <1>6, <1>7, <1>8, <1>9, <1>10, <1>11, <1>12
    DEF Next, Submit, Shutdown, WorkQueue

\* The invariant is inductive.
LEMMA NextIInv == IInv /\ [Next]_vars => IInv'
BY NextSlot, NextPlaces, NextEnding DEF IInv, Kept

\* It holds in every reachable state.
THEOREM Invariance == Spec => []IInv
BY InitIInv, NextIInv, PTL DEF Spec

\* No frame waits beside a request for one (encoder.cpp:509-521).
THEOREM NoneWaitsForTheOther == Spec => []NoIdleRequest
<1>1. IInv => NoIdleRequest
    BY DEF IInv
<1> QED
    BY Invariance, <1>1, PTL

\* An Invoke that runs when the transform has been released already ran when
\* Sleep(50) was over (encoder.cpp:720-731): an event that arrives later
\* starts none.
THEOREM ReleasedLast == Spec => []NothingAfterRelease
<1>1. IInv => NothingAfterRelease
    BY DEF IInv, Ending, NothingAfterRelease
<1> QED
    BY Invariance, <1>1, PTL

HIDE DEF Places

-----------------------------------------------------------------------------
(* The stack of what has been started.                                     *)

Parts == {"com", "wsa", "mf", "capture", "encoder", "sender"}

\* s holds the first n of the program's parts in the order they are started.
Fits(s, n) ==
    /\ s \in Seq(Parts)
    /\ n \in 0 .. 6
    /\ Len(s) = n
    /\ n >= 1 => s[1] = "com"
    /\ n >= 2 => s[2] = "wsa"
    /\ n >= 3 => s[3] = "mf"
    /\ n >= 4 => s[4] = "capture"
    /\ n >= 5 => s[5] = "encoder"
    /\ n >= 6 => s[6] = "sender"

\* t names the n parts of s from the last to the first.
Mirrors(t, s, n) ==
    /\ t \in Seq(Parts)
    /\ Len(t) = n
    /\ \A i \in 1 .. n : t[i] = s[n + 1 - i]

\* x is started when n parts are up.
Follows(n, x) ==
    /\ n = 0 => x = "com"
    /\ n = 1 => x = "wsa"
    /\ n = 2 => x = "mf"
    /\ n = 3 => x = "capture"
    /\ n = 4 => x = "encoder"
    /\ n = 5 => x = "sender"

\* Starting the next part.
LEMMA Grows ==
    ASSUME NEW s, NEW n \in 0 .. 5, Fits(s, n), NEW x \in Parts, Follows(n, x)
    PROVE  Fits(Append(s, x), n + 1)
<1> DEFINE a == Append(s, x)
<1>1. s \in Seq(Parts)
    BY DEF Fits
<1>2. Len(s) = n
    BY DEF Fits
<1>3. x \in Parts
    OBVIOUS
<1>4. a \in Seq(Parts)
    BY <1>1, <1>3
<1>5. Len(a) = n + 1
    BY <1>1, <1>2, <1>3
<1>6. a[n + 1] = x
    BY <1>1, <1>2, <1>3
<1>7. \A i \in 1 .. n : a[i] = s[i]
    BY <1>1, <1>2, <1>3
<1>8. n = 0 \/ n = 1 \/ n = 2 \/ n = 3 \/ n = 4 \/ n = 5
    OBVIOUS
<1> HIDE DEF a
<1> QED
    BY <1>4, <1>5, <1>6, <1>7, <1>8 DEF Fits, Follows, a

\* o names the objects of the n parts of s, the newest first.
Objects(o, s, n) ==
    /\ o \in Seq(Parts)
    /\ Len(o) = n - 3
    /\ \A i \in 1 .. n - 3 : o[i] = s[n + 1 - i]

\* The lists the callers of Cleanup write down.
LEMMA Written ==
    ASSUME NEW s
    PROVE  /\ Objects(<<>>, s, 3)
           /\ Fits(s, 4) => Objects(<<"capture">>, s, 4)
           /\ Fits(s, 5) => Objects(<<"encoder", "capture">>, s, 5)
           /\ Fits(s, 6) => Objects(<<"sender", "encoder", "capture">>, s, 6)
<1>1. Objects(<<>>, s, 3)
    BY DEF Objects
<1>2. ASSUME Fits(s, 4) PROVE Objects(<<"capture">>, s, 4)
    BY <1>2 DEF Fits, Objects, Parts
<1>3. ASSUME Fits(s, 5) PROVE Objects(<<"encoder", "capture">>, s, 5)
    BY <1>3 DEF Fits, Objects, Parts
<1>4. ASSUME Fits(s, 6) PROVE Objects(<<"sender", "encoder", "capture">>, s, 6)
    BY <1>4 DEF Fits, Objects, Parts
<1> QED
    BY <1>1, <1>2, <1>3, <1>4

\* With the three calls at the label after them, all of the stack is named.
LEMMA Labelled ==
    ASSUME NEW s, NEW n \in 3 .. 6, Fits(s, n), NEW o, Objects(o, s, n)
    PROVE  Mirrors(o \o <<"mf", "wsa", "com">>, s, n)
<1> DEFINE c == <<"mf", "wsa", "com">>
<1>1. o \in Seq(Parts)
    BY DEF Objects
<1>2. Len(o) = n - 3
    BY DEF Objects
<1>3. \A i \in 1 .. n - 3 : o[i] = s[n + 1 - i]
    BY DEF Objects
<1>4. c \in Seq(Parts)
    BY DEF Parts
<1>5. Len(c) = 3
    OBVIOUS
<1>6. c[1] = "mf" /\ c[2] = "wsa" /\ c[3] = "com"
    OBVIOUS
<1>7. s[1] = "com" /\ s[2] = "wsa" /\ s[3] = "mf"
    BY DEF Fits
<1> HIDE DEF c
<1>8. o \o c \in Seq(Parts)
    BY <1>1, <1>4
<1>9. Len(o \o c) = n
    <2>1. Len(o \o c) = Len(o) + Len(c)
        BY <1>1, <1>4
    <2> QED
        BY <1>2, <1>5, <2>1
<1>10. \A i \in 1 .. n : (o \o c)[i] = s[n + 1 - i]
    <2> TAKE i \in 1 .. n
    <2>1. CASE i <= n - 3
        BY <1>1, <1>2, <1>3, <1>4, <2>1
    <2>2. CASE i > n - 3
        <3>1. (o \o c)[i] = c[i - (n - 3)]
            <4>1. i \in Nat /\ i > Len(o) /\ i <= Len(o) + Len(c)
                BY <1>2, <1>5, <2>2
            <4>2. (o \o c)[i] = c[i - Len(o)]
                BY <1>1, <1>4, <4>1
            <4> QED
                BY <1>2, <4>2
        <3>2. i = n - 2 \/ i = n - 1 \/ i = n
            BY <2>2
        <3>3. CASE i = n - 2
            BY <1>6, <1>7, <3>1, <3>3
        <3>4. CASE i = n - 1
            BY <1>6, <1>7, <3>1, <3>4
        <3>5. CASE i = n
            BY <1>6, <1>7, <3>1, <3>5
        <3> QED
            BY <3>2, <3>3, <3>4, <3>5
    <2>3. i <= n - 3 \/ i > n - 3
        OBVIOUS
    <2> QED
        BY <2>1, <2>2, <2>3
<1> QED
    BY <1>8, <1>9, <1>10 DEF c, Mirrors

\* Ending the next part in a list that mirrors the stack.
LEMMA Popped ==
    ASSUME NEW s, NEW n \in 0 .. 6, Fits(s, n), NEW t, Mirrors(t, s, n), t # <<>>
    PROVE  /\ n \in 1 .. 6
           /\ Head(t) = s[n]
           /\ s # <<>>
           /\ Last(s) = s[n]
           /\ Fits(Front(s), n - 1)
           /\ Mirrors(Tail(t), Front(s), n - 1)
<1>1. s \in Seq(Parts)
    BY DEF Fits
<1>2. Len(s) = n
    BY DEF Fits
<1>3. t \in Seq(Parts)
    BY DEF Mirrors
<1>4. Len(t) = n
    BY DEF Mirrors
<1>5. n \in 1 .. 6
    BY <1>3, <1>4
<1>6. Head(t) = s[n]
    <2>1. Head(t) = t[1]
        BY <1>3, <1>4, <1>5
    <2> QED
        BY <1>5, <2>1 DEF Mirrors
<1>7. s # <<>>
    BY <1>1, <1>2, <1>5
<1>8. Last(s) = s[n]
    BY <1>2 DEF Last
<1>9. Front(s) \in Seq(Parts)
    BY <1>1, <1>2, <1>5 DEF Front
<1>10. Len(Front(s)) = n - 1
    BY <1>1, <1>2, <1>5 DEF Front
<1>11. \A i \in 1 .. n - 1 : Front(s)[i] = s[i]
    BY <1>1, <1>2, <1>5 DEF Front
<1>12. Fits(Front(s), n - 1)
    BY <1>5, <1>9, <1>10, <1>11 DEF Fits
<1>13. Tail(t) \in Seq(Parts)
    BY <1>3, <1>4, <1>5
<1>14. Len(Tail(t)) = n - 1
    BY <1>3, <1>4, <1>5
<1>15. \A i \in 1 .. n - 1 : Tail(t)[i] = t[i + 1]
    BY <1>3, <1>4, <1>5
<1>16. \A i \in 1 .. n - 1 : Tail(t)[i] = Front(s)[(n - 1) + 1 - i]
    <2> TAKE i \in 1 .. n - 1
    <2>1. Tail(t)[i] = s[n + 1 - (i + 1)]
        <3>1. i + 1 \in 1 .. n
            BY <1>5
        <3> QED
            BY <1>15, <3>1 DEF Mirrors
    <2>2. (n - 1) + 1 - i \in 1 .. n - 1
        BY <1>5
    <2>3. (n - 1) + 1 - i = n + 1 - (i + 1)
        BY <1>5
    <2> QED
        BY <1>11, <2>1, <2>2, <2>3
<1>17. Mirrors(Tail(t), Front(s), n - 1)
    BY <1>13, <1>14, <1>16 DEF Mirrors
<1> QED
    BY <1>5, <1>6, <1>7, <1>8, <1>12, <1>17

\* The lists that are written out where no object exists yet.
LEMMA Short ==
    /\ Fits(<<>>, 0)
    /\ \A s : Mirrors(<<>>, s, 0)
    /\ \A s : Fits(s, 1) => Mirrors(<<"com">>, s, 1)
    /\ \A s : Fits(s, 2) => Mirrors(<<"wsa", "com">>, s, 2)
<1>1. Fits(<<>>, 0)
    BY DEF Fits
<1>2. ASSUME NEW s PROVE Mirrors(<<>>, s, 0)
    BY <1>2 DEF Mirrors
<1>3. ASSUME NEW s, Fits(s, 1) PROVE Mirrors(<<"com">>, s, 1)
    <2>1. <<"com">> \in Seq(Parts)
        BY DEF Parts
    <2>2. \A i \in 1 .. 1 : <<"com">>[i] = s[1 + 1 - i]
        BY <1>3 DEF Fits
    <2> QED
        BY <2>1, <2>2 DEF Mirrors
<1>4. ASSUME NEW s, Fits(s, 2) PROVE Mirrors(<<"wsa", "com">>, s, 2)
    <2>1. <<"wsa", "com">> \in Seq(Parts)
        BY DEF Parts
    <2>2. \A i \in 1 .. 2 : <<"wsa", "com">>[i] = s[2 + 1 - i]
        BY <1>4 DEF Fits
    <2> QED
        BY <2>1, <2>2 DEF Mirrors
<1> QED
    BY <1>1, <1>2, <1>3, <1>4

\* What is up follows from how much is up.
LEMMA Members ==
    ASSUME NEW s, NEW n \in 0 .. 6, Fits(s, n)
    PROVE  /\ "mf" \in Range(s) <=> n >= 3
           /\ "encoder" \in Range(s) <=> n >= 5
           /\ "sender" \in Range(s) <=> n >= 6
<1>1. s \in Seq(Parts)
    BY DEF Fits
<1>2. Len(s) = n
    BY DEF Fits
<1>3. DOMAIN s = 1 .. n
    BY <1>1, <1>2
<1>4. \A x : x \in Range(s) <=> \E i \in 1 .. n : s[i] = x
    BY <1>3 DEF Range
<1>5. "mf" \in Range(s) <=> n >= 3
    BY <1>4 DEF Fits
<1>6. "encoder" \in Range(s) <=> n >= 5
    BY <1>4 DEF Fits
<1>7. "sender" \in Range(s) <=> n >= 6
    BY <1>4 DEF Fits
<1> QED
    BY <1>5, <1>6, <1>7

-----------------------------------------------------------------------------
(* The invariant.                                                          *)

Early     == {"args", "wsa", "mf", "adb", "capture", "captured"}
Choosing  == {"hardware", "software", "types", "fallback", "retypes"}
Streams   == {"events", "sender", "loop", "stop"}
Leaving   == {"shutdown", "leave", "exit"}

\* At every stage the stack is as deep as the stage says; when leaving, what is
\* still to be done is the stack from its top.
Shape ==
    /\ wrong = FALSE
    /\ stage \in Early \cup Choosing \cup Streams \cup Leaving
    /\ stage \in {"args", "exit"} => Fits(up, 0)
    /\ stage = "wsa" => Fits(up, 1)
    /\ stage = "mf" => Fits(up, 2)
    /\ stage \in {"adb", "capture"} => Fits(up, 3)
    /\ stage = "captured" => Fits(up, 4)
    /\ stage \in Choosing \cup {"events", "sender"} => Fits(up, 5)
    /\ stage \in {"loop", "stop", "shutdown"} => Fits(up, 6)
    /\ stage = "leave" => \E n \in 0 .. 6 : Fits(up, n) /\ Mirrors(todo, up, n)

USE DEF Early, Choosing, Streams, Leaving

\* Nothing is up when main begins.
LEMMA InitShape == StartupInit => Shape
BY Short DEF StartupInit, Shape

\* `goto cleanup` names all that has been started (main.cpp:269-459).
LEMMA CleanupShape ==
    ASSUME NEW n \in 3 .. 6, Fits(up, n), NEW objects, Objects(objects, up, n),
           NEW code, Cleanup(objects, code), up' = up, wrong' = FALSE
    PROVE  Shape'
<1>1. stage' = "leave"
    BY DEF Cleanup, Leave
<1>2. Mirrors(todo', up', n)
    BY Labelled DEF Cleanup, Leave
<1>3. \E m \in 0 .. 6 : Fits(up', m) /\ Mirrors(todo', up', m)
    BY <1>2
<1> QED
    BY <1>1, <1>3 DEF Shape

\* A start that succeeds.
LEMMA StartedShape ==
    ASSUME NEW n \in 0 .. 5, Fits(up, n), NEW x \in Parts, Follows(n, x),
           NEW s, Started(x, s)
    PROVE  stage' = s /\ Fits(up', n + 1)
BY Grows DEF Started

\* Every step keeps the stack in the order of the code.
LEMMA NextShape == Shape /\ [StartupNext]_allVars => Shape'
<1> SUFFICES ASSUME Shape, [StartupNext]_allVars PROVE Shape'
    OBVIOUS
<1> USE DEF life, mainVars
<1>1. CASE UNCHANGED <<stage, up, todo, wrong>>
    BY <1>1 DEF Shape
<1>2. CASE StartCom
    <2>1. Fits(up, 0) /\ wrong' = FALSE
        BY <1>2 DEF Shape, StartCom
    <2>2. CASE Leave(<<>>, 1) /\ UNCHANGED up
        BY <2>1, <2>2, Short DEF Shape, Leave
    <2>3. CASE Started("com", "wsa")
        <3>1. stage' = "wsa" /\ Fits(up', 0 + 1)
            BY <2>1, <2>3, StartedShape DEF Follows, Parts
        <3> QED
            BY <2>1, <3>1 DEF Shape
    <2> QED
        BY <1>2, <2>2, <2>3 DEF StartCom
<1>3. CASE ListOnly
    <2>1. Fits(up, 1) /\ wrong' = FALSE /\ up' = up
        BY <1>3 DEF Shape, ListOnly
    <2> QED
        BY <1>3, <2>1, Short DEF Shape, ListOnly, Leave
<1>4. CASE StartSubsystems
    <2>0. wrong' = FALSE
        BY <1>4 DEF Shape, StartSubsystems
    <2>1. CASE stage = "wsa" /\ Started("wsa", "mf")
        <3>1. Fits(up, 1)
            BY <2>1 DEF Shape
        <3>2. stage' = "mf" /\ Fits(up', 1 + 1)
            BY <2>1, <3>1, StartedShape DEF Follows, Parts
        <3> QED
            BY <2>0, <3>2 DEF Shape
    <2>2. CASE stage = "wsa" /\ Leave(<<"com">>, 1) /\ UNCHANGED up
        <3>1. Fits(up, 1)
            BY <2>2 DEF Shape
        <3> QED
            BY <2>0, <2>2, <3>1, Short DEF Shape, Leave
    <2>3. CASE stage = "mf" /\ Started("mf", "adb")
        <3>1. Fits(up, 2)
            BY <2>3 DEF Shape
        <3>2. stage' = "adb" /\ Fits(up', 2 + 1)
            BY <2>3, <3>1, StartedShape DEF Follows, Parts
        <3> QED
            BY <2>0, <3>2 DEF Shape
    <2>4. CASE stage = "mf" /\ Leave(<<"wsa", "com">>, 1) /\ UNCHANGED up
        <3>1. Fits(up, 2)
            BY <2>4 DEF Shape
        <3> QED
            BY <2>0, <2>4, <3>1, Short DEF Shape, Leave
    <2> QED
        BY <1>4, <2>1, <2>2, <2>3, <2>4 DEF StartSubsystems
<1>5. CASE SetupAdbForward
    <2>1. Fits(up, 3) /\ wrong' = FALSE /\ up' = up
        BY <1>5 DEF Shape, SetupAdbForward
    <2>2. CASE stage' = "capture"
        BY <2>1, <2>2 DEF Shape
    <2>3. CASE Cleanup(<<>>, 1)
        <3>1. Objects(<<>>, up, 3) /\ 3 \in 3 .. 6
            BY Written
        <3> QED
            BY <2>1, <2>3, <3>1, CleanupShape
    <2> QED
        BY <1>5, <2>2, <2>3 DEF SetupAdbForward
<1>6. CASE InitCapture
    <2>1. Fits(up, 3) /\ wrong' = FALSE
        BY <1>6 DEF Shape, InitCapture
    <2>2. stage' = "captured" /\ Fits(up', 3 + 1)
        BY <1>6, <2>1, StartedShape DEF Follows, Parts, InitCapture
    <2> QED
        BY <2>1, <2>2 DEF Shape
<1>7. CASE CaptureInitialized
    <2>1. Fits(up, 4) /\ wrong' = FALSE
        BY <1>7 DEF Shape, CaptureInitialized
    <2>2. CASE stage' = "hardware" /\ up' = Append(up, "encoder")
        <3>1. Fits(up', 4 + 1)
            BY <2>1, <2>2, Grows DEF Follows, Parts
        <3> QED
            BY <2>1, <2>2, <3>1 DEF Shape
    <2>3. CASE Cleanup(<<"capture">>, 1) /\ UNCHANGED up
        <3>1. Objects(<<"capture">>, up, 4) /\ 4 \in 3 .. 6
            BY <2>1, Written
        <3> QED
            BY <2>1, <2>3, <3>1, CleanupShape
    <2> QED
        BY <1>7, <2>2, <2>3 DEF CaptureInitialized
<1>8. CASE Initialize
    <2>1. stage \in Choosing \cup {"events"}
        BY <1>8 DEF Initialize, NoDeviceManager, SkipTransform, TakeTransform, NoneLeft,
                    TypesAccepted, TypesRefused, FallBack, BeginStreaming
    <2>2. Fits(up, 5) /\ wrong = FALSE
        BY <2>1 DEF Shape
    <2>3. \/ Fails
          \/ stage' \in Choosing \cup {"events", "sender"} /\ UNCHANGED life
        BY <1>8, <2>1
        DEF Initialize, NoDeviceManager, SkipTransform, TakeTransform, NoneLeft,
            TypesAccepted, TypesRefused, FallBack, BeginStreaming, Going
    <2>4. CASE Fails
        <3>1. up' = up /\ wrong' = FALSE
            BY <2>2, <2>4 DEF Fails
        <3> QED
            <4>1. Objects(<<"encoder", "capture">>, up, 5) /\ 5 \in 3 .. 6
                BY <2>2, Written
            <4>2. Cleanup(<<"encoder", "capture">>, 1)
                BY <2>4 DEF Fails
            <4> QED
                BY <2>2, <3>1, <4>1, <4>2, CleanupShape
    <2>5. CASE stage' \in Choosing \cup {"events", "sender"} /\ UNCHANGED life
        BY <2>2, <2>5 DEF Shape
    <2> QED
        BY <2>3, <2>4, <2>5
<1>9. CASE StartSender
    <2>1. Fits(up, 5) /\ wrong' = FALSE
        BY <1>9 DEF Shape, StartSender
    <2>2. stage' = "loop" /\ Fits(up', 5 + 1)
        BY <1>9, <2>1, StartedShape DEF Follows, Parts, StartSender
    <2> QED
        BY <2>1, <2>2 DEF Shape
<1>10. CASE EndLoop \/ StopSender
    BY <1>10 DEF Shape, EndLoop, StopSender
<1>11. CASE ShutdownReturns
    <2>1. Fits(up, 6) /\ wrong' = FALSE /\ up' = up
        BY <1>11 DEF Shape, ShutdownReturns
    <2>2. Cleanup(<<"sender", "encoder", "capture">>, 0)
        BY <1>11 DEF ShutdownReturns
    <2>3. Objects(<<"sender", "encoder", "capture">>, up, 6) /\ 6 \in 3 .. 6
        BY <2>1, Written
    <2> QED
        BY <2>1, <2>2, <2>3, CleanupShape
<1>12. CASE End
    <2>1. PICK n \in 0 .. 6 : Fits(up, n) /\ Mirrors(todo, up, n)
        BY <1>12 DEF Shape, End
    <2>2. todo # <<>>
        BY <1>12 DEF End
    <2>3. /\ n \in 1 .. 6 /\ Head(todo) = up[n] /\ up # <<>> /\ Last(up) = up[n]
          /\ Fits(Front(up), n - 1) /\ Mirrors(Tail(todo), Front(up), n - 1)
        BY <2>1, <2>2, Popped
    <2>4. wrong = FALSE
        BY DEF Shape
    <2>5. wrong' = FALSE
        BY <1>12, <2>3, <2>4 DEF End, Victim
    <2>6. up' = Front(up) /\ todo' = Tail(todo) /\ stage' = "leave"
        BY <1>12 DEF End
    <2>7. n - 1 \in 0 .. 6
        BY <2>3
    <2>8. \E m \in 0 .. 6 : Fits(up', m) /\ Mirrors(todo', up', m)
        BY <2>3, <2>6, <2>7
    <2> QED
        BY <2>5, <2>6, <2>8 DEF Shape
<1>13. CASE Return
    <2>1. PICK n \in 0 .. 6 : Fits(up, n) /\ Mirrors(todo, up, n)
        BY <1>13 DEF Shape, Return
    <2>2. todo = <<>>
        BY <1>13 DEF Return
    <2>3. n = 0
        BY <2>1, <2>2 DEF Mirrors
    <2> QED
        BY <1>13, <2>1, <2>3 DEF Shape, Return
<1>14. CASE AskForKeyFrame \/ KeyFrameAsked
    BY <1>1, <1>14 DEF AskForKeyFrame, KeyFrameAsked
<1>15. CASE Encodes
    BY <1>1, <1>15 DEF Encodes
<1>16. CASE UNCHANGED allVars
    BY <1>1, <1>16 DEF allVars
<1> QED
    BY <1>2, <1>3, <1>4, <1>5, <1>6, <1>7, <1>8, <1>9, <1>10, <1>11, <1>12, <1>13,
       <1>14, <1>15, <1>16 DEF StartupNext, Main

-----------------------------------------------------------------------------
(* The encoder while main lives.                                           *)

Pcs    == {"idle", "slot", "sync", "uncall", "flush", "sleep", "release", "down"}
Late   == {"uncall", "flush", "sleep", "release", "down"}

\* When there is a transform, when it runs, and where SubmitFrame and Shutdown
\* may be.
Engine ==
    /\ pc \in Pcs
    /\ stage \in Streams => running
    /\ running => transform /\ stage \in Streams \cup {"shutdown", "leave"}
    /\ running => pc \notin Late
    /\ stage \in {"types", "retypes"} => transform
    /\ stage \in Early \cup {"exit"} => ~transform
    /\ stage = "leave" /\ transform => Fits(up, 5)
    /\ stage \in Early \cup Choosing \cup {"events", "sender", "stop"} => pc = "idle"
    /\ stage = "loop" => pc \in {"idle", "slot", "sync"}
    /\ stage # "loop" => pc \notin {"slot", "sync"}
    /\ pc \in {"uncall", "flush", "sleep", "release"} => transform
    /\ pc = "down" => ~transform
    /\ asking => stage \in {"loop", "stop"}
    /\ callback => stage \in {"loop", "stop", "shutdown"}
    /\ pc \in {"flush", "sleep", "release", "down"} => ~callback

\* The work queue is idle before streaming begins and, but for what outlasted
\* the sleep, once Shutdown has slept.
Waited ==
    /\ at \in [Workers -> Places]
    /\ pc \in {"release", "down"} => outlasted \/ \A w \in Workers : at[w] = "idle"
    /\ pc = "idle" /\ ~running => \A w \in Workers : at[w] = "idle"

USE DEF Pcs, Late, Places

\* There is no encoder yet.
LEMMA InitEngine == StartupInit => Engine /\ Waited
<1>1. StartupInit => Engine
    BY DEF StartupInit, Engine
<1>2. StartupInit => Waited
    BY DEF StartupInit, Waited
<1> QED
    BY <1>1, <1>2

\* While there is a transform the encoder is next to be ended.
LEMMA Emptied ==
    ASSUME Shape, stage = "leave", Fits(up, 5)
    PROVE  todo # <<>> /\ Victim = "encoder"
<1>1. PICK n \in 0 .. 6 : Fits(up, n) /\ Mirrors(todo, up, n)
    BY DEF Shape
<1>2. n = 5
    BY <1>1 DEF Fits
<1>3. todo # <<>>
    <2>1. Len(todo) = 5
        BY <1>1, <1>2 DEF Mirrors
    <2>2. Len(<<>>) = 0
        OBVIOUS
    <2> QED
        BY <2>1, <2>2
<1>4. Head(todo) = up[5]
    BY <1>1, <1>2, <1>3, Popped
<1>5. up[5] = "encoder"
    BY DEF Fits
<1> QED
    BY <1>3, <1>4, <1>5 DEF Victim

\* What main does to the encoder from outside.
LEMMA NextEngineMain == Shape /\ Engine /\ Main => Engine'
<1> SUFFICES ASSUME Shape, Engine, Main PROVE Engine'
    OBVIOUS
<1> USE DEF life, main, object, encoder, vars, choice, Leave, Cleanup, Started, Fails,
            Going, Quiet
<1>1. CASE StartCom
    BY <1>1 DEF Engine, StartCom
<1>2. CASE ListOnly
    BY <1>2 DEF Engine, ListOnly
<1>3. CASE StartSubsystems
    BY <1>3 DEF Engine, StartSubsystems
<1>4. CASE SetupAdbForward
    BY <1>4 DEF Engine, SetupAdbForward
<1>5. CASE InitCapture
    BY <1>5 DEF Engine, InitCapture
<1>6. CASE CaptureInitialized
    BY <1>6 DEF Engine, CaptureInitialized
<1>7. CASE Initialize
    <2>1. stage \in Choosing \cup {"events"} => Fits(up, 5)
        BY DEF Shape
    <2>2. CASE NoDeviceManager
        BY <2>1, <2>2 DEF Engine, NoDeviceManager
    <2>3. CASE SkipTransform
        BY <2>1, <2>3 DEF Engine, SkipTransform
    <2>4. CASE TakeTransform
        BY <2>1, <2>4 DEF Engine, TakeTransform
    <2>5. CASE NoneLeft
        BY <2>1, <2>5 DEF Engine, NoneLeft
    <2>6. CASE TypesAccepted
        BY <2>1, <2>6 DEF Engine, TypesAccepted
    <2>7. CASE TypesRefused
        BY <2>1, <2>7 DEF Engine, TypesRefused
    <2>8. CASE FallBack
        BY <2>1, <2>8 DEF Engine, FallBack
    <2>9. CASE BeginStreaming
        BY <2>1, <2>9 DEF Engine, BeginStreaming
    <2> QED
        BY <1>7, <2>2, <2>3, <2>4, <2>5, <2>6, <2>7, <2>8, <2>9 DEF Initialize
<1>8. CASE StartSender
    BY <1>8 DEF Engine, StartSender
<1>9. CASE EndLoop
    BY <1>9 DEF Engine, EndLoop
<1>10. CASE StopSender
    BY <1>10 DEF Engine, StopSender
<1>11. CASE ShutdownReturns
    BY <1>11 DEF Engine, ShutdownReturns
<1>12. CASE End
    <2>1. stage = "leave" /\ stage' = "leave"
        BY <1>12 DEF End
    <2>2. transform => Victim = "encoder"
        BY <1>12, <2>1, Emptied DEF Engine, End
    <2>3. ~transform' /\ ~running
        BY <1>12, <2>2 DEF Engine, End
    <2>4. pc \notin {"uncall", "flush", "sleep", "release"}
        BY <1>12, <2>2 DEF Engine, End
    <2>5. UNCHANGED <<pc, running, callback, asking>>
        BY <1>12 DEF End
    <2> QED
        BY <2>1, <2>3, <2>4, <2>5 DEF Engine
<1>13. CASE Return
    <2>1. /\ stage = "leave" /\ stage' = "exit"
          /\ UNCHANGED <<pc, running, transform, callback, asking>>
        BY <1>13 DEF Return
    <2>2. ~transform
        BY <1>13, <2>1, Emptied DEF Engine, Return
    <2> QED
        BY <2>1, <2>2 DEF Engine
<1> QED
    BY <1>1, <1>2, <1>3, <1>4, <1>5, <1>6, <1>7, <1>8, <1>9, <1>10, <1>11, <1>12, <1>13
    DEF Main

\* SubmitFrame and Shutdown one after the other, both on main's thread.
LEMMA NextEngineEncodes == Shape /\ Engine /\ Encodes => Engine'
<1> SUFFICES ASSUME Shape, Engine, Encodes PROVE Engine'
    OBVIOUS
<1> USE DEF life, main, object, choice, mainVars
<1>0. UNCHANGED mainVars
    BY DEF Encodes
<1>1. CASE UNCHANGED <<pc, running, callback, transform>>
    BY <1>0, <1>1 DEF Engine
<1>2. CASE Submits
    <2>1. stage = "loop"
        BY <1>2 DEF Submits
    <2>2. UNCHANGED <<running, callback, transform>>
        BY <1>2 DEF Submits, Submit, SubmitFrame, SubmitAsync, SubmitSync
    <2>3. pc' \in {"idle", "slot", "sync"}
        BY <1>2 DEF Submits, Submit, SubmitFrame, SubmitAsync, SubmitSync
    <2> QED
        BY <1>0, <2>1, <2>2, <2>3 DEF Engine
<1>3. CASE ShutsDown
    <2>1. stage = "shutdown" \/ stage = "leave"
        BY <1>3 DEF ShutsDown
    <2>2. CASE ShutdownCall
        BY <1>0, <2>1, <2>2 DEF Engine, ShutdownCall
    <2>3. CASE ClearCallback
        BY <1>0, <2>1, <2>3 DEF Engine, ClearCallback
    <2>4. CASE Flush
        BY <1>0, <2>1, <2>4 DEF Engine, Flush
    <2>5. CASE ClearSlot
        BY <1>0, <2>1, <2>5 DEF Engine, ClearSlot
    <2>6. CASE Release
        BY <1>0, <2>1, <2>6 DEF Engine, Release
    <2> QED
        BY <1>3, <2>2, <2>3, <2>4, <2>5, <2>6 DEF ShutsDown, Shutdown
<1>4. CASE Transforms
    BY <1>1, <1>4 DEF Transforms, Transform, AskForInput, Encode
<1>5. ASSUME NEW w \in Workers, WorkQueue(w) PROVE Engine'
    BY <1>1, <1>5 DEF WorkQueue, Invoke, Rearm, NeedInput, PullOutput, DeliverBitstream,
                      CallBack
<1> QED
    BY <1>2, <1>3, <1>4, <1>5 DEF Encodes

\* Both, and the sender's thread.
LEMMA NextEngine == Shape /\ Engine /\ [StartupNext]_allVars => Engine'
<1> SUFFICES ASSUME Shape, Engine, [StartupNext]_allVars PROVE Engine'
    OBVIOUS
<1> USE DEF life, main, object, encoder, vars, choice
<1>1. CASE AskForKeyFrame
    BY <1>1 DEF Engine, AskForKeyFrame
<1>2. CASE KeyFrameAsked
    BY <1>2 DEF Engine, KeyFrameAsked
<1>3. CASE UNCHANGED allVars
    BY <1>3 DEF Engine, allVars, mainVars
<1> QED
    BY <1>1, <1>2, <1>3, NextEngineMain, NextEngineEncodes DEF StartupNext

\* A thread that is idle when Shutdown has slept stays idle.
LEMMA NextWaited == Engine /\ Waited /\ [StartupNext]_allVars => Waited'
<1> SUFFICES ASSUME Engine, Waited, [StartupNext]_allVars PROVE Waited'
    OBVIOUS
<1> USE DEF Waited, main, object, encoder, vars, mainVars, invoke, history
<1>1. CASE UNCHANGED <<pc, running, at, outlasted>>
    BY <1>1
<1>2. CASE StartCom \/ ListOnly \/ StartSubsystems \/ SetupAdbForward \/ InitCapture
           \/ CaptureInitialized
    BY <1>1, <1>2 DEF StartCom, ListOnly, StartSubsystems, SetupAdbForward, InitCapture,
                      CaptureInitialized
<1>3. CASE Initialize
    <2>1. UNCHANGED <<pc, at, outlasted>> /\ (running' = running \/ running' = TRUE)
        BY <1>3 DEF Initialize, NoDeviceManager, SkipTransform, TakeTransform, NoneLeft,
                    TypesAccepted, TypesRefused, FallBack, BeginStreaming, Quiet
    <2> QED
        BY <2>1
<1>4. CASE StartSender \/ EndLoop \/ StopSender \/ ShutdownReturns \/ End \/ Return
           \/ AskForKeyFrame \/ KeyFrameAsked
    BY <1>1, <1>4 DEF StartSender, EndLoop, StopSender, ShutdownReturns, End, Return,
                      AskForKeyFrame, KeyFrameAsked
<1>5. CASE Submits
    <2>1. running /\ pc' \notin {"release", "down"} /\ UNCHANGED <<running, at>>
        BY <1>5 DEF Engine, Submits, Submit, SubmitFrame, SubmitAsync, SubmitSync
    <2> QED
        BY <2>1
<1>6. CASE ShutsDown
    <2>1. CASE ShutdownCall \/ ClearCallback \/ Flush
        BY <2>1 DEF ShutdownCall, ClearCallback, Flush
    <2>2. CASE ClearSlot
        BY <2>2 DEF ClearSlot
    <2>3. CASE Release
        BY <2>3 DEF Release
    <2> QED
        BY <1>6, <2>1, <2>2, <2>3 DEF ShutsDown, Shutdown
<1>7. CASE Transforms
    BY <1>1, <1>7 DEF Transforms, Transform, AskForInput, Encode
<1>8. ASSUME NEW w \in Workers, Invoke(w) PROVE Waited'
    <2>1. CASE running
        <3>1. pc \notin {"release", "down"}
            BY <2>1 DEF Engine
        <3>2. UNCHANGED <<pc, running>> /\ at' \in [Workers -> Places]
            BY <1>8 DEF Invoke, Goto
        <3> QED
            BY <2>1, <3>1, <3>2
    <2>2. CASE ~running
        <3>1. UNCHANGED <<pc, running, at, outlasted>>
            BY <1>8, <2>2 DEF Invoke, Goto
        <3> QED
            BY <1>1, <3>1
    <2> QED
        BY <2>1, <2>2
<1>9. ASSUME NEW w \in Workers,
             Rearm(w) \/ NeedInput(w) \/ PullOutput(w) \/ DeliverBitstream(w) \/ CallBack(w)
      PROVE  Waited'
    <2>1. at[w] # "idle" /\ UNCHANGED <<pc, running, outlasted>>
        BY <1>9 DEF Rearm, NeedInput, PullOutput, DeliverBitstream, CallBack
    <2>2. at' \in [Workers -> Places]
        BY <1>9 DEF Rearm, NeedInput, PullOutput, DeliverBitstream, CallBack, Goto
    <2> QED
        BY <2>1, <2>2
<1>10. CASE UNCHANGED allVars
    BY <1>1, <1>10 DEF allVars
<1> QED
    BY <1>2, <1>3, <1>4, <1>5, <1>6, <1>7, <1>8, <1>9, <1>10
    DEF StartupNext, Main, Encodes, WorkQueue

-----------------------------------------------------------------------------
(* The transform that was chosen.                                          *)

Mft == [async : BOOLEAN, unlocked : BOOLEAN, manager : BOOLEAN, typed : BOOLEAN,
        events : BOOLEAN]

\* What is known of the transform at each stage of Initialize; isHardware_ and
\* isAsync_ go on describing it when it is replaced.
Chosen ==
    /\ mft \in Mft /\ isHardware \in BOOLEAN /\ isAsync \in BOOLEAN
    /\ stage \in {"types", "events", "sender", "loop", "stop", "shutdown"} =>
          mft.manager = isHardware /\ mft.async = isAsync /\ mft.unlocked = isAsync
    /\ stage \in {"events", "sender", "loop", "stop", "shutdown"} => mft.typed = TRUE
    /\ stage \in {"sender", "loop", "stop", "shutdown"} => mft.events = isAsync
    /\ stage \in {"fallback", "retypes"} => mft = NoMft /\ isHardware = FALSE
    /\ stage = "retypes" => isAsync = FALSE

\* No transform has been chosen.
LEMMA InitChosen == StartupInit => Chosen
<1> SUFFICES ASSUME StartupInit PROVE Chosen
    OBVIOUS
<1>1. NoMft \in Mft
    BY DEF NoMft, Mft
<1>2. stage = "args" /\ mft = NoMft /\ isHardware = FALSE /\ isAsync = FALSE
    BY DEF StartupInit
<1> QED
    BY <1>1, <1>2 DEF Chosen

\* Only Initialize changes what is chosen, and its type.
LEMMA InitializeChosen == Chosen /\ Initialize => Chosen'
<1> SUFFICES ASSUME Chosen, Initialize PROVE Chosen'
    OBVIOUS
<1> USE DEF life, encoder, vars, choice, Leave, Cleanup, Fails, Going, Quiet
<1>1. CASE NoDeviceManager
    BY <1>1 DEF Chosen, NoDeviceManager
<1>2. CASE SkipTransform
    BY <1>2 DEF Chosen, SkipTransform
<1>3. CASE TakeTransform
    <2>1. PICK async \in BOOLEAN :
              /\ isAsync' = async
              /\ mft' = [NoMft EXCEPT !.async = async, !.unlocked = async,
                                      !.manager = (stage = "hardware")]
        BY <1>3 DEF TakeTransform
    <2>2. isHardware' = (stage = "hardware") /\ stage' = "types"
        BY <1>3 DEF TakeTransform
    <2>3. mft' = [async |-> async, unlocked |-> async, manager |-> (stage = "hardware"),
                  typed |-> FALSE, events |-> FALSE]
        BY <2>1 DEF NoMft
    <2>4. mft'.manager = isHardware' /\ mft'.async = isAsync' /\ mft'.unlocked = isAsync'
        BY <2>1, <2>2, <2>3
    <2>5. mft' \in Mft
        <3>1. PICK m \in BOOLEAN : m = (stage = "hardware")
            OBVIOUS
        <3>2. mft' = [async |-> async, unlocked |-> async, manager |-> m,
                      typed |-> FALSE, events |-> FALSE]
            BY <2>3, <3>1
        <3> QED
            BY <3>2 DEF Mft
    <2>6. isHardware' \in BOOLEAN /\ isAsync' \in BOOLEAN
        BY <2>1, <2>2
    <2> QED
        BY <2>2, <2>4, <2>5, <2>6 DEF Chosen
<1>4. CASE NoneLeft
    BY <1>4 DEF Chosen, NoneLeft
<1>5. CASE TypesAccepted
    <2>1. /\ stage \in {"types", "retypes"} /\ stage' = "events"
          /\ UNCHANGED <<isHardware, isAsync>>
        BY <1>5 DEF TypesAccepted
    <2>2. mft' = [mft EXCEPT !.typed = TRUE]
        BY <1>5 DEF TypesAccepted
    <2>3. mft \in Mft
        BY DEF Chosen
    <2>4. mft' \in Mft /\ mft'.typed = TRUE
        BY <2>2, <2>3 DEF Mft
    <2>5. mft'.manager = mft.manager /\ mft'.async = mft.async /\ mft'.unlocked = mft.unlocked
        BY <2>2, <2>3 DEF Mft
    <2>6. mft.manager = isHardware /\ mft.async = isAsync /\ mft.unlocked = isAsync
        <3>1. CASE stage = "types"
            BY <3>1 DEF Chosen
        <3>2. CASE stage = "retypes"
            <4>1. mft = NoMft /\ isHardware = FALSE /\ isAsync = FALSE
                BY <3>2 DEF Chosen
            <4> QED
                BY <4>1 DEF NoMft
        <3> QED
            BY <2>1, <3>1, <3>2
    <2> QED
        BY <2>1, <2>4, <2>5, <2>6 DEF Chosen
<1>6. CASE TypesRefused
    <2>1. \/ stage' = "leave" /\ UNCHANGED <<mft, isHardware, isAsync>>
          \/ stage' = "fallback" /\ mft' = NoMft /\ isHardware' = FALSE /\ isAsync' = isAsync
        BY <1>6 DEF TypesRefused
    <2>2. NoMft \in Mft
        BY DEF NoMft, Mft
    <2> QED
        BY <2>1, <2>2 DEF Chosen
<1>7. CASE FallBack
    <2>1. /\ stage = "fallback" /\ UNCHANGED <<mft, isHardware>>
          /\ \/ stage' = "retypes" /\ isAsync' = FALSE
             \/ stage' = "leave" /\ isAsync' = isAsync
        BY <1>7 DEF FallBack
    <2> QED
        BY <2>1 DEF Chosen
<1>8. CASE BeginStreaming
    <2>1. stage = "events" /\ UNCHANGED <<isHardware, isAsync>>
        BY <1>8 DEF BeginStreaming
    <2>2. CASE stage' = "leave" /\ mft' = mft
        BY <2>1, <2>2 DEF Chosen
    <2>3. CASE stage' = "sender" /\ mft' = [mft EXCEPT !.events = isAsync]
        <3>1. mft \in Mft /\ isAsync \in BOOLEAN
            BY DEF Chosen
        <3>2. mft' \in Mft /\ mft'.events = isAsync
            BY <2>3, <3>1 DEF Mft
        <3>3. mft'.manager = mft.manager /\ mft'.async = mft.async
              /\ mft'.unlocked = mft.unlocked /\ mft'.typed = mft.typed
            BY <2>3, <3>1 DEF Mft
        <3>4. mft.manager = isHardware /\ mft.async = isAsync /\ mft.unlocked = isAsync
              /\ mft.typed = TRUE
            BY <2>1 DEF Chosen
        <3> QED
            BY <2>1, <2>3, <3>1, <3>2, <3>3, <3>4 DEF Chosen
    <2> QED
        BY <1>8, <2>2, <2>3 DEF BeginStreaming
<1> QED
    BY <1>1, <1>2, <1>3, <1>4, <1>5, <1>6, <1>7, <1>8 DEF Initialize

\* Every step keeps what is known of the transform.
LEMMA NextChosen == Chosen /\ [StartupNext]_allVars => Chosen'
<1> SUFFICES ASSUME Chosen, [StartupNext]_allVars PROVE Chosen'
    OBVIOUS
<1> USE DEF life, encoder, vars, choice, mainVars, Leave, Cleanup, Started
<1>1. CASE StartCom \/ ListOnly \/ StartSubsystems \/ SetupAdbForward \/ InitCapture
    BY <1>1 DEF Chosen, StartCom, ListOnly, StartSubsystems, SetupAdbForward, InitCapture
<1>2. CASE CaptureInitialized
    BY <1>2 DEF Chosen, CaptureInitialized
<1>3. CASE StartSender
    BY <1>3 DEF Chosen, StartSender
<1>4. CASE EndLoop \/ StopSender \/ ShutdownReturns \/ End \/ Return
           \/ AskForKeyFrame \/ KeyFrameAsked
    BY <1>4 DEF Chosen, EndLoop, StopSender, ShutdownReturns, End, Return, AskForKeyFrame,
                KeyFrameAsked
<1>5. CASE Encodes
    <2>1. UNCHANGED <<stage, mft, isHardware>>
        BY <1>5 DEF Encodes
    <2>2. isAsync' = isAsync
        BY <1>5 DEF Encodes, Submits, Submit, SubmitFrame, SubmitAsync, SubmitSync, ShutsDown,
           Shutdown, ShutdownCall, ClearCallback, Flush, ClearSlot, Release, Transforms,
           Transform, AskForInput, Encode, WorkQueue, Invoke, Rearm, NeedInput, PullOutput,
           DeliverBitstream, CallBack
    <2> QED
        BY <2>1, <2>2 DEF Chosen
<1>6. CASE UNCHANGED allVars
    BY <1>6 DEF Chosen, allVars
<1> QED
    BY <1>1, <1>2, <1>3, <1>4, <1>5, <1>6, InitializeChosen DEF StartupNext, Main

-----------------------------------------------------------------------------
(* The theorems.                                                           *)

Sound == Shape /\ Engine /\ Waited /\ Chosen

\* The invariant holds in every reachable state.
THEOREM SoundAlways == StartupSpec => []Sound
<1>1. StartupInit => Sound
    BY InitShape, InitEngine, InitChosen DEF Sound
<1>2. Sound /\ [StartupNext]_allVars => Sound'
    BY NextShape, NextEngine, NextWaited, NextChosen DEF Sound
<1> QED
    BY <1>1, <1>2, PTL DEF StartupSpec

\* Whichever start fails, what was started is ended, each once, the newest
\* first, and the program does not return before (main.cpp:269-459).
THEOREM EndedInReverse == StartupSpec => []Unwound
<1>1. Sound => Unwound
    <2> SUFFICES ASSUME Sound PROVE Unwound
        OBVIOUS
    <2>1. ~wrong
        BY DEF Sound, Shape
    <2>2. ASSUME stage = "exit" PROVE up = <<>> /\ ~transform /\ ~running
        <3>1. up = <<>>
            <4>1. Fits(up, 0)
                BY <2>2 DEF Sound, Shape
            <4>2. up \in Seq(Parts)
                BY <4>1 DEF Fits
            <4>3. Len(up) = 0
                BY <4>1 DEF Fits
            <4> QED
                BY <4>2, <4>3
        <3>2. ~transform /\ ~running
            BY <2>2 DEF Sound, Engine
        <3> QED
            BY <3>1, <3>2
    <2> QED
        BY <2>1, <2>2 DEF Unwound
<1> QED
    BY SoundAlways, <1>1, PTL

\* How deep the stack is while there is a transform.
LEMMA Depth ==
    ASSUME Sound, transform
    PROVE  /\ Fits(up, 5) \/ Fits(up, 6)
           /\ Fits(up, 6) => stage \in {"loop", "stop", "shutdown"}
<1>1. stage \notin Early \cup {"exit"}
    BY DEF Sound, Engine
<1>2. CASE stage \in Choosing \cup {"events", "sender"}
    <2>1. Fits(up, 5)
        BY <1>2 DEF Sound, Shape
    <2>2. ~Fits(up, 6)
        BY <2>1 DEF Fits
    <2> QED
        BY <2>1, <2>2
<1>3. CASE stage \in {"loop", "stop", "shutdown"}
    BY <1>3 DEF Sound, Shape
<1>4. CASE stage = "leave"
    <2>1. Fits(up, 5)
        BY <1>4 DEF Sound, Engine
    <2>2. ~Fits(up, 6)
        BY <2>1 DEF Fits
    <2> QED
        BY <2>1, <2>2
<1> QED
    BY <1>1, <1>2, <1>3, <1>4 DEF Sound, Shape

\* Nobody calls what has ended: Invoke finds a transform, unless it outlasted
\* Shutdown's sleep, and a sender, the sender's thread an encoder that has a
\* transform, and no transform outlives Media Foundation (main.cpp:432-433 and
\* the order of the declarations).
THEOREM NoneCallsTheDead == StartupSpec => []Alive
<1>1. Sound => Alive
    <2> SUFFICES ASSUME Sound PROVE Alive
        OBVIOUS
    <2>1. transform => "mf" \in Range(up) /\ "encoder" \in Range(up)
        BY Depth, Members
    <2>2. ASSUME NEW w \in Workers, at[w] # "idle" PROVE outlasted \/ transform
        BY <2>2 DEF Sound, Engine, Waited
    <2>3. ASSUME NEW w \in Workers, at[w] = "call", callback PROVE "sender" \in Range(up)
        <3>1. stage \in {"loop", "stop", "shutdown"}
            BY <2>3 DEF Sound, Engine
        <3>2. Fits(up, 6)
            BY <3>1 DEF Sound, Shape
        <3> QED
            BY <3>2, Members
    <2>4. asking => transform
        BY DEF Sound, Engine
    <2> QED
        BY <2>1, <2>2, <2>3, <2>4 DEF Alive
<1> QED
    BY SoundAlways, <1>1, PTL

\* However the transform was found, refused or replaced, the one that streams
\* has been set up for what it is (encoder.cpp:158-183, 387-444).
THEOREM SetUpForWhatItIs == StartupSpec => []Usable
<1>1. Sound => Usable
    <2> SUFFICES ASSUME Sound, "sender" \in Range(up), transform
                 PROVE  /\ mft.typed
                        /\ isHardware <=> mft.manager
                        /\ isAsync <=> mft.async
                        /\ mft.async => mft.unlocked /\ mft.events
        BY DEF Usable
    <2>1. Fits(up, 6)
        BY Depth, Members
    <2>2. stage \in {"loop", "stop", "shutdown"}
        BY <2>1, Depth
    <2> QED
        BY <2>2 DEF Sound, Chosen
<1> QED
    BY SoundAlways, <1>1, PTL

\* The slot and the requests meet in TryFeedLocked only; main does not touch them.
LEMMA NextFed ==
    Kept /\ NoIdleRequest /\ [StartupNext]_allVars => NoIdleRequest' /\ needInput' \in Nat
<1> SUFFICES ASSUME Kept, NoIdleRequest, [StartupNext]_allVars
             PROVE  NoIdleRequest' /\ needInput' \in Nat
    OBVIOUS
<1> USE DEF slot, encoder, vars
<1>1. CASE UNCHANGED slot
    BY <1>1 DEF Kept, NoIdleRequest
<1>2. CASE Encodes
    <2>1. Next
        BY <1>2 DEF Encodes, Next, Submits, ShutsDown, Transforms
    <2> QED
        BY <2>1, NextSlot
<1>3. CASE Main
    BY <1>1, <1>3
    DEF Main, StartCom, ListOnly, StartSubsystems, SetupAdbForward, InitCapture,
        CaptureInitialized, Initialize, NoDeviceManager, SkipTransform, TakeTransform,
        NoneLeft, TypesAccepted, TypesRefused, FallBack, BeginStreaming, Quiet, StartSender,
        EndLoop, StopSender, ShutdownReturns, End, Return
<1>4. CASE AskForKeyFrame \/ KeyFrameAsked
    BY <1>1, <1>4 DEF AskForKeyFrame, KeyFrameAsked
<1>5. CASE UNCHANGED allVars
    BY <1>1, <1>5 DEF allVars
<1> QED
    BY <1>2, <1>3, <1>4, <1>5 DEF StartupNext

\* A frame and a request never wait for each other, whatever main does around
\* the encoder (encoder.cpp:509-521).
THEOREM NoneWaitsFromStartToEnd == StartupSpec => []NoIdleRequest
<1> DEFINE Inv == Sound /\ NoIdleRequest /\ needInput \in Nat
<1>1. StartupInit => Inv
    <2>1. StartupInit => NoIdleRequest /\ needInput \in Nat
        BY DEF StartupInit, NoIdleRequest
    <2> QED
        BY <2>1, InitShape, InitEngine, InitChosen DEF Sound
<1>2. Inv /\ [StartupNext]_allVars => Inv'
    <2> SUFFICES ASSUME Inv, [StartupNext]_allVars PROVE Inv'
        OBVIOUS
    <2>1. Kept
        BY DEF Kept, Sound, Waited
    <2>2. Sound'
        BY NextShape, NextEngine, NextWaited, NextChosen DEF Sound
    <2>3. NoIdleRequest' /\ needInput' \in Nat
        BY <2>1, NextFed
    <2> QED
        BY <2>2, <2>3
<1>3. Inv => NoIdleRequest
    OBVIOUS
<1> QED
    BY <1>1, <1>2, <1>3, PTL DEF StartupSpec

-----------------------------------------------------------------------------
(* Frames in their order.                                                  *)

\* s ascends from above lo up to hi at most.
Chain(lo, s, hi) ==
    /\ s \in Seq(Int)
    /\ lo <= hi
    /\ \A i, j \in 1 .. Len(s) : i < j => s[i] < s[j]
    /\ \A i \in 1 .. Len(s) : lo < s[i] /\ s[i] <= hi

\* Nothing but its bounds is needed of an empty one.
LEMMA ChainEmpty ==
    ASSUME NEW lo \in Int, NEW hi \in Int, lo <= hi
    PROVE  Chain(lo, <<>>, hi)
BY DEF Chain

\* The bounds may be wider.
LEMMA ChainWiden ==
    ASSUME NEW lo \in Int, NEW hi \in Int, NEW s, Chain(lo, s, hi),
           NEW a \in Int, NEW b \in Int, a <= lo, hi <= b
    PROVE  Chain(a, s, b)
<1>1. s \in Seq(Int)
    BY DEF Chain
<1>2. \A i \in 1 .. Len(s) : s[i] \in Int
    BY <1>1
<1>3. \A i \in 1 .. Len(s) : a < s[i] /\ s[i] <= b
    BY <1>2 DEF Chain
<1>4. a <= b
    BY DEF Chain
<1> QED
    BY <1>1, <1>3, <1>4 DEF Chain

\* One frame.
LEMMA ChainOne ==
    ASSUME NEW lo \in Int, NEW x \in Int, lo < x
    PROVE  Chain(lo, <<x>>, x)
<1>1. <<x>> \in Seq(Int) /\ Len(<<x>>) = 1 /\ <<x>>[1] = x
    OBVIOUS
<1>2. \A i, j \in 1 .. 1 : ~(i < j)
    OBVIOUS
<1>3. \A i \in 1 .. 1 : i = 1
    OBVIOUS
<1> QED
    BY <1>1, <1>2, <1>3 DEF Chain

\* One after the other.
LEMMA ChainJoin ==
    ASSUME NEW lo \in Int, NEW mid \in Int, NEW hi \in Int, NEW s, NEW t,
           Chain(lo, s, mid), Chain(mid, t, hi)
    PROVE  Chain(lo, s \o t, hi)
<1> DEFINE c == s \o t
           k == Len(s)
<1>1. s \in Seq(Int) /\ t \in Seq(Int)
    BY DEF Chain
<1>2. c \in Seq(Int) /\ k \in Nat /\ Len(t) \in Nat /\ Len(c) = k + Len(t)
    BY <1>1
<1>3. \A i \in 1 .. k : c[i] = s[i]
    BY <1>1
<1>4. \A i \in 1 .. Len(c) : i > k => c[i] = t[i - k]
    BY <1>1
<1> HIDE DEF c
<1>5. \A i \in 1 .. Len(c) : \/ i \in 1 .. k /\ c[i] = s[i]
                             \/ i - k \in 1 .. Len(t) /\ c[i] = t[i - k]
    <2> TAKE i \in 1 .. Len(c)
    <2>1. CASE i <= k
        BY <1>2, <1>3, <2>1 DEF k
    <2>2. CASE i > k
        <3>1. i - k \in 1 .. Len(t)
            BY <1>2, <2>2
        <3> QED
            BY <1>4, <2>2, <3>1
    <2>3. i <= k \/ i > k
        BY <1>2
    <2> QED
        BY <2>1, <2>2, <2>3
<1>6. \A i \in 1 .. k : s[i] \in Int /\ lo < s[i] /\ s[i] <= mid
    BY <1>1 DEF Chain, k
<1>7. \A i \in 1 .. Len(t) : t[i] \in Int /\ mid < t[i] /\ t[i] <= hi
    BY <1>1 DEF Chain
<1>8. lo <= mid /\ mid <= hi
    BY DEF Chain
<1>9. \A i \in 1 .. Len(c) : lo < c[i] /\ c[i] <= hi
    BY <1>5, <1>6, <1>7, <1>8, SMTT(20)
<1> HIDE DEF k
<1>10. ASSUME NEW i \in 1 .. Len(c), NEW j \in 1 .. Len(c), i < j
       PROVE  c[i] < c[j]
    <2>1. CASE i \in 1 .. k /\ c[i] = s[i] /\ j \in 1 .. k /\ c[j] = s[j]
        BY <1>10, <2>1 DEF k, Chain
    <2>2. CASE i \in 1 .. k /\ c[i] = s[i] /\ j - k \in 1 .. Len(t) /\ c[j] = t[j - k]
        BY <1>6, <1>7, <2>2
    <2>3. CASE /\ i - k \in 1 .. Len(t) /\ c[i] = t[i - k]
               /\ j - k \in 1 .. Len(t) /\ c[j] = t[j - k]
        <3>1. i - k < j - k
            BY <1>2, <1>10
        <3> QED
            BY <2>3, <3>1 DEF Chain
    <2>4. ~(i - k \in 1 .. Len(t) /\ j \in 1 .. k)
        BY <1>2, <1>10
    <2> QED
        BY <1>5, <2>1, <2>2, <2>3, <2>4
<1> QED
    BY <1>2, <1>8, <1>9, <1>10 DEF c, Chain

\* The rest after the first n, which come before it.
LEMMA ChainRest ==
    ASSUME NEW lo \in Int, NEW hi \in Int, NEW s, Chain(lo, s, hi), NEW n \in 0 .. Len(s)
    PROVE  /\ Chain(lo, SubSeq(s, n + 1, Len(s)), hi)
           /\ Len(SubSeq(s, n + 1, Len(s))) = Len(s) - n
           /\ \A i \in 1 .. n :
                 s[i] \in Int /\ lo < s[i] /\ Chain(s[i], SubSeq(s, n + 1, Len(s)), hi)
<1> DEFINE r == SubSeq(s, n + 1, Len(s))
<1>1. s \in Seq(Int) /\ Len(s) \in Nat
    BY DEF Chain
<1>2. r \in Seq(Int)
    BY <1>1
<1>3. Len(r) = Len(s) - n
    BY <1>1
<1>4. \A i \in 1 .. Len(s) - n : r[i] = s[n + i]
    BY <1>1
<1> HIDE DEF r
<1>5. \A i \in 1 .. Len(r) : n + i \in 1 .. Len(s) /\ r[i] = s[n + i]
    BY <1>1, <1>3, <1>4
<1>6. \A i, j \in 1 .. Len(r) : i < j => n + i < n + j
    BY <1>1, <1>3
<1>7. \A i, j \in 1 .. Len(r) : i < j => r[i] < r[j]
    BY <1>5, <1>6 DEF Chain
<1>8. \A i \in 1 .. Len(r) : lo < r[i] /\ r[i] <= hi
    BY <1>5 DEF Chain
<1>9. Chain(lo, r, hi)
    BY <1>2, <1>7, <1>8 DEF Chain
<1>10. ASSUME NEW i \in 1 .. n PROVE s[i] \in Int /\ lo < s[i] /\ Chain(s[i], r, hi)
    <2>1. i \in 1 .. Len(s)
        BY <1>1
    <2>2. s[i] \in Int /\ lo < s[i] /\ s[i] <= hi
        BY <1>1, <2>1 DEF Chain
    <2>3. \A j \in 1 .. Len(r) : i < n + j
        BY <1>1, <1>3
    <2>4. \A j \in 1 .. Len(r) : s[i] < r[j]
        BY <1>5, <2>1, <2>3 DEF Chain
    <2> QED
        BY <1>2, <1>7, <1>8, <2>2, <2>4 DEF Chain
<1> QED
    BY <1>3, <1>9, <1>10 DEF r

\* The first and the others.
LEMMA ChainHead ==
    ASSUME NEW lo \in Int, NEW hi \in Int, NEW s, Chain(lo, s, hi), s # <<>>
    PROVE  /\ Head(s) \in Int /\ lo < Head(s) /\ Head(s) <= hi
           /\ Chain(Head(s), Tail(s), hi)
           /\ Len(Tail(s)) = Len(s) - 1 /\ Len(s) >= 1
<1>1. s \in Seq(Int) /\ Len(s) \in Nat
    BY DEF Chain
<1>2. Len(s) >= 1 /\ Head(s) = s[1]
    BY <1>1
<1>3. 1 \in 0 .. Len(s) /\ 1 \in 1 .. Len(s)
    BY <1>1, <1>2
<1>4. s[1] \in Int /\ lo < s[1] /\ s[1] <= hi
    BY <1>1, <1>3 DEF Chain
<1>5. Tail(s) \in Seq(Int)
    BY <1>1, <1>2
<1>6. Len(Tail(s)) = Len(s) - 1
    BY <1>1, <1>2
<1>7. \A i \in 1 .. Len(s) - 1 : Tail(s)[i] = s[i + 1]
    BY <1>1, <1>2
<1>8. \A i \in 1 .. Len(Tail(s)) : i + 1 \in 1 .. Len(s) /\ 1 < i + 1 /\ Tail(s)[i] = s[i + 1]
    BY <1>1, <1>6, <1>7
<1>9. \A i, j \in 1 .. Len(Tail(s)) : i < j => i + 1 < j + 1
    BY <1>1, <1>6
<1>10. \A i, j \in 1 .. Len(Tail(s)) : i < j => Tail(s)[i] < Tail(s)[j]
    BY <1>8, <1>9 DEF Chain
<1>11. \A i \in 1 .. Len(Tail(s)) : s[1] < Tail(s)[i] /\ Tail(s)[i] <= hi
    BY <1>3, <1>8 DEF Chain
<1>12. Chain(s[1], Tail(s), hi)
    BY <1>4, <1>5, <1>10, <1>11 DEF Chain
<1> QED
    BY <1>2, <1>4, <1>6, <1>12

\* One more at the end.
LEMMA ChainAppend ==
    ASSUME NEW lo \in Int, NEW mid \in Int, NEW s, Chain(lo, s, mid), NEW x \in Int, mid < x
    PROVE  Chain(lo, Append(s, x), x)
<1>1. Chain(mid, <<x>>, x)
    BY ChainOne
<1>2. Chain(lo, s \o <<x>>, x)
    BY <1>1, ChainJoin
<1>3. s \in Seq(Int)
    BY DEF Chain
<1>4. Append(s, x) = s \o <<x>>
    BY <1>3
<1> QED
    BY <1>2, <1>4

-----------------------------------------------------------------------------
(* The invariant.                                                          *)

\* outputMutex_ is held from the moment a frame is taken out until it has been
\* delivered, by the thread that has it (encoder.cpp:103-104).
Held ==
    /\ at \in [Workers -> Places]
    /\ au \in [Workers -> Seq(Int)]
    /\ holder = <<>> \/ \E w \in Workers : holder = <<w>>
    /\ \A w \in Workers : at[w] \in {"deliver", "call"} <=> holder = <<w>>
    /\ \A w \in Workers : holder = <<w>> => Len(au[w]) = 1
    /\ \A w \in Workers : holder # <<w>> => au[w] = <<>>

\* SubmitFrame has one sample, and the slot has one place.
Hands ==
    /\ pc \in {"slot", "sync"} => Len(sample) = 1
    /\ pc \notin {"slot", "sync"} => sample = <<>>
    /\ Len(pending) <= 1

\* A synchronous transform is used by main alone.
Alone ==
    /\ isAsync \in BOOLEAN
    /\ pc = "slot" => isAsync
    /\ pc = "sync" => ~isAsync
    /\ ~isAsync => /\ ready = <<>> /\ pending = <<>> /\ armed = FALSE
                   /\ \A w \in Workers : at[w] = "idle"

\* From the callback back to main each place has newer frames than the one
\* before.
Between(c1, c2, c3, c4) ==
    /\ lastOut \in Int /\ submitted \in Int
    /\ lastOut <= c1
    /\ \A w \in Workers : Chain(lastOut, au[w], c1)
    /\ Chain(c1, ready, c2)
    /\ Chain(c2, inside, c3)
    /\ Chain(c3, pending, c4)
    /\ Chain(c4, sample, submitted)

Ordered == \E c1, c2, c3, c4 \in Int : Between(c1, c2, c3, c4)

\* What is held by outputMutex_ is one frame, so the balance can count it.
Balance ==
    /\ drops \in Nat /\ lost \in Nat /\ delivered \in Nat
    /\ submitted = Len(sample) + Len(holder) + Len(pending) + Len(inside) + Len(ready)
                   + drops + lost + delivered

Carried == Held /\ Hands /\ Alone /\ Ordered /\ Balance

USE DEF Places

-----------------------------------------------------------------------------
(* One step of Encoder.                                                    *)

\* A thread moves on without a frame in its hands, before or after.
LEMMA MovesOn ==
    ASSUME Held, NEW w \in Workers, NEW l \in Places \ {"deliver", "call"},
           at[w] \notin {"deliver", "call"}, Goto(w, l), UNCHANGED <<au, holder>>
    PROVE  Held'
BY DEF Held, Goto

\* outputMutex_ has one owner at a time.
LEMMA NextHeld == Held /\ ready \in Seq(Int) /\ [Next]_vars => Held'
<1> SUFFICES ASSUME Held, ready \in Seq(Int), [Next]_vars PROVE Held'
    OBVIOUS
<1>1. CASE UNCHANGED invoke
    BY <1>1 DEF Held, invoke
<1>2. CASE Submit
    BY <1>1, <1>2 DEF Submit, SubmitFrame, SubmitAsync, SubmitSync
<1>3. CASE Shutdown
    BY <1>1, <1>3 DEF Shutdown, ShutdownCall, ClearCallback, Flush, ClearSlot, Release
<1>4. CASE Transform
    BY <1>1, <1>4 DEF Transform, AskForInput, Encode
<1>5. ASSUME NEW w \in Workers, Invoke(w) PROVE Held'
    <2>1. at[w] = "idle" /\ UNCHANGED <<au, holder>>
        BY <1>5 DEF Invoke
    <2>2. \E l \in {"idle", "armNeed", "armOut"} : Goto(w, l)
        BY <1>5 DEF Invoke
    <2> QED
        BY <2>1, <2>2, MovesOn
<1>6. ASSUME NEW w \in Workers, Rearm(w) PROVE Held'
    <2>1. at[w] \in {"armNeed", "armOut"} /\ UNCHANGED <<au, holder>>
        BY <1>6 DEF Rearm
    <2>2. \E l \in {"need", "out"} : Goto(w, l)
        BY <1>6 DEF Rearm
    <2> QED
        BY <2>1, <2>2, MovesOn
<1>7. ASSUME NEW w \in Workers, NeedInput(w) PROVE Held'
    <2>1. at[w] = "need" /\ Goto(w, "idle") /\ UNCHANGED <<au, holder>>
        BY <1>7 DEF NeedInput
    <2> QED
        BY <2>1, MovesOn
<1>8. ASSUME NEW w \in Workers, PullOutput(w) PROVE Held'
    <2>1. at[w] = "out" /\ holder = <<>>
        BY <1>8 DEF PullOutput
    <2>2. CASE (Goto(w, "idle") \/ Goto(w, "void")) /\ UNCHANGED <<holder, au>>
        BY <2>1, <2>2, MovesOn
    <2>3. CASE /\ ready # <<>> /\ holder' = <<w>> /\ Goto(w, "deliver")
               /\ au' = [au EXCEPT ![w] = <<Head(ready)>>]
        <3>1. PICK x \in Int : x = Head(ready)
            BY <2>3
        <3>2. <<x>> \in Seq(Int) /\ Len(<<x>>) = 1
            OBVIOUS
        <3>3. au' = [au EXCEPT ![w] = <<x>>]
            BY <2>3, <3>1
        <3>4. \A v \in Workers : holder # <<v>>
            BY <2>1
        <3>5. \A v \in Workers : holder' = <<v>> <=> v = w
            BY <2>3
        <3>6. at' = [at EXCEPT ![w] = "deliver"]
            BY <2>3 DEF Goto
        <3>7. \A v \in Workers : holder' = <<v>> => Len(au'[v]) = 1
            BY <3>2, <3>3, <3>5 DEF Held
        <3>8. \A v \in Workers : holder' # <<v>> => au'[v] = <<>>
            BY <3>3, <3>4, <3>5 DEF Held
        <3>9. \A v \in Workers : at'[v] \in {"deliver", "call"} <=> holder' = <<v>>
            BY <3>4, <3>5, <3>6 DEF Held
        <3>10. at' \in [Workers -> Places] /\ au' \in [Workers -> Seq(Int)]
            BY <3>2, <3>3, <3>6 DEF Held
        <3> QED
            BY <2>3, <3>7, <3>8, <3>9, <3>10 DEF Held
    <2> QED
        BY <1>8, <2>2, <2>3 DEF PullOutput
<1>9. ASSUME NEW w \in Workers, DeliverBitstream(w) \/ CallBack(w) PROVE Held'
    <2>1. at[w] \in {"deliver", "call"}
        BY <1>9 DEF DeliverBitstream, CallBack
    <2>2. holder = <<w>>
        BY <2>1 DEF Held
    <2>3. \A v \in Workers : holder = <<v>> <=> v = w
        BY <2>2
    <2>4. CASE Goto(w, "call") /\ UNCHANGED <<au, holder>>
        BY <2>1, <2>3, <2>4 DEF Held, Goto
    <2>5. CASE Goto(w, "idle") /\ holder' = <<>> /\ au' = [au EXCEPT ![w] = <<>>]
        <3>1. \A v \in Workers : holder' # <<v>>
            BY <2>5
        <3>2. \A v \in Workers : au'[v] = <<>>
            BY <2>3, <2>5 DEF Held
        <3>3. \A v \in Workers : at'[v] \notin {"deliver", "call"}
            BY <2>3, <2>5 DEF Held, Goto
        <3>4. at' \in [Workers -> Places]
            BY <2>5 DEF Held, Goto
        <3>5. au' \in [Workers -> Seq(Int)]
            <4>1. <<>> \in Seq(Int)
                OBVIOUS
            <4> QED
                BY <2>5, <4>1 DEF Held
        <3> QED
            BY <2>5, <3>1, <3>2, <3>3, <3>4, <3>5 DEF Held
    <2> QED
        BY <1>9, <2>4, <2>5 DEF DeliverBitstream, CallBack
<1>10. CASE UNCHANGED vars
    BY <1>1, <1>10 DEF vars
<1> QED
    BY <1>2, <1>3, <1>4, <1>5, <1>6, <1>7, <1>8, <1>9, <1>10 DEF Next, WorkQueue

\* TryFeedLocked leaves a frame where it was, passes it on or loses it.
LEMMA Feeds ==
    ASSUME NEW p, NEW n, NEW k, TryFeed(p, n, k)
    PROVE  \/ pending' = p /\ inside' = inside /\ lost' = k
           \/ pending' = <<>> /\ inside' = inside \o p /\ lost' = k
           \/ p # <<>> /\ pending' = <<>> /\ inside' = inside /\ lost' = k + 1
BY DEF TryFeed

\* Main's sample and the slot.
LEMMA NextHands == Hands /\ [Next]_vars => Hands'
<1> SUFFICES ASSUME Hands, [Next]_vars PROVE Hands'
    OBVIOUS
<1> USE DEF main, slot
<1>0. Len(<<>>) = 0 /\ Len(<<submitted + 1>>) = 1
    OBVIOUS
<1>1. CASE UNCHANGED <<pc, sample, pending>>
    BY <1>1 DEF Hands
<1>2. CASE SubmitFrame
    BY <1>0, <1>2 DEF Hands, SubmitFrame
<1>3. CASE SubmitAsync
    <2>1. pc = "slot" /\ pc' = "idle" /\ sample' = <<>>
        BY <1>3 DEF SubmitAsync
    <2>2. TryFeed(sample, needInput, lost)
        BY <1>3 DEF SubmitAsync
    <2>3. pending' \in {sample, <<>>}
        BY <2>2, Feeds
    <2>4. Len(sample) = 1
        BY <2>1 DEF Hands
    <2>5. Len(pending') <= 1
        BY <1>0, <2>3, <2>4
    <2> QED
        BY <2>1, <2>5 DEF Hands
<1>4. CASE SubmitSync
    BY <1>4 DEF Hands, SubmitSync
<1>5. CASE ShutdownCall
    BY <1>5 DEF Hands, ShutdownCall
<1>6. CASE ClearCallback
    BY <1>6 DEF Hands, ClearCallback
<1>7. CASE Flush
    BY <1>7 DEF Hands, Flush
<1>8. CASE ClearSlot
    BY <1>0, <1>8 DEF Hands, ClearSlot
<1>9. CASE Release
    BY <1>9 DEF Hands, Release
<1>10. CASE Transform
    BY <1>1, <1>10 DEF Transform, AskForInput, Encode
<1>11. ASSUME NEW w \in Workers, NeedInput(w) PROVE Hands'
    <2>1. TryFeed(pending, needInput + 1, lost) /\ UNCHANGED main
        BY <1>11 DEF NeedInput
    <2>2. pending' \in {pending, <<>>}
        BY <2>1, Feeds
    <2> QED
        BY <1>0, <2>1, <2>2 DEF Hands
<1>12. ASSUME NEW w \in Workers,
              Invoke(w) \/ Rearm(w) \/ PullOutput(w) \/ DeliverBitstream(w) \/ CallBack(w)
       PROVE  Hands'
    BY <1>1, <1>12 DEF Invoke, Rearm, PullOutput, DeliverBitstream, CallBack
<1>13. CASE UNCHANGED vars
    BY <1>1, <1>13 DEF vars
<1> QED
    BY <1>2, <1>3, <1>4, <1>5, <1>6, <1>7, <1>8, <1>9, <1>10, <1>11, <1>12, <1>13
    DEF Next, Submit, Shutdown, WorkQueue

\* A synchronous transform stays alone.
LEMMA NextAlone == Held /\ Alone /\ [Next]_vars => Alone'
<1> SUFFICES ASSUME Held, Alone, [Next]_vars PROVE Alone'
    OBVIOUS
<1> USE DEF main, slot, invoke, frames, queue
<1>1. CASE UNCHANGED <<pc, isAsync, ready, pending, armed, at>>
    BY <1>1 DEF Alone
<1>2. CASE SubmitFrame
    BY <1>2 DEF Alone, SubmitFrame
<1>3. CASE SubmitAsync
    BY <1>3 DEF Alone, SubmitAsync
<1>4. CASE SubmitSync
    BY <1>4 DEF Alone, SubmitSync
<1>5. CASE ShutdownCall \/ ClearCallback
    BY <1>5 DEF Alone, ShutdownCall, ClearCallback
<1>6. CASE Flush \/ ClearSlot \/ Release
    BY <1>6 DEF Alone, Flush, ClearSlot, Release
<1>7. CASE Transform
    BY <1>7 DEF Alone, Transform, AskForInput, Encode
<1>8. ASSUME NEW w \in Workers, WorkQueue(w) PROVE Alone'
    <2>1. isAsync
        BY <1>8 DEF Alone, WorkQueue, Invoke, Rearm, NeedInput, PullOutput, DeliverBitstream,
                    CallBack
    <2>2. UNCHANGED <<pc, isAsync>>
        BY <1>8 DEF WorkQueue, Invoke, Rearm, NeedInput, PullOutput, DeliverBitstream,
                    CallBack
    <2> QED
        BY <2>1, <2>2 DEF Alone
<1>9. CASE UNCHANGED vars
    BY <1>1, <1>9 DEF vars
<1> QED
    BY <1>2, <1>3, <1>4, <1>5, <1>6, <1>7, <1>8, <1>9 DEF Next, Submit, Shutdown

\* The frames are where they were.
order == <<lastOut, submitted, au, ready, inside, pending, sample>>

LEMMA Nothing == Len(<<>>) = 0
OBVIOUS

\* A length that is neither 0 nor more than 1.
LEMMA One == ASSUME NEW m \in Nat, m <= 1, m # 0 PROVE m = 1
OBVIOUS

\* A frame that leaves the slot, or main, for the transform.
LEMMA Fed ==
    ASSUME NEW a \in Int, NEW b \in Int, NEW c \in Int, Chain(a, inside, b), NEW p, Chain(b, p, c),
           NEW n, NEW k, TryFeed(p, n, k)
    PROVE  \E d \in Int : Chain(a, inside', d) /\ Chain(d, pending', c)
<1>1. a <= b /\ b <= c
    BY DEF Chain
<1>2. CASE pending' = p /\ inside' = inside
    BY <1>2
<1>3. CASE pending' = <<>> /\ inside' = inside \o p
    <2>1. Chain(a, inside', c)
        BY <1>3, ChainJoin
    <2>2. Chain(c, pending', c)
        BY <1>3, ChainEmpty
    <2> QED
        BY <2>1, <2>2
<1>4. CASE pending' = <<>> /\ inside' = inside
    <2>1. Chain(b, pending', c)
        BY <1>1, <1>4, ChainEmpty
    <2> QED
        BY <1>4, <2>1
<1> QED
    BY <1>2, <1>3, <1>4, Feeds

\* No step of main but SubmitSync gives the callback a frame; the others keep
\* the order of what they move.
LEMMA SubmitOrdered ==
    ASSUME Ordered, Hands, SubmitFrame \/ SubmitAsync
    PROVE  Ordered' /\ lastOut' = lastOut
<1>1. PICK c1, c2, c3, c4 \in Int : Between(c1, c2, c3, c4)
    BY DEF Ordered
<1>2. c1 <= c2 /\ c2 <= c3 /\ c3 <= c4 /\ c4 <= submitted /\ submitted \in Int
    BY <1>1 DEF Between, Chain
<1> USE DEF slot, history, invoke, frames
<1>3. CASE SubmitFrame
    <2>1. submitted' = submitted + 1 /\ sample' = <<submitted + 1>>
        BY <1>3 DEF SubmitFrame
    <2>2. UNCHANGED <<lastOut, au, ready, inside, pending>>
        BY <1>3 DEF SubmitFrame
    <2>3. Chain(c4, <<submitted + 1>>, submitted + 1)
        BY <1>2, ChainOne
    <2>4. Between(c1, c2, c3, c4)'
        BY <1>1, <1>2, <2>1, <2>2, <2>3 DEF Between
    <2> QED
        BY <2>2, <2>4 DEF Ordered
<1>4. CASE SubmitAsync
    <2>1. TryFeed(sample, needInput, lost) /\ sample' = <<>>
        BY <1>4 DEF SubmitAsync
    <2>2. UNCHANGED <<lastOut, au, ready, submitted>>
        BY <1>4 DEF SubmitAsync
    <2>3. Chain(c2, inside, c3) /\ Chain(c4, sample, submitted)
        BY <1>1 DEF Between
    <2>4. Chain(c3, sample, submitted)
        BY <1>2, <2>3, ChainWiden
    <2>5. PICK d \in Int : Chain(c2, inside', d) /\ Chain(d, pending', submitted)
        BY <1>2, <2>1, <2>3, <2>4, Fed
    <2>6. Chain(submitted, sample', submitted)
        BY <1>2, <2>1, ChainEmpty
    <2>7. Between(c1, c2, d, submitted)'
        BY <1>1, <2>2, <2>5, <2>6 DEF Between
    <2> QED
        BY <1>2, <2>2, <2>7 DEF Ordered
<1> QED
    BY <1>3, <1>4

\* A synchronous transform: what comes out in SubmitFrame came in before what
\* stays inside (encoder.cpp:496-506).
LEMMA SyncOrdered ==
    ASSUME Ordered, Held, Alone, SubmitSync
    PROVE  Ordered' /\ lastOut <= lastOut'
<1>1. PICK c1, c2, c3, c4 \in Int : Between(c1, c2, c3, c4)
    BY DEF Ordered
<1>2. /\ lastOut <= c1 /\ c1 <= c2 /\ c2 <= c3 /\ c3 <= c4 /\ c4 <= submitted
      /\ submitted \in Int /\ lastOut \in Int
    BY <1>1 DEF Between, Chain
<1> USE DEF slot, history, invoke, frames
<1>3. /\ sample' = <<>> /\ UNCHANGED <<au, ready, pending, submitted>>
      /\ pc = "sync"
    BY DEF SubmitSync
<1>4. ready = <<>> /\ pending = <<>> /\ \A w \in Workers : at[w] = "idle"
    BY <1>3 DEF Alone
<1>5. \A w \in Workers : au'[w] = <<>>
    BY <1>3, <1>4 DEF Held
<1>6. PICK all : /\ all = inside \o sample \/ all = inside
                 /\ \E n \in 0 .. Len(all) :
                       /\ inside' = SubSeq(all, n + 1, Len(all))
                       /\ \E good \in SUBSET (1 .. n) :
                             lastOut' = lastOut \/ \E i \in good : lastOut' = all[i]
    BY DEF SubmitSync
<1>7. Chain(c2, all, submitted)
    <2>1. Chain(c2, inside, c3) /\ Chain(c4, sample, submitted)
        BY <1>1 DEF Between
    <2>2. Chain(c3, sample, submitted)
        BY <1>2, <2>1, ChainWiden
    <2>3. Chain(c2, inside \o sample, submitted)
        BY <1>2, <2>1, <2>2, ChainJoin
    <2>4. Chain(c2, inside, submitted)
        BY <1>2, <2>1, ChainWiden
    <2> QED
        BY <1>6, <2>3, <2>4
<1>8. PICK n \in 0 .. Len(all) :
          /\ inside' = SubSeq(all, n + 1, Len(all))
          /\ lastOut' = lastOut \/ \E i \in 1 .. n : lastOut' = all[i]
    BY <1>6
<1>9. /\ lastOut' \in Int /\ lastOut <= lastOut'
      /\ \E d \in Int : lastOut' <= d /\ Chain(d, inside', submitted)
    <2>1. CASE lastOut' = lastOut
        <3>1. Chain(c2, inside', submitted)
            BY <1>2, <1>7, <1>8, ChainRest
        <3> QED
            BY <1>2, <2>1, <3>1
    <2>2. CASE \E i \in 1 .. n : lastOut' = all[i]
        <3>1. PICK i \in 1 .. n : lastOut' = all[i]
            BY <2>2
        <3>2. all[i] \in Int /\ c2 < all[i] /\ Chain(all[i], inside', submitted)
            BY <1>2, <1>7, <1>8, ChainRest
        <3> QED
            BY <1>2, <3>1, <3>2
    <2> QED
        BY <1>8, <2>1, <2>2
<1>10. PICK d \in Int : lastOut' <= d /\ Chain(d, inside', submitted)
    BY <1>9
<1>11. Chain(lastOut', <<>>, d) /\ Chain(d, <<>>, d) /\ Chain(submitted, <<>>, submitted)
    BY <1>2, <1>9, <1>10, ChainEmpty
<1>12. Between(d, d, submitted, submitted)'
    BY <1>2, <1>3, <1>4, <1>5, <1>9, <1>10, <1>11 DEF Between
<1> QED
    BY <1>2, <1>3, <1>9, <1>10, <1>12 DEF Ordered

\* Shutdown only takes frames away.
LEMMA ShutdownOrdered ==
    ASSUME Ordered, Shutdown
    PROVE  Ordered' /\ lastOut' = lastOut
<1>1. PICK c1, c2, c3, c4 \in Int : Between(c1, c2, c3, c4)
    BY DEF Ordered
<1>2. c1 <= c2 /\ c2 <= c3 /\ c3 <= c4
    BY <1>1 DEF Between, Chain
<1> USE DEF slot, history, invoke, frames
<1>3. /\ UNCHANGED <<lastOut, au, submitted, sample>>
      /\ ready' = ready \/ ready' = <<>>
      /\ inside' = inside \/ inside' = <<>>
      /\ pending' = pending \/ pending' = <<>>
    BY DEF Shutdown, ShutdownCall, ClearCallback, Flush, ClearSlot, Release
<1>4. Chain(c1, <<>>, c2) /\ Chain(c2, <<>>, c3) /\ Chain(c3, <<>>, c4)
    BY <1>1, <1>2, ChainEmpty
<1>5. Between(c1, c2, c3, c4)'
    BY <1>1, <1>3, <1>4 DEF Between
<1> QED
    BY <1>1, <1>3, <1>5 DEF Ordered

\* The transform keeps the order of what it has taken in.
LEMMA TransformOrdered ==
    ASSUME Ordered, Transform
    PROVE  Ordered' /\ lastOut' = lastOut
<1>1. PICK c1, c2, c3, c4 \in Int : Between(c1, c2, c3, c4)
    BY DEF Ordered
<1> USE DEF slot, main, history, invoke, frames
<1>2. CASE AskForInput
    <2>1. UNCHANGED order
        BY <1>2 DEF AskForInput, order
    <2>2. Between(c1, c2, c3, c4)'
        BY <1>1, <2>1 DEF Between, order
    <2> QED
        BY <1>1, <2>1, <2>2 DEF Ordered, order
<1>3. CASE Encode
    <2>1. /\ inside # <<>> /\ ready' = Append(ready, Head(inside)) /\ inside' = Tail(inside)
          /\ UNCHANGED <<lastOut, au, submitted, sample, pending>>
        BY <1>3 DEF Encode
    <2>2. Chain(c1, ready, c2) /\ Chain(c2, inside, c3)
        BY <1>1 DEF Between
    <2>3. PICK x \in Int : x = Head(inside) /\ c2 < x /\ Chain(x, Tail(inside), c3)
        BY <1>1, <2>1, <2>2, ChainHead
    <2>4. Chain(c1, Append(ready, x), x)
        BY <1>1, <2>2, <2>3, ChainAppend
    <2>5. Between(c1, x, c3, c4)'
        BY <1>1, <2>1, <2>3, <2>4 DEF Between
    <2> QED
        BY <1>1, <2>1, <2>3, <2>5 DEF Ordered
<1> QED
    BY <1>2, <1>3 DEF Transform

\* What the work queue does to frames it does under outputMutex_, one at a time.
LEMMA WorkOrdered ==
    ASSUME Ordered, Held, NEW w \in Workers, WorkQueue(w)
    PROVE  Ordered' /\ lastOut <= lastOut'
<1>1. PICK c1, c2, c3, c4 \in Int : Between(c1, c2, c3, c4)
    BY DEF Ordered
<1>2. /\ lastOut <= c1 /\ c1 <= c2 /\ c2 <= c3 /\ c3 <= c4
      /\ submitted \in Int /\ lastOut \in Int
    BY <1>1 DEF Between, Chain
<1> USE DEF slot, main, history, invoke, frames
<1>3. CASE UNCHANGED order
    <2>1. Between(c1, c2, c3, c4)'
        BY <1>1, <1>3 DEF Between, order
    <2> QED
        BY <1>1, <1>2, <1>3, <2>1 DEF Ordered, order
<1>4. CASE Invoke(w) \/ Rearm(w)
    BY <1>3, <1>4 DEF Invoke, Rearm, order
<1>5. CASE NeedInput(w)
    <2>1. /\ TryFeed(pending, needInput + 1, lost)
          /\ UNCHANGED <<lastOut, au, ready, submitted, sample>>
        BY <1>5 DEF NeedInput
    <2>2. Chain(c2, inside, c3) /\ Chain(c3, pending, c4)
        BY <1>1 DEF Between
    <2>3. PICK d \in Int : Chain(c2, inside', d) /\ Chain(d, pending', c4)
        BY <1>1, <2>1, <2>2, Fed
    <2>4. Between(c1, c2, d, c4)'
        BY <1>1, <2>1, <2>3 DEF Between
    <2> QED
        BY <1>1, <1>2, <2>1, <2>3, <2>4 DEF Ordered
<1>6. CASE PullOutput(w)
    <2>1. UNCHANGED <<lastOut, submitted, inside, pending, sample>> /\ holder = <<>>
        BY <1>6 DEF PullOutput
    <2>2. CASE UNCHANGED <<au, ready>>
        BY <1>3, <2>1, <2>2 DEF order
    <2>3. CASE /\ ready # <<>> /\ au' = [au EXCEPT ![w] = <<Head(ready)>>]
               /\ ready' = Tail(ready)
        <3>1. Chain(c1, ready, c2)
            BY <1>1 DEF Between
        <3>2. PICK x \in Int : x = Head(ready) /\ c1 < x /\ Chain(x, Tail(ready), c2)
            BY <1>1, <2>3, <3>1, ChainHead
        <3>3. Chain(lastOut, <<x>>, x) /\ Chain(lastOut, <<>>, x)
            BY <1>1, <1>2, <3>2, ChainOne, ChainEmpty
        <3>4. \A v \in Workers : au[v] = <<>>
            BY <2>1 DEF Held
        <3>5. \A v \in Workers : au'[v] = <<x>> \/ au'[v] = <<>>
            BY <2>3, <3>2, <3>4 DEF Held
        <3>6. \A v \in Workers : Chain(lastOut', au'[v], x)
            BY <2>1, <3>3, <3>5
        <3>7. Between(x, c2, c3, c4)'
            BY <1>1, <1>2, <2>1, <2>3, <3>2, <3>6 DEF Between
        <3> QED
            BY <1>1, <1>2, <2>1, <3>2, <3>7 DEF Ordered
    <2> QED
        BY <1>6, <2>2, <2>3 DEF PullOutput
<1>7. CASE DeliverBitstream(w) \/ CallBack(w)
    <2>1. UNCHANGED <<submitted, ready, inside, pending, sample>>
        BY <1>7 DEF DeliverBitstream, CallBack
    <2>2. CASE au' = au /\ lastOut' = lastOut
        BY <1>3, <2>1, <2>2 DEF order
    <2>3. CASE /\ au' = [au EXCEPT ![w] = <<>>] /\ at[w] \in {"deliver", "call"}
               /\ lastOut' = lastOut \/ lastOut' = au[w][1]
        <3>1. holder = <<w>> /\ Len(au[w]) = 1
            BY <2>3 DEF Held
        <3>2. \A v \in Workers : v # w => au[v] = <<>>
            BY <3>1 DEF Held
        <3>3. \A v \in Workers : au'[v] = <<>>
            BY <2>3, <3>2 DEF Held
        <3>4. Chain(lastOut, au[w], c1) /\ 1 \in 1 .. Len(au[w])
            BY <1>1, <3>1 DEF Between
        <3>5. au[w][1] \in Int /\ lastOut < au[w][1] /\ au[w][1] <= c1
            BY <3>4 DEF Chain
        <3>6. lastOut' \in Int /\ lastOut <= lastOut' /\ lastOut' <= c1
            BY <1>2, <2>3, <3>5
        <3>7. Chain(lastOut', <<>>, c1)
            BY <1>1, <3>6, ChainEmpty
        <3>8. Between(c1, c2, c3, c4)'
            BY <1>1, <2>1, <3>3, <3>6, <3>7 DEF Between
        <3> QED
            BY <1>1, <3>6, <3>8 DEF Ordered
    <2> QED
        BY <1>7, <2>2, <2>3 DEF DeliverBitstream, CallBack
<1> QED
    BY <1>4, <1>5, <1>6, <1>7 DEF WorkQueue

\* Every step keeps the frames in order and gives the callback newer ones only.
LEMMA NextOrdered ==
    ASSUME Ordered, Held, Hands, Alone, [Next]_vars
    PROVE  Ordered' /\ lastOut <= lastOut'
<1>1. lastOut \in Int
    BY DEF Ordered, Between
<1>2. CASE UNCHANGED vars
    <2>1. UNCHANGED order
        BY <1>2 DEF vars, main, slot, history, invoke, frames, order
    <2>2. PICK c1, c2, c3, c4 \in Int : Between(c1, c2, c3, c4)
        BY DEF Ordered
    <2>3. Between(c1, c2, c3, c4)'
        BY <2>1, <2>2 DEF Between, order
    <2> QED
        BY <1>1, <2>1, <2>2, <2>3 DEF Ordered, order
<1> QED
    BY <1>1, <1>2, SubmitOrdered, SyncOrdered, ShutdownOrdered, TransformOrdered, WorkOrdered
    DEF Next, Submit

-----------------------------------------------------------------------------
(* The balance.                                                            *)

\* All places hold sequences of numbers.
LEMMA Sequenced ==
    ASSUME Ordered
    PROVE  /\ sample \in Seq(Int) /\ pending \in Seq(Int) /\ inside \in Seq(Int)
           /\ ready \in Seq(Int)
BY DEF Ordered, Between, Chain

\* Their lengths are numbers, and so is the balance.
LEMMA Lengths ==
    ASSUME Carried
    PROVE  /\ Len(sample) \in Nat /\ Len(holder) \in Nat /\ Len(pending) \in Nat
           /\ Len(inside) \in Nat /\ Len(ready) \in Nat
           /\ drops \in Nat /\ lost \in Nat /\ delivered \in Nat
           /\ submitted = Len(sample) + Len(holder) + Len(pending) + Len(inside) + Len(ready)
                          + drops + lost + delivered
<1>1. Len(sample) \in Nat /\ Len(pending) \in Nat /\ Len(inside) \in Nat /\ Len(ready) \in Nat
    BY Sequenced DEF Carried
<1>2. Len(holder) \in Nat
    <2>1. CASE holder = <<>>
        BY <2>1
    <2>2. ASSUME NEW w \in Workers, holder = <<w>> PROVE Len(holder) \in Nat
        BY <2>2
    <2> QED
        BY <2>1, <2>2 DEF Carried, Held
<1>3. Balance
    BY DEF Carried
<1> QED
    BY <1>1, <1>2, <1>3 DEF Balance

\* A frame fed is in the slot, inside or lost, as often as it was.
LEMMA FedLengths ==
    ASSUME NEW p \in Seq(Int), Len(p) <= 1, inside \in Seq(Int), NEW n, NEW k \in Nat,
           TryFeed(p, n, k)
    PROVE  lost' \in Nat /\ Len(pending') \in Nat /\ Len(inside') \in Nat
           /\ Len(pending') + Len(inside') + lost' = Len(p) + Len(inside) + k
<1>1. Len(p) \in Nat /\ Len(inside) \in Nat
    OBVIOUS
<1>2. CASE pending' = p /\ inside' = inside /\ lost' = k
    BY <1>1, <1>2
<1>3. CASE pending' = <<>> /\ inside' = inside \o p /\ lost' = k
    <2>1. Len(inside \o p) = Len(inside) + Len(p)
        OBVIOUS
    <2> QED
        BY <1>1, <1>3, <2>1, Nothing
<1>4. CASE p # <<>> /\ pending' = <<>> /\ inside' = inside /\ lost' = k + 1
    <2>1. Len(p) # 0
        BY <1>4
    <2>2. Len(p) = 1
        BY <1>1, <2>1, One
    <2> QED
        BY <1>1, <1>4, <2>2, Nothing
<1> QED
    BY <1>2, <1>3, <1>4, Feeds

\* Main's steps.
LEMMA SubmitBalance ==
    ASSUME Carried, SubmitFrame \/ SubmitAsync
    PROVE  Balance'
<1>1. /\ Len(sample) \in Nat /\ Len(holder) \in Nat /\ Len(pending) \in Nat
      /\ Len(inside) \in Nat /\ Len(ready) \in Nat
      /\ drops \in Nat /\ lost \in Nat /\ delivered \in Nat
      /\ submitted = Len(sample) + Len(holder) + Len(pending) + Len(inside) + Len(ready)
                     + drops + lost + delivered
    BY Lengths
<1>2. /\ sample \in Seq(Int) /\ pending \in Seq(Int) /\ inside \in Seq(Int)
      /\ ready \in Seq(Int)
    BY Sequenced DEF Carried
<1> USE DEF slot, invoke, frames, history
<1>3. CASE SubmitFrame
    <2>1. sample = <<>> /\ submitted' = submitted + 1 /\ sample' = <<submitted + 1>>
        BY <1>3 DEF SubmitFrame, Carried, Hands
    <2>2. Len(<<submitted + 1>>) = 1
        OBVIOUS
    <2>3. UNCHANGED <<holder, pending, inside, ready, drops, lost, delivered>>
        BY <1>3 DEF SubmitFrame
    <2> QED
        BY <1>1, <2>1, <2>2, <2>3, Nothing DEF Balance
<1>4. CASE SubmitAsync
    <2>1. /\ drops' = drops + Len(pending) /\ TryFeed(sample, needInput, lost) /\ sample' = <<>>
          /\ UNCHANGED <<submitted, holder, ready, delivered>>
        BY <1>4 DEF SubmitAsync
    <2>2. Len(sample) = 1
        BY <1>4 DEF SubmitAsync, Carried, Hands
    <2>3. lost' \in Nat /\ Len(pending') \in Nat /\ Len(inside') \in Nat
          /\ Len(pending') + Len(inside') + lost' = Len(sample) + Len(inside) + lost
        <3>1. Len(sample) <= 1
            BY <2>2
        <3> QED
            BY <1>1, <1>2, <2>1, <3>1, FedLengths
    <2>4. /\ Len(sample') = 0 /\ Len(holder') = Len(holder) /\ Len(ready') = Len(ready)
          /\ submitted' = submitted /\ delivered' = delivered
          /\ drops' = drops + Len(pending)
        BY <2>1, Nothing
    <2> QED
        BY <1>1, <2>3, <2>4, SMTT(20) DEF Balance
<1> QED
    BY <1>3, <1>4

\* Of the frames inside and the new one, refused if e is 1, n come out and g of
\* these are delivered.
LEMMA ComesOut ==
    ASSUME Len(sample) = 1, Len(holder) \in Nat, Len(pending) \in Nat, Len(inside) \in Nat,
           Len(ready) \in Nat, drops \in Nat, lost \in Nat, delivered \in Nat,
           submitted = Len(sample) + Len(holder) + Len(pending) + Len(inside) + Len(ready)
                       + drops + lost + delivered,
           NEW n \in Nat, NEW g \in Nat, g <= n, NEW e \in Nat, e <= 1, n <= Len(inside) + (1 - e),
           delivered' = delivered + g, lost' = lost + (n - g) + e,
           Len(inside') = Len(inside) + (1 - e) - n,
           Len(sample') = 0, Len(holder') = Len(holder), Len(pending') = Len(pending),
           Len(ready') = Len(ready), submitted' = submitted, drops' = drops
    PROVE  Balance'
<1>1. delivered' \in Nat
    OBVIOUS
<1>2. lost' \in Nat
    OBVIOUS
<1>3. submitted' = Len(sample') + Len(holder') + Len(pending') + Len(inside') + Len(ready')
                   + drops' + lost' + delivered'
    OBVIOUS
<1> QED
    BY <1>1, <1>2, <1>3 DEF Balance

\* All that a synchronous transform took in stays, comes out or is lost.
LEMMA SyncBalance ==
    ASSUME Carried, SubmitSync
    PROVE  Balance'
<1>1. /\ Len(sample) \in Nat /\ Len(holder) \in Nat /\ Len(pending) \in Nat
      /\ Len(inside) \in Nat /\ Len(ready) \in Nat
      /\ drops \in Nat /\ lost \in Nat /\ delivered \in Nat
      /\ submitted = Len(sample) + Len(holder) + Len(pending) + Len(inside) + Len(ready)
                     + drops + lost + delivered
    BY Lengths
<1>2. /\ sample \in Seq(Int) /\ pending \in Seq(Int) /\ inside \in Seq(Int)
      /\ ready \in Seq(Int)
    BY Sequenced DEF Carried
<1> USE DEF slot, invoke, frames, history
<1>3. sample' = <<>> /\ UNCHANGED <<submitted, holder, pending, ready, drops>> /\ Len(sample) = 1
    BY DEF SubmitSync, Carried, Hands
<1>4. PICK accepted \in BOOLEAN :
          LET all == IF accepted THEN inside \o sample ELSE inside
          IN \E n \in 0 .. Len(all) : \E good \in SUBSET (1 .. n) :
                /\ inside' = SubSeq(all, n + 1, Len(all))
                /\ delivered' = delivered + Cardinality(good)
                /\ lost' = lost + (n - Cardinality(good)) + (IF accepted THEN 0 ELSE 1)
    BY DEF SubmitSync
<1> DEFINE all == IF accepted THEN inside \o sample ELSE inside
<1>5. PICK n \in 0 .. Len(all) : \E good \in SUBSET (1 .. n) :
          /\ inside' = SubSeq(all, n + 1, Len(all))
          /\ delivered' = delivered + Cardinality(good)
          /\ lost' = lost + (n - Cardinality(good)) + (IF accepted THEN 0 ELSE 1)
    BY <1>4
<1>6. PICK good \in SUBSET (1 .. n) :
          /\ inside' = SubSeq(all, n + 1, Len(all))
          /\ delivered' = delivered + Cardinality(good)
          /\ lost' = lost + (n - Cardinality(good)) + (IF accepted THEN 0 ELSE 1)
    BY <1>5
<1>7. Len(all) \in Nat /\ all \in Seq(Int) /\ Len(all) = Len(inside) + (IF accepted THEN 1 ELSE 0)
    <2>1. Len(inside \o sample) = Len(inside) + Len(sample) /\ inside \o sample \in Seq(Int)
        BY <1>2
    <2>2. CASE accepted
        BY <1>1, <1>3, <2>1, <2>2
    <2>3. CASE ~accepted
        BY <1>1, <1>2, <2>3
    <2> QED
        BY <2>2, <2>3
<1> HIDE DEF all
<1>8. Len(inside') = Len(all) - n
    BY <1>7, <1>6
<1>9. Cardinality(good) \in Nat /\ Cardinality(good) <= n /\ n \in Nat
    <2>1. n \in Nat
        BY <1>7
    <2>2. IsFiniteSet(1 .. n) /\ Cardinality(1 .. n) = n
        BY <2>1, FS_Interval
    <2> QED
        BY <2>1, <2>2, FS_Subset, FS_CardinalityType
<1>10. PICK g \in Nat : g = Cardinality(good) /\ g <= n
    BY <1>9
<1>11. PICK e \in Nat : e <= 1 /\ e = IF accepted THEN 0 ELSE 1
    OBVIOUS
<1>12. delivered' = delivered + g /\ lost' = lost + (n - g) + e
    BY <1>6, <1>10, <1>11
<1>13. Len(all) = Len(inside) + (1 - e) /\ Len(inside') = Len(all) - n /\ n <= Len(all)
    BY <1>7, <1>8, <1>11
<1>14. Len(inside') = Len(inside) + (1 - e) - n /\ n <= Len(inside) + (1 - e)
    BY <1>13
<1>15. /\ Len(sample') = 0 /\ Len(sample) = 1 /\ Len(holder') = Len(holder)
       /\ Len(pending') = Len(pending) /\ Len(ready') = Len(ready)
       /\ submitted' = submitted /\ drops' = drops
    BY <1>3, Nothing
<1> QED
    BY <1>1, <1>9, <1>10, <1>11, <1>12, <1>14, <1>15, ComesOut

\* Shutdown counts what it takes away.
LEMMA ShutdownBalance ==
    ASSUME Carried, Shutdown
    PROVE  Balance'
<1>1. /\ Len(sample) \in Nat /\ Len(holder) \in Nat /\ Len(pending) \in Nat
      /\ Len(inside) \in Nat /\ Len(ready) \in Nat
      /\ drops \in Nat /\ lost \in Nat /\ delivered \in Nat
      /\ submitted = Len(sample) + Len(holder) + Len(pending) + Len(inside) + Len(ready)
                     + drops + lost + delivered
    BY Lengths
<1>2. /\ sample \in Seq(Int) /\ pending \in Seq(Int) /\ inside \in Seq(Int)
      /\ ready \in Seq(Int)
    BY Sequenced DEF Carried
<1> USE DEF slot, invoke, frames, history
<1>3. CASE ShutdownCall \/ ClearCallback
    BY <1>1, <1>3 DEF ShutdownCall, ClearCallback, Balance
<1>4. CASE Flush \/ Release
    <2>1. /\ UNCHANGED <<submitted, sample, holder, pending, drops, delivered>>
          /\ lost' = lost + Len(inside) + Len(ready) /\ inside' = <<>> /\ ready' = <<>>
        BY <1>4 DEF Flush, Release
    <2> QED
        BY <1>1, <2>1, Nothing DEF Balance
<1>5. CASE ClearSlot
    <2>1. /\ UNCHANGED <<submitted, sample, holder, inside, ready, drops, delivered>>
          /\ lost' = lost + Len(pending) /\ pending' = <<>>
        BY <1>5 DEF ClearSlot
    <2> QED
        BY <1>1, <2>1, Nothing DEF Balance
<1> QED
    BY <1>3, <1>4, <1>5 DEF Shutdown

\* The transform loses nothing.
LEMMA TransformBalance ==
    ASSUME Carried, Transform
    PROVE  Balance'
<1>1. /\ Len(sample) \in Nat /\ Len(holder) \in Nat /\ Len(pending) \in Nat
      /\ Len(inside) \in Nat /\ Len(ready) \in Nat
      /\ drops \in Nat /\ lost \in Nat /\ delivered \in Nat
      /\ submitted = Len(sample) + Len(holder) + Len(pending) + Len(inside) + Len(ready)
                     + drops + lost + delivered
    BY Lengths
<1>2. /\ sample \in Seq(Int) /\ pending \in Seq(Int) /\ inside \in Seq(Int)
      /\ ready \in Seq(Int)
    BY Sequenced DEF Carried
<1> USE DEF slot, main, invoke, frames, history
<1>3. CASE AskForInput
    BY <1>1, <1>3 DEF AskForInput, Balance
<1>4. CASE Encode
    <2>1. /\ inside # <<>> /\ ready' = Append(ready, Head(inside)) /\ inside' = Tail(inside)
          /\ UNCHANGED <<submitted, sample, holder, pending, drops, lost, delivered>>
        BY <1>4 DEF Encode
    <2>2. PICK x \in Int : x = Head(inside)
        BY <1>2, <2>1
    <2>3. Len(Append(ready, x)) = Len(ready) + 1
        BY <1>2
    <2>4. Len(Tail(inside)) = Len(inside) - 1
        BY <1>2, <2>1
    <2> QED
        BY <1>1, <2>1, <2>2, <2>3, <2>4 DEF Balance
<1> QED
    BY <1>3, <1>4 DEF Transform

\* A thread that has a frame delivers it or loses it.
LEMMA WorkBalance ==
    ASSUME Carried, NEW w \in Workers, WorkQueue(w)
    PROVE  Balance'
<1>1. /\ Len(sample) \in Nat /\ Len(holder) \in Nat /\ Len(pending) \in Nat
      /\ Len(inside) \in Nat /\ Len(ready) \in Nat
      /\ drops \in Nat /\ lost \in Nat /\ delivered \in Nat
      /\ submitted = Len(sample) + Len(holder) + Len(pending) + Len(inside) + Len(ready)
                     + drops + lost + delivered
    BY Lengths
<1>2. /\ sample \in Seq(Int) /\ pending \in Seq(Int) /\ inside \in Seq(Int)
      /\ ready \in Seq(Int)
    BY Sequenced DEF Carried
<1> USE DEF slot, main, invoke, frames, history
<1>3. CASE Invoke(w) \/ Rearm(w)
    BY <1>1, <1>3 DEF Invoke, Rearm, Balance
<1>4. CASE NeedInput(w)
    <2>1. /\ TryFeed(pending, needInput + 1, lost)
          /\ UNCHANGED <<submitted, sample, holder, ready, drops, delivered>>
        BY <1>4 DEF NeedInput
    <2>2. Len(pending) <= 1
        BY DEF Carried, Hands
    <2>3. lost' \in Nat /\ Len(pending') \in Nat /\ Len(inside') \in Nat
          /\ Len(pending') + Len(inside') + lost' = Len(pending) + Len(inside) + lost
        BY <1>1, <1>2, <2>1, <2>2, FedLengths
    <2> QED
        BY <1>1, <2>1, <2>3, SMTT(20) DEF Balance
<1>5. CASE PullOutput(w)
    <2>1. UNCHANGED <<submitted, sample, pending, inside, drops, lost, delivered>> /\ holder = <<>>
        BY <1>5 DEF PullOutput
    <2>2. CASE UNCHANGED <<holder, ready>>
        BY <1>1, <2>1, <2>2 DEF Balance
    <2>3. CASE ready # <<>> /\ holder' = <<w>> /\ ready' = Tail(ready)
        <3>1. Len(<<w>>) = 1
            OBVIOUS
        <3>2. Len(Tail(ready)) = Len(ready) - 1
            BY <1>2, <2>3
        <3> QED
            BY <1>1, <2>1, <2>3, <3>1, <3>2, Nothing DEF Balance
    <2> QED
        BY <1>5, <2>2, <2>3 DEF PullOutput
<1>6. CASE DeliverBitstream(w) \/ CallBack(w)
    <2>1. UNCHANGED <<submitted, sample, pending, inside, ready, drops>>
        BY <1>6 DEF DeliverBitstream, CallBack
    <2>2. CASE UNCHANGED <<holder, lost, delivered>>
        BY <1>1, <2>1, <2>2 DEF Balance
    <2>3. CASE /\ at[w] \in {"deliver", "call"} /\ holder' = <<>>
               /\ \/ lost' = lost + 1 /\ delivered' = delivered
                  \/ lost' = lost /\ delivered' = delivered + 1
        <3>1. holder = <<w>>
            BY <2>3 DEF Carried, Held
        <3>2. Len(<<w>>) = 1
            OBVIOUS
        <3>3. Len(holder) = 1 /\ Len(holder') = 0
            BY <2>3, <3>1, <3>2, Nothing
        <3> QED
            BY <1>1, <2>1, <2>3, <3>3 DEF Balance
    <2> QED
        BY <1>6, <2>2, <2>3 DEF DeliverBitstream, CallBack
<1> QED
    BY <1>3, <1>4, <1>5, <1>6 DEF WorkQueue

\* All five together are kept by each step, and the callback's frames ascend.
LEMMA NextCarried == Carried /\ [Next]_vars => Carried' /\ lastOut <= lastOut' /\ lastOut' \in Int
<1> SUFFICES ASSUME Carried, [Next]_vars
             PROVE  Carried' /\ lastOut <= lastOut' /\ lastOut' \in Int
    OBVIOUS
<1>1. ready \in Seq(Int)
    BY Sequenced DEF Carried
<1>2. Held' /\ Hands' /\ Alone'
    BY <1>1, NextHeld, NextHands, NextAlone DEF Carried
<1>3. Ordered' /\ lastOut <= lastOut'
    BY NextOrdered DEF Carried
<1>4. Balance'
    <2>1. CASE UNCHANGED vars
        BY <2>1 DEF Carried, Balance, vars, main, slot, invoke, frames, history
    <2> QED
        BY <2>1, SubmitBalance, SyncBalance, ShutdownBalance, TransformBalance, WorkBalance
        DEF Next, Submit
<1>5. lastOut' \in Int
    BY <1>3 DEF Ordered, Between
<1> QED
    BY <1>2, <1>3, <1>4, <1>5 DEF Carried

\* The balance counts what Accounted counts: one thread at most holds a frame.
LEMMA Counted == Carried => Accounted
<1> SUFFICES ASSUME Carried PROVE Accounted
    OBVIOUS
<1> DEFINE Carrying == {w \in Workers : au[w] # <<>>}
<1>1. Cardinality(Carrying) = Len(holder)
    <2>1. CASE holder = <<>>
        <3>1. \A w \in Workers : holder # <<w>>
            BY <2>1
        <3>2. Carrying = {}
            BY <3>1 DEF Carried, Held
        <3> QED
            BY <2>1, <3>2, FS_EmptySet, Nothing
    <2>2. ASSUME NEW w \in Workers, holder = <<w>>
          PROVE  Cardinality(Carrying) = Len(holder)
        <3>1. \A v \in Workers : holder = <<v>> <=> v = w
            BY <2>2
        <3>2. au[w] # <<>>
            <4>1. Len(au[w]) = 1
                BY <3>1 DEF Carried, Held
            <4> QED
                BY <4>1, Nothing
        <3>3. Carrying = {w}
            BY <3>1, <3>2 DEF Carried, Held
        <3>4. Len(<<w>>) = 1
            OBVIOUS
        <3> QED
            BY <2>2, <3>3, <3>4, FS_Singleton
    <2> QED
        BY <2>1, <2>2 DEF Carried, Held
<1>2. Carried
    OBVIOUS
<1> HIDE DEF Carrying
<1>3. InHand = Len(sample) + Len(holder)
    BY <1>1 DEF InHand, Carrying
<1> QED
    BY <1>2, <1>3 DEF Carried, Balance, Accounted

-----------------------------------------------------------------------------
(* The types.                                                              *)

\* A frame that is fed stays a frame (encoder.cpp:509-521).
LEMMA FedTypes ==
    ASSUME NEW p \in Seq(Ids), Len(p) <= 1, NEW n \in Nat, NEW k \in Nat, inside \in Seq(Ids),
           TryFeed(p, n, k)
    PROVE  /\ pending' \in Seq(Ids) /\ Len(pending') <= 1 /\ inside' \in Seq(Ids)
           /\ needInput' \in Nat /\ lost' \in Nat
<1>1. <<>> \in Seq(Ids) /\ Len(<<>>) <= 1
    OBVIOUS
<1>2. inside \o p \in Seq(Ids)
    OBVIOUS
<1>3. needInput' \in Nat
    BY DEF TryFeed
<1>4. lost' \in Nat
    BY DEF TryFeed
<1>5. (pending' = p \/ pending' = <<>>) /\ (inside' = inside \/ inside' = inside \o p)
    BY Feeds
<1>6. pending' \in Seq(Ids) /\ Len(pending') <= 1
    BY <1>1, <1>5
<1>7. inside' \in Seq(Ids)
    BY <1>2, <1>5
<1> QED
    BY <1>3, <1>4, <1>6, <1>7

\* Where a thread goes.
LEMMA GoesTypes ==
    ASSUME at \in [Workers -> Places], NEW w \in Workers, NEW l \in Places, Goto(w, l)
    PROVE  at' \in [Workers -> Places]
BY DEF Goto

\* Every step keeps the ranges; what the callback gets is what a thread held.
LEMMA NextTypes == TypeOK /\ Held /\ [Next]_vars => TypeOK'
<1> SUFFICES ASSUME TypeOK, Held, [Next]_vars PROVE TypeOK'
    OBVIOUS
<1> USE DEF main, slot, object, invoke, frames, queue, history
<1>1. CASE UNCHANGED vars
    BY <1>1 DEF TypeOK, vars
<1>2. CASE SubmitFrame
    <2>1. submitted' \in 0 .. MaxFrames /\ submitted + 1 \in Ids
        BY <1>2, EncoderAssumption DEF SubmitFrame, TypeOK, Ids
    <2>2. <<submitted + 1>> \in Seq(Ids) /\ Len(<<submitted + 1>>) <= 1
        BY <2>1
    <2>3. times' \subseteq Ids
        BY <1>2, <2>1 DEF SubmitFrame, TypeOK, Trim
    <2> QED
        BY <1>2, <2>1, <2>2, <2>3 DEF SubmitFrame, TypeOK
<1>3. CASE SubmitAsync
    <2>1. drops' \in Nat
        BY <1>3 DEF SubmitAsync, TypeOK
    <2>2. /\ pending' \in Seq(Ids) /\ Len(pending') <= 1 /\ inside' \in Seq(Ids)
          /\ needInput' \in Nat /\ lost' \in Nat
        BY <1>3, FedTypes DEF SubmitAsync, TypeOK
    <2>3. <<>> \in Seq(Ids) /\ Len(<<>>) <= 1
        OBVIOUS
    <2> QED
        BY <1>3, <2>1, <2>2, <2>3 DEF SubmitAsync, TypeOK
<1>4. CASE ShutdownCall
    BY <1>4 DEF ShutdownCall, TypeOK
<1>5. CASE ClearCallback
    BY <1>5 DEF ClearCallback, TypeOK
<1>6. CASE Flush
    BY <1>6 DEF Flush, TypeOK
<1>7. CASE ClearSlot
    BY <1>7 DEF ClearSlot, TypeOK
<1>8. CASE Release
    <2>1. lost' \in Nat /\ <<>> \in Seq(Ids)
        BY <1>8 DEF Release, TypeOK
    <2> QED
        BY <1>8, <2>1 DEF Release, TypeOK
<1>9. CASE AskForInput
    BY <1>9 DEF AskForInput, TypeOK
<1>10. CASE Encode
    BY <1>10 DEF Encode, TypeOK
<1>11. ASSUME NEW w \in Workers, Invoke(w) PROVE TypeOK'
    <2>1. events' \in Seq({"need", "out"}) /\ armed' = FALSE
        BY <1>11 DEF Invoke, TypeOK
    <2>2. at' \in [Workers -> Places]
        <3>1. at \in [Workers -> Places]
            BY DEF TypeOK
        <3>2. \E l \in Places : Goto(w, l)
            BY <1>11 DEF Invoke
        <3> QED
            BY <3>1, <3>2, GoesTypes
    <2>3. UNCHANGED <<main, slot, times, object, au, holder, isAsync, frames, settled,
                      delivered, lastOut, empty, outlasted, lost>>
        BY <1>11 DEF Invoke
    <2>4. broken' \in BOOLEAN
        BY <1>11 DEF Invoke, TypeOK
    <2> QED
        BY <2>1, <2>2, <2>3, <2>4 DEF TypeOK
<1>12. ASSUME NEW w \in Workers, Rearm(w) PROVE TypeOK'
    <2>1. at' \in [Workers -> Places]
        BY <1>12 DEF Rearm, TypeOK, Goto
    <2>2. broken' \in BOOLEAN /\ armed' \in BOOLEAN
        <3>1. broken \in BOOLEAN /\ running \in BOOLEAN
            BY DEF TypeOK
        <3> QED
            BY <1>12, <3>1 DEF Rearm
    <2>3. UNCHANGED <<main, slot, times, object, au, holder, isAsync, frames, settled, events,
                      delivered, lastOut, empty, outlasted, lost>>
        BY <1>12 DEF Rearm
    <2> QED
        BY <2>1, <2>2, <2>3 DEF TypeOK
<1>13. ASSUME NEW w \in Workers, NeedInput(w) PROVE TypeOK'
    <2>1. /\ pending' \in Seq(Ids) /\ Len(pending') <= 1 /\ inside' \in Seq(Ids)
          /\ needInput' \in Nat /\ lost' \in Nat
        BY <1>13, FedTypes DEF NeedInput, TypeOK
    <2> QED
        BY <1>13, <2>1 DEF NeedInput, TypeOK, Goto
<1>14. ASSUME NEW w \in Workers, PullOutput(w) PROVE TypeOK'
    <2>1. /\ UNCHANGED <<main, slot, times, object, isAsync, inside, armed, delivered,
                         lastOut, empty, outlasted, lost>>
          /\ \E l \in Places : Goto(w, l)
        BY <1>14 DEF PullOutput
    <2>5. broken' \in BOOLEAN
        BY <1>14 DEF PullOutput, TypeOK
    <2>2. at' \in [Workers -> Places]
        BY <2>1, GoesTypes DEF TypeOK
    <2>3. settled' \in BOOLEAN /\ events' \in Seq({"need", "out"})
        <3>1. settled' \in {settled, TRUE} /\ events' \in {events, Append(events, "out")}
            BY <1>14 DEF PullOutput
        <3>2. settled \in BOOLEAN /\ events \in Seq({"need", "out"})
            BY DEF TypeOK
        <3>3. Append(events, "out") \in Seq({"need", "out"})
            BY <3>2
        <3> QED
            BY <3>1, <3>2, <3>3
    <2>4. au' \in [Workers -> Seq(Ids)] /\ holder' \in Seq(Workers) /\ ready' \in Seq(Ids)
        <3>1. CASE UNCHANGED <<holder, au, ready>>
            BY <3>1 DEF TypeOK
        <3>2. CASE /\ ready # <<>> /\ holder' = <<w>> /\ ready' = Tail(ready)
                   /\ au' = [au EXCEPT ![w] = <<Head(ready)>>]
            <4>1. Head(ready) \in Ids /\ Tail(ready) \in Seq(Ids)
                BY <3>2 DEF TypeOK
            <4>2. <<Head(ready)>> \in Seq(Ids) /\ <<w>> \in Seq(Workers)
                BY <4>1
            <4>3. au \in [Workers -> Seq(Ids)]
                BY DEF TypeOK
            <4> QED
                BY <3>2, <4>1, <4>2, <4>3
        <3> QED
            BY <1>14, <3>1, <3>2 DEF PullOutput
    <2> QED
        BY <2>1, <2>2, <2>3, <2>4, <2>5 DEF TypeOK
<1>15. ASSUME NEW w \in Workers, DeliverBitstream(w) \/ CallBack(w) PROVE TypeOK'
    <2>1. UNCHANGED <<main, slot, object, isAsync, frames, settled, queue, broken, outlasted>>
        BY <1>15 DEF DeliverBitstream, CallBack
    <2>2. at' \in [Workers -> Places]
        <3>1. \E l \in Places : Goto(w, l)
            BY <1>15 DEF DeliverBitstream, CallBack
        <3> QED
            BY <3>1, GoesTypes DEF TypeOK
    <2>3. times' \subseteq Ids
        BY <1>15 DEF DeliverBitstream, CallBack, TypeOK
    <2>4. au' \in [Workers -> Seq(Ids)] /\ holder' \in Seq(Workers)
        <3>1. CASE UNCHANGED <<au, holder>>
            BY <3>1 DEF TypeOK
        <3>2. CASE au' = [au EXCEPT ![w] = <<>>] /\ holder' = <<>>
            <4>1. <<>> \in Seq(Ids) /\ <<>> \in Seq(Workers)
                OBVIOUS
            <4>2. au \in [Workers -> Seq(Ids)]
                BY DEF TypeOK
            <4> QED
                BY <3>2, <4>1, <4>2
        <3> QED
            BY <1>15, <3>1, <3>2 DEF DeliverBitstream, CallBack
    <2>5. lastOut' = lastOut \/ (at[w] = "call" /\ lastOut' = au[w][1])
        <3>1. CASE DeliverBitstream(w)
            BY <3>1 DEF DeliverBitstream
        <3>2. CASE CallBack(w)
            BY <3>2 DEF CallBack
        <3> QED
            BY <1>15, <3>1, <3>2
    <2>6. lost' \in Nat /\ delivered' \in Nat /\ empty' \in BOOLEAN
        <3>1. lost \in Nat /\ delivered \in Nat /\ empty \in BOOLEAN
            BY DEF TypeOK
        <3>2. CASE DeliverBitstream(w)
            <4>1. (lost' = lost \/ lost' = lost + 1) /\ UNCHANGED <<delivered, empty>>
                BY <3>2 DEF DeliverBitstream
            <4> QED
                BY <3>1, <4>1
        <3>3. CASE CallBack(w)
            <4>1. CASE callback
                BY <3>1, <3>3, <4>1 DEF CallBack
            <4>2. CASE ~callback
                BY <3>1, <3>3, <4>2 DEF CallBack
            <4> QED
                BY <4>1, <4>2
        <3> QED
            BY <1>15, <3>2, <3>3
    <2>7. lastOut' \in 0 .. MaxFrames
        <3>1. CASE at[w] = "call" /\ lastOut' = au[w][1]
            <4>1. Len(au[w]) = 1
                BY <3>1 DEF Held
            <4>2. au[w] \in Seq(Ids)
                BY DEF TypeOK
            <4>3. au[w][1] \in Ids
                BY <4>1, <4>2
            <4> QED
                BY <3>1, <4>3, EncoderAssumption DEF Ids
        <3> QED
            BY <2>5, <3>1 DEF TypeOK
    <2> QED
        BY <2>1, <2>2, <2>3, <2>4, <2>6, <2>7 DEF TypeOK
<1>16. CASE SubmitSync
    <2>1. UNCHANGED <<submitted, slot, object, invoke, isAsync, ready, settled, queue, empty,
                      broken, outlasted>>
          /\ pc' = "idle" /\ sample' = <<>> /\ times' \subseteq times
        BY <1>16 DEF SubmitSync
    <2>2. PICK accepted \in BOOLEAN :
              LET all == IF accepted THEN inside \o sample ELSE inside
              IN \E n \in 0 .. Len(all) : \E good \in SUBSET (1 .. n) :
                    /\ inside' = SubSeq(all, n + 1, Len(all))
                    /\ delivered' = delivered + Cardinality(good)
                    /\ lost' = lost + (n - Cardinality(good)) + (IF accepted THEN 0 ELSE 1)
                    /\ lastOut' = lastOut \/ \E i \in good : lastOut' = all[i]
        BY <1>16 DEF SubmitSync
    <2> DEFINE all == IF accepted THEN inside \o sample ELSE inside
    <2>3. all \in Seq(Ids)
        BY DEF TypeOK
    <2> HIDE DEF all
    <2>4. PICK n \in 0 .. Len(all) : \E good \in SUBSET (1 .. n) :
              /\ inside' = SubSeq(all, n + 1, Len(all))
              /\ delivered' = delivered + Cardinality(good)
              /\ lost' = lost + (n - Cardinality(good)) + (IF accepted THEN 0 ELSE 1)
              /\ lastOut' = lastOut \/ \E i \in good : lastOut' = all[i]
        BY <2>2 DEF all
    <2>5. PICK good \in SUBSET (1 .. n) :
              /\ inside' = SubSeq(all, n + 1, Len(all))
              /\ delivered' = delivered + Cardinality(good)
              /\ lost' = lost + (n - Cardinality(good)) + (IF accepted THEN 0 ELSE 1)
              /\ lastOut' = lastOut \/ \E i \in good : lastOut' = all[i]
        BY <2>4
    <2>6. inside' \in Seq(Ids)
        BY <2>3, <2>5
    <2>7. lastOut' \in 0 .. MaxFrames
        <3>1. ASSUME NEW i \in good, lastOut' = all[i] PROVE lastOut' \in 0 .. MaxFrames
            <4>1. i \in 1 .. Len(all)
                BY <2>3
            <4>2. all[i] \in Ids
                BY <2>3, <4>1
            <4> QED
                BY <3>1, <4>2, EncoderAssumption DEF Ids
        <3> QED
            BY <2>5, <3>1 DEF TypeOK
    <2>8. Cardinality(good) \in Nat /\ Cardinality(good) <= n /\ n \in Nat
        <3>1. n \in Nat
            BY <2>3
        <3>2. IsFiniteSet(1 .. n) /\ Cardinality(1 .. n) = n
            BY <3>1, FS_Interval
        <3> QED
            BY <3>1, <3>2, FS_Subset, FS_CardinalityType
    <2>9. PICK g \in Nat : g = Cardinality(good) /\ g <= n
        BY <2>8
    <2>10. delivered' \in Nat /\ lost' \in Nat
        <3>1. delivered \in Nat /\ lost \in Nat
            BY DEF TypeOK
        <3>2. delivered' = delivered + g /\ lost' = lost + (n - g) + (IF accepted THEN 0 ELSE 1)
            BY <2>5, <2>9
        <3> QED
            BY <2>8, <2>9, <3>1, <3>2
    <2>11. sample' \in Seq(Ids) /\ Len(sample') <= 1
        <3>1. <<>> \in Seq(Ids) /\ Len(<<>>) <= 1
            OBVIOUS
        <3> QED
            BY <2>1, <3>1
    <2> QED
        BY <2>1, <2>6, <2>7, <2>10, <2>11 DEF TypeOK
<1> QED
    BY <1>1, <1>2, <1>3, <1>4, <1>5, <1>6, <1>7, <1>8, <1>9, <1>10, <1>11, <1>12, <1>13, <1>14,
       <1>15, <1>16
    DEF Next, Submit, Shutdown, Transform, WorkQueue

\* At first every variable is in its range.
LEMMA InitTypes == Init => TypeOK
<1> SUFFICES ASSUME Init PROVE TypeOK
    OBVIOUS
<1>1. <<>> \in Seq(Ids) /\ Len(<<>>) <= 1 /\ <<>> \in Seq(Workers) /\ <<>> \in Seq({"need", "out"})
    OBVIOUS
<1>2. submitted \in 0 .. MaxFrames /\ lastOut \in 0 .. MaxFrames
    BY EncoderAssumption DEF Init
<1>3. at \in [Workers -> Places] /\ au \in [Workers -> Seq(Ids)]
    BY <1>1 DEF Init
<1> QED
    BY <1>1, <1>2, <1>3 DEF Init, TypeOK

-----------------------------------------------------------------------------
(* Encoder on its own.                                                     *)

\* Before the first frame.
LEMMA InitCarried ==
    ASSUME submitted = 0, sample = <<>>, pending = <<>>, inside = <<>>, ready = <<>>,
           drops = 0, lost = 0, delivered = 0, lastOut = 0, holder = <<>>, pc = "idle",
           at = [w \in Workers |-> "idle"], au = [w \in Workers |-> <<>>], Alone
    PROVE  Carried
<1>1. Chain(0, <<>>, 0)
    BY ChainEmpty
<1>2. \A w \in Workers : au[w] = <<>> /\ at[w] = "idle" /\ holder # <<w>>
    OBVIOUS
<1>3. Between(0, 0, 0, 0)
    BY <1>1, <1>2 DEF Between
<1>4. Ordered
    BY <1>3 DEF Ordered
<1>5. <<>> \in Seq(Int)
    OBVIOUS
<1>6. Held
    BY <1>2, <1>5 DEF Held
<1>7. Hands
    BY Nothing DEF Hands
<1>8. Balance
    BY Nothing DEF Balance
<1> QED
    BY <1>4, <1>6, <1>7, <1>8 DEF Carried

\* The invariant of the frames.
THEOREM CarriedAlways == Spec => []Carried
<1>1. Init => Carried
    <2> SUFFICES ASSUME Init PROVE Carried
        OBVIOUS
    <2>1. Alone
        BY DEF Init, Alone
    <2> QED
        BY <2>1, InitCarried DEF Init
<1> QED
    BY <1>1, NextCarried, PTL DEF Spec

\* Every variable keeps its range; the slot and main hold one frame at most
\* (encoder.cpp:485-521).
THEOREM TypeCorrect == Spec => []TypeOK
<1>1. TypeOK /\ Held /\ [Next]_vars => TypeOK'
    BY NextTypes
<1>2. Carried => Held
    BY DEF Carried
<1> QED
    BY <1>1, <1>2, InitTypes, CarriedAlways, PTL DEF Spec

\* Each frame submitted is in one place, or came out, or is counted
\* (encoder.cpp:485-521, 626-731).
THEOREM NothingVanishes == Spec => []Accounted
BY CarriedAlways, Counted, PTL

\* Though two Invokes run at once, the callback gets the frames in their order
\* (encoder.cpp:93, 103-104).
THEOREM DeliveredInOrder == Spec => InOrder
<1>1. Carried /\ [Next]_vars => [lastOut' # lastOut => lastOut < lastOut']_vars
    <2>1. Carried => lastOut \in Int
        BY DEF Carried, Ordered, Between
    <2> QED
        BY <2>1, NextCarried
<1> QED
    BY <1>1, CarriedAlways, PTL DEF Spec, InOrder

-----------------------------------------------------------------------------
(* Encoder from its construction to its end.                               *)

Initializing == {"args", "wsa", "mf", "adb", "capture", "captured", "hardware", "software",
                 "types", "fallback", "retypes", "events"}

\* Until streaming begins nothing happens to a frame, and no event is awaited.
Still ==
    stage \in Initializing =>
        /\ pc = "idle" /\ inside = <<>> /\ ready = <<>> /\ pending = <<>> /\ armed = FALSE
        /\ \A w \in Workers : at[w] = "idle"

\* Initialize may choose another kind of transform while nothing uses one.
LEMMA NextStill == Still /\ isAsync \in BOOLEAN /\ [StartupNext]_allVars => Still'
<1> SUFFICES ASSUME Still, isAsync \in BOOLEAN, [StartupNext]_allVars PROVE Still'
    OBVIOUS
<1> USE DEF Initializing, encoder, vars, main, slot, invoke, frames, queue, Quiet, Going,
            Fails, Cleanup, Leave, Started, life, mainVars
<1>1. CASE UNCHANGED <<stage, pc, inside, ready, pending, armed, at>>
    BY <1>1 DEF Still
<1>2. CASE StartCom \/ ListOnly \/ StartSubsystems \/ SetupAdbForward \/ InitCapture
           \/ CaptureInitialized
    BY <1>2 DEF Still, StartCom, ListOnly, StartSubsystems, SetupAdbForward, InitCapture,
                CaptureInitialized
<1>3. CASE NoDeviceManager \/ SkipTransform \/ TakeTransform \/ NoneLeft \/ TypesAccepted
    BY <1>3 DEF Still, NoDeviceManager, SkipTransform, TakeTransform, NoneLeft, TypesAccepted
<1>4. CASE TypesRefused \/ FallBack \/ BeginStreaming
    BY <1>4 DEF Still, TypesRefused, FallBack, BeginStreaming
<1>5. CASE StartSender \/ EndLoop \/ StopSender \/ ShutdownReturns \/ End \/ Return
    BY <1>5 DEF Still, StartSender, EndLoop, StopSender, ShutdownReturns, End, Return
<1>6. CASE AskForKeyFrame \/ KeyFrameAsked
    BY <1>1, <1>6 DEF AskForKeyFrame, KeyFrameAsked
<1>7. CASE Encodes
    <2>1. stage' = stage
        BY <1>7 DEF Encodes
    <2> SUFFICES ASSUME stage \in Initializing
                 PROVE  UNCHANGED <<pc, inside, ready, pending, armed, at>>
        BY <1>1, <2>1 DEF Still
    <2>2. ~Submits /\ ~ShutsDown
        BY DEF Submits, ShutsDown
    <2>3. ~Encode
        BY DEF Encode, Still
    <2>4. ASSUME NEW w \in Workers PROVE ~WorkQueue(w)
        BY DEF WorkQueue, Invoke, Rearm, NeedInput, PullOutput, DeliverBitstream, CallBack, Still
    <2>5. CASE AskForInput
        BY <2>5 DEF AskForInput
    <2> QED
        BY <1>7, <2>2, <2>3, <2>4, <2>5 DEF Encodes, Transforms, Transform
<1>8. CASE UNCHANGED allVars
    BY <1>1, <1>8 DEF allVars
<1> QED
    BY <1>2, <1>3, <1>4, <1>5, <1>6, <1>7, <1>8 DEF StartupNext, Main, Initialize

\* What main does around the encoder moves no frame; it chooses the transform's
\* kind before there is any.
LEMMA MainCarried ==
    ASSUME Carried, Still, Main \/ AskForKeyFrame \/ KeyFrameAsked
    PROVE  Carried' /\ lastOut' = lastOut
<1> USE DEF encoder, vars, main, slot, invoke, frames, queue, history, Quiet, Going, Fails,
            Cleanup, Leave, Started, life
<1>1. UNCHANGED <<order, drops, lost, delivered, holder, at, pc>>
    BY DEF order, Main, StartCom, ListOnly, StartSubsystems, SetupAdbForward, InitCapture,
           CaptureInitialized, Initialize, NoDeviceManager, SkipTransform, TakeTransform,
           NoneLeft, TypesAccepted, TypesRefused, FallBack, BeginStreaming, StartSender,
           EndLoop, StopSender, ShutdownReturns, End, Return, AskForKeyFrame, KeyFrameAsked
<1>2. Held' /\ Hands' /\ Balance'
    BY <1>1 DEF order, Carried, Held, Hands, Balance
<1>3. Ordered'
    <2>1. PICK c1, c2, c3, c4 \in Int : Between(c1, c2, c3, c4)
        BY DEF Carried, Ordered
    <2>2. Between(c1, c2, c3, c4)'
        BY <1>1, <2>1 DEF Between, order
    <2> QED
        BY <2>1, <2>2 DEF Ordered
<1>4. Alone'
    <2>1. CASE UNCHANGED <<isAsync, armed>>
        BY <1>1, <2>1 DEF Carried, Alone, order
    <2>2. CASE BeginStreaming
        <3>1. stage \in Initializing /\ armed' \in {armed, isAsync, FALSE} /\ isAsync' = isAsync
            BY <2>2 DEF BeginStreaming, Initializing
        <3> QED
            BY <1>1, <3>1 DEF Carried, Alone, Still, order
    <2>3. CASE TakeTransform \/ FallBack
        <3>1. stage \in Initializing /\ isAsync' \in {TRUE, FALSE, isAsync} /\ armed' = armed
            BY <2>3 DEF TakeTransform, FallBack, Initializing
        <3> QED
            BY <1>1, <3>1 DEF Carried, Alone, Still, order
    <2>4. Main \/ AskForKeyFrame \/ KeyFrameAsked
          => UNCHANGED <<isAsync, armed>> \/ BeginStreaming \/ TakeTransform \/ FallBack
        BY DEF Main, StartCom, ListOnly, StartSubsystems, SetupAdbForward, InitCapture,
           CaptureInitialized, Initialize, NoDeviceManager, SkipTransform,
           NoneLeft, TypesAccepted, TypesRefused, StartSender,
           EndLoop, StopSender, ShutdownReturns, End, Return, AskForKeyFrame, KeyFrameAsked
    <2> QED
        BY <2>1, <2>2, <2>3, <2>4
<1> QED
    BY <1>1, <1>2, <1>3, <1>4 DEF Carried, order

\* The invariant of the frames, from start to end.
LEMMA NextCarriedStill ==
    Carried /\ Still /\ [StartupNext]_allVars
        => Carried' /\ Still' /\ [lastOut' # lastOut => lastOut < lastOut']_vars
<1> SUFFICES ASSUME Carried, Still, [StartupNext]_allVars
             PROVE  Carried' /\ Still' /\ (lastOut' # lastOut => lastOut < lastOut')
    OBVIOUS
<1>1. Still'
    BY NextStill DEF Carried, Alone
<1>2. lastOut \in Int
    BY DEF Carried, Ordered, Between
<1>3. CASE Main \/ AskForKeyFrame \/ KeyFrameAsked
    BY <1>1, <1>3, MainCarried
<1>4. CASE Encodes
    <2>1. Next
        BY <1>4 DEF Encodes, Submits, ShutsDown, Transforms, Next
    <2> QED
        BY <1>1, <1>2, <2>1, NextCarried
<1>5. CASE UNCHANGED allVars
    <2>1. UNCHANGED vars
        BY <1>5 DEF allVars, encoder
    <2> QED
        BY <1>1, <1>2, <2>1, NextCarried
<1> QED
    BY <1>3, <1>4, <1>5 DEF StartupNext

\* It holds from the first line of main on.
THEOREM CarriedFromStartToEnd == StartupSpec => [](Carried /\ Still)
<1>1. StartupInit => Carried /\ Still
    <2> SUFFICES ASSUME StartupInit PROVE Carried /\ Still
        OBVIOUS
    <2>1. Alone /\ Still
        BY DEF StartupInit, Alone, Still
    <2>2. Carried
        BY <2>1, InitCarried DEF StartupInit
    <2> QED
        BY <2>1, <2>2
<1> QED
    BY <1>1, NextCarriedStill, PTL DEF StartupSpec

\* Whatever the start chose and however the program ends, each frame is
\* accounted for.
THEOREM NothingVanishesToTheEnd == StartupSpec => []Accounted
BY CarriedFromStartToEnd, Counted, PTL

\* And the callback gets the frames in their order.
THEOREM DeliveredInOrderToTheEnd == StartupSpec => InOrder
BY CarriedFromStartToEnd, NextCarriedStill, PTL DEF StartupSpec, InOrder
=============================================================================

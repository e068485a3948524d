--------------------------- MODULE ReceiverProofs ---------------------------
(***************************************************************************)
(* What the app on the phone promises: each of its two components does     *)
(* what it does alone, and what the order of the connections adds to it.   *)
(***************************************************************************)
EXTENDS Receiver, FiniteSetTheorems, TLAPS

SP == INSTANCE TcpServerProofs
DP == INSTANCE DecoderProofs WITH
          Threads <- Conns, MaxConns <- Cardinality(Conns), MaxFrames <- MaxMsgs

USE ReceiverAssumption

\* What the components assume of their constants.
LEMMA Assumptions == SP!TcpAssumption /\ DP!DecoderAssumption
<1>1. Cardinality(Conns) \in Nat
    BY FS_CardinalityType DEF ReceiverAssumption
<1>2. SP!TcpAssumption
    BY DEF ReceiverAssumption, SP!TcpAssumption, SP!IsFiniteSet, IsFiniteSet
<1>3. DP!DecoderAssumption
    BY <1>1 DEF ReceiverAssumption, DP!DecoderAssumption
<1> QED
    BY <1>2, <1>3

-----------------------------------------------------------------------------
(* Each step of the app is a step of the one component or of the other.    *)

LEMMA DecoderInit == Decoder!Init => DP!Init
BY DEF Decoder!Init, DP!Init

LEMMA ServerInit == Server!Init => SP!Init
BY DEF Server!Init, SP!Init, Server!None, SP!None

LEMMA DecoderSteps ==
    /\ Decoder!Media => DP!Media
    /\ Decoder!Release => DP!Release
    /\ Decoder!Forget => DP!Forget
    /\ \A c \in Conns : Decoder!Configure(c) => DP!Configure(c)
    /\ \A c \in Conns : Decoder!OnVideoFrame(c) => DP!OnVideoFrame(c)
    /\ \A c \in Conns : Decoder!Reset(c) => DP!Reset(c)
<1>1. ASSUME Decoder!Media PROVE DP!Media
    BY <1>1
    DEF Decoder!Media, DP!Media, Decoder!CallbackBegins, DP!CallbackBegins,
        Decoder!OnInputBufferAvailable, DP!OnInputBufferAvailable, Decoder!Decode,
        DP!Decode, Decoder!Feed, DP!Feed, Decoder!queues, DP!queues, Decoder!media,
        DP!media, Decoder!running, DP!running, Decoder!Active, DP!Active,
        Decoder!callers, DP!callers
<1>2. ASSUME Decoder!Release PROVE DP!Release
    BY <1>2
    DEF Decoder!Release, DP!Release, Decoder!StopInRelease, DP!StopInRelease,
        Decoder!FreeInRelease, DP!FreeInRelease, Decoder!QuitInRelease, DP!QuitInRelease,
        Decoder!Ends, DP!Ends, Decoder!Active, DP!Active, Decoder!running, DP!running,
        Decoder!queues, DP!queues, Decoder!media, DP!media, Decoder!callers, DP!callers
<1>3. ASSUME Decoder!Forget PROVE DP!Forget
    BY <1>3
    DEF Decoder!Forget, DP!Forget, Decoder!queues, DP!queues, Decoder!media, DP!media,
        Decoder!running, DP!running, Decoder!callers, DP!callers
<1>4. ASSUME NEW c \in Conns, Decoder!Configure(c) PROVE DP!Configure(c)
    BY <1>4
    DEF Decoder!Configure, DP!Configure, Decoder!CallConfigure, DP!CallConfigure,
        Decoder!StopCodec, DP!StopCodec, Decoder!FreeCodec, DP!FreeCodec,
        Decoder!DropCodec, DP!DropCodec, Decoder!Ends, DP!Ends, Decoder!Active,
        DP!Active, Decoder!running, DP!running, Decoder!ClearInConfigure, DP!ClearInConfigure,
        Decoder!ClearQueues, DP!ClearQueues, Decoder!Arm, DP!Arm, Decoder!StartCodec,
        DP!StartCodec, Decoder!StartFails, DP!StartFails, Decoder!AssignCodec,
        DP!AssignCodec, Decoder!Goto, DP!Goto, Decoder!queues, DP!queues, Decoder!media,
        DP!media
<1>5. ASSUME NEW c \in Conns, Decoder!OnVideoFrame(c) PROVE DP!OnVideoFrame(c)
    BY <1>5
    DEF Decoder!OnVideoFrame, DP!OnVideoFrame, Decoder!CallFrame, DP!CallFrame,
        Decoder!FrameLocked, DP!FrameLocked, Decoder!TakeIdr, DP!TakeIdr,
        Decoder!DropTillIdr, DP!DropTillIdr, Decoder!TakeNext, DP!TakeNext,
        Decoder!TryFeed, DP!TryFeed, Decoder!Feed, DP!Feed, Decoder!Goto, DP!Goto,
        Decoder!Active, DP!Active, Decoder!running, DP!running, Decoder!queues,
        DP!queues, Decoder!media, DP!media
<1>6. ASSUME NEW c \in Conns, Decoder!Reset(c) PROVE DP!Reset(c)
    BY <1>6
    DEF Decoder!Reset, DP!Reset, Decoder!CallReset, DP!CallReset, Decoder!ResetLocked,
        DP!ResetLocked, Decoder!ClearQueues, DP!ClearQueues, Decoder!Goto, DP!Goto,
        Decoder!running, DP!running, Decoder!queues, DP!queues, Decoder!media, DP!media
<1> QED
    BY <1>1, <1>2, <1>3, <1>4, <1>5, <1>6

LEMMA ServerSteps ==
    /\ Server!Run => SP!Run
    /\ Server!Watchdog => SP!Watchdog
    /\ \A c \in Conns : Server!HandleSession(c) => SP!HandleSession(c)
    /\ Server!Shutdown => SP!Shutdown
    /\ Server!Elapse => SP!Elapse
    /\ \A c \in Conns : Server!PeerConnects(c) => SP!PeerConnects(c)
    /\ \A c \in Conns : Server!PeerCloses(c) => SP!PeerCloses(c)
<1>1. ASSUME Server!Run PROVE SP!Run
    BY <1>1
    DEF Server!Run, SP!Run, Server!BindFails, SP!BindFails, Server!Bind, SP!Bind,
        Server!Accept, SP!Accept, Server!Swap, SP!Swap, Server!CloseOld, SP!CloseOld,
        Server!Stamp, SP!Stamp, Server!Spawn, SP!Spawn, Server!CloseIfAny, SP!CloseIfAny,
        Server!Close, SP!Close, Server!None, SP!None, Server!shared, SP!shared,
        Server!accepting, SP!accepting, Server!watching, SP!watching, Server!sessions,
        SP!sessions, Server!history, SP!history, Server!closing, SP!closing
<1>2. ASSUME Server!Watchdog PROVE SP!Watchdog
    BY <1>2
    DEF Server!Watchdog, SP!Watchdog, Server!WatchdogLooks, SP!WatchdogLooks,
        Server!WatchdogChecks, SP!WatchdogChecks, Server!Close, SP!Close, Server!None,
        SP!None, Server!shared, SP!shared, Server!accepting, SP!accepting,
        Server!watching, SP!watching, Server!sessions, SP!sessions, Server!history,
        SP!history, Server!closing, SP!closing
<1>3. ASSUME NEW c \in Conns, Server!HandleSession(c) PROVE SP!HandleSession(c)
    BY <1>3
    DEF Server!HandleSession, SP!HandleSession, Server!OnConnected, SP!OnConnected,
        Server!GetInputStream, SP!GetInputStream, Server!Check, SP!Check, Server!ReadHeader,
        SP!ReadHeader, Server!MsgType, SP!MsgType, Server!ReadPayload, SP!ReadPayload,
        Server!ReadFails, SP!ReadFails, Server!Deliver, SP!Deliver, Server!CloseSession,
        SP!CloseSession, Server!Unset, SP!Unset, Server!OnDisconnected, SP!OnDisconnected,
        Server!Goto, SP!Goto, Server!Close, SP!Close, Server!None, SP!None, Server!shared,
        SP!shared, Server!accepting, SP!accepting, Server!watching, SP!watching,
        Server!sessions, SP!sessions, Server!history, SP!history, Server!closing, SP!closing
<1>4. ASSUME Server!Shutdown PROVE SP!Shutdown
    BY <1>4
    DEF Server!Shutdown, SP!Shutdown, Server!ShutdownPort, SP!ShutdownPort,
        Server!ShutdownGoesOn, SP!ShutdownGoesOn, Server!ShutdownClosesPort,
        SP!ShutdownClosesPort, Server!ShutdownTakes, SP!ShutdownTakes,
        Server!ShutdownCloses, SP!ShutdownCloses, Server!ShutdownWakes, SP!ShutdownWakes,
        Server!CloseIfAny, SP!CloseIfAny, Server!Close, SP!Close, Server!None, SP!None,
        Server!shared, SP!shared, Server!accepting, SP!accepting, Server!watching,
        SP!watching, Server!sessions, SP!sessions, Server!history, SP!history,
        Server!closing, SP!closing
<1>5. ASSUME Server!Elapse PROVE SP!Elapse
    BY <1>5
    DEF Server!Elapse, SP!Elapse, Server!Stamped, SP!Stamped, Server!None, SP!None,
        Server!shared, SP!shared, Server!accepting, SP!accepting, Server!watching,
        SP!watching, Server!sessions, SP!sessions, Server!history, SP!history,
        Server!closing, SP!closing
<1>6. ASSUME NEW c \in Conns, Server!PeerConnects(c) PROVE SP!PeerConnects(c)
    BY <1>6
    DEF Server!PeerConnects, SP!PeerConnects, Server!Over, SP!Over, Server!None, SP!None,
        Server!shared, SP!shared, Server!accepting, SP!accepting, Server!watching,
        SP!watching, Server!sessions, SP!sessions, Server!history, SP!history,
        Server!closing, SP!closing
<1>7. ASSUME NEW c \in Conns, Server!PeerCloses(c) PROVE SP!PeerCloses(c)
    BY <1>7
    DEF Server!PeerCloses, SP!PeerCloses, Server!None, SP!None, Server!shared,
        SP!shared, Server!accepting, SP!accepting, Server!watching, SP!watching,
        Server!sessions, SP!sessions, Server!history, SP!history,
        Server!closing, SP!closing
<1> QED
    BY <1>1, <1>2, <1>3, <1>4, <1>5, <1>6, <1>7

\* Without Overlap the peer connects when the decoder, too, has nothing left
\* to do.
LEMMA ServeSteps ==
    ASSUME Serve
    PROVE  \/ SP!Others
           \/ \E c \in Conns : /\ SP!PeerConnects(c)
                               /\ Overlap \/ \A d \in Conns : pc[d] = "closed"
BY ServerSteps DEF Serve, Server!HandleSession, SP!Others

\* A step of the app, seen from each component.
LEMMA Split ==
    ASSUME [Next]_vars
    PROVE  [SP!Next]_SP!vars /\ [DP!Next]_DP!vars
<1>1. UNCHANGED serverVars => UNCHANGED SP!vars
    BY DEF serverVars, SP!vars, SP!shared, SP!accepting, SP!watching, SP!sessions,
        SP!history, SP!closing
<1>2. UNCHANGED decoderVars => UNCHANGED DP!vars
    BY DEF decoderVars, DP!vars, DP!queues, DP!media, DP!running, DP!callers
<1>3. CASE Serve
    <2>1. SP!Next
        BY <1>3, ServeSteps DEF SP!Next, SP!Others, SP!World
    <2> QED
        BY <1>2, <1>3, <2>1 DEF Serve
<1>4. CASE DropDecoder \/ Decode
    BY <1>1, <1>4, DecoderSteps DEF DropDecoder, Decode, DP!Next
<1>5. ASSUME NEW c \in Conns, Enter(c) PROVE [SP!Next]_SP!vars /\ [DP!Next]_DP!vars
    <2>1. UNCHANGED decoderVars \/ Decoder!Configure(c) \/ Decoder!OnVideoFrame(c)
        BY <1>5 DEF Enter, Decoder!Configure, Decoder!OnVideoFrame
    <2> QED
        BY <1>1, <1>2, <1>5, <2>1, DecoderSteps DEF Enter, DP!Next
<1>6. ASSUME NEW c \in Conns, Inside(c) PROVE [SP!Next]_SP!vars /\ [DP!Next]_DP!vars
    BY <1>1, <1>6, DecoderSteps DEF Inside, DP!Next
<1>7. ASSUME NEW c \in Conns, Leave(c) PROVE [SP!Next]_SP!vars /\ [DP!Next]_DP!vars
    BY <1>2, <1>7, ServerSteps DEF Leave, Server!HandleSession, SP!Next
<1>8. ASSUME NEW c \in Conns, Disconnect(c) PROVE [SP!Next]_SP!vars /\ [DP!Next]_DP!vars
    <2>1. UNCHANGED decoderVars \/ Decoder!Reset(c)
        BY <1>8 DEF Disconnect, Decoder!Reset
    <2> QED
        BY <1>2, <1>8, <2>1, DecoderSteps, ServerSteps
        DEF Disconnect, Server!HandleSession, SP!Next, DP!Next
<1>9. CASE UNCHANGED vars
    BY <1>1, <1>2, <1>9 DEF vars
<1> QED
    BY <1>3, <1>4, <1>5, <1>6, <1>7, <1>8, <1>9 DEF Next, Listener

\* The app's server is a TcpServer, and its decoder a DecoderManager: what
\* is known of each alone holds in the app (MainActivity.kt:93-122).
THEOREM EachAlone == Spec => SP!Spec /\ DP!Spec
<1>1. Init => SP!Init /\ DP!Init
    BY ServerInit, DecoderInit DEF Init
<1> QED
    BY <1>1, Split, PTL DEF Spec, SP!Spec, DP!Spec

LEMMA ServerInvariance == Spec => [](SP!IInv /\ SP!Held)
<1>1. SP!Spec => []SP!IInv
    BY Assumptions, SP!Invariance
<1>2. SP!Spec => []SP!Held
    BY Assumptions, SP!OnlyHeld
<1> QED
    BY <1>1, <1>2, EachAlone, PTL

LEMMA DecoderInvariance == Spec => [](DP!IInv /\ DP!Rest)
<1>1. DP!Spec => []DP!IInv
    BY Assumptions, DP!Invariance
<1>2. DP!Spec => []DP!Rest
    BY Assumptions, DP!Rested
<1> QED
    BY <1>1, <1>2, EachAlone, PTL
-----------------------------------------------------------------------------
(* The sessions and their calls of the decoder.                            *)

\* A session calls the decoder for the message it holds, and resets it when
\* it ends.
CoupledTo(c) ==
    /\ c \in called => session[c] = "deliver"
    /\ InDecoder(c) /\ pc[c] # "reset" => c \in called
    /\ pc[c] = "reset" => session[c] = "done"
    /\ session[c] \in {"none", "start", "stream", "died"} => pc[c] = "closed"
    /\ session[c] = "done" /\ activity # "forgot" => pc[c] \in {"reset", "closed"}

Coupled == \A c \in Conns : CoupledTo(c)

\* Where a step of the server that calls no listener takes a session.
Before == {"start", "stream", "check", "read", "payload", "close", "unset"}
After  == {"stream", "died", "check", "read", "payload", "deliver", "close", "unset", "bye"}

LEMMA SessionSteps ==
    ASSUME SP!IInv, Serve
    PROVE  \/ session' = session
           \/ \E c \in Conns :
                 /\ session[c] = "none"
                 /\ session' = [session EXCEPT ![c] = "start"]
           \/ \E c \in Conns, l \in After :
                 /\ session[c] \in Before
                 /\ l \in {"stream", "died"} => session[c] \in {"start", "stream"}
                 /\ session' = [session EXCEPT ![c] = l]
<1> USE DEF Before, After, SP!Goto, SP!shared, SP!accepting, SP!watching, SP!sessions, SP!history,
            SP!closing
<1>1. CASE SP!Run
    <2>1. CASE SP!Spawn
        BY <2>1 DEF SP!Spawn, SP!IInv, SP!TypeOK, SP!Accepting, SP!None
    <2> QED
        BY <1>1, <2>1 DEF SP!Run, SP!BindFails, SP!Bind, SP!Accept, SP!Swap, SP!CloseOld, SP!Stamp
<1>2. CASE SP!Watchdog \/ SP!Shutdown \/ SP!Elapse
    BY <1>2
    DEF SP!Watchdog, SP!WatchdogLooks, SP!WatchdogChecks, SP!Shutdown, SP!ShutdownPort,
        SP!ShutdownGoesOn, SP!ShutdownClosesPort, SP!ShutdownTakes, SP!ShutdownCloses,
        SP!ShutdownWakes, SP!Elapse
<1>3. ASSUME NEW c \in Conns, SP!PeerConnects(c) \/ SP!PeerCloses(c) PROVE session' = session
    BY <1>3 DEF SP!PeerConnects, SP!PeerCloses
<1>4. ASSUME NEW c \in Conns, \/ Server!OnConnected(c) \/ Server!GetInputStream(c)
                              \/ Server!Check(c)
                              \/ Server!ReadHeader(c) \/ Server!ReadPayload(c)
                              \/ Server!ReadFails(c) \/ Server!CloseSession(c)
                              \/ Server!Unset(c)
      PROVE  /\ session[c] \in Before
             /\ \E l \in After :
                   /\ l \in {"stream", "died"} => session[c] \in {"start", "stream"}
                   /\ session' = [session EXCEPT ![c] = l]
    BY <1>4
    DEF Server!OnConnected, Server!GetInputStream, Server!Check, Server!ReadHeader,
        Server!ReadPayload, Server!ReadFails, Server!CloseSession, Server!Unset, Server!Goto
<1> QED
    BY <1>1, <1>2, <1>3, <1>4, ServerSteps DEF Serve

\* Where a step inside the decoder takes its thread.
LEMMA InsideSteps ==
    ASSUME DP!IInv, NEW c \in Conns, Inside(c)
    PROVE  /\ \E l \in DP!Pcs : pc' = [pc EXCEPT ![c] = l]
           /\ pc[c] = "reset" => pc'[c] = "closed"
           /\ pc[c] # "reset" => pc'[c] # "reset"
           /\ activity' = activity
<1>1. pc \in [Conns -> DP!Pcs] /\ pc[c] \notin {"open", "closed"}
    BY DEF DP!IInv, DP!TypeOK, DP!Pcs, Inside, InDecoder
<1> USE <1>1 DEF DP!Goto, DP!queues, DP!media, DP!running, DP!Pcs
<1>2. CASE DP!Configure(c)
    BY <1>2
    DEF DP!Configure, DP!CallConfigure, DP!StopCodec, DP!FreeCodec, DP!DropCodec,
        DP!ClearInConfigure, DP!Arm, DP!StartCodec, DP!StartFails, DP!AssignCodec
<1>3. CASE DP!OnVideoFrame(c)
    <2>1. DP!FrameLocked(c) \/ DP!TryFeed(c)
        BY <1>3 DEF DP!OnVideoFrame, DP!CallFrame
    <2>2. CASE DP!FrameLocked(c)
        BY <2>2 DEF DP!FrameLocked, DP!TakeIdr, DP!DropTillIdr, DP!TakeNext
    <2>3. CASE DP!TryFeed(c)
        <3>1. /\ pc[c] = "feed" /\ activity' = activity
              /\ pc' = pc \/ pc' = [pc EXCEPT ![c] = "open"]
            BY <2>3 DEF DP!TryFeed
        <3>2. pc = [pc EXCEPT ![c] = "feed"]
            BY <3>1
        <3> QED
            BY <3>1, <3>2
    <2> QED
        BY <2>1, <2>2, <2>3
<1>4. CASE DP!Reset(c)
    BY <1>4 DEF DP!Reset, DP!CallReset, DP!ResetLocked
<1> QED
    BY <1>2, <1>3, <1>4, DecoderSteps DEF Inside

LEMMA NextCoupled == SP!IInv /\ DP!IInv /\ Coupled /\ [Next]_vars => Coupled'
<1> SUFFICES ASSUME SP!IInv, DP!IInv, Coupled, [Next]_vars PROVE Coupled'
    OBVIOUS
<1>1. /\ pc \in [Conns -> DP!Pcs]
      /\ session \in [Conns -> {"none", "start", "stream", "check", "read", "payload",
                                "deliver", "close", "unset", "bye", "done", "died"}]
    BY DEF DP!IInv, DP!TypeOK, DP!Pcs, SP!IInv, SP!TypeOK
<1> USE <1>1 DEF Coupled, CoupledTo, InDecoder, serverVars, decoderVars, vars
<1>2. CASE UNCHANGED <<called, session, pc, activity>>
    BY <1>2
<1>3. CASE Serve
    <2>1. UNCHANGED <<called, pc, activity>>
        BY <1>3 DEF Serve
    <2>2. CASE session' = session
        BY <2>1, <2>2
    <2>3. ASSUME NEW c \in Conns, session[c] = "none",
                 session' = [session EXCEPT ![c] = "start"]
          PROVE  Coupled'
        BY <2>1, <2>3
    <2>4. ASSUME NEW c \in Conns, NEW l \in After, session[c] \in Before,
                 l \in {"stream", "died"} => session[c] \in {"start", "stream"},
                 session' = [session EXCEPT ![c] = l]
          PROVE  Coupled'
        BY <2>1, <2>4 DEF Before, After
    <2> QED
        BY <1>3, <2>2, <2>3, <2>4, SessionSteps
<1>4. CASE DropDecoder
    <2>1. UNCHANGED <<called, session, pc>> /\ activity # "forgot"
        BY <1>4
        DEF DropDecoder, Decoder!Release, Decoder!StopInRelease, Decoder!FreeInRelease,
            Decoder!QuitInRelease, Decoder!Forget, Decoder!callers
    <2> QED
        BY <2>1
<1>5. CASE Decode
    <2>1. UNCHANGED <<called, session, pc, activity>>
        BY <1>5
        DEF Decode, Decoder!Media, Decoder!CallbackBegins, Decoder!OnInputBufferAvailable,
            Decoder!Decode, Decoder!callers
    <2> QED
        BY <1>2, <2>1
<1>6. ASSUME NEW c \in Conns, Enter(c) PROVE Coupled'
    <2>1. /\ session[c] = "deliver" /\ called' = called \cup {c}
          /\ UNCHANGED <<session, activity>>
        BY <1>6
        DEF Enter, Decoder!CallConfigure, Decoder!CallFrame
    <2>2. pc' = pc \/ \E l \in {"release", "frame"} : pc' = [pc EXCEPT ![c] = l]
        BY <1>6
        DEF Enter, Decoder!CallConfigure, Decoder!CallFrame, Decoder!Goto
    <2> QED
        BY <2>1, <2>2
<1>7. ASSUME NEW c \in Conns, Inside(c) PROVE Coupled'
    <2>1. UNCHANGED <<called, session, activity>> /\ InDecoder(c)
        BY <1>7, InsideSteps DEF Inside
    <2>2. PICK l \in DP!Pcs : pc' = [pc EXCEPT ![c] = l]
        BY <1>7, InsideSteps
    <2>3. CASE pc[c] = "reset"
        BY <1>7, <2>1, <2>2, <2>3, InsideSteps
    <2>4. CASE pc[c] # "reset"
        BY <1>7, <2>1, <2>2, <2>4, InsideSteps
    <2> QED
        BY <2>3, <2>4
<1>8. ASSUME NEW c \in Conns, Leave(c) PROVE Coupled'
    <2>1. /\ called' = called \ {c} /\ UNCHANGED <<pc, activity>>
          /\ session' = [session EXCEPT ![c] = "check"] /\ session[c] = "deliver"
          /\ ~InDecoder(c)
        BY <1>8 DEF Leave, Server!Deliver, Server!Goto
    <2> QED
        BY <2>1
<1>9. ASSUME NEW c \in Conns, Disconnect(c) PROVE Coupled'
    <2>1. /\ called' = called /\ session[c] = "bye"
          /\ session' = [session EXCEPT ![c] = "done"]
        BY <1>9 DEF Disconnect, Server!OnDisconnected, Server!Goto
    <2>2. activity' = activity
          /\ \/ activity = "forgot" /\ pc' = pc
             \/ pc' = [pc EXCEPT ![c] = "reset"]
        BY <1>9 DEF Disconnect, Decoder!CallReset, Decoder!Goto
    <2> QED
        BY <2>1, <2>2
<1>10. CASE UNCHANGED vars
    BY <1>2, <1>10
<1> QED
    BY <1>3, <1>4, <1>5, <1>6, <1>7, <1>8, <1>9, <1>10 DEF Next, Listener

LEMMA InitCoupled == Init => Coupled
BY DEF Init, Server!Init, Decoder!Init, Coupled, CoupledTo, InDecoder

\* When no session is left the decoder awaits an IDR and keeps no frame,
\* with any number of sessions, overlapping or not (MainActivity.kt:119-122,
\* DecoderManager.kt:189-197).
THEOREM Idle == Spec => []IdleIsClean
<1>1. DP!IInv /\ DP!Rest /\ Coupled => IdleIsClean
    <2> SUFFICES ASSUME DP!IInv, DP!Rest, Coupled, activity = "has",
                        \A c \in Conns : session[c] \in {"none", "done", "died"} /\ ~InDecoder(c)
                 PROVE  waiting /\ pending = <<>>
        BY DEF IdleIsClean, Server!Over
    <2>1. \A c \in Conns : pc[c] = "closed"
        BY DEF Coupled, CoupledTo, InDecoder
    <2> QED
        BY <2>1 DEF DP!Rest, DP!Serving
<1> QED
    BY <1>1, ServerInvariance, DecoderInvariance, InitCoupled, NextCoupled, PTL DEF Spec
-----------------------------------------------------------------------------
(* Connections that do not overlap.                                        *)

\* Once a connection is made, those before it are over, in the server and in
\* the decoder.
Turns ==
    \A c, d \in Conns : d < c /\ sock[c] # "none" => session[d] \in SP!Over /\ pc[d] = "closed"

LEMMA InitTurns == Init => Turns
BY DEF Init, Server!Init, Turns

\* A session that is over, with its calls, stays over.
LEMMA DoneStays ==
    ASSUME SP!IInv, DP!IInv, [Next]_vars, NEW d \in Conns,
           session[d] \in SP!Over, pc[d] = "closed"
    PROVE  session'[d] \in SP!Over /\ pc'[d] = "closed"
<1>1. /\ pc \in [Conns -> DP!Pcs]
      /\ session \in [Conns -> {"none", "start", "stream", "check", "read", "payload",
                                "deliver", "close", "unset", "bye", "done", "died"}]
    BY DEF DP!IInv, DP!TypeOK, DP!Pcs, SP!IInv, SP!TypeOK
<1> USE <1>1 DEF serverVars, decoderVars, vars, SP!Over
<1>2. CASE UNCHANGED <<session, pc>>
    BY <1>2
<1>3. CASE Serve
    <2>1. pc' = pc
        BY <1>3 DEF Serve
    <2> QED
        BY <1>3, <2>1, SessionSteps DEF Before
<1>4. CASE DropDecoder \/ Decode
    BY <1>2, <1>4
    DEF DropDecoder, Decoder!Release, Decoder!StopInRelease, Decoder!FreeInRelease,
        Decoder!QuitInRelease, Decoder!Forget, Decoder!callers, Decode, Decoder!Media,
        Decoder!CallbackBegins, Decoder!OnInputBufferAvailable, Decoder!Decode
<1>5. ASSUME NEW c \in Conns, Enter(c) PROVE session'[d] \in SP!Over /\ pc'[d] = "closed"
    <2>1. c # d /\ session' = session
        BY <1>5 DEF Enter
    <2>2. pc' = pc \/ \E l \in {"release", "frame"} : pc' = [pc EXCEPT ![c] = l]
        BY <1>5 DEF Enter, Decoder!CallConfigure, Decoder!CallFrame, Decoder!Goto
    <2> QED
        BY <2>1, <2>2
<1>6. ASSUME NEW c \in Conns, Inside(c) PROVE session'[d] \in SP!Over /\ pc'[d] = "closed"
    <2>1. c # d /\ session' = session
        BY <1>6 DEF Inside, InDecoder
    <2> QED
        BY <1>6, <2>1, InsideSteps
<1>7. ASSUME NEW c \in Conns, Leave(c) \/ Disconnect(c)
      PROVE  session'[d] \in SP!Over /\ pc'[d] = "closed"
    <2>1. c # d /\ \E l \in {"check", "done"} : session' = [session EXCEPT ![c] = l]
        BY <1>7 DEF Leave, Disconnect, Server!Deliver, Server!OnDisconnected, Server!Goto
    <2>2. pc' = pc \/ pc' = [pc EXCEPT ![c] = "reset"]
        BY <1>7 DEF Leave, Disconnect, Decoder!CallReset, Decoder!Goto
    <2> QED
        BY <2>1, <2>2
<1> QED
    BY <1>2, <1>3, <1>4, <1>5, <1>6, <1>7 DEF Next, Listener

LEMMA NextTurns ==
    ASSUME ~Overlap, SP!IInv, SP!Held, DP!IInv, Turns, [Next]_vars
    PROVE  Turns'
<1> SUFFICES ASSUME NEW c \in Conns, NEW d \in Conns, d < c, sock'[c] # "none"
             PROVE  session'[d] \in SP!Over /\ pc'[d] = "closed"
    BY DEF Turns
<1>1. CASE sock[c] # "none"
    BY <1>1, DoneStays DEF Turns
<1>2. CASE sock[c] = "none"
    <2>1. ~SP!Others
        BY <1>2, Assumptions, SP!NoneStays
    <2>2. ~UNCHANGED serverVars
        BY <1>2 DEF serverVars
    <2>3. Serve
        BY <2>1, <2>2, ServerSteps
        DEF Next, DropDecoder, Decode, Listener, Enter, Inside, Leave, Disconnect, vars,
            SP!Others, Server!HandleSession
    <2>4. PICK e \in Conns : SP!PeerConnects(e) /\ \A x \in Conns : pc[x] = "closed"
        BY <2>1, <2>3, ServeSteps
    <2>5. e = c
        BY <1>2, <2>4 DEF SP!PeerConnects, SP!IInv, SP!TypeOK
    <2>6. session[d] \in SP!Over /\ pc[d] = "closed"
        BY <2>4, <2>5 DEF SP!PeerConnects
    <2> QED
        BY <2>6, DoneStays
<1> QED
    BY <1>1, <1>2

\* Then one thread at a time calls the decoder.
LEMMA OneAfterTheOther == ASSUME ~Overlap PROVE Spec => []DP!Serial
<1>1. SP!IInv /\ Coupled /\ Turns => DP!Serial
    <2> SUFFICES ASSUME SP!IInv, Coupled, Turns, NEW c \in Conns, NEW d \in Conns,
                        pc[c] # "closed", pc[d] # "closed", c # d
                 PROVE  FALSE
        BY DEF DP!Serial
    <2>1. session[c] # "none" /\ session[d] # "none"
        BY DEF Coupled, CoupledTo
    <2>2. sock[c] # "none" /\ sock[d] # "none"
        BY <2>1 DEF SP!IInv, SP!SocketFirst
    <2>3. c < d \/ d < c
        BY DEF ReceiverAssumption
    <2> QED
        BY <2>2, <2>3 DEF Turns
<1> QED
    BY <1>1, InitCoupled, InitTurns, NextCoupled, NextTurns, ServerInvariance,
       DecoderInvariance, PTL DEF Spec

\* No buffer is lost except where feed throws, when the sender connects again
\* only after the session before is over (DecoderManager.kt:132-163,
\* TcpServer.kt:72-86), whatever the number of connections and messages.
THEOREM NoneLost == ASSUME ~Overlap, Prompt PROVE Spec => []NoBufferLost
<1>1. DP!Spec /\ []DP!Serial => []DP!NoBufferLost
    BY Assumptions, DP!BuffersKept
<1>2. DP!NoBufferLost => NoBufferLost
    BY DEF DP!NoBufferLost, NoBufferLost, Decoder!NoBufferLost, DP!Active, Decoder!Active
<1> QED
    BY <1>1, <1>2, EachAlone, OneAfterTheOther, PTL

\* And each frame that comes to feed can be decoded after the one before it
\* (DecoderManager.kt:104-140); it may be lost there, by an exception.
THEOREM StreamIntact ==
    ASSUME ~Overlap, Prompt PROVE Spec => Decoder!ReferenceIntegrity
<1>1. DP!Spec /\ []DP!Serial => DP!ReferenceIntegrity
    BY Assumptions, DP!Decodable
<1>2. DP!ReferenceIntegrity => Decoder!ReferenceIntegrity
    BY DEF DP!ReferenceIntegrity, Decoder!ReferenceIntegrity, DP!Follows,
       Decoder!Follows, DP!vars, Decoder!vars, DP!queues, Decoder!queues, DP!media,
       Decoder!media, DP!running, Decoder!running, DP!callers, Decoder!callers
<1> QED
    BY <1>1, <1>2, EachAlone, OneAfterTheOther, PTL

\* The server's promises hold in the app: one connection at a time, and the
\* newest is kept (TcpServer.kt:79-82, :176).
THEOREM ServerInApp == Spec => []Server!OneConnection /\ Server!NewestKept
<1>1. SP!Spec => []SP!OneConnection /\ SP!NewestKept
    BY Assumptions, SP!OneAtATime, SP!NoneUnregistersAnother
<1>2. SP!OneConnection => Server!OneConnection
    BY DEF SP!OneConnection, Server!OneConnection
<1>3. SP!NewestKept => Server!NewestKept
    BY DEF SP!NewestKept, Server!NewestKept, SP!vars, Server!vars, SP!shared, Server!shared,
      SP!accepting, Server!accepting, SP!watching, Server!watching, SP!sessions,
      Server!sessions, SP!history, Server!history, SP!closing, Server!closing, SP!None, Server!None
<1> QED
    BY <1>1, <1>2, <1>3, EachAlone, PTL

\* The decoder's promises that need no order of the calls hold in the app, also
\* while sessions overlap: the backlog is bounded, and no frame waits beside a
\* free buffer (DecoderManager.kt:121, :132-163).
THEOREM DecoderInApp == Spec => [](Decoder!BacklogBound /\ Decoder!NoIdleBuffer)
<1>1. DP!Spec => []DP!BacklogBound /\ []DP!NoIdleBuffer
    BY Assumptions, DP!Bounded, DP!NoneWaitsForTheOther
<1>2. DP!BacklogBound /\ DP!NoIdleBuffer => Decoder!BacklogBound /\ Decoder!NoIdleBuffer
    BY DEF DP!BacklogBound, Decoder!BacklogBound, DP!NoIdleBuffer, Decoder!NoIdleBuffer
<1> QED
    BY <1>1, <1>2, EachAlone, PTL
=============================================================================

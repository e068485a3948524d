--------------------------- MODULE TcpServerProofs ---------------------------
(***************************************************************************)
(* What module TcpServer promises, for every set of connections and every  *)
(* number of messages, with and without overlap.                           *)
(***************************************************************************)
EXTENDS TcpServer, TLAPS

Open == {"up", "half"}

\* The accept thread holds a connection it replaced only until it has closed
\* it, and shutdown one that it took; the accept thread holds one it accepted
\* until that has a session, and between Swap and Spawn the accepted one is
\* current unless shutdown took it.
Accepting ==
    /\ old # None => srv = "close"
    /\ taken # None => ui = "close"
    /\ client # None =>
         session[client] = "none" /\ sock[client] \notin {"none", "waiting"}
    /\ srv \in {"close", "stamp", "spawn"} /\ sock[client] \in Open =>
         client \in {current, taken}

\* A session begins on an accepted socket and closes it before it ends.
SocketFirst ==
    \A c \in Conns :
        /\ sock[c] \in {"none", "waiting"} => session[c] = "none"
        /\ session[c] \in {"unset", "bye", "done", "died"} => sock[c] \notin Open

\* A session that delivered overtime is on its way out, and stays replaced.
OnItsWayOut ==
    \A c \in Conns :
        \/ overtime[c] = 0
        \/ /\ overtime[c] = 1 /\ current # c
           /\ session[c] \in {"check", "close", "unset", "bye", "done", "died"}

IInv == TypeOK /\ Accepting /\ SocketFirst /\ OneConnection /\ OnItsWayOut

USE TcpAssumption DEF None

-----------------------------------------------------------------------------
(* Types, in four parts: no step needs more than one to keep it.           *)

ThreadType ==
    /\ srv \in {"bind", "loop", "swap", "close", "stamp", "spawn", "ended"}
    /\ watch \in {"off", "loop", "check", "over"}
    /\ client \in Conns \cup {None} /\ old \in Conns \cup {None}
    /\ wsock \in Conns \cup {None} /\ current \in Conns \cup {None}
    /\ (client # None) <=> (srv \in {"swap", "close", "stamp", "spawn"})
    /\ ((wsock # None) <=> (watch = "check")) /\ taken \in Conns \cup {None}
    /\ (srv = "bind" => watch = "off") /\ (watch = "off" => srv \in {"bind", "ended"})

FlagType ==
    /\ running \in BOOLEAN /\ stale \in BOOLEAN /\ connected \in BOOLEAN
    /\ port \in {"unbound", "listening", "closed"}
    /\ ui \in {"live", "port", "socket", "close", "wake", "over"}

SessionType ==
    /\ session \in [Conns -> {"none", "start", "stream", "check", "read", "payload",
                              "deliver", "close", "unset", "bye", "done", "died"}]
    /\ msg \in [Conns -> MsgType \cup {"none"}] /\ count \in [Conns -> 0 .. MaxMsgs]

SocketType ==
    /\ sock \in [Conns -> {"none", "waiting", "up", "half", "closed"}]
    /\ silent \subseteq Conns /\ overtime \in [Conns -> Nat]

\* The four parts make up the type invariant.
LEMMA TypeParts == TypeOK <=> ThreadType /\ FlagType /\ SessionType /\ SocketType
BY DEF TypeOK, ThreadType, FlagType, SessionType, SocketType

\* A server that has just been made meets the invariant.
LEMMA InitIInv == Init => IInv
<1> SUFFICES ASSUME Init PROVE IInv
    OBVIOUS
<1>1. ThreadType
    BY DEF Init, ThreadType
<1>2. FlagType
    BY DEF Init, FlagType
<1>3. SessionType
    BY DEF Init, SessionType
<1>4. SocketType
    BY DEF Init, SocketType
<1>5. Accepting /\ SocketFirst /\ OneConnection /\ OnItsWayOut
    BY DEF Init, Accepting, SocketFirst, OneConnection, OnItsWayOut, Open
<1> QED
    BY <1>1, <1>2, <1>3, <1>4, <1>5, TypeParts DEF IInv

\* The accept thread and the watchdog know whether they hold a connection.
LEMMA NextThread == ThreadType /\ [Next]_vars => ThreadType'
<1> SUFFICES ASSUME ThreadType, [Next]_vars PROVE ThreadType'
    OBVIOUS
<1> USE DEF ThreadType, shared, accepting, watching, closing
<1>1. CASE UNCHANGED <<srv, client, old, watch, wsock, current, taken>>
    BY <1>1
<1>2. CASE BindFails \/ Bind
    BY <1>2 DEF BindFails, Bind
<1>3. CASE Accept
    BY <1>3 DEF Accept
<1>4. CASE Swap
    BY <1>4 DEF Swap
<1>5. CASE CloseOld
    BY <1>5 DEF CloseOld
<1>6. CASE Stamp
    BY <1>6 DEF Stamp
<1>7. CASE Spawn
    BY <1>7 DEF Spawn
<1>8. CASE WatchdogLooks
    BY <1>8 DEF WatchdogLooks
<1>9. CASE WatchdogChecks
    BY <1>9 DEF WatchdogChecks
<1>10. ASSUME NEW c \in Conns, HandleSession(c) PROVE ThreadType'
    <2>1. UNCHANGED <<srv, client, old, watch, wsock, taken>> /\ current' \in {current, None}
        BY <1>10
        DEF HandleSession, OnConnected, GetInputStream, Check, ReadHeader, ReadPayload, ReadFails,
            Deliver, CloseSession, Unset, OnDisconnected
    <2> QED
        BY <2>1
<1>11. CASE ShutdownPort \/ ShutdownClosesPort
    BY <1>1, <1>11 DEF ShutdownPort, ShutdownClosesPort
<1>12. CASE ShutdownTakes \/ ShutdownCloses \/ ShutdownWakes
    BY <1>12 DEF ShutdownTakes, ShutdownCloses, ShutdownWakes
<1>13. CASE World \/ UNCHANGED vars
    BY <1>1, <1>13 DEF World, Elapse, PeerConnects, PeerCloses, vars
<1> QED
    BY <1>2, <1>3, <1>4, <1>5, <1>6, <1>7, <1>8, <1>9, <1>10, <1>11, <1>12, <1>13
    DEF Next, Run, Watchdog, Shutdown, ShutdownGoesOn

\* Flags stay flags.
LEMMA NextFlag == FlagType /\ [Next]_vars => FlagType'
<1> SUFFICES ASSUME FlagType, [Next]_vars PROVE FlagType'
    OBVIOUS
<1>a. CASE Elapse
    <2>1. stale' \in BOOLEAN
        BY <1>a DEF Elapse
    <2>2. UNCHANGED <<running, connected, port, ui>>
        BY <1>a DEF Elapse, shared, sessions, closing
    <2> QED
        BY <2>1, <2>2 DEF FlagType
<1>b. SUFFICES ASSUME ~Elapse PROVE FlagType'
    BY <1>a
<1>1. /\ running' \in {running, FALSE} /\ stale' \in {stale, FALSE}
      /\ connected' \in {connected, TRUE, FALSE}
    BY <1>b DEF Next, Run, BindFails, Bind, Accept, Swap, CloseOld, Stamp, Spawn, Watchdog,
           WatchdogLooks, WatchdogChecks, HandleSession, OnConnected, GetInputStream, Check,
           ReadHeader,
           ReadPayload, ReadFails, Deliver, CloseSession, Unset, OnDisconnected,
           Shutdown, ShutdownPort, ShutdownGoesOn, ShutdownClosesPort, ShutdownTakes,
           ShutdownCloses, ShutdownWakes, World,
           PeerConnects, PeerCloses, shared, closing, vars
<1>2. /\ port' \in {port, "listening", "closed"}
      /\ ui' \in {ui, "port", "socket", "close", "wake", "over"}
    BY <1>b DEF Next, Run, BindFails, Bind, Accept, Swap, CloseOld, Stamp, Spawn, Watchdog,
           WatchdogLooks, WatchdogChecks, HandleSession, OnConnected, GetInputStream, Check,
           ReadHeader,
           ReadPayload, ReadFails, Deliver, CloseSession, Unset, OnDisconnected,
           Shutdown, ShutdownPort, ShutdownGoesOn, ShutdownClosesPort, ShutdownTakes,
           ShutdownCloses, ShutdownWakes, World,
           PeerConnects, PeerCloses, shared, closing, vars
<1>3. running' \in BOOLEAN /\ stale' \in BOOLEAN /\ connected' \in BOOLEAN
    BY <1>1 DEF FlagType
<1>4. /\ port' \in {"unbound", "listening", "closed"}
      /\ ui' \in {"live", "port", "socket", "close", "wake", "over"}
    BY <1>2 DEF FlagType
<1> QED
    BY <1>3, <1>4 DEF FlagType

\* A session moves along its loop; it reads no more messages than there are.
LEMMA NextSession == ThreadType /\ SessionType /\ [Next]_vars => SessionType'
<1> SUFFICES ASSUME ThreadType, SessionType, [Next]_vars PROVE SessionType'
    OBVIOUS
<1> USE DEF SessionType, sessions, Goto
<1>1. CASE UNCHANGED sessions
    BY <1>1
<1>2. CASE BindFails \/ Bind \/ Accept \/ Swap \/ CloseOld \/ Stamp \/ Watchdog
    BY <1>1, <1>2
    DEF BindFails, Bind, Accept, Swap, CloseOld, Stamp, Watchdog, WatchdogLooks, WatchdogChecks
<1>3. CASE Spawn
    BY <1>3 DEF Spawn, ThreadType
<1>4. ASSUME NEW c \in Conns, OnConnected(c) \/ GetInputStream(c) \/ ReadPayload(c)
             \/ ReadFails(c) \/ Deliver(c) \/ CloseSession(c) \/ Unset(c)
      PROVE  SessionType'
    <2>1. /\ UNCHANGED <<msg, count>>
          /\ \E l \in {"stream", "died", "check", "deliver", "close", "unset", "bye"} :
                session' = [session EXCEPT ![c] = l]
        BY <1>4 DEF OnConnected, GetInputStream, ReadPayload, ReadFails, Deliver, CloseSession,
            Unset
    <2> QED
        BY <2>1
<1>5. ASSUME NEW c \in Conns, Check(c) PROVE SessionType'
    BY <1>5 DEF Check
<1>6. ASSUME NEW c \in Conns, ReadHeader(c) PROVE SessionType'
    <2>1. count' \in [Conns -> 0 .. MaxMsgs]
        BY <1>6 DEF ReadHeader
    <2>2. /\ \E m \in MsgType : msg' = [msg EXCEPT ![c] = m]
          /\ \E l \in {"close", "payload"} : session' = [session EXCEPT ![c] = l]
        BY <1>6 DEF ReadHeader
    <2> QED
        BY <2>1, <2>2
<1>7. ASSUME NEW c \in Conns, OnDisconnected(c) PROVE SessionType'
    BY <1>7 DEF OnDisconnected
<1>8. CASE Shutdown \/ World \/ UNCHANGED vars
    BY <1>1, <1>8
    DEF Shutdown, ShutdownPort, ShutdownGoesOn, ShutdownClosesPort, ShutdownTakes,
           ShutdownCloses, ShutdownWakes, World, Elapse,
        PeerConnects, PeerCloses, vars
<1> QED
    BY <1>2, <1>3, <1>4, <1>5, <1>6, <1>7, <1>8 DEF Next, Run, HandleSession

\* Sockets and the history of the connections.
LEMMA NextSocket == ThreadType /\ SocketType /\ [Next]_vars => SocketType'
<1> SUFFICES ASSUME ThreadType, SocketType, [Next]_vars PROVE SocketType'
    OBVIOUS
<1> USE DEF SocketType, history, Close, CloseIfAny
<1>1. CASE UNCHANGED <<sock, history>>
    BY <1>1
<1>2. CASE BindFails \/ Bind \/ Swap \/ Stamp \/ Spawn \/ WatchdogLooks
    BY <1>1, <1>2 DEF BindFails, Bind, Swap, Stamp, Spawn, WatchdogLooks
<1>3. CASE Accept
    BY <1>3 DEF Accept
<1>4. CASE CloseOld
    BY <1>4 DEF CloseOld, ThreadType
<1>5. CASE WatchdogChecks
    BY <1>5 DEF WatchdogChecks, ThreadType
<1>6. ASSUME NEW c \in Conns, HandleSession(c) PROVE SocketType'
    <2>1. sock' = sock \/ sock' = [sock EXCEPT ![c] = "closed"]
        BY <1>6
        DEF HandleSession, OnConnected, GetInputStream, Check, ReadHeader, ReadPayload, ReadFails,
            Deliver, CloseSession, Unset, OnDisconnected
    <2>2. silent' = silent \/ silent' = silent \ {c}
        BY <1>6
        DEF HandleSession, OnConnected, GetInputStream, Check, ReadHeader, ReadPayload, ReadFails,
            Deliver, CloseSession, Unset, OnDisconnected
    <2>3. overtime' \in [Conns -> Nat]
        <3>1. CASE Deliver(c) \/ OnDisconnected(c)
            BY <3>1 DEF Deliver, OnDisconnected
        <3>2. CASE ~(Deliver(c) \/ OnDisconnected(c))
            BY <1>6, <3>2
            DEF HandleSession, OnConnected, GetInputStream, Check, ReadHeader, ReadPayload,
                ReadFails,
                CloseSession, Unset
        <3> QED
            BY <3>1, <3>2
    <2> QED
        BY <2>1, <2>2, <2>3
<1>7. CASE Shutdown
    BY <1>7 DEF Shutdown, ShutdownPort, ShutdownGoesOn, ShutdownClosesPort,
        ShutdownTakes, ShutdownCloses, ShutdownWakes, ThreadType
<1>8. CASE World
    BY <1>8 DEF World, Elapse, PeerConnects, PeerCloses
<1>9. CASE UNCHANGED vars
    BY <1>1, <1>9 DEF vars
<1> QED
    BY <1>2, <1>3, <1>4, <1>5, <1>6, <1>7, <1>8, <1>9 DEF Next, Run, Watchdog

\* No step takes a variable out of its range.
LEMMA NextType == IInv /\ [Next]_vars => TypeOK'
<1>1. TypeOK => ThreadType /\ FlagType /\ SessionType /\ SocketType
    BY TypeParts
<1>2. (ThreadType /\ FlagType /\ SessionType /\ SocketType)' => TypeOK'
    BY DEF TypeOK, ThreadType, FlagType, SessionType, SocketType
<1> QED
    BY <1>1, <1>2, NextThread, NextFlag, NextSession, NextSocket DEF IInv

-----------------------------------------------------------------------------
(* The safety invariants.                                                  *)

\* A socket is accepted before its session begins and closed before it ends;
\* the accept thread keeps track of the two connections in its hands.
LEMMA NextSockets == IInv /\ [Next]_vars => Accepting' /\ SocketFirst' /\ OneConnection'
<1> SUFFICES ASSUME IInv, [Next]_vars
             PROVE  Accepting' /\ SocketFirst' /\ OneConnection'
    OBVIOUS
<1>0. TypeOK /\ Accepting /\ SocketFirst /\ OneConnection
    BY DEF IInv
<1> USE <1>0
        DEF TypeOK, Accepting, SocketFirst, OneConnection, Open, shared, accepting,
            watching, sessions, closing, Goto, Close, CloseIfAny
<1>1. CASE UNCHANGED <<srv, client, old, closing, session, sock, current>>
    BY <1>1
<1>2. CASE BindFails \/ Bind \/ Stamp
    BY <1>2 DEF BindFails, Bind, Stamp
<1>3. CASE Accept
    BY <1>3 DEF Accept
<1>4. CASE Swap
    BY <1>4 DEF Swap
<1>5. CASE CloseOld
    BY <1>5 DEF CloseOld
<1>6. CASE Spawn
    BY <1>6 DEF Spawn
<1>7. CASE WatchdogLooks
    BY <1>1, <1>7 DEF WatchdogLooks
<1>8. CASE WatchdogChecks
    BY <1>8 DEF WatchdogChecks
<1>9. ASSUME NEW c \in Conns,
             OnConnected(c) \/ GetInputStream(c) \/ Check(c) \/ ReadHeader(c)
             \/ ReadPayload(c) \/ ReadFails(c) \/ Deliver(c)
      PROVE  Accepting' /\ SocketFirst' /\ OneConnection'
    <2>1. /\ UNCHANGED <<srv, client, old, closing, sock, current>>
          /\ session[c] \in {"start", "stream", "check", "read", "payload", "deliver"}
          /\ \E l \in {"stream", "died", "check", "read", "payload", "deliver", "close"} :
                /\ session' = [session EXCEPT ![c] = l]
                /\ l = "died" => sock[c] = "closed"
        BY <1>9 DEF OnConnected, GetInputStream, Check, ReadHeader, ReadPayload, ReadFails, Deliver
    <2> QED
        BY <2>1
<1>10. ASSUME NEW c \in Conns, CloseSession(c) \/ Unset(c) \/ OnDisconnected(c)
       PROVE  Accepting' /\ SocketFirst' /\ OneConnection'
    BY <1>10 DEF CloseSession, Unset, OnDisconnected
<1>11. CASE Shutdown
    <2>1. CASE ShutdownPort \/ ShutdownClosesPort \/ ShutdownWakes
        BY <2>1 DEF ShutdownPort, ShutdownClosesPort, ShutdownWakes
    <2>2. CASE ShutdownTakes
        <3>1. /\ taken' = current /\ current' = None /\ ui' = "close"
              /\ UNCHANGED <<srv, client, old, session, sock>>
            BY <2>2 DEF ShutdownTakes
        <3>2. taken = None
            BY <2>2 DEF ShutdownTakes
        <3>3. Accepting'
            BY <3>1, <3>2
        <3>4. SocketFirst' /\ OneConnection'
            BY <3>1, <3>2
        <3> QED
            BY <3>3, <3>4
    <2>3. CASE ShutdownCloses
        BY <2>3 DEF ShutdownCloses
    <2> QED
        BY <1>11, <2>1, <2>2, <2>3 DEF Shutdown, ShutdownGoesOn
<1>12. CASE World
    BY <1>12 DEF World, Elapse, PeerConnects, PeerCloses
<1>13. CASE UNCHANGED vars
    BY <1>1, <1>13 DEF vars
<1> QED
    BY <1>2, <1>3, <1>4, <1>5, <1>6, <1>7, <1>8, <1>9, <1>10, <1>11, <1>12, <1>13
    DEF Next, Run, Watchdog, HandleSession

\* A session that has been replaced is never current again, and ends at its
\* next look at currentSocket (TcpServer.kt:124).
LEMMA NextOvertime == IInv /\ [Next]_vars => OnItsWayOut'
<1> SUFFICES ASSUME IInv, [Next]_vars PROVE OnItsWayOut'
    OBVIOUS
<1>0. TypeOK /\ Accepting /\ OnItsWayOut
    BY DEF IInv
<1> USE <1>0
        DEF TypeOK, OnItsWayOut, shared, accepting, watching, sessions, history, Goto
<1>1. CASE UNCHANGED <<session, current, overtime>>
    BY <1>1
<1>2. CASE BindFails \/ Bind \/ Accept \/ CloseOld \/ Stamp \/ Watchdog
    BY <1>1, <1>2
    DEF BindFails, Bind, Accept, CloseOld, Stamp, Watchdog, WatchdogLooks, WatchdogChecks
<1>3. CASE Swap
    BY <1>3 DEF Swap, Accepting
<1>4. CASE Spawn
    BY <1>4 DEF Spawn, Accepting
<1>5. ASSUME NEW c \in Conns, Deliver(c) PROVE OnItsWayOut'
    BY <1>5 DEF Deliver
<1>6. ASSUME NEW c \in Conns, Check(c) PROVE OnItsWayOut'
    BY <1>6 DEF Check
<1>7. ASSUME NEW c \in Conns,
             OnConnected(c) \/ GetInputStream(c) \/ ReadHeader(c) \/ ReadPayload(c)
             \/ ReadFails(c)
      PROVE  OnItsWayOut'
    <2>1. /\ UNCHANGED <<current, overtime>>
          /\ session[c] \in {"start", "stream", "read", "payload"}
          /\ \E l \in {"stream", "died", "check", "close", "payload", "deliver"} :
                session' = [session EXCEPT ![c] = l]
        BY <1>7 DEF OnConnected, GetInputStream, ReadHeader, ReadPayload, ReadFails
    <2> QED
        BY <2>1
<1>8. ASSUME NEW c \in Conns, CloseSession(c) \/ Unset(c) \/ OnDisconnected(c)
      PROVE  OnItsWayOut'
    BY <1>8 DEF CloseSession, Unset, OnDisconnected
<1>9. CASE Shutdown
    BY <1>9 DEF Shutdown, ShutdownPort, ShutdownGoesOn, ShutdownClosesPort,
        ShutdownTakes, ShutdownCloses, ShutdownWakes
<1>10. CASE World \/ UNCHANGED vars
    BY <1>1, <1>10 DEF World, Elapse, PeerConnects, PeerCloses, vars
<1> QED
    BY <1>2, <1>3, <1>4, <1>5, <1>6, <1>7, <1>8, <1>9, <1>10
    DEF Next, Run, HandleSession

\* The invariant is inductive.
LEMMA NextIInv == IInv /\ [Next]_vars => IInv'
BY NextType, NextSockets, NextOvertime DEF IInv

\* It holds in every reachable state.
THEOREM Invariance == Spec => []IInv
BY InitIInv, NextIInv, PTL DEF Spec

\* Every variable keeps its range.
THEOREM TypeCorrect == Spec => []TypeOK
<1>1. IInv => TypeOK
    BY DEF IInv
<1> QED
    BY Invariance, <1>1, PTL

\* One connection only, however many come (TcpServer.kt:79-82).
THEOREM OneAtATime == Spec => []OneConnection
<1>1. IInv => OneConnection
    BY DEF IInv
<1> QED
    BY Invariance, <1>1, PTL

\* A session that was replaced delivers one more message at most
\* (TcpServer.kt:124).
THEOREM NoMoreThanOne == Spec => []OvertimeBound
<1>1. IInv => OvertimeBound
    BY DEF IInv, OnItsWayOut, OvertimeBound
<1> QED
    BY Invariance, <1>1, PTL

\* No session unregisters another (TcpServer.kt:176).
THEOREM NoneUnregistersAnother == Spec => NewestKept
<1>1. IInv /\ [Next]_vars =>
          [current # None /\ current' = None =>
              session[current] = "unset" \/ ui = "socket"]_vars
    <2> SUFFICES ASSUME IInv, [Next]_vars, current # None, current' = None
                 PROVE  session[current] = "unset" \/ ui = "socket"
        OBVIOUS
    <2>1. current' # current
        OBVIOUS
    <2>2. CASE Swap
        BY <2>2 DEF Swap, IInv, TypeOK
    <2>3. CASE \E c \in Conns : Unset(c)
        BY <2>3 DEF Unset
    <2>4. CASE ShutdownTakes
        BY <2>4 DEF ShutdownTakes
    <2> QED
        BY <2>1, <2>2, <2>3, <2>4
        DEF Next, Run, BindFails, Bind, Accept, CloseOld, Stamp, Spawn, Watchdog, WatchdogLooks,
            WatchdogChecks, HandleSession, OnConnected, GetInputStream, Check, ReadHeader,
            ReadPayload,
            ReadFails, Deliver, CloseSession, OnDisconnected, Shutdown, ShutdownPort,
            ShutdownGoesOn, ShutdownClosesPort, ShutdownCloses, ShutdownWakes, World, Elapse,
            PeerConnects, PeerCloses, shared, closing, vars
<1> QED
    BY Invariance, <1>1, PTL DEF Spec, NewestKept
-----------------------------------------------------------------------------
(* The order of the connections.                                           *)

\* Whoever holds a socket has had it from the accept thread.
Held == \A c \in {current, old, wsock, taken} \ {None} : sock[c] \notin {"none", "waiting"}

LEMMA NextHeld == IInv /\ Held /\ [Next]_vars => Held'
<1> SUFFICES ASSUME IInv, Held, [Next]_vars PROVE Held'
    OBVIOUS
<1>0. TypeOK /\ Accepting /\ SocketFirst
    BY DEF IInv
<1> USE <1>0
        DEF TypeOK, Accepting, SocketFirst, Held, shared, accepting, watching, sessions,
            closing, Close, CloseIfAny
<1>1. CASE UNCHANGED <<current, old, wsock, taken, sock>>
    BY <1>1
<1>2. CASE BindFails \/ Bind \/ Stamp \/ Spawn
    BY <1>1, <1>2 DEF BindFails, Bind, Stamp, Spawn
<1>3. CASE Accept
    BY <1>3 DEF Accept
<1>4. CASE Swap
    BY <1>4 DEF Swap
<1>5. CASE CloseOld
    BY <1>5 DEF CloseOld
<1>6. CASE Watchdog
    BY <1>6 DEF Watchdog, WatchdogLooks, WatchdogChecks
<1>7. ASSUME NEW c \in Conns, HandleSession(c) PROVE Held'
    <2>1. /\ UNCHANGED <<old, wsock, taken>> /\ current' \in {current, None}
          /\ sock' = sock \/ sock' = [sock EXCEPT ![c] = "closed"]
        BY <1>7
        DEF HandleSession, OnConnected, GetInputStream, Check, ReadHeader, ReadPayload, ReadFails,
            Deliver, CloseSession, Unset, OnDisconnected
    <2> QED
        BY <2>1
<1>8. CASE Shutdown
    BY <1>8 DEF Shutdown, ShutdownPort, ShutdownGoesOn, ShutdownClosesPort,
        ShutdownTakes, ShutdownCloses, ShutdownWakes
<1>9. CASE World
    BY <1>9 DEF World, Elapse, PeerConnects, PeerCloses
<1>10. CASE UNCHANGED vars
    BY <1>1, <1>10 DEF vars
<1> QED
    BY <1>2, <1>3, <1>4, <1>5, <1>6, <1>7, <1>8, <1>9, <1>10 DEF Next, Run

\* Nobody closes a socket that no one has connected, in any reachable state.
THEOREM OnlyHeld == Spec => []Held
<1>1. Init => Held
    BY DEF Init, Held
<1> QED
    BY Invariance, NextHeld, <1>1, PTL DEF Spec

\* The steps that make no connection.
Others ==
    \/ Run \/ Watchdog \/ Shutdown \/ Elapse
    \/ \E c \in Conns : HandleSession(c) \/ PeerCloses(c)

\* A socket comes into being when the peer connects, and in no other step.
LEMMA NoneStays ==
    ASSUME IInv, Held, Others, NEW c \in Conns, sock[c] = "none"
    PROVE  sock'[c] = "none"
<1>0. TypeOK /\ Accepting /\ SocketFirst
    BY DEF IInv
<1> USE <1>0
        DEF TypeOK, Accepting, SocketFirst, Held, shared, accepting, watching, sessions,
            closing, Close, CloseIfAny
<1>1. CASE sock' = sock
    BY <1>1
<1>2. CASE Run
    BY <1>2 DEF Run, BindFails, Bind, Accept, Swap, CloseOld, Stamp, Spawn
<1>3. CASE Watchdog
    BY <1>3 DEF Watchdog, WatchdogLooks, WatchdogChecks
<1>4. ASSUME NEW d \in Conns, HandleSession(d) PROVE sock'[c] = "none"
    <2>1. CASE CloseSession(d)
        BY <2>1 DEF CloseSession
    <2>2. CASE ~CloseSession(d)
        BY <1>1, <1>4, <2>2
        DEF HandleSession, OnConnected, GetInputStream, Check, ReadHeader, ReadPayload, ReadFails,
            Deliver, Unset, OnDisconnected
    <2> QED
        BY <2>1, <2>2
<1>5. CASE Shutdown
    BY <1>5 DEF Shutdown, ShutdownPort, ShutdownGoesOn, ShutdownClosesPort,
        ShutdownTakes, ShutdownCloses, ShutdownWakes
<1>6. CASE Elapse
    BY <1>1, <1>6 DEF Elapse
<1>7. ASSUME NEW d \in Conns, PeerCloses(d) PROVE sock'[c] = "none"
    BY <1>7 DEF PeerCloses
<1> QED
    BY <1>2, <1>3, <1>4, <1>5, <1>6, <1>7 DEF Others
=============================================================================

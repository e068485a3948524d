----------------------------- MODULE TcpServer -----------------------------
(***************************************************************************)
(* TcpServer.kt: the accept thread (run), the watchdog, a session thread   *)
(* per connection (handleSession) and the UI thread's shutdown.  A step is *)
(* one access to what they share: the port, currentSocket, lastRecvAtMs,   *)
(* running, a socket, the listener (MainActivity's connected).             *)
(*                                                                         *)
(* The listener's work on the decoder is in module Receiver; here a        *)
(* message is delivered in one step.  lastRecvAtMs is known as stale, "is  *)
(* it more than 3 s ago?": Elapse lets 3 s pass in which nothing happens.  *)
(***************************************************************************)
EXTENDS Integers, FiniteSets

CONSTANTS Conns,        \* the connections the phone gets, numbered in order
          MaxMsgs,      \* bound: messages on one connection
          Overlap       \* may the peer connect again while a session is open?

ASSUME TcpAssumption ==
    /\ Conns \subseteq Nat \ {0} /\ IsFiniteSet(Conns)
    /\ MaxMsgs \in Nat
    /\ Overlap \in BOOLEAN

None == 0

\* Marked *: history, read by properties only.
VARIABLES
    port,       \* serverSocket: not yet bound, listening, or closed
    running,    \* running
    current,    \* currentSocket: None or a connection
    stale,      \* is lastRecvAtMs more than HEARTBEAT_TIMEOUT_MS ago?
    \* threads
    srv,        \* where run() is
    client,     \* client in run()
    old,        \* old in run()
    watch,      \* where the watchdog is
    wsock,      \* sock in the watchdog
    session,    \* where each session thread is
    msg,        \* the type of the message in its hands
    ui,         \* where shutdown() is
    taken,      \* the socket it has taken out of currentSocket
    connected,  \* MainActivity.connected
    \* the connections
    sock,       \* each: not made, waiting to be accepted, up, left by the peer
                \* (half), or closed by us
    count,      \* headers read on each
    \* history
    silent,     \* * connections that have been up for 3 s without a header
    overtime    \* * messages a session delivered when it was no longer current

accepting == <<srv, client, old>>
watching  == <<watch, wsock>>
sessions  == <<session, msg, count>>
shared    == <<port, running, current, stale, connected>>
history   == <<silent, overtime>>
closing   == <<ui, taken>>
vars      == <<shared, accepting, watching, sessions, closing, sock, history>>

MsgType == {"handshake", "video", "heartbeat", "bad"}

Init ==
    /\ port = "unbound" /\ running = TRUE /\ current = None /\ stale = FALSE
    /\ connected = FALSE
    /\ srv = "bind" /\ client = None /\ old = None
    /\ watch = "off" /\ wsock = None
    /\ session = [c \in Conns |-> "none"] /\ msg = [c \in Conns |-> "none"]
    /\ count = [c \in Conns |-> 0]
    /\ ui = "live" /\ taken = None
    /\ sock = [c \in Conns |-> "none"]
    /\ silent = {} /\ overtime = [c \in Conns |-> 0]

Close(c) == sock' = [sock EXCEPT ![c] = "closed"]
CloseIfAny(c) == IF c = None THEN UNCHANGED sock ELSE Close(c)

-----------------------------------------------------------------------------
(* run, the accept thread.                                                 *)

\* Lines 64-67: the port is taken; run is over, and there is no watchdog.
BindFails ==
    /\ srv = "bind" /\ srv' = "ended"
    /\ UNCHANGED <<shared, client, old, watching, sessions, closing, sock, history>>

\* Lines 58-69: bind, then start the watchdog.
Bind ==
    /\ srv = "bind" /\ srv' = "loop"
    /\ port' = "listening"
    /\ watch' = "loop"
    /\ UNCHANGED <<running, current, stale, connected, client, old, wsock, sessions,
                   closing, sock, history>>

\* Lines 71-77: accept blocks; it throws when the port has been closed.
Accept ==
    /\ srv = "loop"
    /\ \/ /\ ~running \/ port = "closed"
          /\ srv' = "ended"
          /\ UNCHANGED <<client, sock>>
       \/ /\ running /\ port = "listening"
          /\ \E c \in Conns :
                /\ sock[c] = "waiting"
                /\ client' = c
                /\ sock' = [sock EXCEPT ![c] = "up"]
          /\ srv' = "swap"
    /\ UNCHANGED <<shared, old, watching, sessions, closing, history>>

\* Line 81, getAndSet.
Swap ==
    /\ srv = "swap" /\ srv' = "close"
    /\ old' = current
    /\ current' = client
    /\ UNCHANGED <<port, running, stale, connected, client, watching, sessions, closing,
                   sock, history>>

\* Mutant: the connection that was replaced is left open.
CloseOldNot ==
    /\ srv = "close" /\ srv' = "stamp"
    /\ old' = None
    /\ UNCHANGED <<shared, client, watching, sessions, closing, sock, history>>

\* Line 82, old.close().
CloseOld ==
    /\ srv = "close" /\ srv' = "stamp"
    /\ CloseIfAny(old)
    /\ old' = None
    /\ UNCHANGED <<shared, client, watching, sessions, closing, history>>

\* Line 84.
Stamp ==
    /\ srv = "stamp" /\ srv' = "spawn"
    /\ stale' = FALSE
    /\ UNCHANGED <<port, running, current, connected, client, old, watching, sessions,
                   closing, sock, history>>

\* Line 85.
Spawn ==
    /\ srv = "spawn" /\ srv' = "loop"
    /\ session' = [session EXCEPT ![client] = "start"]
    /\ client' = None
    /\ UNCHANGED <<shared, old, watching, msg, count, closing, sock, history>>

Run == BindFails \/ Bind \/ Accept \/ Swap \/ CloseOld \/ Stamp \/ Spawn

-----------------------------------------------------------------------------
(* The watchdog.                                                           *)

\* Mutant: the watchdog ends when it finds no connection.
WatchdogLooksOnce ==
    /\ watch = "loop"
    /\ IF ~running \/ current = None THEN watch' = "over" /\ UNCHANGED wsock
       ELSE wsock' = current /\ watch' = "check"
    /\ UNCHANGED <<shared, accepting, sessions, closing, sock, history>>

\* Lines 100-106: every 300 ms, unless interrupted.
WatchdogLooks ==
    /\ watch = "loop"
    /\ IF ~running THEN watch' = "over" /\ UNCHANGED wsock
       ELSE /\ current # None
            /\ wsock' = current /\ watch' = "check"
    /\ UNCHANGED <<shared, accepting, sessions, closing, sock, history>>

\* Lines 107-110.
WatchdogChecks ==
    /\ watch = "check" /\ watch' = "loop"
    /\ IF stale THEN Close(wsock) ELSE UNCHANGED sock
    /\ wsock' = None
    /\ UNCHANGED <<shared, accepting, sessions, closing, history>>

Watchdog == WatchdogLooks \/ WatchdogChecks

-----------------------------------------------------------------------------
(* handleSession, a thread per connection.                                 *)

Goto(c, l) == session' = [session EXCEPT ![c] = l]

\* Line 116, listener.onConnected().
OnConnected(c) ==
    /\ session[c] = "start" /\ Goto(c, "stream")
    /\ connected' = TRUE
    /\ UNCHANGED <<port, running, current, stale, accepting, watching, msg, count, closing,
                   sock, history>>

\* Line 117, outside the try: getInputStream throws when the socket has been
\* closed on this side.  The thread dies of it and skips lines 174-177.
GetInputStream(c) ==
    /\ session[c] = "stream"
    /\ Goto(c, IF sock[c] = "closed" THEN "died" ELSE "check")
    /\ UNCHANGED <<shared, accepting, watching, msg, count, closing, sock, history>>

\* Line 124.
Check(c) ==
    /\ session[c] = "check"
    /\ Goto(c, IF running /\ current = c THEN "read" ELSE "close")
    /\ msg' = [msg EXCEPT ![c] = "none"]
    /\ UNCHANGED <<shared, accepting, watching, count, closing, sock, history>>

\* Lines 125-144: a header arrives.  A bad one ends the session, any other
\* is a sign of life.
ReadHeader(c) ==
    /\ session[c] = "read" /\ sock[c] = "up"
    /\ count[c] < MaxMsgs
    /\ count' = [count EXCEPT ![c] = @ + 1]
    /\ \E m \in MsgType :
          /\ (m = "handshake") = (count[c] = 0)
          /\ msg' = [msg EXCEPT ![c] = m]
          /\ IF m = "bad" THEN Goto(c, "close") /\ UNCHANGED <<stale, silent>>
             ELSE /\ Goto(c, "payload")
                  /\ stale' = FALSE /\ silent' = silent \ {c}
    /\ UNCHANGED <<port, running, current, connected, accepting, watching, closing, sock,
                   overtime>>

\* Lines 148-165: the payload arrives; a heartbeat's is skipped.
ReadPayload(c) ==
    /\ session[c] = "payload" /\ sock[c] = "up"
    /\ Goto(c, IF msg[c] = "heartbeat" THEN "check" ELSE "deliver")
    /\ UNCHANGED <<shared, accepting, watching, msg, count, closing, sock, history>>

\* A read fails: the socket was closed on this side, or the peer is gone.
ReadFails(c) ==
    /\ session[c] \in {"read", "payload"} /\ Goto(c, "close")
    /\ sock[c] # "up"
    /\ UNCHANGED <<shared, accepting, watching, msg, count, closing, sock, history>>

\* Lines 150 and 161, the listener is called.
Deliver(c) ==
    /\ session[c] = "deliver" /\ Goto(c, "check")
    /\ overtime' = [overtime EXCEPT ![c] = IF current = c THEN @ ELSE @ + 1]
    /\ UNCHANGED <<shared, accepting, watching, msg, count, closing, sock, silent>>

\* Line 175.
CloseSession(c) ==
    /\ session[c] = "close" /\ Goto(c, "unset")
    /\ Close(c)
    /\ UNCHANGED <<shared, accepting, watching, msg, count, closing, history>>

\* Mutant: the session clears currentSocket whatever it holds.
UnsetAny(c) ==
    /\ session[c] = "unset" /\ Goto(c, "bye")
    /\ current' = None
    /\ UNCHANGED <<port, running, stale, connected, accepting, watching, msg, count, closing,
                   sock, history>>

\* Line 176, compareAndSet.
Unset(c) ==
    /\ session[c] = "unset" /\ Goto(c, "bye")
    /\ current' = IF current = c THEN None ELSE current
    /\ UNCHANGED <<port, running, stale, connected, accepting, watching, msg, count, closing,
                   sock, history>>

\* Line 177, listener.onDisconnected(); the thread's locals go with it.
OnDisconnected(c) ==
    /\ session[c] = "bye" /\ Goto(c, "done")
    /\ connected' = FALSE
    /\ msg' = [msg EXCEPT ![c] = "none"] /\ count' = [count EXCEPT ![c] = 0]
    /\ silent' = silent \ {c} /\ overtime' = [overtime EXCEPT ![c] = 0]
    /\ UNCHANGED <<port, running, current, stale, accepting, watching, closing, sock>>

HandleSession(c) ==
    \/ OnConnected(c) \/ GetInputStream(c) \/ Check(c) \/ ReadHeader(c)
    \/ ReadPayload(c) \/ ReadFails(c) \/ Deliver(c) \/ CloseSession(c) \/ Unset(c)
    \/ OnDisconnected(c)

-----------------------------------------------------------------------------
(* shutdown, on the UI thread (surfaceDestroyed, onDestroy).               *)

\* Line 90.
ShutdownPort ==
    /\ ui = "live" /\ ui' = "port"
    /\ running' = FALSE
    /\ UNCHANGED <<port, current, stale, connected, accepting, watching, sessions, taken,
                   sock, history>>

\* Line 91; a port that is not bound yet cannot be closed.
ShutdownClosesPort ==
    /\ ui = "port" /\ ui' = "socket"
    /\ port' = IF port = "listening" THEN "closed" ELSE port
    /\ UNCHANGED <<running, current, stale, connected, accepting, watching, sessions,
                   taken, sock, history>>

\* Line 92, getAndSet.
ShutdownTakes ==
    /\ ui = "socket" /\ ui' = "close"
    /\ taken' = current
    /\ current' = None
    /\ UNCHANGED <<port, running, stale, connected, accepting, watching, sessions, sock,
                   history>>

\* Mutant: the socket is only unregistered.
ShutdownUnregisters ==
    /\ ui = "close" /\ ui' = "wake"
    /\ taken' = None
    /\ UNCHANGED <<shared, accepting, watching, sessions, sock, history>>

\* Line 93.
ShutdownCloses ==
    /\ ui = "close" /\ ui' = "wake"
    /\ CloseIfAny(taken)
    /\ taken' = None
    /\ UNCHANGED <<shared, accepting, watching, sessions, history>>

\* Line 95: a watchdog that sleeps is woken, one at work is at its next sleep.
ShutdownWakes ==
    /\ ui = "wake" /\ ui' = "over"
    /\ watch' = IF watch = "loop" THEN "over" ELSE watch
    /\ UNCHANGED <<shared, accepting, wsock, sessions, taken, sock, history>>

ShutdownGoesOn == ShutdownClosesPort \/ ShutdownTakes \/ ShutdownCloses \/ ShutdownWakes
Shutdown       == ShutdownPort \/ ShutdownGoesOn

-----------------------------------------------------------------------------
(* The peer and the clock.                                                 *)

\* A session thread is over at its end, or by the exception of line 117.
Over == {"done", "died"}

\* The sender connects: the kernel completes it while the port listens.
\* Without Overlap it does so only when the session before is over.
PeerConnects(c) ==
    /\ port = "listening" /\ sock[c] = "none"
    /\ \A d \in Conns : d < c => sock[d] # "none" /\ (Overlap \/ session[d] \in Over)
    /\ sock' = [sock EXCEPT ![c] = "waiting"]
    /\ UNCHANGED <<shared, accepting, watching, sessions, closing, history>>

\* The peer's end is closed.  A cable that is pulled closes nothing: that
\* peer just stays silent.
PeerCloses(c) ==
    /\ sock[c] = "up" /\ sock' = [sock EXCEPT ![c] = "half"]
    /\ UNCHANGED <<shared, accepting, watching, sessions, closing, history>>

\* Has lastRecvAtMs been written?  Before, it is Long.MAX_VALUE.
Stamped == srv = "spawn" \/ \E c \in Conns : session[c] # "none"

\* More than HEARTBEAT_TIMEOUT_MS pass.
Elapse ==
    /\ stale' = (stale \/ Stamped)
    /\ silent' = {c \in Conns : sock[c] = "up"}
    /\ UNCHANGED <<port, running, current, connected, accepting, watching, sessions, closing,
                   sock, overtime>>

World == Elapse \/ \E c \in Conns : PeerConnects(c) \/ PeerCloses(c)

-----------------------------------------------------------------------------
Next == Run \/ Watchdog \/ (\E c \in Conns : HandleSession(c)) \/ Shutdown \/ World

Spec == Init /\ [][Next]_vars

\* Every thread runs, time passes; peers and the user owe nothing.
FairSpec ==
    /\ Spec
    /\ WF_vars(Run) /\ WF_vars(Watchdog) /\ WF_vars(Elapse)
    /\ WF_vars(ShutdownGoesOn)
    /\ \A c \in Conns : WF_vars(HandleSession(c))

-----------------------------------------------------------------------------
(* Properties.                                                             *)

\* Every variable keeps its range; a thread about to use a socket has one.
TypeOK ==
    /\ port \in {"unbound", "listening", "closed"} /\ running \in BOOLEAN
    /\ current \in Conns \cup {None} /\ stale \in BOOLEAN /\ connected \in BOOLEAN
    /\ srv \in {"bind", "loop", "swap", "close", "stamp", "spawn", "ended"}
    /\ client \in Conns \cup {None} /\ old \in Conns \cup {None}
    /\ watch \in {"off", "loop", "check", "over"} /\ wsock \in Conns \cup {None}
    /\ (client # None) <=> (srv \in {"swap", "close", "stamp", "spawn"})
    /\ ((wsock # None) <=> (watch = "check"))
    /\ (srv = "bind" => watch = "off") /\ (watch = "off" => srv \in {"bind", "ended"})
    /\ session \in [Conns -> {"none", "start", "stream", "check", "read", "payload",
                              "deliver", "close", "unset", "bye", "done", "died"}]
    /\ msg \in [Conns -> MsgType \cup {"none"}] /\ count \in [Conns -> 0 .. MaxMsgs]
    /\ ui \in {"live", "port", "socket", "close", "wake", "over"}
    /\ taken \in Conns \cup {None}
    /\ sock \in [Conns -> {"none", "waiting", "up", "half", "closed"}]
    /\ silent \subseteq Conns /\ overtime \in [Conns -> Nat]

\* One connection only (TcpServer.kt:79-81): a session's socket is the
\* current one, or is being closed by whoever replaced or removed it.
OneConnection ==
    \A c \in Conns : sock[c] \in {"up", "half"} /\ session[c] \notin {"none", "close"} =>
        c \in {current, old, taken}

\* A session that has been replaced delivers the message it is reading and
\* no other (the loop's condition, line 124).
OvertimeBound == \A c \in Conns : overtime[c] <= 1

\* A session that ends does not unregister the one that replaced it (lines
\* 81 and 176); only shutdown does.
NewestKept ==
    [][current # None /\ current' = None =>
           session[current] = "unset" \/ ui = "socket"]_vars

\* A connection that falls silent is given up (watchdog, lines 98-113, which
\* looks at the current socket only): its session ends and tells the listener,
\* unless the socket was closed before the session had its stream; then its
\* thread dies (line 117) and the listener is told nothing.
SilentEnds == \A c \in Conns : session[c] = "start" ~> session[c] \in Over

\* After shutdown every thread of the server ends and no accepted socket stays
\* open, whatever accept, a preemption or a session was at.  It does not speak
\* of the port, which a late bind may leave open (line 59).
ShutdownEnds ==
    ui = "over" ~> /\ srv = "ended" /\ watch \in {"off", "over"}
                   /\ \A c \in Conns : /\ session[c] \in Over \cup {"none"}
                                       /\ sock[c] \notin {"up", "half"}

\* docs/PROTOCOL.md:52, the receiver takes a connection for dead 3 s after it
\* last received something: the watchdog closes silent connections only.
SilentOnlyCut ==
    [][watch = "check" /\ sock[wsock] = "up" /\ sock'[wsock] = "closed" /\ wsock' = None
         => wsock \in silent]_vars
=============================================================================

----------------------------- MODULE Receiver ------------------------------
(***************************************************************************)
(* The app on the phone: TcpServer's threads call MainActivity, which      *)
(* passes the calls on to the DecoderManager (MainActivity.kt:93-122).     *)
(* Sessions may overlap, so the decoder is called by several threads: the  *)
(* session of connection c is thread c of module Decoder.                  *)
(*                                                                         *)
(* The two components share no variable.  A session in "deliver" is inside *)
(* the decoder until its call returns; after its last step in TcpServer it *)
(* may still be inside reset.                                              *)
(***************************************************************************)
EXTENDS Integers, Sequences, FiniteSets

CONSTANTS Conns, MaxMsgs, Overlap,      \* as in TcpServer
          Indices, MaxBacklog, Prompt   \* as in Decoder

ASSUME ReceiverAssumption ==
    /\ Conns \subseteq Nat \ {0} /\ IsFiniteSet(Conns) /\ Conns # {}
    /\ MaxMsgs \in Nat /\ Overlap \in BOOLEAN
    /\ Indices # {} /\ MaxBacklog \in Nat \ {0} /\ Prompt \in BOOLEAN

VARIABLES
    \* TcpServer
    port, running, current, stale, connected, srv, client, old, watch, wsock,
    session, msg, count, ui, taken, sock, silent, overtime,
    \* Decoder
    codec, pending, avail, dropping, waiting, holder, cb, activity, live, made,
    posted, lent, queued, spoiled, rendered, handed, pc, arg, mine, conn, got, conns,
    \* here
    called      \* sessions that have called the decoder for the message they hold

Server  == INSTANCE TcpServer
Decoder == INSTANCE Decoder WITH
               Threads <- Conns, MaxConns <- Cardinality(Conns), MaxFrames <- MaxMsgs

serverVars  == <<port, running, current, stale, connected, srv, client, old, watch,
                 wsock, session, msg, count, ui, taken, sock, silent, overtime>>
decoderVars == <<codec, pending, avail, dropping, waiting, holder, cb, activity, live,
                 made, posted, lent, queued, spoiled, rendered, handed, pc, arg, mine,
                 conn, got, conns>>
vars        == <<serverVars, decoderVars, called>>

Init == Server!Init /\ Decoder!Init /\ called = {}

-----------------------------------------------------------------------------
(* A session calls the listener.                                           *)

\* onHandshake or onVideoFrame, which ends at once when MainActivity no
\* longer has a decoder.  The handshake is the sender's, hence well-formed.
Enter(c) ==
    /\ session[c] = "deliver" /\ c \notin called /\ called' = called \cup {c}
    /\ \/ activity = "forgot" /\ UNCHANGED decoderVars
       \/ msg[c] = "handshake" /\ Decoder!CallConfigure(c)
       \/ msg[c] = "video" /\ \E idr \in BOOLEAN : Decoder!CallFrame(c, idr)
    /\ UNCHANGED serverVars

InDecoder(c) == pc[c] \notin {"open", "closed"}

Inside(c) ==
    /\ InDecoder(c)
    /\ Decoder!Configure(c) \/ Decoder!OnVideoFrame(c) \/ Decoder!Reset(c)
    /\ UNCHANGED <<serverVars, called>>

Leave(c) ==
    /\ c \in called /\ ~InDecoder(c) /\ called' = called \ {c}
    /\ Server!Deliver(c)
    /\ UNCHANGED decoderVars

\* Mutant: the decoder is not told of a disconnect.
DisconnectOnly(c) == Server!OnDisconnected(c) /\ UNCHANGED <<decoderVars, called>>

\* onDisconnected (lines 119-122).
Disconnect(c) ==
    /\ Server!OnDisconnected(c)
    /\ \/ activity = "forgot" /\ UNCHANGED decoderVars
       \/ Decoder!CallReset(c)
    /\ UNCHANGED called

Listener(c) == Enter(c) \/ Inside(c) \/ Leave(c) \/ Disconnect(c)

-----------------------------------------------------------------------------
(* Steps of one component only.                                            *)

\* TcpServer's other steps.  Without Overlap the peer connects again when
\* the call of the session before is over, too.
Serve ==
    /\ \/ Server!Run \/ Server!Watchdog \/ Server!Shutdown \/ Server!Elapse
       \/ \E c \in Conns : \/ Server!OnConnected(c) \/ Server!GetInputStream(c)
                           \/ Server!Check(c)
                           \/ Server!ReadHeader(c) \/ Server!ReadPayload(c)
                           \/ Server!ReadFails(c) \/ Server!CloseSession(c)
                           \/ Server!Unset(c) \/ Server!PeerCloses(c)
                           \/ /\ Server!PeerConnects(c)
                              /\ Overlap \/ \A d \in Conns : pc[d] = "closed"
    /\ UNCHANGED <<decoderVars, called>>

\* surfaceDestroyed (lines 93-98): the decoder goes after the server.
DropDecoder ==
    /\ ui = "over"
    /\ Decoder!Release \/ Decoder!Forget
    /\ UNCHANGED <<serverVars, called>>

Decode == Decoder!Media /\ UNCHANGED <<serverVars, called>>

Next == Serve \/ DropDecoder \/ Decode \/ \E c \in Conns : Listener(c)

Spec == Init /\ [][Next]_vars

-----------------------------------------------------------------------------
(* Properties.                                                             *)

\* Each buffer lent to the app is accounted for, as in Decoder, unless feed has
\* thrown for it.  With Overlap
\* this is what docs/PROTOCOL.md:9 takes for granted, the newest connection
\* wins: the end of an older session takes no buffer from its stream.
NoBufferLost == Decoder!NoBufferLost

\* When no session is left the decoder discards what comes until there is a
\* new configuration and an IDR (docs/PROTOCOL.md:10), and keeps no frame.
IdleIsClean ==
    (\A c \in Conns : session[c] \in Server!Over \cup {"none"} /\ ~InDecoder(c))
        /\ activity = "has" => waiting /\ pending = <<>>
=============================================================================

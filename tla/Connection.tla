----------------------------- MODULE Connection -----------------------------
(***************************************************************************)
(* What PROTOCOL.md v1 promises of one TCP connection, seen by somebody    *)
(* who only watches the socket: nothing precedes the handshake, there is   *)
(* one handshake, sequence numbers have no gap, and nothing follows a      *)
(* message that was cut short.  The sender's queue, thread and retry       *)
(* policy are not part of it; module Sender is shown to implement it.      *)
(***************************************************************************)
EXTENDS Naturals

CONSTANT SeqMod      \* seq is a uint32: numbers are counted modulo SeqMod

VARIABLES open,      \* is there a connection?
          out        \* the last message the socket accepted on it

SeqNo   == 0 .. SeqMod - 1
MsgType == {"handshake", "video", "heartbeat"}
Message == [type : MsgType, seq : SeqNo, whole : BOOLEAN]

\* No message yet on this connection.
Nothing == [type |-> "none", seq |-> 0, whole |-> TRUE]

-----------------------------------------------------------------------------
Init == open = FALSE /\ out = Nothing

Open == /\ ~open
        /\ open' = TRUE
        /\ out' = Nothing

\* The first message is the handshake; the numbering of a connection may
\* start anywhere (seq_ survives a reconnection).
Handshake(m) == /\ open
                /\ out = Nothing
                /\ m.type = "handshake"
                /\ out' = m
                /\ UNCHANGED open

\* Every later message carries the next number, and follows a whole one.
Follow(m) == /\ open
             /\ out # Nothing
             /\ out.whole
             /\ m.type # "handshake"
             /\ m.seq = (out.seq + 1) % SeqMod
             /\ out' = m
             /\ UNCHANGED open

Close == open /\ open' = FALSE /\ UNCHANGED out

Next == \/ Open
        \/ \E m \in Message : Handshake(m) \/ Follow(m)
        \/ Close

Spec == Init /\ [][Next]_<<open, out>>
=============================================================================

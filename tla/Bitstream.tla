----------------------------- MODULE Bitstream ------------------------------
(***************************************************************************)
(* What the encoder's output becomes before it is queued: protocol.cpp's   *)
(* Annex-B helpers on the bytes, and the two places that use them,         *)
(* CacheSequenceHeader and DeliverBitstream of encoder.cpp, which keep the *)
(* last parameter sets and put them in front of an IDR that has none.      *)
(* (What DeliverBitstream does with captureTimes_ and callback_ is in      *)
(* Encoder.)                                                               *)
(*                                                                         *)
(* A NAL unit is a sequence of bytes that starts with its header, has no   *)
(* 00 00 01 inside and does not end in 00, as H.264 demands.  A transform  *)
(* delimits its units in one way for as long as it lives.                  *)
(***************************************************************************)
EXTENDS Integers, Sequences, FiniteSets

CONSTANTS Units,        \* the access units an encoder may put out: sequences of NAL units
          SeqHeaders,   \* the contents of MF_MT_MPEG_SEQUENCE_HEADER: <<SPS, PPS>>
          Formats,      \* how units are delimited: "long", "short", "mixed", "avcc"
          MaxPayload    \* kMaxPayload

VARIABLES
    sps, pps,   \* sps_, pps_: <<>> when empty
    frame,      \* the EncodedFrame handed on: <<>> when the unit was dropped
    \* the transform
    format,     \* how it delimits its units
    unit,       \* * the access unit it has just put out: <<>> for none
    newest,     \* * the newest SPS and PPS it has put out: <<>> when it has not yet
    misread     \* * has an access unit with lengths begun like one with start codes?

vars == <<sps, pps, frame, format, unit, newest, misread>>

-----------------------------------------------------------------------------
(* protocol.cpp.  An offset counts from 1; 0 stands for npos.              *)

NonIdr == 1
Idr == 5
Sps == 7
Pps == 8

Zero4 == <<0, 0, 0, 1>>

Largest(S) == CHOOSE x \in S : \A y \in S : y <= x
Smallest(S) == CHOOSE x \in S : \A y \in S : x <= y

\* Every offset that FindStartCode finds in b.
StartCodes(b) == {i \in 1 .. Len(b) - 2 : b[i] = 0 /\ b[i + 1] = 0 /\ b[i + 2] = 1}

FindStartCode(b, from) ==
    LET S == {i \in StartCodes(b) : from <= i} IN IF S = {} THEN 0 ELSE Smallest(S)

LooksLikeAnnexB(b) == SubSeq(b, 1, 4) = Zero4 \/ SubSeq(b, 1, 3) = <<0, 0, 1>>

\* Mutant: the zero of a four-byte start code stays with the unit before it.
NalUntrimmed(b, i) ==
    LET next == FindStartCode(b, i + 3)
    IN SubSeq(b, i + 3, IF next = 0 THEN Len(b) ELSE next - 1)

\* The unit behind the start code at i, without the zeros that belong to
\* the next start code (lines 60-66).
Nal(b, i) ==
    LET next == FindStartCode(b, i + 3)
        limit == IF next = 0 THEN Len(b) ELSE next - 1
    IN SubSeq(b, i + 3, Largest({i + 2} \cup {j \in i + 3 .. limit : b[j] # 0}))

\* ScanAnnexB: where the units of type t start.  FindStartCode never skips
\* one, since two start codes cannot overlap; one at the very end is none.
NalsOf(b, t) == {i \in StartCodes(b) : i + 3 <= Len(b) /\ b[i + 3] % 32 = t}

Valid(b) == \E i \in StartCodes(b) : i + 3 <= Len(b)

\* What spsOut or ppsOut holds afterwards: the last unit of the type.
Cached(b, t, before) ==
    IF NalsOf(b, t) = {} THEN before ELSE Zero4 \o Nal(b, Largest(NalsOf(b, t)))

AvccLength(b, p) == ((b[p] * 256 + b[p + 1]) * 256 + b[p + 2]) * 256 + b[p + 3]

\* AvccToAnnexB: the units from offset p on; ok says that they end with b.
AvccToAnnexB(b) ==
    LET units[p \in 1 .. Len(b) + 1] ==
            IF p + 3 > Len(b) THEN [ok |-> p = Len(b) + 1, out |-> <<>>]
            ELSE LET n == AvccLength(b, p)
                     rest == units[p + 4 + n]
                 IN IF n = 0 \/ p + 3 + n > Len(b) THEN [ok |-> FALSE, out |-> <<>>]
                    ELSE [ok |-> rest.ok, out |-> Zero4 \o SubSeq(b, p + 4, p + 3 + n) \o rest.out]
    IN units[1]

-----------------------------------------------------------------------------
(* The transform: how it writes units and which it has written.            *)

Prefix(f, k, nal) ==
    CASE f = "avcc" -> <<Len(nal) \div (256 * 256 * 256), (Len(nal) \div (256 * 256)) % 256,
                         (Len(nal) \div 256) % 256, Len(nal) % 256>>
      [] f = "long" \/ (f = "mixed" /\ k = 1) -> Zero4
      [] OTHER -> <<0, 0, 1>>

\* The bytes of the units ns, delimited as f says.
Write(f, ns) ==
    LET bytes[k \in 0 .. Len(ns)] ==
            IF k = 0 THEN <<>> ELSE bytes[k - 1] \o Prefix(f, k, ns[k]) \o ns[k]
    IN bytes[Len(ns)]

TypeOf(nal) == nal[1] % 32
Has(ns, t) == \E k \in DOMAIN ns : TypeOf(ns[k]) = t

\* The newest unit of type t once ns has been put out.
Newer(ns, t, before) ==
    IF Has(ns, t) THEN ns[Largest({k \in DOMAIN ns : TypeOf(ns[k]) = t})] ELSE before

\* A first length whose bytes begin with 00 00 00 01 or with 00 00 01.
LikeStartCode(ns) == Len(ns[1]) \in {1} \cup 256 .. 511

-----------------------------------------------------------------------------
(* What the constants may be.                                              *)

\* A NAL unit, of less than 2^31 bytes.
IsNal(nal) ==
    /\ nal \in Seq(0 .. 255) /\ nal # <<>> /\ nal[Len(nal)] # 0
    /\ Len(nal) \div (256 * 256 * 256) < 128
    /\ \A i \in 1 .. Len(nal) - 2 : ~(nal[i] = 0 /\ nal[i + 1] = 0 /\ nal[i + 2] = 1)

\* Parameter sets come before the slices of their access unit.
SetsFirst(ns) ==
    \A j, k \in DOMAIN ns :
        TypeOf(ns[j]) \in {Sps, Pps} /\ TypeOf(ns[k]) \in {Idr, NonIdr} => j < k

ASSUME BitstreamAssumption ==
    /\ \A ns \in Units \cup SeqHeaders :
          ns \in Seq(Seq(0 .. 255)) /\ \A k \in DOMAIN ns : IsNal(ns[k])
    /\ \A ns \in Units : ns # <<>> /\ SetsFirst(ns)
    /\ Formats \subseteq {"long", "short", "mixed", "avcc"} /\ MaxPayload \in Nat

-----------------------------------------------------------------------------
(* encoder.cpp.                                                            *)

\* Start-up has read the sequence header if there was one.
Init ==
    /\ format \in Formats
    /\ sps = <<>> /\ pps = <<>> /\ newest = [sps |-> <<>>, pps |-> <<>>]
    /\ frame = <<>> /\ unit = <<>> /\ misread = FALSE

Observe(ns) ==
    newest' = [sps |-> Newer(ns, Sps, newest.sps), pps |-> Newer(ns, Pps, newest.pps)]

\* At start-up and after a stream change; the blob is always Annex-B.
CacheSequenceHeader(ns) ==
    LET b == Write("long", ns)
    IN /\ sps' = Cached(b, Sps, sps) /\ pps' = Cached(b, Pps, pps)
       /\ Observe(ns)
       /\ frame' = <<>> /\ unit' = <<>>
       /\ UNCHANGED <<format, misread>>

\* Mutant: what the transform writes is taken for Annex-B.
TakenForAnnexB(b) == b

\* Lines 632-646: the bytes as Annex-B, <<>> when they are neither.
AsAnnexB(b) ==
    IF LooksLikeAnnexB(b) THEN b
    ELSE LET a == AvccToAnnexB(b) IN IF a.ok THEN a.out ELSE <<>>

\* Mutant: a unit with an SPS counts as one with both parameter sets.
FrameOfHalf(b, s, p) ==
    LET idr == NalsOf(b, Idr) # {}
        inline == NalsOf(b, Sps) # {}
        prepend == idr /\ ~inline /\ s # <<>> /\ p # <<>>
    IN [idr |-> idr, spspps |-> prepend \/ (idr /\ inline),
        payload |-> IF prepend THEN s \o p \o b ELSE b]

\* Lines 667-684: the frame made of b, with s and p cached.
FrameOf(b, s, p) ==
    LET idr == NalsOf(b, Idr) # {}
        inline == NalsOf(b, Sps) # {} /\ NalsOf(b, Pps) # {}
        prepend == idr /\ ~inline /\ s # <<>> /\ p # <<>>
    IN [idr |-> idr, spspps |-> prepend \/ (idr /\ inline),
        payload |-> IF prepend THEN s \o p \o b ELSE b]

\* The transform puts ns out.
DeliverBitstream(ns) ==
    LET b == AsAnnexB(Write(format, ns))
        f == FrameOf(b, sps', pps')
    IN /\ unit' = ns /\ Observe(ns)
       /\ sps' = Cached(b, Sps, sps) /\ pps' = Cached(b, Pps, pps)
       /\ frame' = IF Valid(b) /\ Len(f.payload) <= MaxPayload THEN <<f>> ELSE <<>>
       /\ misread' = (misread \/ (format = "avcc" /\ LikeStartCode(ns)))
       /\ UNCHANGED format

Next ==
    \/ \E ns \in SeqHeaders : CacheSequenceHeader(ns)
    \/ \E ns \in Units : DeliverBitstream(ns)

Spec == Init /\ [][Next]_vars

-----------------------------------------------------------------------------
(* Properties.  A unit with lengths whose first is 1 or 256 .. 511 begins  *)
(* like one with start codes, is taken for one and goes out as it is; its  *)
(* parameter sets are not found.  The properties hold until a transform    *)
(* puts out such a unit, and say nothing after it.  One that puts out      *)
(* start codes never does.                                                 *)

\* sps_ and pps_ are the newest parameter sets to the byte, however they
\* came: in the sequence header, in an IDR or before any other picture.
CacheNewest ==
    ~misread => /\ sps = IF newest.sps = <<>> THEN <<>> ELSE Zero4 \o newest.sps
                /\ pps = IF newest.pps = <<>> THEN <<>> ELSE Zero4 \o newest.pps

\* The same units as Annex-B.  Start codes stay as long as the transform
\* writes them: docs/PROTOCOL.md:44 promises 00 00 00 01, and of a transform
\* that writes 00 00 01 the code does not make that.
Wanted == Write(IF format = "avcc" THEN "long" ELSE format, unit)

\* What the receiver gets is the access unit, every byte of it, behind
\* nothing or the newest parameter sets; only one that is too long is lost.
Faithful ==
    ~misread /\ unit # <<>> =>
        \E sets \in {<<>>, <<newest.sps, newest.pps>>} :
            LET whole == Write("long", sets) \o Wanted
            IN IF Len(whole) > MaxPayload THEN frame = <<>>
               ELSE frame # <<>> /\ frame[1].payload = whole

\* A slice of ns with no SPS, or no PPS, in front of it.
Headless(ns) ==
    \E k \in DOMAIN ns : /\ TypeOf(ns[k]) \in {Idr, NonIdr}
                         /\ ~Has(SubSeq(ns, 1, k - 1), Sps) \/ ~Has(SubSeq(ns, 1, k - 1), Pps)

\* A receiver can start at an IDR: the frame is marked as one, and as soon as
\* the encoder has shown both parameter sets, they are in front of the picture
\* and the frame says so; it never says so wrongly.  (docs/PROTOCOL.md:46
\* promises the sets of every IDR; one that comes before the encoder has shown
\* them goes out without, and is not marked as having them.)
SelfContained ==
    ~misread /\ unit # <<>> /\ frame # <<>> =>
        LET prepended == Len(frame[1].payload) > Len(Wanted)
            known == newest.sps # <<>> /\ newest.pps # <<>>
        IN /\ frame[1].idr = Has(unit, Idr)
           /\ frame[1].spspps = (frame[1].idr /\ known)
           /\ frame[1].spspps => prepended \/ ~Headless(unit)

==============================================================================

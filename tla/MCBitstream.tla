---------------------------- MODULE MCBitstream -----------------------------
(* Access units for Bitstream: with and without delimiter, with both, one  *)
(* or no parameter set, one or two slices, two versions of the sets.       *)
EXTENDS Bitstream

\* A unit of n bytes; its last byte is never 0, and it may hold 00 00 03.
NalUnit(header, n, fill) ==
    [i \in 1 .. n |-> IF i = 1 THEN header
                      ELSE IF i = n THEN 128
                      ELSE IF fill = 0 THEN <<3, 0, 0>>[(i % 3) + 1] ELSE fill]

Aud == NalUnit(9, 2, 1)
SpsOf(v) == NalUnit(103, 8 + v, v - 1)
PpsOf(v) == NalUnit(104, 4, v)
I(n) == NalUnit(101, n, 0)
P(n) == NalUnit(65, n, 7)

\* 255, 256 and 512 are where a length takes its second byte; 300 is within
\* 256 .. 511, where it looks like a start code in front of a unit.
Bodies == {<<I(2)>>, <<I(255)>>, <<I(512), I(300)>>}

MCUnits ==
    LET slices == Bodies \cup {<<P(2)>>, <<P(256)>>, <<P(600)>>}
        sets == {<<>>} \cup {<<SpsOf(v), PpsOf(v)>> : v \in {1, 2}} \cup {<<SpsOf(2)>>, <<PpsOf(2)>>}
    IN {a \o s \o p : a \in {<<>>, <<Aud>>}, s \in sets, p \in slices}

MCSeqHeaders == {<<SpsOf(v), PpsOf(v)>> : v \in {1, 2}}
=============================================================================

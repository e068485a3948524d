---------------------------- MODULE CursorShape -----------------------------
(***************************************************************************)
(* windows/src/cursor.cpp: a pointer shape as DXGI hands it out, a buffer  *)
(* of rows, is split into a layer that is blended over the desktop and one *)
(* that inverts it.  Below, what the shape means to Windows, which is what *)
(* both layers together must amount to.                                    *)
(*                                                                         *)
(* Blue, green and red are one level here, so a pixel of a colour shape is *)
(* a pair of a level and its fourth byte, and rows of such pixels are      *)
(* counted in pixels.  A layer maps <<x, y>> to a level and an alpha.      *)
(***************************************************************************)
EXTENDS Integers, Sequences

Pixels(w, h) == (0 .. w - 1) \X (0 .. h - 1)

Clear  == <<0, 0>>
Opaque(level) == <<level, 255>>
Blank(w, h) == [p \in Pixels(w, h) |-> Clear]

\* DecodedCursor{}: what draws nothing.
NoCursor == [width |-> 0, height |-> 0, color |-> Blank(0, 0), invert |-> Blank(0, 0),
             hasColor |-> FALSE, hasInvert |-> FALSE]

-----------------------------------------------------------------------------
(* DecodePointerShape; <<>> stands for FALSE.                              *)

\* Mutant: the bits of a byte are taken from the low end.
LowBitFirst(data, row, x) == ((data[row + (x \div 8) + 1] \div (2^(x % 8))) % 2) = 1

\* Bit x of the row that starts row bytes into the buffer.
MaskBit(data, row, x) == ((data[row + (x \div 8) + 1] \div (2^(7 - (x % 8)))) % 2) = 1

DecodeMonochrome(info, data) ==
    LET w == info.width
        h == info.height \div 2
        and == [p \in Pixels(w, h) |-> MaskBit(data, info.pitch * p[2], p[1])]
        xor == [p \in Pixels(w, h) |-> MaskBit(data, info.pitch * (h + p[2]), p[1])]
    IN IF w <= 0 \/ h <= 0 \/ info.pitch = 0 \/ Len(data) < info.pitch * h * 2 THEN <<>>
       ELSE <<[width |-> w, height |-> h,
               color |-> [p \in Pixels(w, h) |->
                             IF and[p] THEN Clear ELSE Opaque(IF xor[p] THEN 255 ELSE 0)],
               invert |-> [p \in Pixels(w, h) |->
                              IF and[p] /\ xor[p] THEN Opaque(255) ELSE Clear],
               hasColor |-> \E p \in Pixels(w, h) : ~and[p],
               hasInvert |-> \E p \in Pixels(w, h) : and[p] /\ xor[p]]>>

\* The checks of both colour formats, and the pixel at p.
Malformed(info, data) ==
    \/ info.width <= 0 \/ info.height <= 0 \/ info.pitch < info.width
    \/ Len(data) < info.pitch * info.height

At(info, data, p) == data[info.pitch * p[2] + p[1] + 1]

DecodeColor(info, data) ==
    LET w == info.width
        h == info.height
    IN IF Malformed(info, data) THEN <<>>
       ELSE <<[width |-> w, height |-> h,
               color |-> [p \in Pixels(w, h) |-> At(info, data, p)],
               invert |-> Blank(w, h), hasColor |-> TRUE, hasInvert |-> FALSE]>>

\* Masked in: the level replaces the screen.  Masked out: it is XORed with
\* it, of which 0 and an inversion are told apart.
DecodeMaskedColor(info, data) ==
    LET w == info.width
        h == info.height
        px == [p \in Pixels(w, h) |-> At(info, data, p)]
        inverts(p) == px[p][2] # 0 /\ px[p][1] # 0
    IN IF Malformed(info, data) THEN <<>>
       ELSE <<[width |-> w, height |-> h,
               color |-> [p \in Pixels(w, h) |->
                             IF px[p][2] = 0 THEN Opaque(px[p][1]) ELSE Clear],
               invert |-> [p \in Pixels(w, h) |-> IF inverts(p) THEN Opaque(255) ELSE Clear],
               hasColor |-> \E p \in Pixels(w, h) : px[p][2] = 0,
               hasInvert |-> \E p \in Pixels(w, h) : inverts(p)]>>

DecodePointerShape(info, data) ==
    CASE info.type = "monochrome" -> DecodeMonochrome(info, data)
      [] info.type = "color"      -> DecodeColor(info, data)
      [] info.type = "masked"     -> DecodeMaskedColor(info, data)
      [] OTHER                    -> <<>>

-----------------------------------------------------------------------------
(* What a shape is to Windows: [type, width, height, pixel], where a pixel *)
(* is an AND and an XOR bit, a level and an alpha, or a level and a mask   *)
(* (0 or 255); under mask 255 the level is 0 or 255.  Alpha 1, which the   *)
(* shader discards and which moves a level by one at most, is left out.    *)

\* A shape as DXGI hands it out.
WellFormed(s) ==
    /\ s.width \in Nat \ {0} /\ s.height \in Nat \ {0}
    /\ s.type = "monochrome" => s.pixel \in [Pixels(s.width, s.height) -> {0, 1} \X {0, 1}]
    /\ s.type = "color" =>
         s.pixel \in [Pixels(s.width, s.height) -> (0 .. 255) \X ((0 .. 255) \ {1})]
    /\ s.type = "masked" =>
         s.pixel \in [Pixels(s.width, s.height) ->
                        ((0 .. 255) \X {0}) \cup ({0, 255} \X {255})]

\* The screen's level under a pixel of a shape becomes this.
Meant(type, pixel, level) ==
    CASE type = "monochrome" ->
            LET kept == IF pixel[1] = 1 THEN level ELSE 0
            IN IF pixel[2] = 1 THEN 255 - kept ELSE kept
      [] type = "color"  -> (pixel[1] * pixel[2] + level * (255 - pixel[2])) \div 255
      [] type = "masked" -> IF pixel[2] = 0 THEN pixel[1]
                            ELSE IF pixel[1] = 255 THEN 255 - level ELSE level
      [] OTHER           -> level

\* The buffer and the description DXGI makes of a shape, with rows that are
\* longer than the shape is wide.
Pitch(s) == IF s.type = "monochrome" THEN (s.width + 7) \div 8 + 1 ELSE s.width + 1

\* Eight bits from x on, the leftmost the highest; k is 1 for AND, 2 for XOR.
Byte(s, k, x, y) ==
    LET bit(i) == IF x + i < s.width THEN s.pixel[<<x + i, y>>][k] ELSE 0
    IN 128 * bit(0) + 64 * bit(1) + 32 * bit(2) + 16 * bit(3)
       + 8 * bit(4) + 4 * bit(5) + 2 * bit(6) + bit(7)

Buffer(s) ==
    LET rows == IF s.type = "monochrome" THEN 2 * s.height ELSE s.height
    IN [i \in 1 .. rows * Pitch(s) |->
           LET x == (i - 1) % Pitch(s)
               y == (i - 1) \div Pitch(s)
           IN IF s.type = "monochrome" THEN Byte(s, (y \div s.height) + 1, 8 * x, y % s.height)
              ELSE IF x < s.width THEN s.pixel[<<x, y>>] ELSE <<85, 85>>]

Info(s) == [type |-> s.type, width |-> s.width, pitch |-> Pitch(s),
            height |-> IF s.type = "monochrome" THEN 2 * s.height ELSE s.height]
=============================================================================

--------------------------- MODULE PictureProofs ----------------------------
(***************************************************************************)
(* What the picture shows, for every screen, every set of images, shapes   *)
(* and positions: first what DecodePointerShape makes of a shape, then     *)
(* what is drawn of it, then what is left of it when something fails.      *)
(***************************************************************************)
EXTENDS Picture, SequenceTheorems, TLAPS

Level == 0 .. 255
Texel == Level \X Level

-----------------------------------------------------------------------------
(* Lemmas about numbers.                                                   *)

LEMMA DivMod ==
    ASSUME NEW n \in Nat \ {0}, NEW a \in Nat, NEW b \in 0 .. n - 1
    PROVE  (n * a + b) \div n = a /\ (n * a + b) % n = b
OBVIOUS

LEMMA DivBack == ASSUME NEW n \in Nat \ {0}, NEW a \in Nat PROVE (a * n) \div n = a
OBVIOUS

\* A row's place in a buffer, and a place's row.
LEMMA InRows ==
    ASSUME NEW n \in Nat \ {0}, NEW rows \in Nat, NEW y \in 0 .. rows - 1, NEW x \in 0 .. n - 1
    PROVE  n * y + x + 1 \in 1 .. rows * n
<1>1. n * y + x < n * (y + 1)
    OBVIOUS
<1>2. y + 1 <= rows
    OBVIOUS
<1>3. n * (y + 1) <= n * rows
    BY <1>2
<1>4. n * rows = rows * n /\ n * y \in Nat
    OBVIOUS
<1>5. n * (y + 1) = n * y + n
    OBVIOUS
<1> QED
    BY <1>1, <1>3, <1>4, <1>5

\* The bit at place k, from the left, of a byte.
LEMMA BitOf ==
    ASSUME NEW b \in [0 .. 7 -> {0, 1}], NEW k \in 0 .. 7
    PROVE  LET byte == 128 * b[0] + 64 * b[1] + 32 * b[2] + 16 * b[3]
                       + 8 * b[4] + 4 * b[5] + 2 * b[6] + b[7]
           IN  (byte \div 2^(7 - k)) % 2 = b[k]
<1>1. 2^(7 - k) = IF k = 0 THEN 128 ELSE IF k = 1 THEN 64 ELSE IF k = 2 THEN 32
                  ELSE IF k = 3 THEN 16 ELSE IF k = 4 THEN 8 ELSE IF k = 5 THEN 4
                  ELSE IF k = 6 THEN 2 ELSE 1
    <2>1. 2^0 = 1 /\ 2^1 = 2 /\ 2^2 = 4 /\ 2^3 = 8 /\ 2^4 = 16 /\ 2^5 = 32 /\ 2^6 = 64
          /\ 2^7 = 128
        OBVIOUS
    <2>2. \A n \in 0 .. 7 : n = 7 - k => 2^(7 - k) = 2^n
        OBVIOUS
    <2>3. 7 - k \in 0 .. 7
        OBVIOUS
    <2>4. k = 0 \/ k = 1 \/ k = 2 \/ k = 3 \/ k = 4 \/ k = 5 \/ k = 6 \/ k = 7
        OBVIOUS
    <2> QED
        BY <2>1, <2>2, <2>3, <2>4
<1> DEFINE byte == 128 * b[0] + 64 * b[1] + 32 * b[2] + 16 * b[3]
                   + 8 * b[4] + 4 * b[5] + 2 * b[6] + b[7]
<1>2. /\ (byte \div 128) % 2 = b[0] /\ (byte \div 64) % 2 = b[1]
      /\ (byte \div 32) % 2 = b[2] /\ (byte \div 16) % 2 = b[3]
      /\ (byte \div 8) % 2 = b[4] /\ (byte \div 4) % 2 = b[5]
      /\ (byte \div 2) % 2 = b[6] /\ (byte \div 1) % 2 = b[7]
    OBVIOUS
<1> HIDE DEF byte
<1>3. k = 0 \/ k = 1 \/ k = 2 \/ k = 3 \/ k = 4 \/ k = 5 \/ k = 6 \/ k = 7
    OBVIOUS
<1>4. (byte \div 2^(7 - k)) % 2 = b[k]
    BY <1>1, <1>2, <1>3
<1> QED
    BY <1>4 DEF byte

-----------------------------------------------------------------------------
(* DecodePointerShape.                                                     *)

\* What the two layers make of a level, one after the other.
Laid(texel, level)     == IF texel[2] > 1 THEN Alpha(texel, level) ELSE level
Inverted(texel, level) == IF texel[2] > 1 THEN Invert(texel, level) ELSE level

\* c is the shape s: each of its pixels does to the screen what s means, and
\* a layer that is said to be empty is.
Stands(c, s) ==
    /\ c.width = s.width /\ c.height = s.height
    /\ \A p \in Pixels(s.width, s.height) :
          /\ \A l \in Level :
                Inverted(c.invert[p], Laid(c.color[p], l)) = Meant(s.type, s.pixel[p], l)
          /\ ~c.hasColor => c.color[p][2] = 0
          /\ ~c.hasInvert => c.invert[p][2] = 0

\* The blend states' arithmetic.
LEMMA Blends ==
    ASSUME NEW l \in Level
    PROVE  /\ Laid(Clear, l) = l /\ Inverted(Clear, l) = l
           /\ Inverted(Opaque(255), l) = 255 - l
           /\ \A k \in Level : Laid(Opaque(k), l) = k
BY DEF Laid, Inverted, Alpha, Invert, Clear, Opaque, Level

\* The buffer of a shape is one.
LEMMA BufferLen ==
    ASSUME NEW s, WellFormed(s), s.type \in {"monochrome", "color", "masked"}
    PROVE  LET rows == IF s.type = "monochrome" THEN 2 * s.height ELSE s.height
           IN  Len(Buffer(s)) = rows * Pitch(s)
<1> DEFINE n == (IF s.type = "monochrome" THEN 2 * s.height ELSE s.height) * Pitch(s)
<1>1. Pitch(s) \in Nat \ {0} /\ n \in Nat
    BY DEF Pitch, WellFormed
<1>2. DOMAIN Buffer(s) = 1 .. n
    BY DEF Buffer
<1>3. Buffer(s) \in Seq(Range(Buffer(s)))
    <2>1. Buffer(s) \in [1 .. n -> Range(Buffer(s))]
        BY <1>2 DEF Buffer, Range
    <2> HIDE DEF n
    <2> QED
        BY <1>1, <2>1, SeqDef
<1> HIDE DEF n
<1>4. Len(Buffer(s)) = n
    BY <1>1, <1>2, <1>3, LenProperties
<1> QED
    BY <1>4 DEF n

\* A pixel of a shape.
LEMMA Placed ==
    ASSUME NEW s, WellFormed(s), NEW p \in Pixels(s.width, s.height)
    PROVE  /\ p[1] \in 0 .. s.width - 1 /\ p[2] \in 0 .. s.height - 1 /\ p = <<p[1], p[2]>>
           /\ s.width \in Nat \ {0} /\ s.height \in Nat \ {0} /\ Pitch(s) \in Nat \ {0}
BY DEF Pixels, WellFormed, Pitch

\* What a place in the buffer holds.
LEMMA BufferAt ==
    ASSUME NEW s, NEW n \in Nat \ {0}, n = Pitch(s), NEW rows \in Nat,
           rows = IF s.type = "monochrome" THEN 2 * s.height ELSE s.height,
           NEW y \in 0 .. rows - 1, NEW x \in 0 .. n - 1
    PROVE  Buffer(s)[n * y + x + 1] =
               IF s.type = "monochrome"
               THEN Byte(s, (y \div s.height) + 1, 8 * x, y % s.height)
               ELSE IF x < s.width THEN s.pixel[<<x, y>>] ELSE <<85, 85>>
<1>1. PICK i : i = n * y + x + 1
    OBVIOUS
<1>2. i \in 1 .. rows * n
    BY <1>1, InRows
<1>3. i - 1 = n * y + x
    <2>1. n * y \in Int
        OBVIOUS
    <2> QED
        BY <1>1, <2>1
<1>4. (i - 1) % n = x /\ (i - 1) \div n = y
    <2>1. y \in Nat
        OBVIOUS
    <2>2. (n * y + x) \div n = y /\ (n * y + x) % n = x
        BY <2>1, DivMod
    <2> QED
        BY <1>3, <2>2
<1>5. Buffer(s)[i] = IF s.type = "monochrome"
                     THEN Byte(s, (y \div s.height) + 1, 8 * x, y % s.height)
                     ELSE IF x < s.width THEN s.pixel[<<x, y>>] ELSE <<85, 85>>
    BY <1>2, <1>4 DEF Buffer
<1> QED
    BY <1>1, <1>5

\* Column x of w columns, in bytes of eight.
LEMMA Column ==
    ASSUME NEW w \in Nat \ {0}, NEW x \in 0 .. w - 1
    PROVE  /\ x \div 8 \in 0 .. (w + 7) \div 8
           /\ x % 8 \in 0 .. 7 /\ 8 * (x \div 8) + (x % 8) = x
<1>1. x \in Nat /\ x <= w + 7
    OBVIOUS
<1>2. x % 8 \in 0 .. 7 /\ 8 * (x \div 8) + (x % 8) = x
    BY <1>1
<1>3. x \div 8 \in 0 .. (w + 7) \div 8
    BY <1>1
<1> QED
    BY <1>2, <1>3

\* Eight bits of a row are a byte's.
LEMMA BitOfByte ==
    ASSUME NEW s, WellFormed(s), s.type = "monochrome", NEW k \in {1, 2},
           NEW y \in 0 .. s.height - 1, NEW c \in Nat, NEW j \in 0 .. 7, c + j < s.width
    PROVE  (Byte(s, k, c, y) \div 2^(7 - j)) % 2 = s.pixel[<<c + j, y>>][k]
<1> DEFINE b == [i \in 0 .. 7 |-> IF c + i < s.width THEN s.pixel[<<c + i, y>>][k] ELSE 0]
<1>1. s.pixel \in [Pixels(s.width, s.height) -> {0, 1} \X {0, 1}] /\ s.width \in Nat
    BY DEF WellFormed
<1>2. b \in [0 .. 7 -> {0, 1}]
    <2>1. ASSUME NEW i \in 0 .. 7, c + i < s.width
          PROVE  s.pixel[<<c + i, y>>][k] \in {0, 1}
        <3>1. <<c + i, y>> \in Pixels(s.width, s.height)
            BY <1>1, <2>1 DEF Pixels
        <3>2. s.pixel[<<c + i, y>>] \in {0, 1} \X {0, 1}
            BY <1>1, <3>1
        <3> QED
            BY <3>2
    <2> QED
        BY <2>1
<1>3. b[j] = s.pixel[<<c + j, y>>][k]
    OBVIOUS
<1>4. Byte(s, k, c, y) = 128 * b[0] + 64 * b[1] + 32 * b[2] + 16 * b[3]
                         + 8 * b[4] + 4 * b[5] + 2 * b[6] + b[7]
    BY DEF Byte
<1> HIDE DEF b
<1>5. (Byte(s, k, c, y) \div 2^(7 - j)) % 2 = b[j]
    BY <1>2, <1>4, BitOf
<1> QED
    BY <1>3, <1>5

\* A bit of a monochrome shape's buffer (cursor.cpp:18).
LEMMA MonochromeBit ==
    ASSUME NEW s, WellFormed(s), s.type = "monochrome", NEW p \in Pixels(s.width, s.height),
           NEW k \in {1, 2}, NEW row, row = s.height * (k - 1) + p[2]
    PROVE  MaskBit(Buffer(s), Pitch(s) * row, p[1]) <=> s.pixel[p][k] = 1
<1>1. PICK x, y, n, col : x = p[1] /\ y = p[2] /\ n = Pitch(s) /\ col = x \div 8
    OBVIOUS
<1>2. /\ x \in 0 .. s.width - 1 /\ y \in 0 .. s.height - 1 /\ p = <<x, y>>
      /\ s.width \in Nat \ {0} /\ s.height \in Nat \ {0} /\ n \in Nat \ {0}
      /\ n = (s.width + 7) \div 8 + 1
    BY <1>1, Placed DEF Pitch
<1>3. /\ row \in 0 .. 2 * s.height - 1 /\ row \div s.height = k - 1 /\ row % s.height = y
    <2>1. k - 1 \in Nat /\ (k - 1 = 0 \/ k - 1 = 1)
        OBVIOUS
    <2>2. row \div s.height = k - 1 /\ row % s.height = y
        BY <1>1, <1>2, <2>1, DivMod
    <2>3. row \in 0 .. 2 * s.height - 1
        BY <1>1, <1>2, <2>1
    <2> QED
        BY <2>2, <2>3
<1>4. col \in 0 .. n - 1 /\ col \in Nat /\ x % 8 \in 0 .. 7 /\ 8 * col + (x % 8) = x
    <2>1. x \div 8 \in 0 .. (s.width + 7) \div 8 /\ x % 8 \in 0 .. 7
          /\ 8 * (x \div 8) + (x % 8) = x
        BY <1>2, Column
    <2>2. (s.width + 7) \div 8 \in Nat
        BY <1>2, SMTT(20)
    <2> QED
        BY <1>1, <1>2, <2>1, <2>2
<1>5. Buffer(s)[n * row + col + 1] = Byte(s, (row \div s.height) + 1, 8 * col, y)
    <2>1. PICK rows : rows = 2 * s.height
        OBVIOUS
    <2>2. rows \in Nat /\ row \in 0 .. rows - 1
        <3>1. \A h \in Nat : 2 * h \in Nat
            OBVIOUS
        <3> QED
            BY <1>2, <1>3, <2>1, <3>1
    <2>3. rows = IF s.type = "monochrome" THEN 2 * s.height ELSE s.height
        BY <2>1
    <2>4. Buffer(s)[n * row + col + 1] =
              IF s.type = "monochrome"
              THEN Byte(s, (row \div s.height) + 1, 8 * col, row % s.height)
              ELSE IF col < s.width THEN s.pixel[<<col, row>>] ELSE <<85, 85>>
        <3>1. n \in Nat \ {0} /\ n = Pitch(s) /\ col \in 0 .. n - 1
            BY <1>1, <1>2, <1>4
        <3> QED
            BY <2>2, <2>3, <3>1, BufferAt, ZenonT(40)
    <2> QED
        BY <1>3, <2>4
<1>6. (row \div s.height) + 1 = k
    BY <1>3
<1>7. (Byte(s, k, 8 * col, y) \div 2^(7 - (x % 8))) % 2 = s.pixel[<<8 * col + (x % 8), y>>][k]
    <2>1. 8 * col \in Nat /\ 8 * col + (x % 8) < s.width
        BY <1>2, <1>4
    <2>2. PICK c, j : c = 8 * col /\ j = x % 8
        OBVIOUS
    <2>3. c \in Nat /\ j \in 0 .. 7 /\ c + j < s.width
        BY <1>4, <2>1, <2>2
    <2>4. (Byte(s, k, c, y) \div 2^(7 - j)) % 2 = s.pixel[<<c + j, y>>][k]
        BY <1>2, <2>3, BitOfByte, ZenonT(40)
    <2> QED
        BY <2>2, <2>4
<1>8. MaskBit(Buffer(s), n * row, x)
          <=> (Buffer(s)[n * row + col + 1] \div 2^(7 - (x % 8))) % 2 = 1
    BY <1>1 DEF MaskBit
<1> QED
    BY <1>1, <1>2, <1>4, <1>5, <1>6, <1>7, <1>8

\* A pixel of a colour shape's buffer (cursor.cpp:73-76).
LEMMA ColourPixel ==
    ASSUME NEW s, WellFormed(s), s.type \in {"color", "masked"},
           NEW p \in Pixels(s.width, s.height)
    PROVE  At(Info(s), Buffer(s), p) = s.pixel[p]
<1>1. PICK x, y, n : x = p[1] /\ y = p[2] /\ n = Pitch(s)
    OBVIOUS
<1>2. /\ x \in 0 .. s.width - 1 /\ y \in 0 .. s.height - 1 /\ p = <<x, y>>
      /\ s.width \in Nat \ {0} /\ s.height \in Nat \ {0} /\ n = s.width + 1
    BY <1>1, Placed DEF Pitch
<1>3. x \in 0 .. n - 1 /\ n \in Nat \ {0} /\ x < s.width
    BY <1>2
<1>4. Buffer(s)[n * y + x + 1] = s.pixel[<<x, y>>]
    <2>1. PICK rows : rows = s.height
        OBVIOUS
    <2>2. rows \in Nat /\ y \in 0 .. rows - 1
        BY <1>2, <2>1
    <2>3. s.type # "monochrome"
        OBVIOUS
    <2>4. Buffer(s)[n * y + x + 1] =
              IF s.type = "monochrome"
              THEN Byte(s, (y \div s.height) + 1, 8 * x, y % s.height)
              ELSE IF x < s.width THEN s.pixel[<<x, y>>] ELSE <<85, 85>>
        BY <1>1, <1>3, <2>1, <2>2, <2>3, BufferAt
    <2> QED
        BY <1>3, <2>3, <2>4
<1> QED
    BY <1>1, <1>2, <1>4 DEF At, Info

\* The buffer passes the checks of the monochrome format.
LEMMA RowsThere ==
    ASSUME NEW n \in Nat \ {0}, NEW h \in Nat \ {0}
    PROVE  ((2 * h) \div 2) = h /\ ~((2 * h) * n < n * h * 2) /\ ~(h * n < n * h)
<1>1. (2 * h) \div 2 = h
    OBVIOUS
<1>2. h * n = n * h /\ n * h \in Nat
    OBVIOUS
<1>3. (2 * h) * n = (n * h) * 2
    OBVIOUS
<1> QED
    BY <1>1, <1>2, <1>3

\* Both masks, bit by bit (cursor.cpp:21-56).
LEMMA MonochromeStands ==
    ASSUME NEW s, WellFormed(s), s.type = "monochrome"
    PROVE  \E c : DecodePointerShape(Info(s), Buffer(s)) = <<c>> /\ Stands(c, s)
<1>1. PICK w, h, n, data : w = s.width /\ h = s.height /\ n = Pitch(s) /\ data = Buffer(s)
    OBVIOUS
<1> DEFINE and == [p \in Pixels(w, h) |-> MaskBit(data, n * p[2], p[1])]
           xor == [p \in Pixels(w, h) |-> MaskBit(data, n * (h + p[2]), p[1])]
           color == [p \in Pixels(w, h) |->
                        IF and[p] THEN Clear ELSE Opaque(IF xor[p] THEN 255 ELSE 0)]
           invert == [p \in Pixels(w, h) |-> IF and[p] /\ xor[p] THEN Opaque(255) ELSE Clear]
           c == [width |-> w, height |-> h, color |-> color, invert |-> invert,
                 hasColor |-> \E p \in Pixels(w, h) : ~and[p],
                 hasInvert |-> \E p \in Pixels(w, h) : and[p] /\ xor[p]]
<1>2. w \in Nat \ {0} /\ h \in Nat \ {0} /\ n \in Nat \ {0}
    BY <1>1 DEF WellFormed, Pitch
<1>3. /\ Info(s).width = w /\ Info(s).height \div 2 = h /\ Info(s).pitch = n
      /\ Info(s).type = "monochrome"
    BY <1>1, <1>2, RowsThere DEF Info
<1>4. ~(w <= 0 \/ h <= 0 \/ n = 0 \/ Len(data) < n * h * 2)
    <2>1. Len(data) = (2 * h) * n
        BY <1>1, BufferLen
    <2>2. ~(w <= 0) /\ ~(h <= 0) /\ n # 0
        BY <1>2
    <2>3. ~((2 * h) * n < n * h * 2)
        BY <1>2, RowsThere
    <2> QED
        BY <2>1, <2>2, <2>3
<1>5. DecodePointerShape(Info(s), data) = <<c>>
    <2>1. DecodePointerShape(Info(s), data) = DecodeMonochrome(Info(s), data)
        BY <1>3 DEF DecodePointerShape
    <2>2. DecodeMonochrome(Info(s), data) = <<c>>
        BY <1>3, <1>4 DEF DecodeMonochrome
    <2> QED
        BY <2>1, <2>2
<1>6. ASSUME NEW p \in Pixels(w, h)
      PROVE  /\ and[p] <=> s.pixel[p][1] = 1
             /\ xor[p] <=> s.pixel[p][2] = 1
             /\ s.pixel[p][1] \in {0, 1} /\ s.pixel[p][2] \in {0, 1}
    <2>1. p[2] \in Nat
        BY <1>1, Placed
    <2>2. MaskBit(data, n * p[2], p[1]) <=> s.pixel[p][1] = 1
        <3>1. p[2] = s.height * (1 - 1) + p[2]
            BY <1>1, <1>2, <2>1
        <3> QED
            BY <1>1, <3>1, MonochromeBit
    <2>3. MaskBit(data, n * (h + p[2]), p[1]) <=> s.pixel[p][2] = 1
        <3>1. h + p[2] = s.height * (2 - 1) + p[2]
            BY <1>1, <1>2, <2>1
        <3> QED
            BY <1>1, <3>1, MonochromeBit
    <2>4. s.pixel[p] \in {0, 1} \X {0, 1}
        BY <1>1 DEF WellFormed
    <2> QED
        BY <2>2, <2>3, <2>4
<1> HIDE DEF and, xor
<1>7. ASSUME NEW p \in Pixels(w, h)
      PROVE  /\ color[p] = IF s.pixel[p][1] = 1 THEN Clear
                           ELSE Opaque(IF s.pixel[p][2] = 1 THEN 255 ELSE 0)
             /\ invert[p] = IF s.pixel[p][1] = 1 /\ s.pixel[p][2] = 1 THEN Opaque(255)
                            ELSE Clear
             /\ ~c.hasColor => s.pixel[p][1] = 1
             /\ ~c.hasInvert => ~(s.pixel[p][1] = 1 /\ s.pixel[p][2] = 1)
    BY <1>6
<1> HIDE DEF c
<1>8. c.width = w /\ c.height = h /\ c.color = color /\ c.invert = invert
    BY DEF c
<1> HIDE DEF color, invert
<1>9. ASSUME NEW p \in Pixels(w, h), NEW l \in Level
      PROVE  Inverted(c.invert[p], Laid(c.color[p], l)) = Meant(s.type, s.pixel[p], l)
    <2>1. 255 \in Level /\ 0 \in Level
        BY DEF Level
    <2>2. CASE s.pixel[p][1] = 1
        <3>1. Meant(s.type, s.pixel[p], l) = IF s.pixel[p][2] = 1 THEN 255 - l ELSE l
            BY <2>2 DEF Meant
        <3>2. Laid(c.color[p], l) = l
            BY <1>7, <1>8, <2>2, Blends
        <3>3. Inverted(c.invert[p], l) = IF s.pixel[p][2] = 1 THEN 255 - l ELSE l
            BY <1>7, <1>8, <2>2, Blends
        <3> QED
            BY <3>1, <3>2, <3>3
    <2>3. CASE s.pixel[p][1] # 1
        <3> DEFINE k == IF s.pixel[p][2] = 1 THEN 255 ELSE 0
        <3>1. Meant(s.type, s.pixel[p], l) = k
            BY <2>3 DEF Meant
        <3>2. k \in Level
            BY <2>1
        <3>3. c.color[p] = Opaque(k) /\ c.invert[p] = Clear
            BY <1>7, <1>8, <2>3
        <3> HIDE DEF k
        <3>4. Laid(c.color[p], l) = k /\ Inverted(c.invert[p], k) = k
            BY <3>2, <3>3, Blends
        <3> QED
            BY <3>1, <3>4
    <2> QED
        BY <2>2, <2>3
<1>10. ASSUME NEW p \in Pixels(w, h)
       PROVE  /\ ~c.hasColor => c.color[p][2] = 0
              /\ ~c.hasInvert => c.invert[p][2] = 0
    <2>1. Clear[2] = 0
        BY DEF Clear
    <2> QED
        BY <1>7, <1>8, <2>1
<1>11. Stands(c, s)
    BY <1>1, <1>8, <1>9, <1>10 DEF Stands
<1> QED
    BY <1>1, <1>5, <1>11

\* The checks of both colour formats (cursor.cpp:63-64, 85-86).
LEMMA NotMalformed ==
    ASSUME NEW s, WellFormed(s), s.type \in {"color", "masked"}
    PROVE  /\ ~Malformed(Info(s), Buffer(s))
           /\ Info(s).width = s.width /\ Info(s).height = s.height /\ Info(s).type = s.type
<1>1. PICK w, h, n : w = s.width /\ h = s.height /\ n = Pitch(s)
    OBVIOUS
<1>2. w \in Nat \ {0} /\ h \in Nat \ {0} /\ n \in Nat \ {0} /\ n = w + 1
    BY <1>1 DEF WellFormed, Pitch
<1>3. Info(s).width = w /\ Info(s).height = h /\ Info(s).pitch = n /\ Info(s).type = s.type
    BY <1>1 DEF Info
<1>4. Len(Buffer(s)) = h * n
    BY <1>1, BufferLen
<1>5. ~(h * n < n * h)
    BY <1>2, RowsThere
<1>6. ~(w <= 0) /\ ~(h <= 0) /\ ~(n < w)
    BY <1>2
<1> QED
    BY <1>1, <1>3, <1>4, <1>5, <1>6 DEF Malformed

\* Alpha as it is (cursor.cpp:58-78).
LEMMA ColourStands ==
    ASSUME NEW s, WellFormed(s), s.type = "color"
    PROVE  \E c : DecodePointerShape(Info(s), Buffer(s)) = <<c>> /\ Stands(c, s)
<1>1. PICK w, h, data : w = s.width /\ h = s.height /\ data = Buffer(s)
    OBVIOUS
<1> DEFINE color == [p \in Pixels(w, h) |-> At(Info(s), data, p)]
           c == [width |-> w, height |-> h, color |-> color, invert |-> Blank(w, h),
                 hasColor |-> TRUE, hasInvert |-> FALSE]
<1>2. DecodePointerShape(Info(s), data) = <<c>>
    <2>1. DecodePointerShape(Info(s), data) = DecodeColor(Info(s), data)
        BY NotMalformed DEF DecodePointerShape
    <2>2. DecodeColor(Info(s), data) = <<c>>
        BY <1>1, NotMalformed DEF DecodeColor
    <2> QED
        BY <2>1, <2>2
<1>3. ASSUME NEW p \in Pixels(w, h)
      PROVE  /\ color[p] = s.pixel[p] /\ Blank(w, h)[p] = Clear
             /\ s.pixel[p] \in Texel /\ s.pixel[p][2] # 1
    <2>1. At(Info(s), data, p) = s.pixel[p]
        BY <1>1, ColourPixel
    <2>2. s.pixel[p] \in Texel /\ s.pixel[p][2] # 1
        BY <1>1 DEF WellFormed, Texel, Level
    <2> QED
        BY <2>1, <2>2 DEF Blank
<1>4. ASSUME NEW p \in Pixels(w, h), NEW l \in Level
      PROVE  Inverted(c.invert[p], Laid(c.color[p], l)) = Meant(s.type, s.pixel[p], l)
    <2>1. PICK k, a : k = s.pixel[p][1] /\ a = s.pixel[p][2]
        OBVIOUS
    <2>2. k \in Level /\ a \in Level /\ a # 1
        BY <1>3, <2>1 DEF Texel
    <2>3. Meant(s.type, s.pixel[p], l) = (k * a + l * (255 - a)) \div 255
        BY <2>1 DEF Meant
    <2>4. Laid(c.color[p], l) = IF a # 0 THEN (k * a + l * (255 - a)) \div 255 ELSE l
        <3>1. a > 1 <=> a # 0
            BY <2>2 DEF Level
        <3>2. c.color[p] = s.pixel[p]
            BY <1>3
        <3> QED
            BY <2>1, <3>1, <3>2 DEF Laid, Alpha
    <2>5. a = 0 => (k * a + l * (255 - a)) \div 255 = l
        BY <2>2 DEF Level
    <2>6. Inverted(c.invert[p], Laid(c.color[p], l)) = Laid(c.color[p], l)
        BY <1>3 DEF Inverted, Clear
    <2> QED
        BY <2>3, <2>4, <2>5, <2>6
<1>5. \A p \in Pixels(w, h) : c.invert[p][2] = 0
    <2>1. c.invert = Blank(w, h)
        OBVIOUS
    <2>2. \A p \in Pixels(w, h) : Blank(w, h)[p] = Clear /\ Clear[2] = 0
        BY DEF Blank, Clear
    <2> HIDE DEF c
    <2> QED
        BY <2>1, <2>2
<1>6. c.width = w /\ c.height = h /\ c.hasColor
    OBVIOUS
<1> HIDE DEF c
<1>7. Stands(c, s)
    BY <1>1, <1>4, <1>5, <1>6 DEF Stands
<1> QED
    BY <1>1, <1>2, <1>7

\* The fourth byte as a mask (cursor.cpp:80-114).
LEMMA MaskedStands ==
    ASSUME NEW s, WellFormed(s), s.type = "masked"
    PROVE  \E c : DecodePointerShape(Info(s), Buffer(s)) = <<c>> /\ Stands(c, s)
<1>1. PICK w, h, data : w = s.width /\ h = s.height /\ data = Buffer(s)
    OBVIOUS
<1> DEFINE px == [p \in Pixels(w, h) |-> At(Info(s), data, p)]
           inverts(p) == px[p][2] # 0 /\ px[p][1] # 0
           color == [p \in Pixels(w, h) |-> IF px[p][2] = 0 THEN Opaque(px[p][1]) ELSE Clear]
           invert == [p \in Pixels(w, h) |-> IF inverts(p) THEN Opaque(255) ELSE Clear]
           c == [width |-> w, height |-> h, color |-> color, invert |-> invert,
                 hasColor |-> \E p \in Pixels(w, h) : px[p][2] = 0,
                 hasInvert |-> \E p \in Pixels(w, h) : inverts(p)]
<1>2. DecodePointerShape(Info(s), data) = <<c>>
    <2>1. DecodePointerShape(Info(s), data) = DecodeMaskedColor(Info(s), data)
        BY NotMalformed DEF DecodePointerShape
    <2>2. DecodeMaskedColor(Info(s), data) = <<c>>
        BY <1>1, NotMalformed DEF DecodeMaskedColor
    <2> QED
        BY <2>1, <2>2
<1>3. ASSUME NEW p \in Pixels(w, h)
      PROVE  /\ px[p] = s.pixel[p]
             /\ \/ s.pixel[p][2] = 0 /\ s.pixel[p][1] \in Level
                \/ s.pixel[p][2] = 255 /\ s.pixel[p][1] \in {0, 255}
    <2>1. At(Info(s), data, p) = s.pixel[p]
        BY <1>1, ColourPixel
    <2>2. s.pixel[p] \in (Level \X {0}) \cup ({0, 255} \X {255})
        BY <1>1 DEF WellFormed, Level
    <2> QED
        BY <2>1, <2>2
<1> HIDE DEF px
<1>4. ASSUME NEW p \in Pixels(w, h)
      PROVE  /\ color[p] = IF s.pixel[p][2] = 0 THEN Opaque(s.pixel[p][1]) ELSE Clear
             /\ invert[p] = IF s.pixel[p][2] # 0 /\ s.pixel[p][1] # 0 THEN Opaque(255)
                            ELSE Clear
             /\ ~c.hasColor => s.pixel[p][2] # 0
             /\ ~c.hasInvert => ~(s.pixel[p][2] # 0 /\ s.pixel[p][1] # 0)
    BY <1>3
<1> HIDE DEF c
<1>5. c.width = w /\ c.height = h /\ c.color = color /\ c.invert = invert
    BY DEF c
<1> HIDE DEF color, invert
<1>6. ASSUME NEW p \in Pixels(w, h), NEW l \in Level
      PROVE  Inverted(c.invert[p], Laid(c.color[p], l)) = Meant(s.type, s.pixel[p], l)
    <2>1. CASE s.pixel[p][2] = 0 /\ s.pixel[p][1] \in Level
        <3>1. Meant(s.type, s.pixel[p], l) = s.pixel[p][1]
            BY <2>1 DEF Meant
        <3>2. c.color[p] = Opaque(s.pixel[p][1]) /\ c.invert[p] = Clear
            BY <1>4, <1>5, <2>1
        <3>3. Laid(c.color[p], l) = s.pixel[p][1]
            BY <2>1, <3>2, Blends
        <3>4. Inverted(c.invert[p], s.pixel[p][1]) = s.pixel[p][1]
            BY <2>1, <3>2, Blends
        <3> QED
            BY <3>1, <3>3, <3>4
    <2>2. CASE s.pixel[p][2] = 255 /\ s.pixel[p][1] \in {0, 255}
        <3>1. Meant(s.type, s.pixel[p], l) = IF s.pixel[p][1] = 255 THEN 255 - l ELSE l
            BY <2>2 DEF Meant
        <3>2. /\ c.color[p] = Clear
              /\ c.invert[p] = IF s.pixel[p][1] = 255 THEN Opaque(255) ELSE Clear
            BY <1>4, <1>5, <2>2
        <3>3. Laid(c.color[p], l) = l
            BY <3>2, Blends
        <3>4. Inverted(c.invert[p], l) = IF s.pixel[p][1] = 255 THEN 255 - l ELSE l
            BY <3>2, Blends
        <3> QED
            BY <3>1, <3>3, <3>4
    <2> QED
        BY <1>3, <2>1, <2>2
<1>7. ASSUME NEW p \in Pixels(w, h)
      PROVE  /\ ~c.hasColor => c.color[p][2] = 0
             /\ ~c.hasInvert => c.invert[p][2] = 0
    <2>1. Clear[2] = 0
        BY DEF Clear
    <2> QED
        BY <1>4, <1>5, <2>1
<1>8. Stands(c, s)
    BY <1>1, <1>5, <1>6, <1>7 DEF Stands
<1> QED
    BY <1>1, <1>2, <1>8

\* A shape is refused or decoded to what it means.
LEMMA Decodes ==
    ASSUME NEW s \in Shapes
    PROVE  \/ /\ Decoded[s] = <<>>
              /\ \A pixel, l : Meant(s.type, pixel, l) = l
           \/ \E c : Decoded[s] = <<c>> /\ Stands(c, s)
<1>1. WellFormed(s)
    BY PictureAssumption
<1>2. Decoded[s] = DecodePointerShape(Info(s), Buffer(s))
    BY DEF Decoded
<1>3. CASE s.type \in {"monochrome", "color", "masked"}
    BY <1>1, <1>2, <1>3, MonochromeStands, ColourStands, MaskedStands
<1>4. CASE s.type \notin {"monochrome", "color", "masked"}
    <2>1. DecodePointerShape(Info(s), Buffer(s)) = <<>>
        BY <1>4 DEF DecodePointerShape, Info
    <2>2. \A pixel, l : Meant(s.type, pixel, l) = l
        BY <1>4 DEF Meant
    <2> QED
        BY <1>2, <2>1, <2>2
<1> QED
    BY <1>3, <1>4

-----------------------------------------------------------------------------
(* What is drawn.                                                          *)

\* Pixel q of the screen, seen from the pointer's position.
Under(q) == <<q[1] - at[1], q[2] - at[2]>>

\* A texture of this layer, or none if nothing is in the layer.
IsLayer(tex, layer) ==
    \/ tex = <<Texture(shape, layer)>>
    \/ tex = <<>> /\ \A p \in Pixels(shape.width, shape.height) : layer[p][2] = 0

\* There is a shape, somewhere.
Sized == at \in Int \X Int /\ shape.width \in Nat \ {0} /\ shape.height \in Nat \ {0}

\* DrawCursorLayer on one pixel: nothing beyond the pointer's rectangle, whatever
\* the texture.
LEMMA Outside ==
    ASSUME NEW pic, NEW tex, NEW q \in Screen,
           Under(q) \notin Pixels(shape.width, shape.height)
    PROVE  DrawLayer(pic, tex, FALSE)[q] = pic[q] /\ DrawLayer(pic, tex, TRUE)[q] = pic[q]
BY DEF DrawLayer, Under

\* And within it, what the layer says of the level there.
LEMMA Inside ==
    ASSUME NEW pic, NEW tex, NEW layer, NEW q \in Screen,
           Sized, IsLayer(tex, layer), Under(q) \in Pixels(shape.width, shape.height)
    PROVE  /\ DrawLayer(pic, tex, FALSE)[q] = Laid(layer[Under(q)], pic[q])
           /\ DrawLayer(pic, tex, TRUE)[q] = Inverted(layer[Under(q)], pic[q])
<1>1. PICK x, y, w, h : /\ x = q[1] - at[1] /\ y = q[2] - at[2]
                        /\ w = shape.width /\ h = shape.height
    OBVIOUS
<1>2. x \in 0 .. w - 1 /\ y \in 0 .. h - 1 /\ w \in Nat \ {0} /\ h \in Nat \ {0}
    BY <1>1 DEF Under, Pixels, Sized
<1>3. (x * w) \div w = x /\ (y * h) \div h = y
    BY <1>2, DivBack
<1>4. CASE tex = <<Texture(shape, layer)>>
    <2>1. tex # <<>> /\ tex[1].width = w /\ tex[1].height = h /\ tex[1].pixel = layer
        BY <1>1, <1>4 DEF Texture
    <2> DEFINE texel == layer[<<x, y>>]
               within == <<x, y>> \in Pixels(w, h) /\ texel[2] > 1
    <2>2. /\ DrawLayer(pic, tex, FALSE)[q] =
                 IF within THEN Alpha(texel, pic[q]) ELSE pic[q]
          /\ DrawLayer(pic, tex, TRUE)[q] =
                 IF within THEN Invert(texel, pic[q]) ELSE pic[q]
        BY <1>1, <1>3, <2>1 DEF DrawLayer
    <2>3. Under(q) = <<x, y>>
        BY <1>1 DEF Under
    <2> QED
        BY <1>1, <2>2, <2>3 DEF Inverted, Laid
<1>5. CASE tex = <<>> /\ \A p \in Pixels(shape.width, shape.height) : layer[p][2] = 0
    <2>1. layer[Under(q)][2] = 0
        BY <1>5
    <2>2. DrawLayer(pic, tex, FALSE) = pic /\ DrawLayer(pic, tex, TRUE) = pic
        BY <1>5 DEF DrawLayer
    <2>3. ~(layer[Under(q)][2] > 1)
        BY <2>1
    <2> QED
        BY <2>2, <2>3 DEF Inverted, Laid
<1> QED
    BY <1>4, <1>5 DEF IsLayer

\* A picture of the whole screen stays one.
LEMMA Canvas ==
    ASSUME NEW pic, pic = [q \in Screen |-> pic[q]], NEW tex, NEW inverting
    PROVE  LET d == DrawLayer(pic, tex, inverting) IN d = [q \in Screen |-> d[q]]
BY DEF DrawLayer

\* Both layers are there, each that is not empty.
Drawable(s) ==
    /\ Stands(shape, s)
    /\ colorTex  = (IF shape.hasColor THEN <<Texture(shape, shape.color)>> ELSE <<>>)
    /\ invertTex = (IF shape.hasInvert THEN <<Texture(shape, shape.invert)>> ELSE <<>>)

\* Then both together show the shape as Windows would.
LEMMA DrawsShown ==
    ASSUME NEW s \in Shapes, Drawable(s), at \in Int \X Int,
           NEW i \in Images, lastBgra = <<i>>
    PROVE  Composed(colorTex, invertTex) = Shown(i, s, at)
<1>1. i = [q \in Screen |-> i[q]] /\ \A q \in Screen : i[q] \in Level
    BY PictureAssumption DEF Screen, Level
<1>2. /\ shape.width = s.width /\ shape.height = s.height
      /\ shape.width \in Nat \ {0} /\ shape.height \in Nat \ {0} /\ Sized
    BY PictureAssumption DEF WellFormed, Drawable, Stands, Sized
<1>3. IsLayer(colorTex, shape.color) /\ IsLayer(invertTex, shape.invert)
    BY <1>2 DEF Drawable, Stands, IsLayer
<1> DEFINE first == DrawLayer(i, colorTex, FALSE)
           both  == DrawLayer(first, invertTex, TRUE)
<1>4. Composed(colorTex, invertTex) = both
    BY DEF Composed
<1>5. both = [q \in Screen |-> both[q]]
    <2>1. first = [q \in Screen |-> first[q]]
        BY <1>1, Canvas
    <2> HIDE DEF first
    <2> QED
        BY <2>1, Canvas
<1>6. ASSUME NEW q \in Screen
      PROVE  both[q] = IF Under(q) \in Pixels(s.width, s.height)
                       THEN Meant(s.type, s.pixel[Under(q)], i[q]) ELSE i[q]
    <2>1. CASE Under(q) \in Pixels(s.width, s.height)
        <3>0. Sized /\ Under(q) \in Pixels(shape.width, shape.height)
            BY <1>2, <2>1
        <3>1. first[q] = Laid(shape.color[Under(q)], i[q])
            BY <1>3, <3>0, Inside
        <3> HIDE DEF first
        <3>2. both[q] = Inverted(shape.invert[Under(q)], first[q])
            BY <1>3, <3>0, Inside
        <3> HIDE DEF both
        <3>3. Inverted(shape.invert[Under(q)], Laid(shape.color[Under(q)], i[q]))
                  = Meant(s.type, s.pixel[Under(q)], i[q])
            BY <1>1, <2>1 DEF Drawable, Stands
        <3> QED
            BY <2>1, <3>1, <3>2, <3>3
    <2>2. CASE Under(q) \notin Pixels(s.width, s.height)
        <3>1. first[q] = i[q]
            BY <1>2, <2>2, Outside
        <3> HIDE DEF first
        <3>2. both[q] = first[q]
            BY <1>2, <2>2, Outside
        <3> HIDE DEF both
        <3> QED
            BY <2>2, <3>1, <3>2
    <2> QED
        BY <2>1, <2>2
<1>7. Shown(i, s, at) = [q \in Screen |-> IF Under(q) \in Pixels(s.width, s.height)
                                         THEN Meant(s.type, s.pixel[Under(q)], i[q]) ELSE i[q]]
    BY DEF Shown, Under
<1> HIDE DEF both
<1> QED
    BY <1>4, <1>5, <1>6, <1>7

\* A shape that changes no level is as good as none.
LEMMA NothingMeant ==
    ASSUME NEW s, NEW p, NEW i \in Images,
           \A d \in Pixels(s.width, s.height), l \in Level : Meant(s.type, s.pixel[d], l) = l
    PROVE  Shown(i, s, p) = i
<1>1. i = [q \in Screen |-> i[q]] /\ \A q \in Screen : i[q] \in Level
    BY PictureAssumption DEF Screen, Level
<1>2. ASSUME NEW q \in Screen
      PROVE  Shown(i, s, p)[q] = i[q]
    BY <1>1 DEF Shown
<1>3. Shown(i, s, p) = [q \in Screen |-> Shown(i, s, p)[q]]
    BY DEF Shown
<1> QED
    BY <1>1, <1>2, <1>3

-----------------------------------------------------------------------------
(* The inductive invariant.                                                *)

\* No image, or one of DXGI's.
IsImage(seq) == seq = <<>> \/ \E i \in Images : seq = <<i>>

\* What is kept of the pointer and the image follows what DXGI handed out.
Follows ==
    /\ handed = [image |-> handed.image, shape |-> handed.shape, at |-> handed.at,
                 visible |-> handed.visible]
    /\ at \in Int \X Int /\ visible = handed.visible /\ (visible => at = handed.at)
    /\ IsImage(lastBgra) /\ IsImage(handed.image)
    /\ imageMissed \/ lastBgra = handed.image

\* Nothing is drawn of s.
Ignored(s) == \A pixel, l : Meant(s.type, pixel, l) = l

\* A shape that is kept can be drawn, and it is the last one handed out, unless
\* that did not get through or Windows draws nothing of it either.
Standing ==
    /\ shape = NoCursor \/ \E s \in Shapes : Drawable(s)
    /\ handed.shape = <<>> \/ \E s \in Shapes : handed.shape = <<s>>
    /\ drawCursor /\ ~shapeMissed =>
          \/ handed.shape = <<>> /\ shape = NoCursor
          \/ \E s \in Shapes :
                /\ handed.shape = <<s>>
                /\ \/ shape = NoCursor /\ Ignored(s)
                   \/ Drawable(s)

\* Until the next PumpFrame, the picture is what is kept, with the pointer or not.
Made ==
    picture # <<>> =>
        /\ lastBgra # <<>>
        /\ \/ picture = lastBgra /\ (drawn => ~WantCursor)
           \/ /\ WantCursor
              /\ \E c \in {colorTex, <<>>}, i \in {invertTex, <<>>} :
                    /\ picture = <<Composed(c, i)>>
                    /\ drawn => c = colorTex /\ i = invertTex

IInv == Follows /\ Standing /\ Made

LEMMA Starts == Init => IInv
<1>1. Init => Follows
    <2>1. ASSUME Init
          PROVE  /\ handed = [image |-> handed.image, shape |-> handed.shape, at |-> handed.at,
                              visible |-> handed.visible]
                 /\ handed.image = <<>> /\ handed.at = <<0, 0>> /\ handed.visible = FALSE
        BY <2>1 DEF Init
    <2>2. Init => at = <<0, 0>> /\ at \in Int \X Int /\ visible = FALSE /\ lastBgra = <<>>
        BY DEF Init
    <2> QED
        BY <2>1, <2>2 DEF Follows, IsImage
<1>2. Init => Standing
    BY DEF Init, Standing
<1>3. Init => Made
    BY DEF Init, Made
<1> QED
    BY <1>1, <1>2, <1>3 DEF IInv

\* UploadCursorTextures and what follows it (capture.cpp:279-283): all of the shape, or
\* none of it.
LEMMA Uploaded ==
    ASSUME NEW s \in Shapes, NEW c, Stands(c, s), NEW failing,
           Upload(c, failing), shape' = ShapeAfter(c, failing)
    PROVE  \/ shape' = NoCursor /\ shape' # c
           \/ shape' = c /\ Drawable(s)'
<1>1. NoCursor # c
    BY PictureAssumption DEF WellFormed, Stands, NoCursor
<1>2. CASE (c.hasColor /\ "color" \in failing) \/ (c.hasInvert /\ "invert" \in failing)
    BY <1>1, <1>2 DEF ShapeAfter
<1>3. CASE ~((c.hasColor /\ "color" \in failing) \/ (c.hasInvert /\ "invert" \in failing))
    <2>1. shape' = c
        BY <1>3 DEF ShapeAfter
    <2>2. /\ colorTex'  = (IF c.hasColor THEN <<Texture(c, c.color)>> ELSE <<>>)
          /\ invertTex' = (IF c.hasInvert THEN <<Texture(c, c.invert)>> ELSE <<>>)
        BY <1>3 DEF Upload
    <2> QED
        BY <2>1, <2>2 DEF Drawable
<1> QED
    BY <1>2, <1>3

LEMMA Updated ==
    ASSUME NEW s \in Shapes, UpdatePointerShape(s),
           shape = NoCursor \/ \E t \in Shapes : Drawable(t)
    PROVE  /\ shape' = NoCursor \/ \E t \in Shapes : Drawable(t)'
           /\ ~shapeMissed' => (shape' = NoCursor /\ Ignored(s)) \/ Drawable(s)'
<1>1. CASE shapeMissed' = TRUE /\ UNCHANGED <<shape, colorTex, invertTex>>
    BY <1>1 DEF Drawable
<1>2. CASE Decoded[s] = <<>> /\ shape' = NoCursor
    <2>1. ~\E c : Decoded[s] = <<c>>
        BY <1>2
    <2>2. Ignored(s)
        BY <2>1, Decodes DEF Ignored
    <2> QED
        BY <1>2, <2>2
<1>3. CASE /\ Decoded[s] # <<>>
           /\ \E failing \in SUBSET {"color", "invert"} :
                 /\ Upload(Decoded[s][1], failing)
                 /\ shape' = ShapeAfter(Decoded[s][1], failing)
                 /\ shapeMissed' = (shape' # Decoded[s][1])
    <2>1. PICK c : Decoded[s] = <<c>> /\ Stands(c, s)
        BY <1>3, Decodes
    <2>2. Decoded[s][1] = c
        BY <2>1
    <2>3. PICK failing \in SUBSET {"color", "invert"} :
              /\ Upload(c, failing) /\ shape' = ShapeAfter(c, failing)
              /\ shapeMissed' = (shape' # c)
        BY <1>3, <2>2
    <2>4. \/ shape' = NoCursor /\ shape' # c
          \/ shape' = c /\ Drawable(s)'
        BY <2>1, <2>3, Uploaded
    <2> QED
        BY <2>3, <2>4
<1> QED
    BY <1>1, <1>2, <1>3 DEF UpdatePointerShape

LEMMA NextFollows == Follows /\ [Next]_vars => Follows'
<1> SUFFICES ASSUME Follows, [Next]_vars PROVE Follows'
    OBVIOUS
<1>1. ASSUME NEW i \in Images, PumpImage(i) PROVE Follows'
    <2>1. handed' = [image |-> <<i>>, shape |-> handed.shape, at |-> handed.at,
                     visible |-> handed.visible]
        BY <1>1 DEF PumpImage, Follows
    <2>2. (lastBgra' = <<i>> /\ imageMissed' = FALSE) \/ (imageMissed' = TRUE /\ UNCHANGED lastBgra)
        BY <1>1 DEF PumpImage, TakeImage
    <2>3. UNCHANGED <<visible, at>>
        BY <1>1 DEF PumpImage, cursor
    <2> QED
        BY <2>1, <2>2, <2>3 DEF Follows, IsImage
<1>2. ASSUME NEW p \in Positions, NEW v \in BOOLEAN, NEW s, PumpPointer(p, v, s)
      PROVE  Follows'
    <2>1. visible' = v /\ at' = (IF v THEN p ELSE at) /\ p \in Int \X Int
        BY <1>2, PictureAssumption DEF PumpPointer, TakePointer, Pointer
    <2>2. ASSUME NEW image, handed' = Handed(image, s, p, v)
          PROVE  /\ handed' = [image |-> handed'.image, shape |-> handed'.shape,
                               at |-> handed'.at, visible |-> handed'.visible]
                 /\ handed'.image = image /\ handed'.at = p /\ handed'.visible = v
        BY <2>2 DEF Handed
    <2>3. CASE \E i \in Images : TakeImage(i) /\ handed' = Handed(<<i>>, s, p, v)
        BY <2>1, <2>2, <2>3 DEF Follows, IsImage, TakeImage
    <2>4. CASE handed' = Handed(handed.image, s, p, v) /\ UNCHANGED <<lastBgra, imageMissed>>
        BY <2>1, <2>2, <2>4 DEF Follows, IsImage
    <2> QED
        BY <1>2, <2>3, <2>4 DEF PumpPointer
<1>3. CASE ConvertLatestToNv12 \/ ConvertFails \/ UNCHANGED vars
    <2>1. UNCHANGED <<lastBgra, visible, at, handed, imageMissed>>
        BY <1>3 DEF ConvertLatestToNv12, ConvertFails, Compose, ComposeFails, vars, cursor, history
    <2> QED
        BY <2>1 DEF Follows, IsImage
<1> QED
    BY <1>1, <1>2, <1>3 DEF Next, PumpFrame

LEMMA NextStanding == Follows /\ Standing /\ [Next]_vars => Standing'
<1> SUFFICES ASSUME Follows, Standing, [Next]_vars PROVE Standing'
    OBVIOUS
<1>1. ASSUME UNCHANGED <<shape, colorTex, invertTex, drawCursor, shapeMissed>>,
             handed'.shape = handed.shape
      PROVE  Standing'
    BY <1>1 DEF Standing, Drawable
<1>2. ASSUME NEW i \in Images, PumpImage(i), drawCursor' = drawCursor PROVE Standing'
    BY <1>1, <1>2 DEF PumpImage, cursor, Follows
<1>3. ASSUME NEW p \in Positions, NEW v \in BOOLEAN, NEW s \in {<<>>} \cup {<<t>> : t \in Shapes},
             PumpPointer(p, v, s), drawCursor' = drawCursor
      PROVE  Standing'
    <2>1. handed'.shape = IF s = <<>> THEN handed.shape ELSE s
        BY <1>3 DEF PumpPointer, Handed
    <2>2. CASE s # <<>> /\ drawCursor
        <3>1. PICK t \in Shapes : s = <<t>>
            BY <1>3, <2>2
        <3>2. UpdatePointerShape(t)
            BY <1>3, <2>2, <3>1 DEF PumpPointer, TakePointer
        <3>3. /\ shape' = NoCursor \/ \E u \in Shapes : Drawable(u)'
              /\ ~shapeMissed' => (shape' = NoCursor /\ Ignored(t)) \/ Drawable(t)'
            BY <3>2, Updated DEF Standing
        <3> QED
            BY <2>1, <2>2, <3>1, <3>3 DEF Standing
    <2>3. CASE ~(s # <<>> /\ drawCursor)
        <3>1. UNCHANGED <<shape, colorTex, invertTex, shapeMissed>>
            BY <1>3, <2>3 DEF PumpPointer, TakePointer
        <3>2. CASE s = <<>>
            BY <1>1, <1>3, <2>1, <3>1, <3>2
        <3>3. CASE ~drawCursor /\ s # <<>>
            <4>1. \E t \in Shapes : handed'.shape = <<t>>
                BY <1>3, <2>1, <3>3
            <4>2. shape' = NoCursor \/ \E t \in Shapes : Drawable(t)'
                BY <3>1 DEF Standing, Drawable
            <4> QED
                BY <1>3, <3>3, <4>1, <4>2 DEF Standing
        <3> QED
            BY <2>3, <3>2, <3>3
    <2> QED
        BY <2>2, <2>3
<1>4. CASE ConvertLatestToNv12 \/ ConvertFails \/ UNCHANGED vars
    <2>1. UNCHANGED <<shape, colorTex, invertTex, drawCursor, shapeMissed, handed>>
        BY <1>4 DEF ConvertLatestToNv12, ConvertFails, vars, cursor, history
    <2> QED
        BY <1>1, <2>1
<1> QED
    BY <1>2, <1>3, <1>4 DEF Next, PumpFrame

LEMMA NextMade == Made /\ [Next]_vars => Made'
<1> SUFFICES ASSUME Made, [Next]_vars PROVE Made'
    OBVIOUS
<1>1. CASE PumpFrame \/ ConvertFails
    BY <1>1 DEF PumpFrame, ConvertFails, Made
<1>2. ASSUME UNCHANGED <<drawCursor, lastBgra, visible, at, shape, colorTex, invertTex>>
      PROVE  /\ WantCursor' <=> WantCursor
             /\ \A c, i : Composed(c, i)' = Composed(c, i)
    BY <1>2 DEF WantCursor, Composed, DrawLayer
<1>3. CASE ConvertLatestToNv12
    <2>1. UNCHANGED <<drawCursor, lastBgra, visible, at, shape, colorTex, invertTex>>
        BY <1>3 DEF ConvertLatestToNv12, Compose, ComposeFails, cursor
    <2>2. CASE WantCursor /\ Compose
        BY <1>2, <1>3, <2>1, <2>2 DEF ConvertLatestToNv12, Compose, Made
    <2>3. CASE WantCursor /\ ComposeFails
        BY <1>2, <1>3, <2>1, <2>3 DEF ConvertLatestToNv12, ComposeFails, Made
    <2>4. CASE ~WantCursor
        BY <1>2, <1>3, <2>1, <2>4 DEF ConvertLatestToNv12, Made
    <2> QED
        BY <1>3, <2>2, <2>3, <2>4 DEF ConvertLatestToNv12
<1>4. CASE UNCHANGED vars
    <2>1. UNCHANGED <<drawCursor, lastBgra, visible, at, shape, colorTex, invertTex, picture,
                      drawn>>
        BY <1>4 DEF vars, cursor
    <2> QED
        BY <1>2, <2>1 DEF Made
<1> QED
    BY <1>1, <1>3, <1>4 DEF Next

THEOREM Invariance == Spec => []IInv
<1>1. IInv /\ [Next]_vars => IInv'
    BY NextFollows, NextStanding, NextMade DEF IInv
<1> QED
    BY Starts, <1>1, PTL DEF Spec

-----------------------------------------------------------------------------
(* What follows.                                                           *)

\* What was converted, when the pointer was drawn.
LEMMA Over ==
    ASSUME Made, picture # <<>>
    PROVE  \/ picture = lastBgra /\ (drawn => ~WantCursor)
           \/ /\ WantCursor
              /\ \E c, i : picture[1] = Composed(c, i)
              /\ drawn => picture[1] = Composed(colorTex, invertTex)
<1>1. CASE picture = lastBgra /\ (drawn => ~WantCursor)
    BY <1>1
<1>2. CASE /\ WantCursor
           /\ \E c \in {colorTex, <<>>}, i \in {invertTex, <<>>} :
                 /\ picture = <<Composed(c, i)>>
                 /\ drawn => c = colorTex /\ i = invertTex
    <2>1. PICK c \in {colorTex, <<>>}, i \in {invertTex, <<>>} :
              /\ picture = <<Composed(c, i)>>
              /\ drawn => c = colorTex /\ i = invertTex
        BY <1>2
    <2>2. picture[1] = Composed(c, i)
        BY <2>1
    <2> QED
        BY <1>2, <2>1, <2>2
<1> QED
    BY <1>1, <1>2 DEF Made

\* When the last image got through, nothing is left of an earlier position of
\* the pointer, and the copy of the desktop is not drawn into
\* (capture.h:115-116).
THEOREM Traceless == Spec => []NoTrail
<1>1. IInv => NoTrail
    <2> SUFFICES ASSUME Follows, Made, picture # <<>>, ~imageMissed
                 PROVE  /\ lastBgra = handed.image
                        /\ \A q \in Screen : picture[1][q] # handed.image[1][q] =>
                              /\ handed.visible
                              /\ <<q[1] - handed.at[1], q[2] - handed.at[2]>>
                                     \in Pixels(shape.width, shape.height)
        BY DEF IInv, NoTrail
    <2>1. lastBgra = handed.image
        BY DEF Follows
    <2>2. ASSUME NEW q \in Screen, picture[1][q] # lastBgra[1][q]
          PROVE  /\ WantCursor
                 /\ Under(q) \in Pixels(shape.width, shape.height)
        <3>1. PICK c, i : WantCursor /\ picture[1] = Composed(c, i)
            BY <2>2, Over
        <3>2. SUFFICES ASSUME Under(q) \notin Pixels(shape.width, shape.height) PROVE FALSE
            BY <3>1
        <3> DEFINE first == DrawLayer(lastBgra[1], c, FALSE)
        <3>3. first[q] = lastBgra[1][q]
            BY <3>2, Outside
        <3> HIDE DEF first
        <3>4. DrawLayer(first, i, TRUE)[q] = first[q]
            BY <3>2, Outside
        <3>5. Composed(c, i) = DrawLayer(first, i, TRUE)
            BY DEF Composed, first
        <3> QED
            BY <2>2, <3>1, <3>3, <3>4, <3>5
    <2>3. WantCursor => handed.visible /\ at = handed.at
        BY DEF WantCursor, Follows
    <2> QED
        BY <2>1, <2>2, <2>3 DEF Under
<1> QED
    BY <1>1, Invariance, PTL

\* Whatever of a shape's decoding and upload fails, the pointer is drawn as one
\* of the shapes handed out, both of its layers, or not at all, if Map fails for
\* neither layer (capture.cpp:258-285, 620-638).
THEOREM DrawnWhole == Spec => []WholeShape
<1>1. IInv => WholeShape
    <2> SUFFICES ASSUME Follows, Standing, Made, picture # <<>>, drawn
                 PROVE  \/ picture = lastBgra
                        \/ \E s \in Shapes : picture[1] = Shown(lastBgra[1], s, at)
        BY DEF IInv, WholeShape
    <2>1. CASE picture = lastBgra
        BY <2>1
    <2>2. CASE WantCursor /\ picture[1] = Composed(colorTex, invertTex)
        <3>1. PICK i \in Images : lastBgra = <<i>>
            BY DEF Follows, IsImage, Made
        <3>2. shape # NoCursor
            BY <2>2 DEF WantCursor, NoCursor
        <3>3. PICK s \in Shapes : Drawable(s)
            BY <3>2 DEF Standing
        <3>4. at \in Int \X Int /\ lastBgra[1] = i
            BY <3>1 DEF Follows
        <3>5. Composed(colorTex, invertTex) = Shown(i, s, at)
            BY <3>1, <3>3, <3>4, DrawsShown
        <3> QED
            BY <2>2, <3>4, <3>5
    <2> QED
        BY <2>1, <2>2, Over
<1> QED
    BY <1>1, Invariance, PTL

\* A shape of which there is nothing to draw means nothing to Windows either.
LEMMA Undrawn ==
    ASSUME NEW s \in Shapes, NEW i \in Images, NEW p,
           \/ Ignored(s)
           \/ Drawable(s) /\ colorTex = <<>> /\ invertTex = <<>>
    PROVE  Shown(i, s, p) = i
<1>1. CASE Ignored(s)
    BY <1>1, NothingMeant DEF Ignored
<1>2. CASE Drawable(s) /\ colorTex = <<>> /\ invertTex = <<>>
    <2>1. ~shape.hasColor /\ ~shape.hasInvert
        BY <1>2 DEF Drawable
    <2>2. ASSUME NEW d \in Pixels(s.width, s.height), NEW l \in Level
          PROVE  Meant(s.type, s.pixel[d], l) = l
        <3>1. shape.color[d][2] = 0 /\ shape.invert[d][2] = 0
            BY <1>2, <2>1 DEF Drawable, Stands
        <3>2. Inverted(shape.invert[d], Laid(shape.color[d], l)) = Meant(s.type, s.pixel[d], l)
            BY <1>2 DEF Drawable, Stands
        <3>3. Inverted(shape.invert[d], Laid(shape.color[d], l)) = l
            BY <3>1 DEF Inverted, Laid
        <3> QED
            BY <3>2, <3>3
    <2> QED
        BY <2>2, NothingMeant
<1> QED
    BY <1>1, <1>2

\* The phone shows the desktop as Windows would, pointer and all, whatever came
\* first, if everything handed out got through (capture.h:45-47, cursor.h:4-8).
THEOREM Mirrored == Spec => []AsOnDesktop
<1>1. IInv => AsOnDesktop
    <2> SUFFICES ASSUME Follows, Standing, Made, picture # <<>>, ~imageMissed, ~shapeMissed,
                        drawn
                 PROVE  picture[1] = Desktop
        BY DEF IInv, AsOnDesktop
    <2>1. PICK i \in Images : lastBgra = <<i>> /\ handed.image = <<i>>
        BY DEF Follows, IsImage, Made
    <2>2. lastBgra[1] = i /\ handed.image[1] = i /\ at \in Int \X Int
        BY <2>1 DEF Follows
    <2>3. CASE drawCursor /\ handed.visible /\ handed.shape # <<>>
        <3>1. PICK s \in Shapes :
                  /\ handed.shape = <<s>>
                  /\ (shape = NoCursor /\ Ignored(s)) \/ Drawable(s)
            BY <2>3 DEF Standing
        <3>2. Desktop = Shown(i, s, at)
            <4>1. at = handed.at
                BY <2>3 DEF Follows
            <4> QED
                BY <2>2, <2>3, <3>1, <4>1 DEF Desktop
        <3>3. CASE WantCursor
            <4>1. Drawable(s)
                BY <3>1, <3>3 DEF WantCursor, NoCursor
            <4>2. Composed(colorTex, invertTex) = Shown(i, s, at)
                BY <2>1, <2>2, <4>1, DrawsShown
            <4> QED
                BY <3>2, <3>3, <4>2, Over
        <3>4. CASE ~WantCursor
            <4>1. visible
                BY <2>3 DEF Follows
            <4>2. Ignored(s) \/ (Drawable(s) /\ colorTex = <<>> /\ invertTex = <<>>)
                <5>1. Drawable(s) => shape.width > 0
                    BY PictureAssumption DEF WellFormed, Drawable, Stands
                <5> QED
                    BY <2>3, <3>1, <3>4, <4>1, <5>1 DEF WantCursor
            <4>3. Shown(i, s, at) = i
                BY <4>2, Undrawn
            <4> QED
                BY <2>2, <3>2, <3>4, <4>3, Over
        <3> QED
            BY <3>3, <3>4
    <2>4. CASE ~(drawCursor /\ handed.visible /\ handed.shape # <<>>)
        <3>1. Desktop = i
            BY <2>2, <2>4 DEF Desktop
        <3>2. ~WantCursor
            BY <2>4 DEF WantCursor, Follows, Standing, NoCursor
        <3> QED
            BY <2>2, <3>1, <3>2, Over
    <2> QED
        BY <2>3, <2>4
<1> QED
    BY <1>1, Invariance, PTL
=============================================================================

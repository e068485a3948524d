------------------------------ MODULE Picture -------------------------------
(***************************************************************************)
(* windows/src/capture.cpp: how the picture that goes to the encoder is    *)
(* made of the desktop's image and the pointer.  PumpFrame takes what DXGI *)
(* hands out, ConvertLatestToNv12 draws the pointer over a copy of the     *)
(* last image and converts it.  One thread; when it calls which is in      *)
(* Capture, and so is the duplication's life.                              *)
(*                                                                         *)
(* A picture maps each pixel of the screen to a level.  A texture is its   *)
(* contents, in a sequence that is empty while there is none.  The         *)
(* conversion to NV12 changes no level here, and the choice of a texture   *)
(* of the NV12 pool is left out.                                           *)
(***************************************************************************)
EXTENDS CursorShape

CONSTANTS Width, Height,    \* width_, height_
          Images,           \* the desktop's images
          Shapes,           \* pointer shapes (CursorShape)
          Positions         \* where the shape's left upper corner may be

ASSUME PictureAssumption ==
    /\ Width \in Nat \ {0} /\ Height \in Nat \ {0}
    /\ Images \subseteq [Pixels(Width, Height) -> 0 .. 255]
    /\ \A s \in Shapes : WellFormed(s)
    /\ Positions \subseteq Int \X Int

Screen == Pixels(Width, Height)

VARIABLES
    drawCursor,     \* drawCursor_
    lastBgra,       \* lastBgra_, which haveFrame_ follows
    target,         \* is composedBgra_ set?  It is overwritten before each use
    visible, at,    \* cursorVisible_, cursorX_ and cursorY_
    shape,          \* cursorShape_
    colorTex,       \* cursorColorTex_ and its view: <<>> or <<[width, height, pixel]>>
    invertTex,      \* cursorInvertTex_ and its view
    picture,        \* what was converted since the last PumpFrame, if anything was
    \* history
    handed,         \* * the last image, shape, position and visibility DXGI handed out
    imageMissed,    \* * did the last image handed out not get through?
    shapeMissed,    \* * the last shape?
    drawn           \* * did drawing the pointer go well?

cursor  == <<visible, at, shape, colorTex, invertTex>>
history == <<handed, imageMissed, shapeMissed>>
vars    == <<drawCursor, lastBgra, target, cursor, picture, history, drawn>>

Init ==
    /\ drawCursor \in BOOLEAN
    /\ lastBgra = <<>> /\ target = FALSE
    /\ visible = FALSE /\ at = <<0, 0>> /\ shape = NoCursor
    /\ colorTex = <<>> /\ invertTex = <<>>
    /\ picture = <<>>
    /\ handed = [image |-> <<>>, shape |-> <<>>, at |-> <<0, 0>>, visible |-> FALSE]
    /\ imageMissed = FALSE /\ shapeMissed = FALSE /\ drawn = TRUE

-----------------------------------------------------------------------------
(* PumpFrame.                                                              *)

Texture(c, layer) == [width |-> c.width, height |-> c.height, pixel |-> layer]

\* UploadCursorTextures: a layer that is present becomes a texture, unless
\* making that fails.
Upload(c, failing) ==
    /\ colorTex' = IF c.hasColor /\ "color" \notin failing
                   THEN <<Texture(c, c.color)>> ELSE <<>>
    /\ invertTex' = IF c.hasInvert /\ "invert" \notin failing
                    THEN <<Texture(c, c.invert)>> ELSE <<>>

\* Mutant: a shape whose textures could not be made leaves the old one in place.
ShapeKept(c, failing) ==
    IF (c.hasColor /\ "color" \in failing) \/ (c.hasInvert /\ "invert" \in failing)
    THEN shape ELSE c

\* cursorShape_ after an upload (lines 279-283).
ShapeAfter(c, failing) ==
    IF (c.hasColor /\ "color" \in failing) \/ (c.hasInvert /\ "invert" \in failing)
    THEN NoCursor ELSE c

Decoded == [s \in Shapes |-> DecodePointerShape(Info(s), Buffer(s))]

\* UpdatePointerShape, with the new shape s.
UpdatePointerShape(s) ==
    \/ shapeMissed' = TRUE /\ UNCHANGED <<shape, colorTex, invertTex>>
    \/ /\ Decoded[s] = <<>>
       /\ shape' = NoCursor /\ shapeMissed' = FALSE
       /\ UNCHANGED <<colorTex, invertTex>>
    \/ /\ Decoded[s] # <<>>
       /\ \E failing \in SUBSET {"color", "invert"} :
             /\ Upload(Decoded[s][1], failing)
             /\ shape' = ShapeAfter(Decoded[s][1], failing)
             /\ shapeMissed' = (shape' # Decoded[s][1])

\* What DXGI has handed out by now.
Handed(image, s, p, v) ==
    [image |-> image, shape |-> IF s = <<>> THEN handed.shape ELSE s, at |-> p, visible |-> v]

\* Lines 370-375.
Pointer(p, v) == visible' = v /\ at' = IF v THEN p ELSE at

\* Lines 369-377: a pointer update, with a new shape (s # <<>>) or without.
TakePointer(p, v, s) ==
    /\ Pointer(p, v)
    /\ IF s # <<>> /\ drawCursor THEN UpdatePointerShape(s[1])
       ELSE UNCHANGED <<shape, colorTex, invertTex, shapeMissed>>

\* Lines 383-407: an image is copied, or (384, 396, or 404 after a change of
\* the desktop's size) it is not.
TakeImage(i) ==
    \/ lastBgra' = <<i>> /\ imageMissed' = FALSE
    \/ imageMissed' = TRUE /\ UNCHANGED lastBgra

\* A frame is handed out with a pointer update, an image or both.
PumpPointer(p, v, s) ==
    /\ TakePointer(p, v, s)
    /\ \/ \E i \in Images : TakeImage(i) /\ handed' = Handed(<<i>>, s, p, v)
       \/ /\ handed' = Handed(handed.image, s, p, v)
          /\ UNCHANGED <<lastBgra, imageMissed>>

PumpImage(i) ==
    /\ TakeImage(i) /\ handed' = [handed EXCEPT !.image = <<i>>]
    /\ UNCHANGED <<cursor, shapeMissed>>

PumpFrame ==
    /\ \/ \E i \in Images : PumpImage(i)
       \/ \E p \in Positions, v \in BOOLEAN, s \in {<<>>} \cup {<<t>> : t \in Shapes} :
             PumpPointer(p, v, s)
    /\ picture' = <<>>
    /\ UNCHANGED <<drawCursor, target, drawn>>

-----------------------------------------------------------------------------
(* ConvertLatestToNv12.                                                    *)

\* What each blend state makes of a texel over a level: colour is laid over it,
\* a mask inverts it.
Alpha(texel, level)  == (texel[1] * texel[2] + level * (255 - texel[2])) \div 255
Invert(texel, level) == ((255 - level) * texel[1]) \div 255

\* DrawCursorLayer: the texture is laid over the rectangle of cursorShape_ at
\* the pointer's position, clipped to the screen; texels of an alpha below
\* 0.004 are discarded (line 52).
DrawLayer(pic, tex, inverting) ==
    IF tex = <<>> THEN pic
    ELSE [p \in Screen |->
             LET x == p[1] - at[1]
                 y == p[2] - at[2]
                 texel == tex[1].pixel[<<(x * tex[1].width) \div shape.width,
                                         (y * tex[1].height) \div shape.height>>]
             IN IF <<x, y>> \in Pixels(shape.width, shape.height) /\ texel[2] > 1
                THEN IF inverting THEN Invert(texel, pic[p]) ELSE Alpha(texel, pic[p])
                ELSE pic[p]]

WantCursor ==
    drawCursor /\ visible /\ shape.width > 0 /\ (colorTex # <<>> \/ invertTex # <<>>)

\* lastBgra_ with the layers c and i over it.
Composed(c, i) == DrawLayer(DrawLayer(lastBgra[1], c, FALSE), i, TRUE)

\* Mutant: the pointer is drawn into the copy of the desktop.
ComposeInPlace ==
    /\ lastBgra' = <<Composed(colorTex, invertTex)>> /\ picture' = lastBgra'
    /\ drawn' = TRUE
    /\ UNCHANGED target

\* Lines 645-678, with the target made if need be; Map may fail for a layer.
Compose ==
    /\ target' = TRUE
    /\ \E c \in {colorTex, <<>>}, i \in {invertTex, <<>>} :
          /\ picture' = <<Composed(c, i)>>
          /\ drawn' = (c = colorTex /\ i = invertTex)
    /\ UNCHANGED lastBgra

\* Line 643: the target cannot be made.
ComposeFails ==
    /\ ~target /\ picture' = lastBgra /\ drawn' = FALSE
    /\ UNCHANGED <<target, lastBgra>>

ConvertLatestToNv12 ==
    /\ lastBgra # <<>>
    /\ IF WantCursor THEN Compose \/ ComposeFails
       ELSE picture' = lastBgra /\ drawn' = TRUE /\ UNCHANGED <<target, lastBgra>>
    /\ UNCHANGED <<drawCursor, cursor, history>>

\* Line 696 (there is no view), 712 (the blt fails) or before: no picture.
ConvertFails ==
    /\ lastBgra # <<>>
    /\ picture' = <<>> /\ target' \in {target, target \/ WantCursor}
    /\ UNCHANGED <<drawCursor, lastBgra, cursor, history, drawn>>

Next == PumpFrame \/ ConvertLatestToNv12 \/ ConvertFails

Spec == Init /\ [][Next]_vars

-----------------------------------------------------------------------------
(* Properties.                                                             *)

\* The image i with the shape s as Windows would show it at p.
Shown(i, s, p) ==
    [q \in Screen |->
        LET d == <<q[1] - p[1], q[2] - p[2]>>
        IN IF d \in Pixels(s.width, s.height) THEN Meant(s.type, s.pixel[d], i[q]) ELSE i[q]]

\* What the desktop looks like, as far as DXGI has said.
Desktop ==
    IF drawCursor /\ handed.visible /\ handed.shape # <<>>
    THEN Shown(handed.image[1], handed.shape[1], handed.at) ELSE handed.image[1]

\* The phone shows the desktop as Windows would, pointer and all, whatever
\* came first: image, position or shape (capture.h:45-47, cursor.h:4-8), when
\* the last of each got through and drawing went well.
AsOnDesktop == picture # <<>> /\ ~imageMissed /\ ~shapeMissed /\ drawn => picture[1] = Desktop

\* When the last image got through, whatever else fails, nothing is left of an
\* earlier position of the pointer, and the copy of the desktop is not drawn
\* into (capture.h:115-116).
NoTrail ==
    picture # <<>> /\ ~imageMissed =>
        /\ lastBgra = handed.image
        /\ \A q \in Screen : picture[1][q] # handed.image[1][q] =>
              /\ handed.visible
              /\ <<q[1] - handed.at[1], q[2] - handed.at[2]>> \in Pixels(shape.width, shape.height)

\* Whatever of a shape's decoding and upload fails, the pointer is drawn as a
\* shape that DXGI has handed out or not at all, never with another shape's
\* size or layer, if drawing goes well: when Map fails for one of two layers
\* (capture.cpp:630), that picture has the other one alone.
WholeShape ==
    picture # <<>> /\ drawn =>
        \/ picture = lastBgra
        \/ \E s \in Shapes : picture[1] = Shown(lastBgra[1], s, at)
=============================================================================

----------------------------- MODULE MCPicture ------------------------------
(* A screen of 3 x 2 pixels in two images, a pointer shape of each kind.   *)
EXTENDS Picture

Shape(type, w, h, rows) ==
    [type |-> type, width |-> w, height |-> h, pixel |-> [p \in Pixels(w, h) |-> rows[p[2] + 1][p[1] + 1]]]

\* An I-beam: black, white, clear and inverting pixels.
IBeam == Shape("monochrome", 2, 2, <<<< <<0, 0>>, <<1, 1>> >>, << <<1, 0>>, <<0, 1>> >>>>)
\* Inverting only; ten pixels wide, of which the last ones are white.
Wide  == Shape("monochrome", 10, 1, <<[x \in 1 .. 10 |-> IF x < 9 THEN <<1, 1>> ELSE <<0, 1>>]>>)
Arrow == Shape("color", 2, 2, <<<< <<200, 255>>, <<100, 51>> >>, << <<9, 0>>, <<0, 255>> >>>>)
Mask  == Shape("masked", 2, 1, <<<< <<255, 255>>, <<50, 0>> >>>>)
Other == Shape("other", 1, 1, <<<< <<1, 1>> >>>>)

MCShapes == {IBeam, Wide, Arrow, Mask, Other}
MCPositions == {<<0, 0>>, <<2, 1>>, <<-8, 1>>}
MCImages == {[p \in Screen |-> 30 * p[1]], [p \in Screen |-> 255]}
=============================================================================

--------------------------- MODULE MCFramebuffer ---------------------------
(***************************************************************************)
(* Glyphs that reach into the corners of a cell, and a space.  The console *)
(* prints one of them and the space; the crash screen has its number in the*)
(* upper row, the seconds below it behind a text, and texts over the right *)
(* edge and off the bottom.                                                *)
(***************************************************************************)
EXTENDS Framebuffer

MCFont ==
  [ ch \in {hex_digits[d] : d \in 1..16} \cup {"a", "b", "x", " "} |->
      CASE ch = "a" -> {<<0, 0>>, <<7, 15>>}
        [] ch = "b" -> {<<7, 0>>, <<0, 15>>}
        [] ch = "x" -> {<<3, 3>>}
        [] ch = " " -> {}
        [] OTHER    -> LET d == CHOOSE d \in 0..15 : hex_digits[d + 1] = ch
                       IN  {<<0, 0>>, <<d % 8, 1 + d \div 8>>, <<7, 15>>} ]
MCLayout ==
  [ rect      |-> [x |-> -1, y |-> 0, width |-> 32, height |-> 40],
    texts     |-> << [str |-> <<"a", "b">>, x |-> 3, y |-> 0],
                     [str |-> <<"a">>, x |-> 0, y |-> 2] >>,
    rip       |-> [x |-> 0, y |-> 0],
    rebooting |-> [str |-> <<"b", " ">>, x |-> 0, y |-> 1],
    seconds   |-> [x |-> 2, y |-> 1] ]
=============================================================================

---------------------------- MODULE MCKeyboard ----------------------------
(***************************************************************************)
(* Keyboard with the two tables of Layouts checked against what the shell  *)
(* needs to be able to read from it.                                       *)
(***************************************************************************)
EXTENDS Keyboard

Typable ==
  [l \in LayoutNames |->
     { ApplyLayout(l, s, b) : s \in BOOLEAN, b \in 0..127 } \ {NUL}]

\* The characters of every line the shell gives a meaning to: the names in
\* commands[], the two names cmd_layout knows, the space, Enter, Backspace.
CommandChars ==
  {"c", "l", "e", "a", "r", "h", "p", "s", "t", "d", "y", "o", "u", "i", "m",
   "b", "n", "_", "f", " ", "\n", "BS"}

\* Whatever layout is active, every command can still be typed - so a user
\* who picked a layout by mistake can always type the line that undoes it
\* (cmd_layout, shell.c) and can always reboot.
CommandsTypable == CommandChars \subseteq Typable[current_layout]
=============================================================================

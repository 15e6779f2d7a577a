------------------------------ MODULE MCShell ------------------------------
(***************************************************************************)
(* A small shell: two letters and a space, command names of one and two    *)
(* letters, and a screen on which a line wraps and falls off the bottom.   *)
(***************************************************************************)
EXTENDS Shell

MCTyped == {"c", "d", Space, Newline, BackspaceKey}
MCName == [ clear |-> <<"c">>, echo |-> <<"d">>,
            reboot |-> <<"d", "c">>, ls |-> <<"c", "d">>,
            cat |-> <<"c", "c">>, layout |-> <<"d", "d">> ]
MCLayoutArgs == {<<"c">>}
MCTexts == { <<"o", Newline>>, <<"o", BackspaceKey, BackspaceKey, "o">> }
MCGlyphs == {"c", "d", "o", "K", ">", Space}
MCGarbage == {NUL, "d"}
=============================================================================

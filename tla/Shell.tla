------------------------------- MODULE Shell -------------------------------
(***************************************************************************)
(* kernel/shell.c and kernel/lib/input.c on the console of Screen: the     *)
(* main thread's loop of prompt, readline, split, dispatch and output.     *)
(*                                                                         *)
(* readline's buffer is one C array on the stack of kernel_shell: it       *)
(* starts with whatever the stack holds, is never cleared between lines,   *)
(* is ended by a NUL byte and is cut in place at the first space.  Output  *)
(* is printed one character a step (the loop of kprint), from "out", the   *)
(* text still to be printed.  What cat, ls, uptime, help, cd and layout    *)
(* print is any of Texts.  ls, cat and layout also talk to a device: ATA   *)
(* reads (Ata, Fat) and keyboard_init (KeyboardController) poll without a  *)
(* limit, so here they are a wait that may end and need not.               *)
(*                                                                         *)
(* The characters keyboard_get_char returns are any of Typed (Keyboard     *)
(* says how they come from the keys); a NUL return is not a step.          *)
(***************************************************************************)
EXTENDS Screen, Layouts

CONSTANTS
  Typed,    \* what the user can type: printable, Enter, Backspace
  MaxLen,   \* sizeof input: 128
  Name,     \* commands[]: the name of each command, as characters
  LayoutArgs, \* the names cmd_layout knows, as characters
  Texts,    \* what a command may print
  Garbage,  \* what the stack holds before the first line
  MaxKeys   \* bound: the keys typed in one behaviour

ASSUME MaxLenAssumption == MaxLen \in Nat \ {0} /\ MaxKeys \in Nat
ASSUME NamesDiffer == \A a, b \in DOMAIN Name : Name[a] = Name[b] => a = b
ASSUME TypedAssumption == NUL \notin Typed /\ Typed \subseteq Printed
ASSUME TextAssumption == Texts \subseteq Seq(Printed) /\ {">", "K"} \subseteq Glyphs

VARIABLES
  pc,      \* "print" then "read" then "parse"; "device" in a device's poll,
           \* "halt" after reboot
  after,   \* where printing leads: "read", "device" or "halt"
  out,     \* the text still to be printed
  input,   \* char input[MaxLen]
  i,       \* readline's i
  start,   \* history: the cursor when readline was entered
  ran,     \* history: the commands dispatched, [name, args]
  keys     \* the keys typed so far

vars == <<screen, pc, after, out, input, i, start, ran, keys>>

Prompt == <<">", " ">>
Index == 0..(MaxLen - 1)

-----------------------------------------------------------------------------
(* kprint: one step prints one character.                                  *)

Say(text, goal) == pc' = "print" /\ out' = text /\ after' = goal

\* Does not advance over a character that is off the screen.
KprintStepStuck ==
  /\ pc = "print" /\ out # <<>>
  /\ KprintChar(Head(out))
  /\ out' = IF cursor_y + 16 > Height THEN out ELSE Tail(out)
  /\ UNCHANGED <<pc, after, input, i, start, ran, keys>>

KprintStep ==
  /\ pc = "print" /\ out # <<>>
  /\ KprintChar(Head(out))
  /\ out' = Tail(out)
  /\ UNCHANGED <<pc, after, input, i, start, ran, keys>>

\* kprint returns; readline starts a line, ls goes on to read the disk, or
\* reboot stops the machine.
KprintDone ==
  /\ pc = "print" /\ out = <<>>
  /\ pc' = after
  /\ i' = 0
  /\ start' = <<cursor_x, cursor_y>>
  /\ UNCHANGED <<screen, after, out, input, ran, keys>>

-----------------------------------------------------------------------------
(* readline                                                                *)

Key(ch) == /\ pc = "read" /\ ch \in Typed
           /\ keys < MaxKeys /\ keys' = keys + 1
           /\ UNCHANGED <<after, out, start, ran>>

EnterUnterminated == /\ Key(Newline)
                     /\ KprintChar(Newline)
                     /\ pc' = "parse"
                     /\ UNCHANGED <<input, i>>

Enter == /\ Key(Newline)
         /\ KprintChar(Newline)
         /\ input' = [input EXCEPT ![i] = NUL]
         /\ pc' = "parse"
         /\ UNCHANGED i

EraseUnguarded == /\ Key(BackspaceKey)
                  /\ i' = IF i > 0 THEN i - 1 ELSE i
                  /\ input' = [input EXCEPT ![i'] = NUL]
                  /\ KprintChar(BackspaceKey)
                  /\ UNCHANGED pc

EraseUndisplayed == /\ Key(BackspaceKey) /\ i > 0
                    /\ i' = i - 1
                    /\ input' = [input EXCEPT ![i - 1] = NUL]
                    /\ UNCHANGED <<screen, pc>>

Erase == /\ Key(BackspaceKey)
         /\ \/ /\ i > 0
               /\ i' = i - 1
               /\ input' = [input EXCEPT ![i - 1] = NUL]
               /\ KprintChar(BackspaceKey)
            \/ i = 0 /\ UNCHANGED <<screen, input, i>>
         /\ UNCHANGED pc

InsertOffByOne(ch) == /\ ch \notin {Newline, BackspaceKey} /\ Key(ch)
                      /\ i < MaxLen
                      /\ input' = [input EXCEPT ![i] = ch]
                      /\ i' = i + 1
                      /\ KprintChar(ch)
                      /\ UNCHANGED pc

InsertUnechoed(ch) == /\ ch \notin {Newline, BackspaceKey} /\ Key(ch)
                      /\ i < MaxLen - 1
                      /\ input' = [input EXCEPT ![i] = ch]
                      /\ i' = i + 1
                      /\ IF RowFull THEN UNCHANGED screen ELSE KprintChar(ch)
                      /\ UNCHANGED pc

Insert(ch) == /\ ch \notin {Newline, BackspaceKey} /\ Key(ch)
              /\ \/ /\ i < MaxLen - 1
                    /\ input' = [input EXCEPT ![i] = ch]
                    /\ i' = i + 1
                    /\ KprintChar(ch)
                 \/ i >= MaxLen - 1 /\ UNCHANGED <<screen, input, i>>
              /\ UNCHANGED pc

Readline == Enter \/ Erase \/ \E ch \in Typed : Insert(ch)

-----------------------------------------------------------------------------
(* kernel_shell after readline: split, look up, run.                       *)

\* A C string: the bytes from position "from" up to the first NUL.
StringEnd(buf, from) == CHOOSE k \in from..MaxLen :
                          /\ k < MaxLen => buf[k] = NUL
                          /\ \A j \in from..(k - 1) : buf[j] # NUL
CString(buf, from) ==
  [k \in 1..(StringEnd(buf, from) - from) |-> buf[from + k - 1]]

\* Where the scan for a space stops: at most one position.
Cut(buf) == { k \in 0..(StringEnd(buf, 0) - 1) :
                buf[k] = Space /\ \A j \in 0..(k - 1) : buf[j] # Space }

Unknown(name) == <<"K">> \o name \o <<Newline>>

Runs(cmd, name) == cmd \in DOMAIN Name /\ name = Name[cmd]

\* The commands that poll a device, and what they print before they do.
Polls(name, args) == \/ Runs("ls", name)
                     \/ Runs("cat", name) /\ args # <<>>
                     \/ Runs("layout", name) /\ args \in LayoutArgs
Banner(name) == IF Runs("ls", name) THEN Texts ELSE {<<>>}

\* commands[i].func(args), or the message for an unknown name.
Dispatch(name, args) ==
  \/ /\ Runs("clear", name)
     /\ Clear
     /\ Say(Prompt, "read")
  \/ /\ Runs("echo", name)
     /\ Say(args \o <<Newline>> \o Prompt, "read")
     /\ UNCHANGED screen
  \/ /\ Runs("reboot", name)
     /\ \E text \in Texts : Say(text, "halt")
     /\ UNCHANGED screen
  \/ /\ Polls(name, args)
     /\ \E text \in Banner(name) : Say(text, "device")
     /\ UNCHANGED screen
  \/ /\ \E cmd \in DOMAIN Name \ {"clear", "echo", "reboot"} : Runs(cmd, name)
     /\ ~Polls(name, args)
     /\ \E text \in Texts : Say(text \o Prompt, "read")
     /\ UNCHANGED screen
  \/ /\ \A cmd \in DOMAIN Name : ~Runs(cmd, name)
     /\ Say(Unknown(name) \o Prompt, "read")
     /\ UNCHANGED screen

Parse ==
  /\ pc = "parse"
  /\ UNCHANGED <<i, start, keys>>
  /\ \/ /\ input[0] = NUL
        /\ Say(Prompt, "read")
        /\ UNCHANGED <<screen, input, ran>>
     \/ /\ input[0] # NUL
        /\ input' = [k \in Index |-> IF k \in Cut(input) THEN NUL ELSE input[k]]
        /\ LET name == CString(input', 0)
               args == IF Cut(input) = {} THEN <<>>
                       ELSE CString(input', Len(name) + 1)
           IN  /\ ran' = Append(ran, [name |-> name, args |-> args])
               /\ Dispatch(name, args)

\* The device answers; the command says what it has done.
DeviceDone ==
  /\ pc = "device"
  /\ \E text \in Texts : Say(text \o Prompt, "read")
  /\ UNCHANGED <<screen, input, i, start, ran, keys>>

\* reboot() never returns.
Halt == pc = "halt" /\ UNCHANGED vars

-----------------------------------------------------------------------------
Init == /\ ScreenInit
        /\ pc = "print" /\ after = "read"
        /\ out \in { text \o Prompt : text \in Texts }
        /\ input \in { [k \in Index |-> g] : g \in Garbage }
        /\ i = 0 /\ start = <<0, 0>> /\ ran = <<>> /\ keys = 0

Next == KprintStep \/ KprintDone \/ Readline \/ Parse \/ DeviceDone \/ Halt

Spec == Init /\ [][Next]_vars

\* The main thread runs whenever no interrupt does.  The user may stop, and
\* nothing obliges a device to answer.
FairSpec == Spec /\ WF_vars(KprintStep \/ KprintDone \/ Parse)

-----------------------------------------------------------------------------
TypeOK ==
  /\ ScreenTypeOK
  /\ pc \in {"print", "read", "parse", "device", "halt"}
  /\ after \in {"read", "device", "halt"}
  /\ out \in Seq(Printed)
  /\ input \in [Index -> Typed \cup Garbage \cup {NUL}]
  /\ i \in Index
  /\ start \in (0..Cols) \X Nat
  /\ ran \in Seq([name : Seq(Typed), args : Seq(Typed)])
  /\ keys \in 0..MaxKeys

\* What a line is made of, and how readline holds it: i characters, none of
\* them NUL, then the terminator once the line is complete.
Letters == Typed \ {Newline, BackspaceKey}
LineHeld ==
  /\ pc \in {"read", "parse"} => \A k \in 0..(i - 1) : input[k] \in Letters
  /\ pc = "parse" => input[i] = NUL

\* The line the user has on the bench.
Line == IF pc \in {"read", "parse"} THEN [k \in 1..i |-> input[k - 1]] ELSE <<>>

\* What runs is the line as edited and nothing else: bytes of an earlier,
\* longer line, of the stack or of an erased character never reach a command,
\* although the array is reused, ended by hand and cut in place.
Editor == INSTANCE CommandLine
            WITH line <- Line, Limit <- MaxLen - 1,
                 Printable <- Letters, Separator <- Space
ImplementsCommandLine == Editor!Spec

\* No sequence of backspaces eats the prompt or what is before it: the
\* cursor stays at or after the place where readline started.
PromptIntact ==
  pc = "read" =>
    /\ cursor_y > start[2] \/ (cursor_y = start[2] /\ cursor_x >= start[1])
    /\ start[2] \in Rows /\ start[1] >= 2 => cell[<<start[1] - 2, start[2]>>] = ">"

\* While the line fits the row it started in, what is on the screen after
\* the prompt is what is in the buffer, and the cursor is at its end.
EchoExact ==
  pc = "read" /\ cursor_y = start[2] /\ start[2] \in Rows =>
    /\ cursor_x = start[1] + i
    /\ \A k \in 0..(i - 1) : cell[<<start[1] + k, start[2]>>] = Look(input[k])

\* The k-th cell after the prompt in reading order, and how many there are
\* before the cursor.
Spot(k) == <<(start[1] + k - 1) % Cols,
             start[2] + 16 * ((start[1] + k - 1) \div Cols)>>
Reach == ((cursor_y - start[2]) \div 16) * Cols + cursor_x - start[1]

\* When the line has wrapped, backspace cannot go back up to the row above,
\* so the screen may show characters that are erased.  It never hides one
\* that will run: the buffer is a subsequence of what is shown.
BufferShown ==
  pc = "read" /\ cursor_y \in Rows =>
    \E at \in [0..(i - 1) -> 1..Reach] :
      /\ \A j, k \in 0..(i - 1) : j < k => at[j] < at[k]
      /\ \A k \in 0..(i - 1) : cell[Spot(at[k])] = Look(input[k])

\* Whatever was typed, the shell comes back to its prompt or stops because it
\* was told to, unless it waits for ever for a device: no line, no output and
\* no place on the screen keeps it, and no command but ls, cat and layout
\* can.  (That layout may wait for ever is a run of KeyboardController; that
\* a read ends unless the drive fails is a property of Ata.)
AtPrompt == pc \in {"read", "halt"}
Waits(run) == Polls(run.name, run.args)
PromptReturns ==
  []<>AtPrompt \/ <>[](pc = "device" /\ Waits(ran[Len(ran)]))
=============================================================================

------------------------------ MODULE Layouts ------------------------------
(***************************************************************************)
(* The two scancode tables of kernel/drivers/keyboard.c and the pure part  *)
(* of its decoding: apply_shift and apply_layout.                          *)
(*                                                                         *)
(* A char is a string: itself if printable, "grave", "BS", "ESC" and       *)
(* "x87" for a code-page byte above 0x7F; NUL is the byte 0.  A table is   *)
(* the array's non-zero prefix: the C arrays have 128 entries and the rest *)
(* are zero.                                                               *)
(***************************************************************************)
EXTENDS Naturals, Sequences

NUL == ""

EN_US == "en_us"
FR_CA == "fr_ca"
LayoutNames == {EN_US, FR_CA}

\* char en_us[128], indexed by scancode + 1.
EnUsTable ==
  << NUL, "ESC", "1","2","3","4","5","6","7","8","9","0","-","=", "BS",
     "\t","q","w","e","r","t","y","u","i","o","p","[","]","\n",
     NUL,"a","s","d","f","g","h","j","k","l",";","'","grave",NUL,
     "\\","z","x","c","v","b","n","m",",",".","/",NUL,"*","0"," ",NUL >>

\* char fr_ca[128], indexed by scancode + 1.
FrCaTable ==
  << NUL, "ESC", "1","2","3","4","5","6","7","8","9","0","-","=", "BS",
     "\t","q","w","e","r","t","y","u","i","o","p","^","x87","\n",
     NUL,"a","s","d","f","g","h","j","k","l",";","x8A","x85",NUL,
     "x97","z","x","c","v","b","n","m",",",".","x82",NUL,"*",NUL," ",NUL >>

LowerCase == << "a","b","c","d","e","f","g","h","i","j","k","l","m",
                "n","o","p","q","r","s","t","u","v","w","x","y","z" >>
UpperCase == << "A","B","C","D","E","F","G","H","I","J","K","L","M",
                "N","O","P","Q","R","S","T","U","V","W","X","Y","Z" >>

\* The rows of apply_shift's two switches: unshifted char, shifted char.
EnUsShift ==
  { <<"1","!">>, <<"2","@">>, <<"3","#">>, <<"4","$">>, <<"5","%">>,
    <<"6","^">>, <<"7","&">>, <<"8","*">>, <<"9","(">>, <<"0",")">>,
    <<"-","_">>, <<"=","+">>, <<"[","{">>, <<"]","}">>, <<";",":">>,
    <<"'","\"">>, <<"grave","~">>, <<"\\","|">>, <<",","<">>, <<".",">">>,
    <<"/","?">> }

FrCaShiftNoUnderscore ==
  { <<"1","!">>, <<"2","\"">>, <<"3","/">>, <<"-","-">>, <<"=","+">> }

FrCaShift ==
  { <<"1","!">>, <<"2","\"">>, <<"3","/">>, <<"4","$">>, <<"5","%">>,
    <<"6","?">>, <<"7","&">>, <<"8","*">>, <<"9","(">>, <<"0",")">>,
    <<"-","_">>, <<"=","+">>, <<"x85","xB7">>, <<"x8A","xD4">>,
    <<"x82","x90">>, <<"x87","x80">>, <<"x97","xD6">>, <<"^","xA8">>,
    <<";",":">>, <<",","<">>, <<".",">">>, <<"'","\"">> }

LetterShift == { <<LowerCase[k], UpperCase[k]>> : k \in 1..26 }

ShiftRows(layout) ==
  LetterShift \cup (IF layout = EN_US THEN EnUsShift ELSE FrCaShift)

\* apply_shift: a char with no row in the switch is returned as it is.
ApplyShift(layout, ch) ==
  IF \E row \in ShiftRows(layout) : row[1] = ch
  THEN (CHOOSE row \in ShiftRows(layout) : row[1] = ch)[2]
  ELSE ch

\* current_layout[scancode], for a scancode below 0x80.
TableChar(layout, scancode) ==
  LET table == IF layout = EN_US THEN EnUsTable ELSE FrCaTable
  IN  IF scancode < Len(table) THEN table[scancode + 1] ELSE NUL

\* A decoder that forgets the shift key.
ApplyLayoutUnshifted(layout, shift, scancode) == TableChar(layout, scancode)

\* apply_layout
ApplyLayout(layout, shift, scancode) ==
  IF shift THEN ApplyShift(layout, TableChar(layout, scancode))
           ELSE TableChar(layout, scancode)

\* Every value last_interrupt_char can take.
Char == {NUL} \cup { ApplyLayout(l, s, b) :
                       l \in LayoutNames, s \in BOOLEAN, b \in 0..127 }
=============================================================================

------------------------------ MODULE Strings ------------------------------
(***************************************************************************)
(* Numbers as text: uint_to_string of kernel/lib/string.c and utoa_hex of  *)
(* kernel/drivers/screen.c.  A text is a sequence of one-character strings.*)
(* uint_to_string fills its buffer of 32 from the end and stops when it is *)
(* full, which a number of 64 bits, of at most 20 digits, never makes it.  *)
(***************************************************************************)
EXTENDS Integers, Sequences

hex_digits == <<"0", "1", "2", "3", "4", "5", "6", "7", "8", "9",
                "A", "B", "C", "D", "E", "F">>

\* The last digit first: the digits of n \div 10, then that of n % 10.
uint_to_string(n) ==
  LET f[k \in 0..n] == IF k = 0 THEN <<>>
                       ELSE Append(f[k \div 10], hex_digits[(k % 10) + 1])
  IN  IF n = 0 THEN <<"0">> ELSE f[n]

\* What utoa_hex has left of n, which it writes from its last digit on, when k
\* digits are written.
shifted(n, digits) ==
  LET left[k \in 0..digits] == IF k = 0 THEN n ELSE left[k - 1] \div 16
  IN  left

\* "0x" and as many digits as the width of n has (16).
utoa_hex(n, digits) ==
  <<"0", "x">> \o [ i \in 1..digits |->
                     hex_digits[(shifted(n, digits)[digits - i] % 16) + 1] ]
=============================================================================

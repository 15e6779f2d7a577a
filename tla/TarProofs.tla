------------------------------ MODULE TarProofs ------------------------------
(***************************************************************************)
(* Proofs about Tar, for every archive of files with names and sizes that  *)
(* fit their fields, every size of a block and of a field and every limit: *)
(* the walk stays on headers, and finds the first file of the name.        *)
(***************************************************************************)
EXTENDS Tar, SequenceTheorems, WellFoundedInduction, TLAPS

-----------------------------------------------------------------------------
(* Induction and recursion over the numbers up to a bound.                 *)

\* A set of natural numbers that is not empty has a least element.
LEMMA Least ==
  ASSUME NEW T, T \subseteq Nat, T # {}
  PROVE  \E x \in T : \A y \in T : x <= y
<1> DEFINE R == OpToRel(<, Nat)
<1>1. IsWellFoundedOn(R, Nat)
  BY NatLessThanWellFounded
<1>2. PICK x \in T : \A y \in T : ~(<<y, x>> \in R)
  <2> HIDE DEF R
  <2> QED  BY <1>1, WFMin
<1>3. \A y \in T : ~(y < x)
  BY <1>2 DEF OpToRel
<1>4. QED  BY <1>3

\* A set that holds m and, with each number below N, the next one, holds all
\* numbers from m to N.
LEMMA Upwards ==
  ASSUME NEW m \in Nat, NEW N \in Nat, NEW S, m \in S,
         \A n \in (m + 1)..N : n - 1 \in S => n \in S
  PROVE  \A n \in m..N : n \in S
<1> DEFINE T == { n \in m..N : n \notin S }
<1>1. ASSUME T # {} PROVE FALSE
  <2>1. PICK x \in T : \A y \in T : x <= y
    <3>1. T \subseteq Nat
      OBVIOUS
    <3> HIDE DEF T
    <3>2. QED  BY <1>1, <3>1, Least
  <2>2. x \in m..N /\ x # m
    BY <2>1
  <2>3. x - 1 \in S
    BY <2>1, <2>2
  <2>4. QED  BY <2>1, <2>2, <2>3
<1>2. QED  BY <1>1

\* f is defined by recursion on the numbers up to N: step gives its value at
\* n from the value at n - 1.
Recursive(f, N, V, a, step) ==
  /\ f \in [0..N -> V]
  /\ f[0] = a
  /\ \A n \in 1..N : f[n] = step[n][f[n - 1]]

LEMMA Recursion ==
  ASSUME NEW N \in Nat, NEW V, NEW a \in V, NEW step, step \in [1..N -> [V -> V]]
  PROVE  \E f : Recursive(f, N, V, a, step)
<1> DEFINE Good(f, m) == /\ f[0] = a
                         /\ \A n \in 1..m : f[n] = step[n][f[n - 1]]
           S == { m \in 0..N : \E f \in [0..m -> V] : Good(f, m) }
<1>1. 0 \in S
  <2> DEFINE f == [n \in 0..0 |-> a]
  <2>1. f \in [0..0 -> V] /\ f[0] = a
    OBVIOUS
  <2>2. \A n \in 1..0 : FALSE
    OBVIOUS
  <2> HIDE DEF f
  <2>3. Good(f, 0)
    BY <2>1, <2>2
  <2> HIDE DEF Good
  <2>4. QED  BY <2>1, <2>3
<1>2. ASSUME NEW m \in 1..N, m - 1 \in S
      PROVE  m \in S
  <2>1. PICK f \in [0..(m - 1) -> V] : Good(f, m - 1)
    BY <1>2
  <2> DEFINE g == [n \in 0..m |-> IF n = m THEN step[m][f[m - 1]] ELSE f[n]]
  <2>2. m - 1 \in 0..(m - 1) /\ f[m - 1] \in V /\ m \in 1..N
    BY <1>2
  <2>3. step[m][f[m - 1]] \in V
    BY <2>2
  <2>4. g \in [0..m -> V]
    BY <1>2, <2>3
  <2>5. Good(g, m)
    <3>1. g[0] = a
      BY <1>2, <2>1
    <3>2. ASSUME NEW n \in 1..m PROVE g[n] = step[n][g[n - 1]]
      <4>1. g[n - 1] = f[n - 1]
        BY <1>2
      <4>2. CASE n = m
        <5>1. g[n] = step[n][f[n - 1]]
          BY <1>2, <4>2
        <5> HIDE DEF g
        <5>2. QED  BY <4>1, <5>1
      <4>3. CASE n # m
        <5>1. n \in 1..(m - 1) /\ g[n] = f[n]
          BY <1>2, <4>3
        <5>2. f[n] = step[n][f[n - 1]]
          BY <2>1, <5>1
        <5> HIDE DEF g
        <5>3. QED  BY <4>1, <5>1, <5>2
      <4>4. QED  BY <4>2, <4>3
    <3>3. QED  BY <3>1, <3>2
  <2> HIDE DEF g, Good
  <2>6. QED  BY <1>2, <2>4, <2>5
<1>3. N \in S
  <2>1. \A n \in 0..N : n \in S
    <3> HIDE DEF S
    <3>1. \A n \in 1..N : n - 1 \in S => n \in S
      BY <1>2
    <3>2. (0 + 1)..N = 1..N
      OBVIOUS
    <3>3. QED  BY <1>1, <3>1, <3>2, Upwards
  <2> HIDE DEF S
  <2>2. QED  BY <2>1
<1>4. QED  BY <1>3 DEF Recursive

-----------------------------------------------------------------------------
(* The field for a size.                                                   *)

LEMMA Sizes == Block \in Nat \ {0} /\ Digits \in Nat /\ Limit \in Nat
BY SizeAssumption

LEMMA Octals ==
  ASSUME NEW x \in Nat
  PROVE  x \div 8 \in Nat /\ x % 8 \in 0..7 /\ (x \div 8) * 8 + (x % 8) = x
OBVIOUS

\* What is left of the size after n digits have been written.
LEMMA LeftIs ==
  ASSUME NEW size \in Nat
  PROVE  /\ Left(size)[0] = size
         /\ \A n \in 1..Digits : Left(size)[n] = Left(size)[n - 1] \div 8
         /\ \A n \in 0..Digits : Left(size)[n] \in Nat
<1> DEFINE D == Digits
           Step(e) == [n \in 0..D |-> IF n = 0 THEN size ELSE e[n - 1] \div 8]
           left == CHOOSE e : e = Step(e)
           step == [n \in 1..D |-> [x \in Nat |-> x \div 8]]
<1>1. D \in Nat
  BY Sizes
<1>2. step \in [1..D -> [Nat -> Nat]]
  BY Octals
<1> HIDE DEF D
<1>3. \E f \in [0..D -> Nat] : f = Step(f)
  <2>1. PICK f : Recursive(f, D, Nat, size, step)
    <3> HIDE DEF step
    <3>1. QED  BY <1>1, <1>2, Recursion
  <2>2. ASSUME NEW n \in 1..D PROVE f[n] = f[n - 1] \div 8
    <3>1. f[n - 1] \in Nat
      BY <1>1, <2>1 DEF Recursive
    <3>2. QED  BY <2>1, <3>1 DEF Recursive
  <2>3. f \in [0..D -> Nat] /\ f[0] = size
    BY <2>1 DEF Recursive
  <2>4. \A n \in 0..D : f[n] = Step(f)[n]
    BY <1>1, <2>2, <2>3
  <2>5. QED  BY <2>3, <2>4
<1>4. left = Step(left)
  <2>1. \E f : f = Step(f)
    BY <1>3
  <2>2. QED  BY <2>1
<1>5. Left(size) = left
  BY DEF Left, D
<1> HIDE DEF left
<1>6. left[0] = size /\ \A n \in 1..D : left[n] = left[n - 1] \div 8
  BY <1>1, <1>4
<1>7. \A n \in 0..D : left[n] \in Nat
  <2> DEFINE S == { n \in 0..D : left[n] \in Nat }
  <2>1. 0 \in S
    BY <1>1, <1>6
  <2>2. ASSUME NEW n \in (0 + 1)..D, n - 1 \in S PROVE n \in S
    <3>1. n \in 1..D /\ left[n - 1] \in Nat
      BY <2>2
    <3>2. left[n - 1] \div 8 \in Nat
      BY <3>1, Octals
    <3>3. QED  BY <1>6, <3>1, <3>2
  <2> HIDE DEF S
  <2>3. \A n \in 0..D : n \in S
    BY <1>1, <2>1, <2>2, Upwards
  <2>4. QED  BY <2>3 DEF S
<1>8. QED  BY <1>5, <1>6, <1>7 DEF D

\* The field, digit by digit.
LEMMA OctalIs ==
  ASSUME NEW size \in Nat, NEW in, in = Octal(size)
  PROVE  /\ in \in Seq(Nat) /\ Len(in) = Digits + 1
         /\ \A k \in 1..Digits : in[k] = Left(size)[Digits - k] % 8 /\ in[k] \in 0..7
         /\ in[Digits + 1] = 8
<1>1. Digits \in Nat
  BY Sizes
<1>2. PICK d : d = [k \in 1..Digits |-> Left(size)[Digits - k] % 8]
  OBVIOUS
<1>3. ASSUME NEW k \in 1..Digits
      PROVE  d[k] = Left(size)[Digits - k] % 8 /\ d[k] \in 0..7
  <2>1. Left(size)[Digits - k] \in Nat
    BY <1>1, LeftIs
  <2>2. QED  BY <1>2, <2>1, Octals
<1>4. d \in Seq(Nat) /\ Len(d) = Digits
  <2>1. d \in [1..Digits -> Nat]
    BY <1>2, <1>3
  <2>2. QED  BY <1>1, <2>1
<1>5. in = Append(d, 8)
  BY <1>2 DEF Octal, End
<1>6. in \in Seq(Nat) /\ Len(in) = Digits + 1 /\ in[Digits + 1] = 8
  BY <1>1, <1>4, <1>5
<1>7. \A k \in 1..Digits : in[k] = d[k]
  BY <1>1, <1>4, <1>5
<1>8. QED  BY <1>3, <1>6, <1>7

-----------------------------------------------------------------------------
(* Rounding up.                                                            *)

LEMMA RoundedUp ==
  ASSUME NEW x \in Nat, NEW a \in Nat \ {0}
  PROVE  /\ (x + a - 1) \div a \in Nat
         /\ ((x + a - 1) \div a) * a >= x
         /\ ((x + a - 1) \div a) * a < x + a
OBVIOUS

LEMMA Times ==
  ASSUME NEW a \in Nat \ {0}, NEW m \in Nat, NEW n \in Nat
  PROVE  /\ m * a \in Nat /\ m * a >= m /\ (m + 1) * a = m * a + a
         /\ m <= n => m * a <= n * a
         /\ m < n => (m + 1) * a <= n * a
         /\ (m - 1) * a = m * a - a
OBVIOUS

\* octal_to_int reads the size that was written.
LEMMA OctalRead ==
  ASSUME NEW size \in Nat, Left(size)[Digits] = 0
  PROVE  octal_to_int(Octal(size)) = size
<1> DEFINE D == Digits
           L == D + 1
<1>1. D \in Nat /\ L \in Nat
  BY Sizes
<1>2. PICK in : in = Octal(size)
  OBVIOUS
<1>3. /\ in \in Seq(Nat) /\ Len(in) = L
      /\ \A k \in 1..D : in[k] = Left(size)[D - k] % 8 /\ in[k] \in 0..7
      /\ in[L] = 8
  BY <1>2, OctalIs
<1> DEFINE Step(e) == [n \in 0..L |-> IF n = 0 THEN 0 ELSE e[n - 1] * 8 + in[n]]
           value == CHOOSE e : e = Step(e)
           step == [n \in 1..L |-> [x \in Nat |-> x * 8 + in[n]]]
<1> HIDE DEF D, L
<1>4. L = D + 1
  BY DEF L
<1>5. \A n \in 1..L : in[n] \in Nat
  BY <1>1, <1>3
<1>6. step \in [1..L -> [Nat -> Nat]]
  BY <1>5
<1>7. \E f : f = Step(f)
  <2>1. PICK f : Recursive(f, L, Nat, 0, step)
    <3> HIDE DEF step
    <3>1. 0 \in Nat
      OBVIOUS
    <3>2. QED  BY <1>1, <1>6, <3>1, Recursion
  <2>2. ASSUME NEW n \in 1..L PROVE f[n] = f[n - 1] * 8 + in[n]
    <3>1. f[n - 1] \in Nat
      BY <1>1, <2>1 DEF Recursive
    <3>2. QED  BY <2>1, <3>1 DEF Recursive
  <2>3. f \in [0..L -> Nat] /\ f[0] = 0
    BY <2>1 DEF Recursive
  <2>4. \A n \in 0..L : f[n] = Step(f)[n]
    BY <1>1, <2>2, <2>3
  <2>5. f = Step(f)
    BY <2>3, <2>4
  <2> HIDE DEF Step
  <2>6. QED  BY <2>5
<1>8. value = Step(value)
  BY <1>7
<1>9. octal_to_int(in) = value[Leading(in)]
  BY <1>3 DEF octal_to_int
<1> HIDE DEF value
<1>10. value[0] = 0 /\ \A n \in 1..L : value[n] = value[n - 1] * 8 + in[n]
  BY <1>1, <1>8
<1>11. Leading(in) = D
  <2> DEFINE P(n) == /\ \A k \in 1..n : in[k] \in 0..7
                     /\ n < Len(in) => in[n + 1] \notin 0..7
  <2>1. D \in 0..Len(in) /\ P(D)
    BY <1>1, <1>3, <1>4
  <2>2. ASSUME NEW n \in 0..Len(in), P(n) PROVE n = D
    <3>1. ~(n < D)
      <4>1. n < D => n + 1 \in 1..D /\ n < Len(in)
        BY <1>1, <1>3, <1>4
      <4>2. QED  BY <1>3, <2>2, <4>1
    <3>2. ~(D < n)
      <4>1. D < n => D + 1 \in 1..n
        BY <1>1
      <4>2. in[D + 1] \notin 0..7
        BY <1>3, <1>4
      <4>3. QED  BY <2>2, <4>1, <4>2
    <3>3. QED  BY <1>1, <1>3, <3>1, <3>2
  <2>3. Leading(in) = CHOOSE n \in 0..Len(in) : P(n)
    BY DEF Leading
  <2> HIDE DEF P
  <2>4. QED  BY <2>1, <2>2, <2>3
<1>12. \A n \in 0..D : value[n] = Left(size)[D - n]
  <2> DEFINE S == { n \in 0..D : value[n] = Left(size)[D - n] }
  <2>1. 0 \in S
    BY <1>1, <1>10 DEF D
  <2>2. ASSUME NEW n \in (0 + 1)..D, n - 1 \in S PROVE n \in S
    <3>1. n \in 1..D /\ n \in 1..L /\ D - n \in Nat
      BY <1>1, <1>4
    <3>2. PICK m : m = D - n
      OBVIOUS
    <3>3. D - (n - 1) = m + 1 /\ m + 1 \in 1..D /\ m \in 0..D
      BY <1>1, <3>1, <3>2
    <3>4. value[n - 1] = Left(size)[m + 1]
      BY <2>2, <3>3
    <3>5. Left(size)[m + 1] = Left(size)[m] \div 8 /\ Left(size)[m] \in Nat
      <4>1. \A k \in 1..D : Left(size)[k] = Left(size)[k - 1] \div 8
        BY LeftIs DEF D
      <4>2. m + 1 - 1 = m
        BY <3>3
      <4>3. Left(size)[m] \in Nat
        BY <3>3, LeftIs DEF D
      <4>4. QED  BY <3>3, <4>1, <4>2, <4>3
    <3>6. PICK x : x = Left(size)[m]
      OBVIOUS
    <3>7. in[n] = x % 8 /\ value[n] = value[n - 1] * 8 + in[n]
      BY <1>3, <1>10, <3>1, <3>2, <3>6
    <3>8. value[n] = (x \div 8) * 8 + (x % 8)
      BY <3>4, <3>5, <3>6, <3>7
    <3>9. value[n] = x
      BY <3>5, <3>6, <3>8, Octals
    <3>10. QED  BY <1>1, <3>1, <3>2, <3>6, <3>9
  <2> HIDE DEF S
  <2>3. \A n \in 0..D : n \in S
    BY <1>1, <2>1, <2>2, Upwards
  <2>4. QED  BY <2>3 DEF S
<1>13. value[D] = size
  <2>1. D \in 0..D /\ D - D = 0
    BY <1>1
  <2>2. QED  BY <1>12, <2>1, LeftIs
<1>14. QED  BY <1>2, <1>9, <1>11, <1>13

-----------------------------------------------------------------------------
(* The archive.                                                            *)

\* The blocks a size takes are those tar_get_file computes.
LEMMA BlocksAre ==
  ASSUME NEW size \in Nat
  PROVE  /\ Blocks(size) = (size + Block - 1) \div Block
         /\ Blocks(size) \in Nat
<1> DEFINE m == (size + Block - 1) \div Block
           P(n) == n * Block >= size /\ (n - 1) * Block < size
<1>1. Block \in Nat \ {0}
  BY Sizes
<1>2. m \in Nat /\ m * Block >= size /\ m * Block < size + Block
  BY <1>1, RoundedUp
<1> HIDE DEF m
<1>3. m \in 0..size
  <2>1. ASSUME m > size PROVE FALSE
    <3>1. (size + 1) * Block <= m * Block
      BY <1>1, <1>2, <2>1, Times
    <3>2. (size + 1) * Block = size * Block + Block /\ size * Block >= size
      BY <1>1, Times
    <3>3. size * Block \in Nat /\ m * Block \in Nat
      BY <1>1, <1>2, Times
    <3>4. QED  BY <1>1, <1>2, <3>1, <3>2, <3>3
  <2>2. QED  BY <1>2, <2>1
<1>4. P(m)
  <2>1. (m - 1) * Block = m * Block - Block /\ m * Block \in Nat
    BY <1>1, <1>2, Times
  <2>2. QED  BY <1>1, <1>2, <2>1
<1>5. ASSUME NEW k \in 0..size, P(k) PROVE k = m
  <2>1. (k - 1) * Block = k * Block - Block /\ k * Block \in Nat /\ m * Block \in Nat
    BY <1>1, <1>2, Times
  <2>2. k * Block < size + Block /\ k * Block >= size
    BY <1>1, <1>5, <2>1
  <2>3. ~(k < m)
    <3>1. k < m => (k + 1) * Block <= m * Block
      BY <1>1, <1>2, Times
    <3>2. (k + 1) * Block = k * Block + Block
      BY <1>1, Times
    <3>3. QED  BY <1>1, <1>2, <2>1, <2>2, <3>1, <3>2
  <2>4. ~(m < k)
    <3>1. m < k => (m + 1) * Block <= k * Block
      BY <1>1, <1>2, Times
    <3>2. (m + 1) * Block = m * Block + Block
      BY <1>1, <1>2, Times
    <3>3. QED  BY <1>1, <1>2, <2>1, <2>2, <3>1, <3>2
  <2>5. QED  BY <1>2, <2>3, <2>4
<1>6. Blocks(size) = CHOOSE n \in 0..size : P(n)
  BY DEF Blocks
<1> HIDE DEF P
<1>7. Blocks(size) = m
  BY <1>3, <1>4, <1>5, <1>6
<1>8. QED  BY <1>2, <1>7 DEF m

\* What may be in a block of an archive.
Contents(fs) == { Header(file.name, file.size) : file \in Range(fs) }
                \cup { file.looks : file \in Range(fs) } \cup {Zeros}

\* What ArchiveAssumption says of an archive, file by file.
LEMMA FilesAre ==
  ASSUME NEW fs \in Archives
  PROVE  /\ Len(fs) \in Nat /\ DOMAIN fs = 1..Len(fs)
         /\ \A k \in 1..Len(fs) :
              /\ fs[k] \in Range(fs)
              /\ fs[k].name # <<>> /\ fs[k].size \in Nat
              /\ Left(fs[k].size)[Digits] = 0
<1>1. fs \in Seq(Range(fs))
  BY ArchiveAssumption
<1>2. Len(fs) \in Nat /\ DOMAIN fs = 1..Len(fs) /\ \A k \in 1..Len(fs) : fs[k] \in Range(fs)
  <2> PICK R : R = Range(fs)
    OBVIOUS
  <2>1. fs \in Seq(R)
    BY <1>1
  <2>2. QED  BY <2>1
<1>3. QED  BY <1>2, ArchiveAssumption

\* A file takes its header and its blocks.
LEMMA StoredIs ==
  ASSUME NEW fs \in Archives, NEW k \in 1..Len(fs), NEW s, s = Stored(fs[k])
  PROVE  /\ s \in Seq(Contents(fs))
         /\ Len(s) = 1 + Blocks(fs[k].size)
         /\ s[1] = Header(fs[k].name, fs[k].size)
<1>1. fs[k] \in Range(fs) /\ fs[k].size \in Nat
  BY FilesAre
<1>2. PICK n \in Nat : n = Blocks(fs[k].size)
  BY <1>1, BlocksAre
<1>3. PICK h : h = Header(fs[k].name, fs[k].size)
  OBVIOUS
<1>4. PICK l : l = fs[k].looks
  OBVIOUS
<1>5. PICK T : T = Contents(fs)
  OBVIOUS
<1>6. h \in T /\ l \in T
  BY <1>1, <1>3, <1>4, <1>5 DEF Contents
<1>7. s = <<h>> \o [i \in 1..n |-> l]
  BY <1>2, <1>3, <1>4 DEF Stored
<1>8. [i \in 1..n |-> l] \in Seq(T) /\ Len([i \in 1..n |-> l]) = n
  BY <1>2, <1>6
<1>9. <<h>> \in Seq(T) /\ Len(<<h>>) = 1 /\ <<h>>[1] = h
  BY <1>6
<1>10. s \in Seq(T) /\ Len(s) = 1 + n /\ s[1] = h
  <2> PICK d : d = [i \in 1..n |-> l]
    OBVIOUS
  <2> PICK e : e = <<h>>
    OBVIOUS
  <2>1. s = e \o d /\ d \in Seq(T) /\ Len(d) = n /\ e \in Seq(T) /\ Len(e) = 1 /\ e[1] = h
    BY <1>7, <1>8, <1>9
  <2>2. s \in Seq(T) /\ Len(s) = 1 + n
    BY <1>2, <2>1
  <2>3. s[1] = e[1]
    BY <1>2, <2>1
  <2>4. QED  BY <2>1, <2>2, <2>3
<1>11. QED  BY <1>2, <1>3, <1>5, <1>10

\* The first n files are the first n - 1, then the n-th.
LaidOut(fs) ==
  /\ Laid(fs, 0) = <<>>
  /\ \A n \in 0..Len(fs) : Laid(fs, n) \in Seq(Contents(fs))
  /\ \A n \in 1..Len(fs) : Laid(fs, n) = Laid(fs, n - 1) \o Stored(fs[n])

LEMMA LaidIs ==
  ASSUME NEW fs \in Archives
  PROVE  LaidOut(fs)
<1> DEFINE N == Len(fs)
           T == Contents(fs)
           Step(e) == [k \in 0..N |-> IF k = 0 THEN <<>> ELSE e[k - 1] \o Stored(fs[k])]
           upto == CHOOSE e : e = Step(e)
           step == [n \in 1..N |-> [s \in Seq(T) |-> s \o Stored(fs[n])]]
<1>1. N \in Nat
  BY FilesAre
<1>2. \A n \in 1..N : Stored(fs[n]) \in Seq(T)
  BY StoredIs
<1> HIDE DEF N, T
<1>3. step \in [1..N -> [Seq(T) -> Seq(T)]]
  BY <1>2
<1>4. \E f \in [0..N -> Seq(T)] : f = Step(f)
  <2>1. PICK f : Recursive(f, N, Seq(T), <<>>, step)
    <3> HIDE DEF step
    <3>1. <<>> \in Seq(T)
      OBVIOUS
    <3>2. QED  BY <1>1, <1>3, <3>1, Recursion
  <2>2. ASSUME NEW n \in 1..N PROVE f[n] = f[n - 1] \o Stored(fs[n])
    <3>1. f[n - 1] \in Seq(T)
      BY <1>1, <2>1 DEF Recursive
    <3>2. f[n] = step[n][f[n - 1]]
      BY <2>1 DEF Recursive
    <3>3. QED  BY <3>1, <3>2
  <2>3. f \in [0..N -> Seq(T)] /\ f[0] = <<>>
    BY <2>1 DEF Recursive
  <2>4. ASSUME NEW n \in 0..N PROVE f[n] = Step(f)[n]
    <3>1. CASE n = 0
      BY <2>3, <3>1
    <3>2. CASE n # 0
      <4>1. n \in 1..N
        BY <1>1, <3>2
      <4>2. Step(f)[n] = f[n - 1] \o Stored(fs[n])
        BY <3>2
      <4> HIDE DEF Step
      <4>3. QED  BY <2>2, <4>1, <4>2
    <3>3. QED  BY <3>1, <3>2
  <2>5. f = Step(f)
    BY <2>3, <2>4
  <2> HIDE DEF Step
  <2>6. QED  BY <2>3, <2>5
<1>5. upto = Step(upto)
  <2>1. \E f : f = Step(f)
    BY <1>4
  <2> HIDE DEF Step
  <2>2. QED  BY <2>1
<1>6. \A n : Laid(fs, n) = upto[n]
  BY DEF Laid, N
<1> HIDE DEF upto
<1>7. upto[0] = <<>> /\ \A n \in 1..N : upto[n] = upto[n - 1] \o Stored(fs[n])
  BY <1>1, <1>5
<1>8. \A n \in 0..N : upto[n] \in Seq(T)
  <2> DEFINE S == { n \in 0..N : upto[n] \in Seq(T) }
  <2>1. 0 \in S
    <3>1. <<>> \in Seq(T)
      OBVIOUS
    <3>2. 0 \in 0..N /\ upto[0] \in Seq(T)
      BY <1>1, <1>7, <3>1
    <3>3. QED  BY <3>2
  <2>2. ASSUME NEW n \in (0 + 1)..N, n - 1 \in S PROVE n \in S
    <3>1. n \in 1..N /\ upto[n - 1] \in Seq(T)
      BY <2>2
    <3>2. upto[n - 1] \o Stored(fs[n]) \in Seq(T)
      BY <1>2, <3>1
    <3>3. upto[n] \in Seq(T)
      BY <1>7, <3>1, <3>2
    <3>4. n \in 0..N
      BY <1>1
    <3>5. QED  BY <3>3, <3>4
  <2> HIDE DEF S
  <2>3. \A n \in 0..N : n \in S
    BY <1>1, <2>1, <2>2, Upwards
  <2>4. QED  BY <2>3 DEF S
<1>9. QED  BY <1>6, <1>7, <1>8 DEF LaidOut, N, T

\* What the first n files take stays in place when more follow.
LEMMA Stays ==
  ASSUME NEW fs \in Archives, NEW n \in 0..Len(fs)
  PROVE  \A m \in n..Len(fs) :
           /\ Len(Laid(fs, n)) <= Len(Laid(fs, m))
           /\ \A i \in 1..Len(Laid(fs, n)) : Laid(fs, m)[i] = Laid(fs, n)[i]
<1> PICK N : N = Len(fs)
  OBVIOUS
<1> PICK T : T = Contents(fs)
  OBVIOUS
<1> DEFINE P(m) == /\ Len(Laid(fs, n)) <= Len(Laid(fs, m))
                   /\ \A i \in 1..Len(Laid(fs, n)) : Laid(fs, m)[i] = Laid(fs, n)[i]
           S == { m \in n..N : P(m) }
<1>1. N \in Nat /\ n \in Nat /\ n <= N
  BY FilesAre
<1>2. \A m \in 0..N : Laid(fs, m) \in Seq(T)
  BY LaidIs DEF LaidOut
<1>3. n \in S
  <2>1. Laid(fs, n) \in Seq(T)
    BY <1>1, <1>2
  <2>2. P(n)
    BY <2>1
  <2>3. QED  BY <1>1, <2>2
<1>4. ASSUME NEW m \in (n + 1)..N, m - 1 \in S PROVE m \in S
  <2>1. m \in 1..N /\ m - 1 \in 0..N /\ m \in n..N
    BY <1>1
  <2> PICK a : a = Laid(fs, n)
    OBVIOUS
  <2> PICK b : b = Laid(fs, m - 1)
    OBVIOUS
  <2> PICK c : c = Laid(fs, m)
    OBVIOUS
  <2> PICK s : s = Stored(fs[m])
    OBVIOUS
  <2>2. c = b \o s
    BY <2>1, LaidIs DEF LaidOut
  <2>3. a \in Seq(T) /\ b \in Seq(T) /\ s \in Seq(T)
    BY <1>1, <1>2, <2>1, StoredIs
  <2>4. Len(a) <= Len(b) /\ \A i \in 1..Len(a) : b[i] = a[i]
    BY <1>4
  <2>5. Len(c) = Len(b) + Len(s) /\ \A i \in 1..Len(b) : c[i] = b[i]
    BY <2>2, <2>3
  <2>6. Len(a) <= Len(c) /\ \A i \in 1..Len(a) : c[i] = a[i]
    <3>1. Len(a) \in Nat /\ Len(b) \in Nat /\ Len(s) \in Nat
      BY <2>3
    <3>2. \A i \in 1..Len(a) : i \in 1..Len(b)
      BY <2>4, <3>1
    <3>3. QED  BY <2>4, <2>5, <3>1, <3>2
  <2>7. P(m)
    BY <2>6
  <2> HIDE DEF P
  <2>8. QED  BY <2>1, <2>7
<1> HIDE DEF P
<1>5. \A m \in n..N : m \in S
  <2> HIDE DEF S
  <2>1. QED  BY <1>1, <1>3, <1>4, Upwards
<1>6. \A m \in n..N : P(m)
  BY <1>5
<1>7. QED  BY <1>6 DEF P

\* The block of the k-th header in an archive, the one of the end marker for
\* one more than its files.
HeaderAt(fs, k) == Len(Laid(fs, k - 1))

\* The headers of an archive, from the first block on, each as far from the
\* next as its size says, and the end marker after the last file.
LEMMA HeadersAre ==
  ASSUME NEW fs \in Archives, NEW a, a = Archive(fs)
  PROVE  /\ HeaderAt(fs, 1) = 0
         /\ \A k \in 1..Len(fs) :
              /\ HeaderAt(fs, k + 1) = HeaderAt(fs, k) + 1 + Blocks(fs[k].size)
              /\ a[HeaderAt(fs, k) + 1] = Header(fs[k].name, fs[k].size)
         /\ \A k \in 1..(Len(fs) + 1) :
              HeaderAt(fs, k) \in Nat /\ HeaderAt(fs, k) < Len(a)
         /\ a[HeaderAt(fs, Len(fs) + 1) + 1] = Zeros
<1> PICK N : N = Len(fs)
  OBVIOUS
<1> PICK T : T = Contents(fs)
  OBVIOUS
<1> PICK all : all = Laid(fs, N)
  OBVIOUS
<1> PICK z : z = Zeros
  OBVIOUS
<1>1. N \in Nat
  BY FilesAre
<1>2. \A m \in 0..N : Laid(fs, m) \in Seq(T)
  BY LaidIs DEF LaidOut
<1>3. all \in Seq(T) /\ z \in T /\ Len(all) \in Nat
  <2>1. all \in Seq(T) /\ z \in T
    BY <1>1, <1>2 DEF Contents
  <2>2. QED  BY <2>1
<1>4. a = all \o <<z, z>>
  BY DEF Archive
<1>5. /\ Len(a) = Len(all) + 2
      /\ a[Len(all) + 1] = z
      /\ \A i \in 1..Len(all) : a[i] = all[i]
  <2> PICK e : e = <<z, z>>
    OBVIOUS
  <2>1. e \in Seq(T) /\ Len(e) = 2 /\ e[1] = z
    BY <1>3
  <2>2. a = all \o e
    BY <1>4
  <2>3. Len(a) = Len(all) + 2 /\ \A i \in 1..Len(all) : a[i] = all[i]
    BY <1>3, <2>1, <2>2
  <2>4. a[Len(all) + 1] = e[1]
    BY <1>3, <2>1, <2>2
  <2>5. QED  BY <2>1, <2>3, <2>4
<1>6. HeaderAt(fs, 1) = 0
  <2>1. Laid(fs, 0) = <<>>
    BY LaidIs DEF LaidOut
  <2>2. Laid(fs, 1 - 1) = <<>>
    BY <2>1
  <2>3. QED  BY <2>2 DEF HeaderAt
<1>7. ASSUME NEW k \in 1..N
      PROVE  /\ HeaderAt(fs, k + 1) = HeaderAt(fs, k) + 1 + Blocks(fs[k].size)
             /\ a[HeaderAt(fs, k) + 1] = Header(fs[k].name, fs[k].size)
  <2> PICK b : b = Laid(fs, k - 1)
    OBVIOUS
  <2> PICK c : c = Laid(fs, k)
    OBVIOUS
  <2> PICK s : s = Stored(fs[k])
    OBVIOUS
  <2> PICK n : n = Blocks(fs[k].size)
    OBVIOUS
  <2> PICK h : h = Header(fs[k].name, fs[k].size)
    OBVIOUS
  <2>1. k - 1 \in 0..N /\ k \in 0..N /\ k \in k..N /\ k + 1 - 1 = k
    BY <1>1
  <2>2. b \in Seq(T) /\ c \in Seq(T)
    BY <1>2, <2>1
  <2>3. c = b \o s
    BY <1>7, LaidIs DEF LaidOut
  <2>4. s \in Seq(T) /\ Len(s) = 1 + n /\ s[1] = h
    BY <1>7, StoredIs
  <2>5. n \in Nat
    BY <1>7, FilesAre, BlocksAre
  <2>6. Len(b) \in Nat /\ Len(c) = Len(b) + 1 + n
    <3>1. Len(b) \in Nat
      BY <2>2
    <3>2. Len(c) = Len(b) + Len(s)
      BY <2>2, <2>3, <2>4
    <3>3. QED  BY <2>4, <2>5, <3>1, <3>2
  <2>7. c[Len(b) + 1] = h
    BY <2>2, <2>3, <2>4, <2>5
  <2>8. Len(c) <= Len(all) /\ \A i \in 1..Len(c) : all[i] = c[i]
    BY <2>1, <1>1, Stays
  <2>9. Len(b) + 1 \in 1..Len(c) /\ Len(b) + 1 \in 1..Len(all)
    BY <1>3, <2>5, <2>6, <2>8
  <2>10. a[Len(b) + 1] = h
    BY <1>5, <2>7, <2>8, <2>9
  <2>11. HeaderAt(fs, k) = Len(b) /\ HeaderAt(fs, k + 1) = Len(c)
    BY <2>1 DEF HeaderAt
  <2>12. QED  BY <2>6, <2>10, <2>11
<1>8. ASSUME NEW k \in 1..(N + 1)
      PROVE  HeaderAt(fs, k) \in Nat /\ HeaderAt(fs, k) < Len(a)
  <2>1. k - 1 \in 0..N /\ N \in (k - 1)..N
    BY <1>1
  <2>2. Len(Laid(fs, k - 1)) <= Len(all)
    BY <2>1, Stays
  <2>3. Laid(fs, k - 1) \in Seq(T)
    BY <1>2, <2>1
  <2>4. Len(Laid(fs, k - 1)) \in Nat
    BY <2>3
  <2>5. QED  BY <1>3, <1>5, <2>2, <2>4 DEF HeaderAt
<1>9. a[HeaderAt(fs, N + 1) + 1] = z
  <2>1. N + 1 - 1 = N
    BY <1>1
  <2>2. QED  BY <1>5, <2>1 DEF HeaderAt
<1>10. QED  BY <1>6, <1>7, <1>8, <1>9

\* A header further on in the archive is in a block further on.
LEMMA Onwards ==
  ASSUME NEW fs \in Archives, NEW j \in 1..(Len(fs) + 1), NEW k \in j..(Len(fs) + 1)
  PROVE  HeaderAt(fs, j) <= HeaderAt(fs, k)
<1>1. Len(fs) \in Nat
  BY FilesAre
<1>2. j - 1 \in 0..Len(fs) /\ k - 1 \in (j - 1)..Len(fs)
  BY <1>1
<1>3. QED  BY <1>2, Stays DEF HeaderAt

-----------------------------------------------------------------------------
(* The walk.                                                               *)

\* The walk stands on the k-th header, within the limit, and no file before
\* has the name asked for.
StandsOn(k) ==
  /\ header = Start(k)
  /\ ~TooFar(header)
  /\ \A j \in 1..(k - 1) : ~Matches(files[j].name)

IInv == /\ files \in Archives /\ memory = Archive(files)
        /\ walking => \E k \in 1..(Len(files) + 1) : StandsOn(k)

LEMMA StartIs ==
  ASSUME NEW k PROVE Start(k) = HeaderAt(files, k)
BY DEF Start, HeaderAt

\* What tar_get_file reads where it stands: the header of the k-th file, as
\* it was written, or the end marker.
LEMMA Reads ==
  ASSUME IInv, NEW k \in 1..(Len(files) + 1), header = Start(k)
  PROVE  /\ k = Len(files) + 1 => At.name = <<>>
         /\ k # Len(files) + 1 =>
              /\ k \in 1..Len(files)
              /\ At.name = files[k].name /\ At.name # <<>>
              /\ octal_to_int(At.size) = files[k].size
              /\ files[k].size \in Nat
              /\ Next512(files[k].size) = Start(k + 1)
<1>1. files \in Archives /\ memory = Archive(files) /\ Len(files) \in Nat
  BY FilesAre DEF IInv
<1>2. header = HeaderAt(files, k)
  BY StartIs
<1>3. header < Len(memory)
  BY <1>1, <1>2, HeadersAre
<1>4. At = memory[HeaderAt(files, k) + 1]
  BY <1>2, <1>3 DEF At
<1>5. CASE k = Len(files) + 1
  <2>1. At = Zeros
    BY <1>1, <1>4, <1>5, HeadersAre
  <2>2. QED  BY <1>5, <2>1 DEF Zeros
<1>6. CASE k # Len(files) + 1
  <2>1. k \in 1..Len(files)
    BY <1>1, <1>6
  <2>2. At = Header(files[k].name, files[k].size)
    BY <1>1, <1>4, <2>1, HeadersAre
  <2>3. At.name = files[k].name /\ At.size = Octal(files[k].size)
    BY <2>2 DEF Header
  <2>4. /\ files[k].name # <<>> /\ files[k].size \in Nat
        /\ Left(files[k].size)[Digits] = 0
    BY <1>1, <2>1, FilesAre
  <2>5. octal_to_int(At.size) = files[k].size
    BY <2>3, <2>4, OctalRead
  <2>6. Next512(files[k].size) = HeaderAt(files, k) + 1 + Blocks(files[k].size)
    BY <1>2, <2>4, BlocksAre DEF Next512
  <2>7. Next512(files[k].size) = Start(k + 1)
    BY <1>1, <2>1, <2>6, HeadersAre, StartIs
  <2>8. QED  BY <1>6, <2>1, <2>3, <2>4, <2>5, <2>7
<1>7. QED  BY <1>5, <1>6

LEMMA Initial == Init => IInv
BY DEF Init, IInv

\* A search starts on the first header.
LEMMA CallKeeps ==
  ASSUME IInv, NEW name \in Names, Call(name)
  PROVE  IInv'
<1>1. files \in Archives /\ memory = Archive(files) /\ Len(files) \in Nat
  BY FilesAre DEF IInv
<1>2. files' = files /\ memory' = memory /\ header' = 0
  BY DEF Call
<1>3. header' = Start(1)'
  BY <1>1, <1>2, HeadersAre DEF Start, HeaderAt
<1>4. ~TooFar(0)
  BY Sizes DEF TooFar
<1>5. ~TooFar(header)'
  BY <1>2, <1>4 DEF TooFar
<1>6. StandsOn(1)'
  BY <1>3, <1>5 DEF StandsOn
<1>7. 1 \in 1..(Len(files') + 1)
  BY <1>1, <1>2
<1>8. QED  BY <1>1, <1>2, <1>6, <1>7 DEF IInv

\* A step goes from a header to the next one, or returns.
LEMMA VisitKeeps ==
  ASSUME IInv, Visit
  PROVE  IInv'
<1>1. files \in Archives /\ memory = Archive(files) /\ Len(files) \in Nat
  BY FilesAre DEF IInv
<1>2. files' = files /\ memory' = memory /\ filename' = filename
  BY DEF Visit, Return
<1>3. PICK k \in 1..(Len(files) + 1) : StandsOn(k)
  BY DEF IInv, Visit
<1>4. ASSUME walking' PROVE \E i \in 1..(Len(files') + 1) : StandsOn(i)'
  <2> PICK size : size = octal_to_int(At.size)
    OBVIOUS
  <2>1. /\ At.name # <<>> /\ ~Matches(At.name) /\ ~TooFar(Next512(size))
        /\ header' = Next512(size)
    BY <1>4 DEF Visit, Return
  <2>2. header = Start(k)
    BY <1>3 DEF StandsOn
  <2>3. /\ k \in 1..Len(files) /\ At.name = files[k].name /\ size = files[k].size
        /\ Next512(files[k].size) = Start(k + 1)
    BY <1>1, <2>1, <2>2, Reads
  <2>4. header' = Start(k + 1)'
    BY <1>2, <2>1, <2>3 DEF Start
  <2>5. ~TooFar(header)'
    BY <2>1 DEF TooFar
  <2>6. \A j \in 1..k : ~Matches(files[j].name)
    <3>1. \A j \in 1..(k - 1) : ~Matches(files[j].name)
      BY <1>3 DEF StandsOn
    <3>2. ~Matches(files[k].name)
      BY <2>1, <2>3
    <3>3. \A j \in 1..k : j = k \/ j \in 1..(k - 1)
      OBVIOUS
    <3>4. QED  BY <3>1, <3>2, <3>3
  <2>7. \A j \in 1..k : ~Matches(files[j].name)'
    BY <1>2, <2>6 DEF Matches
  <2>8. k + 1 - 1 = k /\ k + 1 \in 1..(Len(files) + 1)
    BY <1>1, <2>3
  <2>9. StandsOn(k + 1)'
    BY <2>4, <2>5, <2>7, <2>8 DEF StandsOn
  <2>10. QED  BY <1>2, <2>8, <2>9
<1>5. QED  BY <1>1, <1>2, <1>4 DEF IInv

LEMMA Unchanged ==
  ASSUME IInv, UNCHANGED vars
  PROVE  IInv'
BY DEF IInv, vars, StandsOn, Start, TooFar, Matches

LEMMA Inductive == Spec => []IInv
<1>1. IInv /\ [Next]_vars => IInv'
  BY CallKeeps, VisitKeeps, Unchanged DEF Next
<1>2. QED  BY Initial, <1>1, PTL DEF Spec

\* The walk of tar_get_file stands on headers only, whatever the files hold.
THEOREM StaysOnHeaders == Spec => []WalkOnHeaders
<1>1. IInv => WalkOnHeaders
  BY DEF IInv, StandsOn, WalkOnHeaders
<1>2. QED  BY Inductive, <1>1, PTL

\* A file before the header where the walk stands is no candidate, and none is
\* from a header on that is beyond the limit.
LEMMA NoCandidate ==
  ASSUME IInv, NEW k \in 1..(Len(files) + 1),
         \A j \in 1..(k - 1) : ~Matches(files[j].name),
         k = Len(files) + 1 \/ TooFar(Start(k))
  PROVE  Candidates = {}
<1>1. files \in Archives /\ Len(files) \in Nat /\ DOMAIN files = 1..Len(files)
  BY FilesAre DEF IInv
<1>2. ASSUME NEW j \in Candidates PROVE FALSE
  <2>1. j \in 1..Len(files) /\ Matches(files[j].name) /\ Start(j) * Block <= Limit
    BY <1>1 DEF Candidates
  <2>2. j >= k
    BY <1>1, <2>1
  <2>3. TooFar(Start(k)) /\ j \in 1..(Len(files) + 1) /\ j \in k..(Len(files) + 1)
    BY <1>1, <2>1, <2>2
  <2>4. Start(k) <= Start(j)
    BY <1>1, <2>3, Onwards, StartIs
  <2>5. Start(k) \in Nat /\ Start(j) \in Nat
    BY <1>1, <2>3, HeadersAre, StartIs
  <2>6. PICK a \in Nat : a = Start(k)
    BY <2>5
  <2>7. PICK b \in Nat : b = Start(j)
    BY <2>5
  <2>8. a * Block <= b * Block
    BY <2>4, <2>6, <2>7, Sizes, Times
  <2>9. ~(a * Block <= Limit) /\ b * Block <= Limit
    <3>1. a * Block > Limit
      BY <2>3, <2>6 DEF TooFar
    <3>2. a * Block \in Nat
      BY Sizes, Times
    <3>3. QED  BY <2>1, <2>7, <3>1, <3>2, Sizes
  <2>10. a * Block \in Nat /\ b * Block \in Nat
    BY Sizes, Times
  <2>11. QED  BY <2>8, <2>9, <2>10, Sizes
<1>3. QED  BY <1>2

\* A call that returns has found the first file of its name, or there is none.
LEMMA Returns ==
  ASSUME IInv, Visit, walking'= FALSE
  PROVE  result' = First
<1>1. files \in Archives /\ Len(files) \in Nat /\ DOMAIN files = 1..Len(files)
  BY FilesAre DEF IInv
<1>2. PICK k \in 1..(Len(files) + 1) : StandsOn(k)
  BY DEF IInv, Visit
<1>3. /\ header = Start(k) /\ ~TooFar(header)
      /\ \A j \in 1..(k - 1) : ~Matches(files[j].name)
  BY <1>2 DEF StandsOn
<1> PICK size : size = octal_to_int(At.size)
  OBVIOUS
<1>4. CASE At.name = <<>> /\ Return(NULL)
  <2>1. k = Len(files) + 1
    BY <1>3, <1>4, Reads
  <2>2. Candidates = {}
    BY <1>3, <2>1, NoCandidate
  <2>3. QED  BY <1>4, <2>2 DEF Return, First
<1>5. CASE /\ At.name # <<>> /\ Matches(At.name)
           /\ Return([found |-> TRUE, size |-> size, block |-> header + 1])
  <2>1. k \in 1..Len(files) /\ At.name = files[k].name /\ size = files[k].size
    BY <1>3, <1>5, Reads
  <2>2. k \in Candidates
    <3>1. Start(k) * Block <= Limit
      <4>1. Start(k) \in Nat
        BY <1>1, HeadersAre, StartIs
      <4>2. PICK a \in Nat : a = Start(k)
        BY <4>1
      <4>3. a * Block \in Nat /\ ~(a * Block > Limit)
        BY <1>3, <4>2, Sizes, Times DEF TooFar
      <4>4. QED  BY <4>2, <4>3, Sizes
    <3>2. QED  BY <1>1, <1>5, <2>1, <3>1 DEF Candidates
  <2>3. \A j \in Candidates : j \in 1..Len(files) /\ k <= j
    <3>1. \A j \in Candidates : j \in 1..Len(files) /\ Matches(files[j].name)
      BY <1>1 DEF Candidates
    <3>2. QED  BY <1>1, <1>3, <3>1
  <2>4. (CHOOSE i \in Candidates : \A j \in Candidates : i <= j) = k
    <3> PICK C : C = Candidates
      OBVIOUS
    <3>1. k \in C /\ \A j \in C : j \in 1..Len(files) /\ k <= j
      BY <2>2, <2>3
    <3>2. \A i \in C : (\A j \in C : i <= j) => i = k
      BY <1>1, <3>1
    <3>3. (CHOOSE i \in C : \A j \in C : i <= j) = k
      BY <3>1, <3>2
    <3>4. QED  BY <3>3
  <2>5. Candidates # {}
    BY <2>2
  <2>6. First = [found |-> TRUE, size |-> files[k].size, block |-> Start(k) + 1]
    BY <2>4, <2>5 DEF First
  <2>7. QED  BY <1>3, <1>5, <2>1, <2>6 DEF Return
<1>6. CASE /\ At.name # <<>> /\ ~Matches(At.name) /\ TooFar(Next512(size))
           /\ Return(NULL)
  <2>1. /\ k \in 1..Len(files) /\ At.name = files[k].name
        /\ Next512(size) = Start(k + 1)
    BY <1>3, <1>6, Reads
  <2>2. k + 1 \in 1..(Len(files) + 1) /\ k + 1 - 1 = k
    BY <1>1, <2>1
  <2>3. \A j \in 1..k : ~Matches(files[j].name)
    <3>1. ~Matches(files[k].name)
      BY <1>6, <2>1
    <3>2. \A j \in 1..k : j = k \/ j \in 1..(k - 1)
      OBVIOUS
    <3>3. QED  BY <1>3, <3>1, <3>2
  <2>4. TooFar(Start(k + 1))
    BY <1>6, <2>1
  <2>5. Candidates = {}
    BY <2>2, <2>3, <2>4, NoCandidate
  <2>6. QED  BY <1>6, <2>5 DEF Return, First
<1>7. QED  BY <1>4, <1>5, <1>6 DEF Visit

\* tar_get_file returns the data of the first file of the name it is asked
\* for, with or without "./" in the archive, or NULL if there is none within
\* the limit: whatever the files hold, no block of one is taken for a header.
THEOREM FindsTheFirst == Spec => FirstOfItsName
<1>1. IInv /\ [Next]_vars => [walking /\ ~walking' => result' = First]_vars
  <2>1. ASSUME IInv, Next, walking, ~walking' PROVE result' = First
    <3>1. Visit
      BY <2>1 DEF Next, Call
    <3>2. walking' = FALSE
      BY <2>1, <3>1 DEF Visit, Return
    <3>3. QED  BY <2>1, <3>1, <3>2, Returns
  <2>2. QED  BY <2>1
<1>2. QED  BY Inductive, <1>1, PTL DEF Spec, FirstOfItsName

=============================================================================

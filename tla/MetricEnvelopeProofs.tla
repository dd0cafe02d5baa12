------------------------- MODULE MetricEnvelopeProofs -------------------------
(***************************************************************************)
(* That a metric batch is read as it was written, for every batch: from    *)
(* numbers to fields, to messages, to the structs and their lists.         *)
(*                                                                         *)
(* The encoder and its reader are recursive functions, so first comes what *)
(* holds of any recursion: one whose argument gets smaller, or jumps ahead *)
(* in the bytes, has a solution, hence satisfies its own equation.  The    *)
(* rest argues from the equations alone.                                   *)
(***************************************************************************)
EXTENDS MetricEnvelope, WellFoundedInduction, SequenceTheorems, TLAPS

-----------------------------------------------------------------------------
(* Recursion. *)

Less == {pair \in Nat \X Nat : pair[1] < pair[2]}

LEMMA LessIsWellFounded == IsWellFoundedOn(Less, Nat)
  BY NatLessThanWellFounded DEF OpToRel, Less

\* Sets that hold 0 and every successor hold every natural number.
LEMMA Induction ==
  ASSUME NEW S, 0 \in S, \A n \in Nat : n \in S => n + 1 \in S
  PROVE  \A n \in Nat : n \in S
<1> SUFFICES ASSUME NEW n \in Nat, n \notin S PROVE FALSE
  OBVIOUS
<1>1. PICK T : T = Nat \ S
  OBVIOUS
<1>2. T \subseteq Nat /\ n \in T
  BY <1>1
<1>3. PICK least \in T : \A y \in T : ~ (<<y, least>> \in Less)
  BY <1>2, LessIsWellFounded, WFMin
<1>4. \A y \in T : ~ (y < least)
  BY <1>2, <1>3 DEF Less
<1>5. least \in Nat /\ least \notin S /\ least # 0
  BY <1>1, <1>3
<1>6. least - 1 \in Nat /\ least - 1 < least
  BY <1>5
<1>7. least - 1 \in S
  BY <1>1, <1>4, <1>6
<1> QED
  BY <1>5, <1>6, <1>7

\* A recursion over the naturals, with its step given as a function, has a solution.
StepsOn(S) == [Nat -> [S -> S]]
Follows(f, S, start, step) ==
  f \in [Nat -> S] /\ f[0] = start /\ \A n \in Nat : f[n + 1] = step[n + 1][f[n]]

LEMMA Recursion ==
  ASSUME NEW S, NEW start \in S, NEW step \in StepsOn(S)
  PROVE  \E f : Follows(f, S, start, step)
<1> USE DEF StepsOn
<1> DEFINE Solves(f, m) == f \in [0..m -> S] /\ f[0] = start
                           /\ \A n \in 0..(m - 1) : f[n + 1] = step[n + 1][f[n]]
<1>1. PICK good : good = {m \in Nat : \E f : Solves(f, m)}
  OBVIOUS
<1>2. 0 \in good
  <2>1. PICK f : f = [n \in 0..0 |-> start]
    OBVIOUS
  <2>2. Solves(f, 0)
    BY <2>1
  <2> QED
    BY <1>1, <2>2
<1>3. ASSUME NEW m \in Nat, m \in good PROVE m + 1 \in good
  <2>1. PICK f : Solves(f, m)
    BY <1>1, <1>3
  <2>2. PICK last \in S : last = step[m + 1][f[m]]
    BY <2>1
  <2>3. PICK g : g = [n \in 0..(m + 1) |-> IF n = m + 1 THEN last ELSE f[n]]
    OBVIOUS
  <2>4. /\ \A n \in 0..m : g[n] = f[n] /\ n \in 0..(m + 1) /\ f[n] \in S
        /\ g[m + 1] = last
    BY <2>1, <2>3
  <2>5. g \in [0..(m + 1) -> S]
    <3>1. \A n \in 0..(m + 1) : g[n] \in S
      BY <2>2, <2>4
    <3> QED
      BY <2>3, <3>1
  <2>6. \A n \in 0..m : g[n + 1] = step[n + 1][g[n]]
    <3> SUFFICES ASSUME NEW n \in 0..m PROVE g[n + 1] = step[n + 1][g[n]]
      OBVIOUS
    <3>1. CASE n = m
      BY <2>2, <2>4, <3>1
    <3>2. CASE n # m
      BY <2>1, <2>4, <3>2
    <3> QED
      BY <3>1, <3>2
  <2>7. Solves(g, m + 1)
    BY <2>1, <2>4, <2>5, <2>6
  <2> HIDE DEF Solves
  <2> QED
    BY <1>1, <2>7
<1>4. \A m \in Nat : \E f : Solves(f, m)
  <2>1. \A m \in Nat : m \in good
    <3> HIDE DEF Solves
    <3> QED
      BY <1>2, <1>3, Induction
  <2> HIDE DEF Solves
  <2> QED
    BY <1>1, <2>1
<1>5. PICK s : s = [m \in Nat |-> CHOOSE f : Solves(f, m)]
  OBVIOUS
<1>6. \A m \in Nat : Solves(s[m], m)
  <2> HIDE DEF Solves
  <2> QED
    BY <1>4, <1>5
\* Two partial solutions agree where both are defined.
<1>7. ASSUME NEW m \in Nat PROVE s[m + 1][m] = s[m][m]
  <2>1. PICK f : f = s[m]
    OBVIOUS
  <2>2. PICK g : g = s[m + 1]
    OBVIOUS
  <2>3. Solves(f, m) /\ Solves(g, m + 1)
    BY <1>6, <2>1, <2>2
  <2>4. PICK same : same = {n \in Nat : n <= m => f[n] = g[n]}
    OBVIOUS
  <2>5. 0 \in same
    BY <2>3, <2>4
  <2>6. ASSUME NEW n \in Nat, n \in same PROVE n + 1 \in same
    <3> SUFFICES ASSUME n + 1 <= m PROVE f[n + 1] = g[n + 1]
      BY <2>4
    <3>1. f[n] = g[n]
      BY <2>4, <2>6
    <3>2. n \in 0..(m - 1) /\ n \in 0..((m + 1) - 1)
      OBVIOUS
    <3>3. f[n + 1] = step[n + 1][f[n]]
      BY <2>3, <3>2
    <3>4. g[n + 1] = step[n + 1][g[n]]
      BY <2>3, <3>2
    <3> QED
      BY <3>1, <3>3, <3>4
  <2>7. f[m] = g[m]
    BY <2>4, <2>5, <2>6, Induction
  <2> QED
    BY <2>1, <2>2, <2>7
<1>8. PICK f : f = [m \in Nat |-> s[m][m]]
  OBVIOUS
<1>9. ASSUME NEW m \in Nat PROVE f[m] \in S /\ f[m + 1] = step[m + 1][f[m]]
  <2>0. Solves(s[m + 1], m + 1) /\ Solves(s[m], m)
    <3> HIDE DEF Solves
    <3> QED
      BY <1>6
  <2>1. PICK g : g = s[m + 1] /\ Solves(g, m + 1)
    BY <2>0
  <2>2. PICK h : h = s[m] /\ Solves(h, m)
    BY <2>0
  <2>3. g[m] = h[m] /\ f[m] = h[m] /\ f[m + 1] = g[m + 1]
    BY <1>7, <1>8, <2>1, <2>2
  <2> QED
    BY <2>1, <2>2, <2>3
<1>10. f[0] = start
  BY <1>6, <1>8
<1>11. f \in [Nat -> S]
  <2>1. \A m \in Nat : f[m] \in S
    BY <1>9
  <2> QED
    BY <1>8, <2>1
<1> QED
  BY <1>9, <1>10, <1>11 DEF Follows

LEMMA StrongInduction ==
  ASSUME NEW S, \A n \in Nat : (\A k \in 0..(n - 1) : k \in S) => n \in S
  PROVE  \A n \in Nat : n \in S
<1>1. PICK T : T = {n \in Nat : \A k \in 0..(n - 1) : k \in S}
  OBVIOUS
<1>2. 0 \in T
  BY <1>1
<1>3. ASSUME NEW n \in Nat, n \in T PROVE n + 1 \in T
  <2>1. \A k \in 0..((n + 1) - 1) : k = n \/ k \in 0..(n - 1)
    OBVIOUS
  <2> QED
    BY <1>1, <1>3, <2>1
<1>4. \A n \in Nat : n \in T
  BY <1>2, <1>3, Induction
<1> QED
  BY <1>1, <1>4

\* A recursion that jumps to where a measure is less has a solution.
Solution(f, D, S, stops, start, step, jump) ==
  /\ f \in [D -> S]
  /\ \A x \in D : f[x] = IF x \in stops THEN start[x] ELSE step[x][f[jump[x]]]

\* It has a solution if every jump lowers some measure.
LEMMA JumpRecursion ==
  ASSUME NEW D, NEW S, NEW measure \in [D -> Nat], NEW jump \in [D -> D], NEW stops,
         NEW start \in [D -> S], NEW step \in [D -> [S -> S]],
         \A x \in D : x \notin stops => measure[jump[x]] < measure[x]
  PROVE  \E f : Solution(f, D, S, stops, start, step, jump)
<1>1. PICK T : T = [D -> S]
  OBVIOUS
<1>2. PICK better : better = [k \in Nat |-> [g \in T |->
        [x \in D |-> IF x \in stops THEN start[x] ELSE step[x][g[jump[x]]]]]]
  OBVIOUS
<1>3. better \in StepsOn(T)
  <2>1. ASSUME NEW g \in T
        PROVE  [x \in D |-> IF x \in stops THEN start[x] ELSE step[x][g[jump[x]]]] \in T
    BY <1>1
  <2> QED
    BY <1>2, <2>1 DEF StepsOn
<1>4. start \in T
  BY <1>1
<1>5. PICK G : Follows(G, T, start, better)
  BY <1>3, <1>4, Recursion
<1>6. \A k \in Nat : G[k] \in [D -> S]
  BY <1>1, <1>5 DEF Follows
<1>7. ASSUME NEW k \in Nat, NEW x \in D
      PROVE  G[k + 1][x] = IF x \in stops THEN start[x] ELSE step[x][G[k][jump[x]]]
  <2>1. PICK g \in T : g = G[k]
    BY <1>5 DEF Follows
  <2>2. G[k + 1] = better[k + 1][g] /\ k + 1 \in Nat
    BY <1>5, <2>1 DEF Follows
  <2>3. better[k + 1][g] = [y \in D |-> IF y \in stops THEN start[y] ELSE step[y][g[jump[y]]]]
    BY <1>2, <2>2
  <2> QED
    BY <2>1, <2>2, <2>3
<1>8. PICK stable : stable = {n \in Nat : \A x \in D, k \in Nat :
                       measure[x] = n /\ k > n => G[k][x] = G[n + 1][x]}
  OBVIOUS
<1>9. ASSUME NEW n \in Nat, \A b \in 0..(n - 1) : b \in stable PROVE n \in stable
  <2> SUFFICES ASSUME NEW x \in D, NEW k \in Nat, measure[x] = n, k > n
               PROVE  G[k][x] = G[n + 1][x]
    BY <1>8
  <2>1. PICK j \in Nat : k = j + 1 /\ j >= n
    <3>1. k - 1 \in Nat /\ k = (k - 1) + 1 /\ k - 1 >= n
      OBVIOUS
    <3> QED
      BY <3>1
  <2>2. CASE x \in stops
    BY <1>7, <2>1, <2>2
  <2>3. CASE x \notin stops
    <3>1. PICK y \in D : y = jump[x]
      OBVIOUS
    <3>2. PICK b \in Nat : b = measure[y] /\ b < n
      BY <2>3, <3>1
    <3>3. b \in stable /\ j > b /\ n > b
      BY <1>9, <2>1, <3>2
    <3>4. G[j][y] = G[b + 1][y] /\ G[n][y] = G[b + 1][y]
      BY <1>8, <3>2, <3>3
    <3>5. G[k][x] = step[x][G[j][y]] /\ G[n + 1][x] = step[x][G[n][y]]
      BY <1>7, <2>1, <2>3, <3>1
    <3> QED
      BY <3>4, <3>5
  <2> QED
    BY <2>2, <2>3
<1>10. \A n \in Nat : n \in stable
  BY <1>9, StrongInduction
<1>11. PICK f : f = [x \in D |-> G[measure[x] + 1][x]]
  OBVIOUS
<1>12. f \in [D -> S]
  BY <1>6, <1>11
<1>13. ASSUME NEW x \in D PROVE f[x] = IF x \in stops THEN start[x] ELSE step[x][f[jump[x]]]
  <2>1. PICK n \in Nat : n = measure[x]
    OBVIOUS
  <2>2. f[x] = IF x \in stops THEN start[x] ELSE step[x][G[n][jump[x]]]
    BY <1>7, <1>11, <2>1
  <2>3. CASE x \notin stops
    <3>1. PICK y \in D : y = jump[x]
      OBVIOUS
    <3>2. PICK b \in Nat : b = measure[y] /\ b < n
      BY <2>1, <2>3, <3>1
    <3>3. G[n][y] = G[b + 1][y]
      BY <1>8, <1>10, <3>2
    <3> QED
      BY <1>11, <2>2, <3>1, <3>2, <3>3
  <2> QED
    BY <2>2, <2>3
<1> QED
  BY <1>12, <1>13 DEF Solution

-----------------------------------------------------------------------------
(* Numbers. *)

LEMMA Groups ==
  ASSUME NEW n \in Nat, n >= 128
  PROVE  /\ n \div 128 \in Nat /\ n \div 128 < n /\ n % 128 \in 0..127
         /\ 128 * (n \div 128) + (n % 128) = n
  OBVIOUS

\* The bytes of a number are its low seven bits and the bytes of the rest.
LEMMA UvarintEquation ==
  ASSUME NEW n \in Nat
  PROVE  /\ Uvarint(n) \in Seq(Byte)
         /\ Uvarint(n) = IF n < 128 THEN <<n>> ELSE <<128 + (n % 128)>> \o Uvarint(n \div 128)
<1> DEFINE Eq(f) == f = [k \in Nat |-> IF k < 128 THEN <<k>> ELSE <<128 + (k % 128)>> \o f[k \div 128]]
<1>1. PICK S : S = Seq(Byte)
  OBVIOUS
<1>2. PICK start : start = [k \in Nat |-> IF k < 128 THEN <<k>> ELSE << >>]
  OBVIOUS
<1>3. start \in [Nat -> S]
  <2>1. ASSUME NEW k \in Nat PROVE (IF k < 128 THEN <<k>> ELSE << >>) \in Seq(Byte)
    <3>1. k < 128 => k \in Byte
      BY DEF Byte
    <3> QED
      BY <3>1
  <2> QED
    BY <1>1, <1>2, <2>1
<1>4. PICK step : step = [k \in Nat |-> [s \in S |-> <<128 + (k % 128)>> \o s]]
  OBVIOUS
<1>5. step \in [Nat -> [S -> S]]
  <2>1. ASSUME NEW k \in Nat, NEW s \in S PROVE <<128 + (k % 128)>> \o s \in S
    <3>1. 128 + (k % 128) \in Byte
      BY DEF Byte
    <3> QED
      BY <1>1, <3>1
  <2> QED
    BY <1>4, <2>1
<1>6. PICK measure : measure = [k \in Nat |-> k]
  OBVIOUS
<1>7. PICK jump : jump = [k \in Nat |-> k \div 128]
  OBVIOUS
<1>8. measure \in [Nat -> Nat] /\ jump \in [Nat -> Nat]
  BY <1>6, <1>7
<1>9. \A k \in Nat : k \notin 0..127 => measure[jump[k]] < measure[k]
  BY <1>6, <1>7
<1>10. PICK f : Solution(f, Nat, S, 0..127, start, step, jump)
  BY <1>3, <1>5, <1>8, <1>9, JumpRecursion
<1>11. ASSUME NEW k \in Nat
       PROVE  f[k] = IF k < 128 THEN <<k>> ELSE <<128 + (k % 128)>> \o f[k \div 128]
  <2>1. f[k] = IF k \in 0..127 THEN start[k] ELSE step[k][f[jump[k]]]
    BY <1>10 DEF Solution
  <2>2. f[jump[k]] \in S
    BY <1>8, <1>10 DEF Solution
  <2>3. step[k][f[jump[k]]] = <<128 + (k % 128)>> \o f[jump[k]]
    BY <1>4, <2>2
  <2> QED
    BY <1>2, <1>7, <2>1, <2>3
<1>12. f = [k \in Nat |-> f[k]]
  BY <1>10 DEF Solution
<1>13. Eq(f)
  BY <1>11, <1>12
<1>14. PICK bytes : bytes = (CHOOSE g : Eq(g)) /\ \A k : Uvarint(k) = bytes[k]
  BY DEF Uvarint
<1>15. Eq(bytes)
  <2> HIDE DEF Eq
  <2> QED
    BY <1>13, <1>14
<1>16. PICK sized : sized = {k \in Nat : bytes[k] \in Seq(Byte)}
  OBVIOUS
<1>17. ASSUME NEW k \in Nat, \A j \in 0..(k - 1) : j \in sized PROVE k \in sized
  <2>1. CASE k < 128
    <3>1. bytes[k] = <<k>> /\ k \in Byte
      BY <1>15, <2>1 DEF Byte
    <3>2. bytes[k] \in Seq(Byte)
      BY <3>1
    <3> QED
      BY <1>16, <3>2
  <2>2. CASE ~ (k < 128)
    <3>1. k \div 128 \in 0..(k - 1) /\ 128 + (k % 128) \in Byte
      BY <2>2 DEF Byte
    <3>2. PICK rest \in Seq(Byte) : rest = bytes[k \div 128]
      BY <1>16, <1>17, <3>1
    <3>3. bytes[k] = <<128 + (k % 128)>> \o rest
      BY <1>15, <2>2, <3>2
    <3>4. bytes[k] \in Seq(Byte)
      BY <3>1, <3>3
    <3> QED
      BY <1>16, <3>4
  <2> QED
    BY <2>1, <2>2
<1>18. \A k \in Nat : k \in sized
  <2> HIDE DEF Eq
  <2> QED
    BY <1>17, StrongInduction
<1>19. bytes[n] \in Seq(Byte)
  BY <1>16, <1>18
<1>20. bytes[n] = IF n < 128 THEN <<n>> ELSE <<128 + (n % 128)>> \o bytes[n \div 128]
  BY <1>15
<1>21. Uvarint(n) = bytes[n] /\ Uvarint(n \div 128) = bytes[n \div 128]
  <2> HIDE DEF Eq
  <2> QED
    BY <1>14
<1> HIDE DEF Eq
<1> QED
  BY <1>19, <1>20, <1>21

\* One step of the reader.
NumberFrom(bytes, at, higher) ==
  IF at > Len(bytes) THEN [value |-> 0, next |-> at]
  ELSE IF bytes[at] < 128 THEN [value |-> bytes[at], next |-> at + 1]
  ELSE [value |-> bytes[at] - 128 + 128 * higher.value, next |-> higher.next]

\* The next position comes after this one, and still belongs to the bytes or ends them.
LEMMA NumberEquation ==
  ASSUME NEW bytes \in Seq(Byte)
  PROVE  \A at \in 1..(Len(bytes) + 1) :
           /\ Number(bytes, at) = NumberFrom(bytes, at, Number(bytes, at + 1))
           /\ Number(bytes, at).value \in Nat
           /\ Number(bytes, at).next \in at..(Len(bytes) + 1)
           /\ at <= Len(bytes) => Number(bytes, at).next > at
<1> DEFINE Eq(f) == f = [i \in 1..(Len(bytes) + 1) |->
                           IF i > Len(bytes) THEN [value |-> 0, next |-> i]
                           ELSE IF bytes[i] < 128 THEN [value |-> bytes[i], next |-> i + 1]
                           ELSE LET higher == f[i + 1]
                                IN [value |-> bytes[i] - 128 + 128 * higher.value, next |-> higher.next]]
<1>1. PICK L \in Nat : L = Len(bytes)
  OBVIOUS
<1>2. \A i \in 1..L : bytes[i] \in Nat /\ bytes[i] \in Int /\ bytes[i] <= 255
  <2>1. \A b \in Byte : b \in Nat /\ b \in Int /\ b <= 255
    BY DEF Byte
  <2>2. \A i \in 1..L : bytes[i] \in Byte
    BY <1>1
  <2> QED
    BY <2>1, <2>2
<1>3. PICK D : D = 1..(L + 1)
  OBVIOUS
<1>4. PICK S : S = [value: Int, next: Int]
  OBVIOUS
<1>5. PICK stops : stops = {i \in D : i > L \/ bytes[i] < 128}
  OBVIOUS
<1>6. PICK start : start = [i \in D |-> IF i > L THEN [value |-> 0, next |-> i]
                                        ELSE [value |-> bytes[i], next |-> i + 1]]
  OBVIOUS
<1>7. start \in [D -> S]
  <2>1. ASSUME NEW i \in D
        PROVE  (IF i > L THEN [value |-> 0, next |-> i] ELSE [value |-> bytes[i], next |-> i + 1]) \in S
    <3>0. i \in 1..(L + 1) /\ (~ (i > L) => i \in 1..L)
      BY <1>3
    <3>1. i \in Int /\ (~ (i > L) => bytes[i] \in Int /\ i + 1 \in Int)
      BY <1>2, <3>0
    <3> QED
      BY <1>4, <3>1
  <2> QED
    BY <1>6, <2>1
<1>8. PICK step : step = [i \in D |-> [r \in S |->
        IF i \in stops THEN r ELSE [value |-> bytes[i] - 128 + 128 * r.value, next |-> r.next]]]
  OBVIOUS
<1>9. step \in [D -> [S -> S]]
  <2>1. ASSUME NEW i \in D, NEW r \in S
        PROVE  (IF i \in stops THEN r
                ELSE [value |-> bytes[i] - 128 + 128 * r.value, next |-> r.next]) \in S
    <3>0. i \notin stops => i \in 1..L
      BY <1>3, <1>5
    <3>1. i \notin stops => bytes[i] \in Int
      BY <1>2, <3>0
    <3>2. r.value \in Int /\ r.next \in Int
      BY <1>4
    <3>3. i \notin stops => bytes[i] - 128 + 128 * r.value \in Int
      BY <3>1, <3>2
    <3> QED
      BY <1>4, <3>2, <3>3
  <2> QED
    BY <1>8, <2>1
<1>10. PICK measure : measure = [i \in D |-> L + 1 - i]
  OBVIOUS
<1>11. PICK jump : jump = [i \in D |-> IF i \in stops THEN i ELSE i + 1]
  OBVIOUS
<1>12. measure \in [D -> Nat] /\ jump \in [D -> D]
  BY <1>1, <1>3, <1>5, <1>10, <1>11
<1>13. \A i \in D : i \notin stops => measure[jump[i]] < measure[i]
  BY <1>1, <1>3, <1>5, <1>10, <1>11
<1>14. PICK f : Solution(f, D, S, stops, start, step, jump)
  BY <1>7, <1>9, <1>12, <1>13, JumpRecursion
<1>15. ASSUME NEW i \in 1..(Len(bytes) + 1)
       PROVE  f[i] = IF i > Len(bytes) THEN [value |-> 0, next |-> i]
                     ELSE IF bytes[i] < 128 THEN [value |-> bytes[i], next |-> i + 1]
                     ELSE LET higher == f[i + 1]
                          IN [value |-> bytes[i] - 128 + 128 * higher.value, next |-> higher.next]
  <2>1. i \in D
    BY <1>1, <1>3
  <2>2. f[i] = IF i \in stops THEN start[i] ELSE step[i][f[jump[i]]]
    BY <1>14, <2>1 DEF Solution
  <2>3. CASE i \in stops
    BY <1>1, <1>5, <1>6, <2>1, <2>2, <2>3
  <2>4. CASE i \notin stops
    <3>1. f[jump[i]] \in S
      BY <1>12, <1>14, <2>1 DEF Solution
    <3>2. i <= L /\ ~ (bytes[i] < 128) /\ jump[i] = i + 1
      BY <1>1, <1>5, <1>11, <2>1, <2>4
    <3>3. step[i][f[i + 1]] = [value |-> bytes[i] - 128 + 128 * f[i + 1].value, next |-> f[i + 1].next]
      BY <1>8, <2>1, <2>4, <3>1, <3>2
    <3> QED
      BY <1>1, <2>2, <2>4, <3>2, <3>3
  <2> QED
    BY <2>3, <2>4
<1>16. f = [i \in 1..(Len(bytes) + 1) |-> f[i]]
  BY <1>1, <1>3, <1>14 DEF Solution
<1>17. Eq(f)
  BY <1>15, <1>16
<1>18. PICK number : number = (CHOOSE g : Eq(g)) /\ \A i : Number(bytes, i) = number[i]
  BY DEF Number
<1>19. Eq(number)
  <2> HIDE DEF Eq
  <2> QED
    BY <1>17, <1>18
<1>20. \A i : Number(bytes, i) = number[i]
  <2> HIDE DEF Eq
  <2> QED
    BY <1>18
<1>21. ASSUME NEW i \in 1..(L + 1)
       PROVE  Number(bytes, i) = NumberFrom(bytes, i, Number(bytes, i + 1))
  <2>1. number[i] = NumberFrom(bytes, i, number[i + 1])
    BY <1>1, <1>19 DEF NumberFrom
  <2> HIDE DEF Eq
  <2> QED
    BY <1>20, <2>1
<1> DEFINE Fine(i) == /\ Number(bytes, i).value \in Nat
                      /\ Number(bytes, i).next \in i..(L + 1)
                      /\ i <= L => Number(bytes, i).next > i
<1> HIDE DEF Eq
<1>22. PICK fine : fine = {n \in Nat : \A i \in 1..(L + 1) : L + 1 - i = n => Fine(i)}
  OBVIOUS
<1>23. 0 \in fine
  <2>1. ASSUME NEW i \in 1..(L + 1), L + 1 - i = 0 PROVE Fine(i)
    BY <1>1, <1>21, <2>1 DEF NumberFrom
  <2> QED
    BY <1>22, <2>1
<1>24. ASSUME NEW n \in Nat, n \in fine PROVE n + 1 \in fine
  <2>1. ASSUME NEW i \in 1..(L + 1), L + 1 - i = n + 1 PROVE Fine(i)
    <3>1. i <= L /\ i + 1 \in 1..(L + 1) /\ L + 1 - (i + 1) = n
      BY <2>1
    <3>2. Fine(i + 1)
      BY <1>22, <1>24, <3>1
    <3>3. bytes[i] \in Nat
      BY <1>2, <2>1, <3>1
    <3>4. Number(bytes, i) = NumberFrom(bytes, i, Number(bytes, i + 1))
      BY <1>21
    <3>5. PICK higher : higher = Number(bytes, i + 1)
      OBVIOUS
    <3>6. higher.value \in Nat /\ higher.next \in (i + 1)..(L + 1)
      BY <3>2, <3>5
    <3>7. CASE bytes[i] < 128
      <4>1. Number(bytes, i) = [value |-> bytes[i], next |-> i + 1]
        BY <1>1, <3>1, <3>4, <3>7 DEF NumberFrom
      <4>2. PICK b \in Nat : b = bytes[i]
        BY <3>3
      <4>3. PICK r : r = Number(bytes, i) /\ r.value \in Nat /\ r.next = i + 1
        BY <4>1, <4>2
      <4>4. r.next \in i..(L + 1) /\ r.next > i
        BY <3>1, <4>3
      <4> QED
        BY <4>3, <4>4
    <3>8. CASE ~ (bytes[i] < 128)
      <4>1. Number(bytes, i) = [value |-> bytes[i] - 128 + 128 * higher.value, next |-> higher.next]
        BY <1>1, <3>1, <3>4, <3>5, <3>8 DEF NumberFrom
      <4>2. PICK b \in Nat : b = bytes[i] - 128 + 128 * higher.value
        <5>1. PICK c \in Nat : c = bytes[i] /\ c >= 128
          BY <3>3, <3>8
        <5> QED
          BY <3>6, <5>1
      <4>3. PICK r : r = Number(bytes, i) /\ r.value \in Nat /\ r.next = higher.next
        BY <4>1, <4>2
      <4>4. r.next \in i..(L + 1) /\ r.next > i
        BY <3>1, <3>6, <4>3
      <4> QED
        BY <4>3, <4>4
    <3> QED
      BY <3>7, <3>8
  <2> QED
    BY <1>22, <2>1
<1>25. \A n \in Nat : n \in fine
  BY <1>23, <1>24, Induction
<1>26. ASSUME NEW i \in 1..(L + 1) PROVE Fine(i)
  <2>1. L + 1 - i \in Nat
    OBVIOUS
  <2> QED
    BY <1>22, <1>25, <2>1
<1> QED
  BY <1>1, <1>21, <1>26

\* A list that stands at a position of another.
Holds(bytes, at, list) ==
  /\ at \in 1..(Len(bytes) + 1) /\ at + Len(list) <= Len(bytes) + 1
  /\ \A i \in 1..Len(list) : bytes[at + i - 1] = list[i]

LEMMA HoldsJoined ==
  ASSUME NEW S, NEW bytes \in Seq(S), NEW at, NEW left \in Seq(S), NEW right \in Seq(S)
  PROVE  Holds(bytes, at, left \o right) <=>
           Holds(bytes, at, left) /\ Holds(bytes, at + Len(left), right)
<1>1. /\ Len(left) \in Nat /\ Len(right) \in Nat /\ Len(left \o right) = Len(left) + Len(right)
      /\ \A i \in 1..(Len(left) + Len(right)) :
           (left \o right)[i] = IF i <= Len(left) THEN left[i] ELSE right[i - Len(left)]
  OBVIOUS
<1>2. Len(bytes) \in Nat
  OBVIOUS
<1>3. ASSUME Holds(bytes, at, left \o right)
      PROVE  Holds(bytes, at, left) /\ Holds(bytes, at + Len(left), right)
  <2>1. \A i \in 1..Len(left) : bytes[at + i - 1] = left[i]
    BY <1>1, <1>3 DEF Holds
  <2>2. ASSUME NEW i \in 1..Len(right) PROVE bytes[at + Len(left) + i - 1] = right[i]
    <3>1. Len(left) + i \in 1..(Len(left) + Len(right)) /\ Len(left) + i > Len(left)
          /\ (Len(left) + i) - Len(left) = i
      BY <1>1
    <3>2. bytes[at + (Len(left) + i) - 1] = (left \o right)[Len(left) + i]
      BY <1>1, <1>3, <3>1 DEF Holds
    <3>3. at \in Int /\ at + (Len(left) + i) - 1 = at + Len(left) + i - 1
      BY <1>1, <1>3 DEF Holds
    <3> QED
      BY <1>1, <3>1, <3>2, <3>3
  <2> QED
    BY <1>1, <1>2, <1>3, <2>1, <2>2 DEF Holds
<1>4. ASSUME Holds(bytes, at, left), Holds(bytes, at + Len(left), right)
      PROVE  Holds(bytes, at, left \o right)
  <2>1. ASSUME NEW i \in 1..(Len(left) + Len(right)) PROVE bytes[at + i - 1] = (left \o right)[i]
    <3>1. CASE i <= Len(left)
      BY <1>1, <1>4, <3>1 DEF Holds
    <3>2. CASE i > Len(left)
      <4>1. i - Len(left) \in 1..Len(right) /\ at \in Int
        BY <1>1, <1>4, <3>2 DEF Holds
      <4>2. bytes[at + Len(left) + (i - Len(left)) - 1] = right[i - Len(left)]
        BY <1>4, <4>1 DEF Holds
      <4>3. at + Len(left) + (i - Len(left)) - 1 = at + i - 1
        BY <1>1, <4>1
      <4> QED
        BY <1>1, <3>2, <4>2, <4>3
    <3> QED
      BY <1>1, <3>1, <3>2
  <2> QED
    BY <1>1, <1>2, <1>4, <2>1 DEF Holds
<1> QED
  BY <1>3, <1>4

\* Wherever the bytes of a number stand, and whatever follows them, the reader gets the
\* number and the position after it (sdk/metric_envelope.go:247-291).
THEOREM NumberRead ==
  ASSUME NEW bytes \in Seq(Byte)
  PROVE  \A n \in Nat : \A at : Holds(bytes, at, Uvarint(n)) =>
           Number(bytes, at) = [value |-> n, next |-> at + Len(Uvarint(n))]
<1> DEFINE Read(n) == \A at : Holds(bytes, at, Uvarint(n)) =>
                        Number(bytes, at) = [value |-> n, next |-> at + Len(Uvarint(n))]
<1>1. PICK good : good = {n \in Nat : Read(n)}
  OBVIOUS
<1>2. ASSUME NEW n \in Nat, \A k \in 0..(n - 1) : k \in good PROVE n \in good
  <2> SUFFICES ASSUME NEW at, Holds(bytes, at, Uvarint(n))
               PROVE  Number(bytes, at) = [value |-> n, next |-> at + Len(Uvarint(n))]
    BY <1>1
  <2>1. PICK u \in Seq(Byte) : u = Uvarint(n) /\ Holds(bytes, at, u)
    BY UvarintEquation
  <2>2. Len(bytes) \in Nat /\ at \in 1..(Len(bytes) + 1)
    BY <2>1 DEF Holds
  <2>3. Number(bytes, at) = NumberFrom(bytes, at, Number(bytes, at + 1))
    BY <2>2, NumberEquation
  <2>4. CASE n < 128
    <3>1. u = <<n>>
      BY <2>1, <2>4, UvarintEquation
    <3>2. Len(u) = 1 /\ u[1] = n
      BY <3>1
    <3>3. at <= Len(bytes) /\ bytes[at] = n
      <4>1. 1 \in 1..Len(u) /\ at + 1 - 1 = at
        BY <2>2, <3>2
      <4>2. bytes[at + 1 - 1] = u[1]
        BY <2>1, <4>1 DEF Holds
      <4> QED
        BY <2>1, <2>2, <3>2, <4>1, <4>2 DEF Holds
    <3>4. NumberFrom(bytes, at, Number(bytes, at + 1)) = [value |-> n, next |-> at + 1]
      BY <2>2, <2>4, <3>3 DEF NumberFrom
    <3> QED
      BY <2>1, <2>3, <3>2, <3>4
  <2>5. CASE ~ (n < 128)
    <3>1. PICK high \in Nat : high = n \div 128 /\ high \in 0..(n - 1)
      BY <2>5, Groups
    <3>2. PICK low \in 0..127 : low = n % 128 /\ 128 * high + low = n
      BY <2>5, <3>1, Groups
    <3>3. PICK first \in Seq(Byte) : first = <<128 + low>>
      <4>1. PICK b \in Byte : b = 128 + low
        BY DEF Byte
      <4>2. <<b>> \in Seq(Byte)
        OBVIOUS
      <4> QED
        BY <4>1, <4>2
    <3>4. PICK rest \in Seq(Byte) : rest = Uvarint(high)
      BY UvarintEquation
    <3>5. u = first \o rest
      BY <2>1, <2>5, <3>1, <3>2, <3>3, <3>4, UvarintEquation
    <3>6. Holds(bytes, at, first) /\ Holds(bytes, at + Len(first), rest)
      BY <2>1, <3>5, HoldsJoined
    <3>7. Len(first) = 1 /\ first[1] = 128 + low
      BY <3>3
    <3>8. at <= Len(bytes) /\ bytes[at] = 128 + low
      <4>1. 1 \in 1..Len(first) /\ at + 1 - 1 = at
        BY <2>2, <3>7
      <4>2. bytes[at + 1 - 1] = first[1]
        BY <3>6, <4>1 DEF Holds
      <4> QED
        BY <2>2, <3>6, <3>7, <4>1, <4>2 DEF Holds
    <3>9. PICK higher : higher = Number(bytes, at + 1)
      OBVIOUS
    <3>10. higher = [value |-> high, next |-> at + 1 + Len(rest)]
      <4>1. high \in good
        BY <1>2, <3>1
      <4> QED
        BY <1>1, <3>4, <3>6, <3>7, <3>9, <4>1
    <3>11. NumberFrom(bytes, at, higher) = [value |-> n, next |-> at + 1 + Len(rest)]
      <4>1. NumberFrom(bytes, at, higher) =
              [value |-> bytes[at] - 128 + 128 * higher.value, next |-> higher.next]
        BY <2>2, <3>8 DEF NumberFrom
      <4>2. higher.value = high /\ higher.next = at + 1 + Len(rest)
        BY <3>10
      <4>3. bytes[at] - 128 + 128 * high = n
        BY <3>2, <3>8
      <4> QED
        BY <4>1, <4>2, <4>3
    <3>12. Len(u) = 1 + Len(rest) /\ Len(rest) \in Nat
      <4>1. Len(first \o rest) = Len(first) + Len(rest) /\ Len(rest) \in Nat
        OBVIOUS
      <4> QED
        BY <3>5, <3>7, <4>1
    <3>13. at + 1 + Len(rest) = at + Len(u)
      BY <2>2, <3>12
    <3> QED
      BY <2>1, <2>3, <3>9, <3>11, <3>13
  <2> QED
    BY <2>4, <2>5
<1>3. \A n \in Nat : n \in good
  <2> HIDE DEF Read
  <2> QED
    BY <1>2, StrongInduction
<1> QED
  BY <1>1, <1>3

-----------------------------------------------------------------------------
(* Lists. *)

\* Sets that hold the empty list, and with a list whatever appending makes of it, hold every list.
LEMMA ListInduction ==
  ASSUME NEW S, NEW G, << >> \in G, \A s \in Seq(S) : \A x \in S : s \in G => Append(s, x) \in G
  PROVE  \A s \in Seq(S) : s \in G
<1>1. PICK good : good = {n \in Nat : \A s \in Seq(S) : Len(s) = n => s \in G}
  OBVIOUS
<1>2. 0 \in good
  <2>1. \A s \in Seq(S) : Len(s) = 0 => s = << >>
    OBVIOUS
  <2> QED
    BY <1>1, <2>1
<1>3. ASSUME NEW n \in Nat, n \in good PROVE n + 1 \in good
  <2>1. ASSUME NEW s \in Seq(S), Len(s) = n + 1 PROVE s \in G
    <3>1. s # << >>
      BY <2>1
    <3>2. PICK t \in Seq(S), x \in S : s = Append(t, x)
      BY <3>1, SequenceEmptyOrAppend
    <3>3. Len(t) = n
      BY <2>1, <3>2, AppendProperties
    <3> QED
      BY <1>1, <1>3, <3>2, <3>3
  <2> QED
    BY <1>1, <2>1
<1>4. \A n \in Nat : n \in good
  BY <1>2, <1>3, Induction
<1>5. ASSUME NEW s \in Seq(S) PROVE s \in G
  <2>1. Len(s) \in Nat
    OBVIOUS
  <2> QED
    BY <1>1, <1>4, <2>1
<1> QED
  BY <1>5

\* The running concatenations of a list of lists.
Sums(f, S, seqs) ==
  /\ f \in [Nat -> Seq(S)] /\ f[0] = << >>
  /\ \A n \in 1..Len(seqs) : f[n] = f[n - 1] \o seqs[n]

\* FlattenSeq is the last of them.
LEMMA FlattenIsASum ==
  ASSUME NEW S, NEW seqs \in Seq(Seq(S))
  PROVE  \E f : Sums(f, S, seqs) /\ FlattenSeq(seqs) = f[Len(seqs)]
<1> DEFINE Next0(f, n) == IF n = 1 THEN seqs[n] ELSE f[n - 1] \o seqs[n]
<1>1. Len(seqs) \in Nat /\ DOMAIN seqs = 1..Len(seqs) /\ \A n \in DOMAIN seqs : seqs[n] \in Seq(S)
  OBVIOUS
<1>2. PICK T : T = Seq(S)
  OBVIOUS
<1>3. PICK step : step = [n \in Nat |-> [list \in T |->
                            IF n \in DOMAIN seqs THEN list \o seqs[n] ELSE list]]
  OBVIOUS
<1>4. step \in StepsOn(T)
  <2>1. ASSUME NEW n \in Nat, NEW list \in T
        PROVE  (IF n \in DOMAIN seqs THEN list \o seqs[n] ELSE list) \in T
    BY <1>1, <1>2
  <2> QED
    BY <1>3, <2>1 DEF StepsOn
<1>5. PICK start \in T : start = << >>
  <2>1. << >> \in Seq(S)
    OBVIOUS
  <2> QED
    BY <1>2, <2>1
<1>6. PICK f : Follows(f, T, start, step)
  BY <1>4, Recursion
<1>7. \A n \in Nat : f[n] \in Seq(S)
  BY <1>2, <1>6 DEF Follows
<1>8. ASSUME NEW n \in 1..Len(seqs)
      PROVE  f[n] = f[n - 1] \o seqs[n] /\ f[n] = Next0(f, n)
  <2>1. n - 1 \in Nat /\ (n - 1) + 1 = n /\ n \in DOMAIN seqs /\ n \in Nat
    BY <1>1
  <2>2. f[n] = step[n][f[n - 1]] /\ f[n - 1] \in T
    BY <1>6, <2>1 DEF Follows
  <2>3. f[n] = f[n - 1] \o seqs[n]
    BY <1>3, <2>1, <2>2
  <2>4. n = 1 => f[n - 1] = << >>
    BY <1>5, <1>6 DEF Follows
  <2>5. << >> \o seqs[n] = seqs[n]
    BY <1>1, <2>1, ConcatEmptySeq
  <2> QED
    BY <1>1, <2>1, <2>3, <2>4, <2>5
<1>9. Sums(f, S, seqs)
  BY <1>2, <1>5, <1>6, <1>8 DEF Follows, Sums
<1>10. CASE Len(seqs) = 0
  <2>1. FlattenSeq(seqs) = seqs /\ seqs = << >>
    BY <1>10 DEF FlattenSeq
  <2> QED
    BY <1>9, <1>10, <2>1 DEF Sums
<1>11. CASE Len(seqs) # 0
  <2>1. PICK g : g = [n \in 1..Len(seqs) |-> f[n]]
    OBVIOUS
  <2>2. g = [n \in 1..Len(seqs) |-> Next0(g, n)]
    <3>1. ASSUME NEW n \in 1..Len(seqs) PROVE g[n] = Next0(g, n)
      BY <1>1, <1>8, <2>1
    <3> QED
      BY <2>1, <3>1
  <2>3. PICK flat : /\ flat = CHOOSE k : k = [n \in 1..Len(seqs) |-> Next0(k, n)]
                    /\ FlattenSeq(seqs) = flat[Len(seqs)]
    BY <1>11 DEF FlattenSeq
  <2>4. flat = [n \in 1..Len(seqs) |-> Next0(flat, n)]
    BY <2>2, <2>3
  <2>5. PICK fine : fine = {m \in Nat : m \in 1..Len(seqs) => flat[m] = f[m]}
    OBVIOUS
  <2>6. 0 \in fine
    BY <2>5
  <2>7. ASSUME NEW m \in Nat, m \in fine PROVE m + 1 \in fine
    <3> SUFFICES ASSUME m + 1 \in 1..Len(seqs) PROVE flat[m + 1] = f[m + 1]
      BY <2>5
    <3>1. flat[m + 1] = Next0(flat, m + 1)
      BY <2>4
    <3>2. f[m + 1] = Next0(f, m + 1)
      BY <1>8
    <3>3. m + 1 = 1 \/ (m \in 1..Len(seqs) /\ (m + 1) - 1 = m)
      BY <1>1
    <3>4. m \in 1..Len(seqs) => flat[m] = f[m]
      BY <2>5, <2>7
    <3> QED
      BY <3>1, <3>2, <3>3, <3>4
  <2>8. \A m \in Nat : m \in fine
    BY <2>6, <2>7, Induction
  <2>9. flat[Len(seqs)] = f[Len(seqs)]
    BY <1>1, <1>11, <2>5, <2>8
  <2> QED
    BY <1>9, <2>3, <2>9
<1> QED
  BY <1>10, <1>11

LEMMA FlattenOfNone == FlattenSeq(<< >>) = << >>
  BY DEF FlattenSeq

LEMMA FlattenAppend ==
  ASSUME NEW S, NEW seqs \in Seq(Seq(S)), NEW last \in Seq(S)
  PROVE  FlattenSeq(seqs) \in Seq(S) /\ FlattenSeq(Append(seqs, last)) = FlattenSeq(seqs) \o last
<1>1. PICK T : T = Seq(S)
  OBVIOUS
<1>2. PICK more \in Seq(T) : more = Append(seqs, last)
  BY <1>1, AppendProperties
<1>3. PICK f : Sums(f, S, seqs) /\ FlattenSeq(seqs) = f[Len(seqs)]
  BY FlattenIsASum
<1>4. PICK g : Sums(g, S, more) /\ FlattenSeq(more) = g[Len(more)]
  BY <1>1, FlattenIsASum
<1>5. PICK L \in Nat : L = Len(seqs) /\ Len(more) = L + 1
  BY <1>1, <1>2, AppendProperties
<1>6. more[L + 1] = last /\ \A n \in 1..L : more[n] = seqs[n]
  BY <1>1, <1>2, <1>5, AppendProperties
<1>7. PICK same : same = {n \in Nat : n <= L => f[n] = g[n]}
  OBVIOUS
<1>8. 0 \in same
  BY <1>3, <1>4, <1>7 DEF Sums
<1>9. ASSUME NEW n \in Nat, n \in same PROVE n + 1 \in same
  <2> SUFFICES ASSUME n + 1 <= L PROVE f[n + 1] = g[n + 1]
    BY <1>7
  <2>1. n + 1 \in 1..L /\ (n + 1) - 1 = n /\ n + 1 \in 1..(L + 1)
    OBVIOUS
  <2>2. f[n + 1] = f[(n + 1) - 1] \o seqs[n + 1]
    BY <1>3, <1>5, <2>1 DEF Sums
  <2>3. g[n + 1] = g[(n + 1) - 1] \o more[n + 1]
    BY <1>4, <1>5, <2>1 DEF Sums
  <2>4. f[n] = g[n] /\ more[n + 1] = seqs[n + 1]
    BY <1>6, <1>7, <1>9, <2>1
  <2>5. f[n + 1] = f[n] \o seqs[n + 1]
    BY <2>1, <2>2
  <2>6. g[n + 1] = g[n] \o more[n + 1]
    BY <2>1, <2>3
  <2> QED
    BY <2>4, <2>5, <2>6
<1>10. f[L] = g[L]
  <2>1. L \in same
    BY <1>8, <1>9, Induction
  <2> QED
    BY <1>7, <2>1
<1>11. g[L + 1] = g[L] \o last
  <2>1. L + 1 \in 1..Len(more) /\ (L + 1) - 1 = L
    BY <1>5
  <2> QED
    BY <1>4, <1>6, <2>1 DEF Sums
<1>12. f[L] \in Seq(S)
  BY <1>3 DEF Sums
<1> QED
  BY <1>2, <1>3, <1>4, <1>5, <1>10, <1>11, <1>12

EmptyList == << >>

LEMMA EmptyListIsAList == EmptyList = << >> /\ Len(EmptyList) = 0 /\ \A S : EmptyList \in Seq(S)
  BY DEF EmptyList

LEMMA ListOfLength ==
  ASSUME NEW S, NEW n \in Nat, NEW s \in [1..n -> S]
  PROVE  s \in Seq(S) /\ Len(s) = n /\ \A i \in 1..n : s[i] \in S
  OBVIOUS

\* What a function gives for each element, one after the other.
Gives(f, S, T) == f \in [S -> Seq(T)]
Each(f, list) == FlattenSeq([i \in 1..Len(list) |-> f[list[i]]])

LEMMA EachOfNone == \A f : Each(f, << >>) = << >>
<1> SUFFICES ASSUME NEW f PROVE Each(f, << >>) = << >>
  OBVIOUS
<1>1. [i \in 1..Len(<< >>) |-> f[<< >>[i]]] = << >>
  OBVIOUS
<1> QED
  BY <1>1, FlattenOfNone DEF Each

LEMMA EachAppend ==
  ASSUME NEW S, NEW T, NEW f, Gives(f, S, T), NEW list \in Seq(S), NEW last \in S
  PROVE  /\ f[last] \in Seq(T) /\ Each(f, list) \in Seq(T)
         /\ Each(f, Append(list, last)) = Each(f, list) \o f[last]
<1>0. \A x \in S : f[x] \in Seq(T)
  BY DEF Gives
<1>1. PICK P : P = Seq(T)
  OBVIOUS
<1>2. PICK n \in Nat : n = Len(list) /\ \A i \in 1..n : list[i] \in S
  OBVIOUS
<1>3. PICK parts : parts = [i \in 1..n |-> f[list[i]]]
  OBVIOUS
<1>4. parts \in Seq(P) /\ Len(parts) = n
  <2>1. \A i \in 1..n : f[list[i]] \in P
    BY <1>0, <1>1, <1>2
  <2>2. parts \in [1..n -> P]
    BY <1>3, <2>1
  <2> QED
    BY <2>2, ListOfLength
<1>5. PICK more \in Seq(S) : more = Append(list, last)
  BY AppendProperties
<1>6. /\ Len(more) = n + 1 /\ more[n + 1] = last
      /\ \A i \in 1..n : more[i] = list[i]
  BY <1>2, <1>5, AppendProperties
<1>7. f[last] \in P
  BY <1>0, <1>1
<1>8. [i \in 1..(n + 1) |-> f[more[i]]] = Append(parts, f[last])
  <2>1. PICK left : left = [i \in 1..(n + 1) |-> f[more[i]]]
    OBVIOUS
  <2>2. left \in Seq(P) /\ Len(left) = n + 1
    <3>1. \A i \in 1..(n + 1) : more[i] \in S
      BY <1>2, <1>5, <1>6
    <3>2. \A i \in 1..(n + 1) : f[more[i]] \in P
      BY <1>0, <1>1, <3>1
    <3>3. left \in [1..(n + 1) -> P] /\ n + 1 \in Nat
      BY <2>1, <3>2
    <3> QED
      BY <3>3, ListOfLength
  <2>3. PICK right \in Seq(P) : right = Append(parts, f[last])
    BY <1>4, <1>7, AppendProperties
  <2>4. Len(right) = n + 1 /\ right[n + 1] = f[last] /\ \A i \in 1..n : right[i] = parts[i]
    BY <1>4, <1>7, <2>3, AppendProperties
  <2>5. ASSUME NEW i \in 1..(n + 1) PROVE left[i] = right[i]
    <3>1. left[i] = f[more[i]]
      BY <2>1
    <3>2. CASE i = n + 1
      BY <1>6, <2>4, <3>1, <3>2
    <3>3. CASE i # n + 1
      <4>1. i \in 1..n
        BY <3>3
      <4>2. right[i] = parts[i] /\ more[i] = list[i]
        BY <1>6, <2>4, <4>1
      <4> QED
        BY <1>3, <3>1, <4>1, <4>2
    <3> QED
      BY <3>2, <3>3
  <2>6. left = right
    BY <2>2, <2>3, <2>4, <2>5, SeqEqual
  <2> QED
    BY <2>1, <2>3, <2>6
<1>9. FlattenSeq(parts) \in Seq(T) /\ FlattenSeq(Append(parts, f[last])) = FlattenSeq(parts) \o f[last]
  BY <1>0, <1>1, <1>4, FlattenAppend
<1>10. Each(f, list) = FlattenSeq(parts)
  BY <1>2, <1>3 DEF Each
<1>11. Each(f, more) = FlattenSeq(Append(parts, f[last]))
  BY <1>6, <1>8 DEF Each
<1> QED
  BY <1>0, <1>5, <1>9, <1>10, <1>11

LEMMA EachType ==
  ASSUME NEW S, NEW T, NEW f, Gives(f, S, T), NEW list \in Seq(S)
  PROVE  Each(f, list) \in Seq(T)
<1>1. CASE list = << >>
  <2>1. << >> \in Seq(T)
    OBVIOUS
  <2> QED
    BY <1>1, <2>1, EachOfNone
<1>2. CASE list # << >>
  <2>1. PICK s \in Seq(S), x \in S : list = Append(s, x)
    BY <1>2, SequenceEmptyOrAppend
  <2> QED
    BY <2>1, EachAppend
<1> QED
  BY <1>1, <1>2

LEMMA FlattenType ==
  ASSUME NEW S, NEW seqs \in Seq(Seq(S))
  PROVE  FlattenSeq(seqs) \in Seq(S)
<1>1. << >> \in Seq(S)
  OBVIOUS
<1> QED
  BY <1>1, FlattenAppend

LEMMA EachOfOne ==
  ASSUME NEW S, NEW T, NEW f, Gives(f, S, T), NEW x \in S
  PROVE  Each(f, <<x>>) = f[x]
<1>1. Append(EmptyList, x) = <<x>>
  <2>1. Append(<< >>, x) = <<x>>
    OBVIOUS
  <2> QED
    BY <2>1, EmptyListIsAList
<1>2. f[x] \in Seq(T) /\ Each(f, Append(EmptyList, x)) = Each(f, EmptyList) \o f[x]
  <2>1. EmptyList \in Seq(S)
    BY EmptyListIsAList
  <2> QED
    BY <2>1, EachAppend
<1>3. Each(f, EmptyList) = << >>
  BY EmptyListIsAList, EachOfNone
<1>4. << >> \o f[x] = f[x]
  BY <1>2, ConcatEmptySeq
<1> QED
  BY <1>1, <1>2, <1>3, <1>4

LEMMA EachJoined ==
  ASSUME NEW S, NEW T, NEW f, Gives(f, S, T), NEW left \in Seq(S), NEW right \in Seq(S)
  PROVE  Each(f, left \o right) = Each(f, left) \o Each(f, right)
<1>0. PICK l \in Seq(T) : l = Each(f, left)
  BY EachType
<1>1. PICK G : G = {r \in Seq(S) : Each(f, left \o r) = l \o Each(f, r)}
  OBVIOUS
<1>2. << >> \in G
  <2>1. EmptyList = << >> /\ EmptyList \in Seq(S)
    BY EmptyListIsAList
  <2>2. left \o << >> = left /\ l \o << >> = l
    BY ConcatEmptySeq
  <2>3. Each(f, << >>) = << >>
    BY EachOfNone
  <2> QED
    BY <1>0, <1>1, <2>1, <2>2, <2>3
<1>3. ASSUME NEW r \in Seq(S), NEW x \in S, r \in G PROVE Append(r, x) \in G
  <2>1. PICK both \in Seq(S) : both = left \o r
    BY ConcatProperties
  <2>2. Append(r, x) \in Seq(S)
    BY AppendProperties
  <2>3. left \o Append(r, x) = Append(both, x)
    <3>1. left \o Append(r, x) = Append(left \o r, x)
      OBVIOUS
    <3> QED
      BY <2>1, <3>1
  <2>4. Each(f, Append(both, x)) = Each(f, both) \o f[x]
    BY EachAppend
  <2>5. f[x] \in Seq(T) /\ Each(f, r) \in Seq(T) /\ Each(f, Append(r, x)) = Each(f, r) \o f[x]
    BY EachAppend
  <2>6. Each(f, both) = l \o Each(f, r)
    <3>1. Each(f, left \o r) = l \o Each(f, r)
      BY <1>1, <1>3
    <3> QED
      BY <2>1, <3>1
  <2>7. (l \o Each(f, r)) \o f[x] = l \o (Each(f, r) \o f[x])
    <3>1. PICK b \in Seq(T) : b = Each(f, r)
      BY <2>5
    <3>2. PICK c \in Seq(T) : c = f[x]
      BY <2>5
    <3>3. (l \o b) \o c = l \o (b \o c)
      OBVIOUS
    <3> QED
      BY <3>1, <3>2, <3>3
  <2> QED
    BY <1>1, <2>2, <2>3, <2>4, <2>5, <2>6, <2>7
<1>4. \A r \in Seq(S) : r \in G
  BY <1>2, <1>3, ListInduction
<1> QED
  BY <1>0, <1>1, <1>4

\* Of a list put together from parts.
EachPart(f, parts) == FlattenSeq([i \in 1..Len(parts) |-> Each(f, parts[i])])

LEMMA EachOfParts ==
  ASSUME NEW S, NEW T, NEW f, Gives(f, S, T), NEW parts \in Seq(Seq(S))
  PROVE  Each(f, FlattenSeq(parts)) = EachPart(f, parts)
<1>1. PICK P : P = Seq(S)
  OBVIOUS
<1>2. PICK h : h = [p \in P |-> Each(f, p)]
  OBVIOUS
<1>3. Gives(h, P, T)
  <2>1. \A p \in P : Each(f, p) \in Seq(T)
    BY <1>1, EachType
  <2> QED
    BY <1>2, <2>1 DEF Gives
<1>4. PICK G : G = {ps \in Seq(P) : Each(f, FlattenSeq(ps)) = Each(h, ps)}
  OBVIOUS
<1>5. << >> \in G
  <2>1. EmptyList \in Seq(P)
    BY EmptyListIsAList
  <2>2. FlattenSeq(EmptyList) = EmptyList /\ Each(f, EmptyList) = EmptyList /\ Each(h, EmptyList) = EmptyList
    BY EmptyListIsAList, EachOfNone, FlattenOfNone
  <2>3. EmptyList \in G
    BY <1>4, <2>1, <2>2
  <2> QED
    BY <2>3, EmptyListIsAList
<1>6. ASSUME NEW ps \in Seq(P), NEW p \in P, ps \in G PROVE Append(ps, p) \in G
  <2>1. PICK flat : flat = FlattenSeq(ps)
    OBVIOUS
  <2>2. flat \in Seq(S) /\ p \in Seq(S) /\ FlattenSeq(Append(ps, p)) = flat \o p
    BY <1>1, <2>1, FlattenAppend
  <2>3. Each(f, flat \o p) = Each(f, flat) \o Each(f, p)
    BY <2>2, EachJoined
  <2>4. Each(h, Append(ps, p)) = Each(h, ps) \o h[p]
    BY <1>3, EachAppend
  <2>5. Append(ps, p) \in Seq(P)
    BY AppendProperties
  <2>6. h[p] = Each(f, p) /\ Each(f, flat) = Each(h, ps)
    BY <1>2, <1>4, <1>6, <2>1
  <2> QED
    BY <1>4, <2>2, <2>3, <2>4, <2>5, <2>6
<1>7. parts \in G
  <2>1. \A ps \in Seq(P) : ps \in G
    BY <1>5, <1>6, ListInduction
  <2> QED
    BY <1>1, <2>1
<1>8. \A i \in 1..Len(parts) : parts[i] \in P
  BY <1>1
<1>9. [i \in 1..Len(parts) |-> h[parts[i]]] = [i \in 1..Len(parts) |-> Each(f, parts[i])]
  BY <1>2, <1>8
<1> QED
  BY <1>4, <1>7, <1>9 DEF Each, EachPart

\* Giving one element for each is a map.
LEMMA EachAlone ==
  ASSUME NEW S, NEW T, NEW f, Gives(f, S, T), NEW g \in [S -> T], \A x \in S : f[x] = <<g[x]>>,
         NEW list \in Seq(S)
  PROVE  Each(f, list) = [i \in 1..Len(list) |-> g[list[i]]]
<1>1. PICK G : G = {s \in Seq(S) : Each(f, s) = [i \in 1..Len(s) |-> g[s[i]]]}
  OBVIOUS
<1>2. << >> \in G
  <2>1. EmptyList \in Seq(S) /\ Len(EmptyList) = 0
    BY EmptyListIsAList
  <2>2. [i \in 1..Len(EmptyList) |-> g[EmptyList[i]]] = << >>
    BY <2>1
  <2>3. Each(f, EmptyList) = << >>
    BY EmptyListIsAList, EachOfNone
  <2>4. EmptyList \in G
    BY <1>1, <2>1, <2>2, <2>3
  <2> QED
    BY <2>4, EmptyListIsAList
<1>3. ASSUME NEW s \in Seq(S), NEW x \in S, s \in G PROVE Append(s, x) \in G
  <2>1. PICK more \in Seq(S) : more = Append(s, x)
    BY AppendProperties
  <2>2. PICK n \in Nat : n = Len(s) /\ \A i \in 1..n : s[i] \in S
    OBVIOUS
  <2>3. /\ Len(more) = n + 1 /\ more[n + 1] = x /\ \A i \in 1..n : more[i] = s[i]
    BY <2>1, <2>2, AppendProperties
  <2>4. PICK got : got = [i \in 1..n |-> g[s[i]]]
    OBVIOUS
  <2>5. got \in Seq(T) /\ Len(got) = n
    <3>1. got \in [1..n -> T]
      BY <2>2, <2>4
    <3> QED
      BY <3>1, ListOfLength
  <2>6. PICK y \in T : y = g[x]
    OBVIOUS
  <2>7. Each(f, more) = got \o <<y>>
    <3>1. Each(f, more) = Each(f, s) \o f[x]
      BY <2>1, EachAppend
    <3>2. Each(f, s) = got
      BY <1>1, <1>3, <2>2, <2>4
    <3> QED
      BY <2>6, <3>1, <3>2
  <2>8. PICK left : left = [i \in 1..(n + 1) |-> g[more[i]]]
    OBVIOUS
  <2>9. left \in Seq(T) /\ Len(left) = n + 1
    <3>1. \A i \in 1..(n + 1) : more[i] \in S
      BY <2>1, <2>3
    <3>2. left \in [1..(n + 1) -> T] /\ n + 1 \in Nat
      BY <2>8, <3>1
    <3> QED
      BY <3>2, ListOfLength
  <2>10. PICK right \in Seq(T) : right = Append(got, y)
    BY <2>5, AppendProperties
  <2>11. Len(right) = n + 1 /\ right[n + 1] = y /\ \A i \in 1..n : right[i] = got[i]
    BY <2>5, <2>10, AppendProperties
  <2>12. ASSUME NEW i \in 1..(n + 1) PROVE left[i] = right[i]
    <3>1. left[i] = g[more[i]]
      BY <2>8
    <3>2. CASE i = n + 1
      BY <2>3, <2>6, <2>11, <3>1, <3>2
    <3>3. CASE i # n + 1
      <4>1. i \in 1..n
        BY <3>3
      <4>2. right[i] = got[i] /\ more[i] = s[i]
        BY <2>3, <2>11, <4>1
      <4> QED
        BY <2>4, <3>1, <4>1, <4>2
    <3> QED
      BY <3>2, <3>3
  <2>13. left = right
    BY <2>9, <2>10, <2>11, <2>12, SeqEqual
  <2>14. right = got \o <<y>>
    BY <2>5, <2>10, AppendIsConcat
  <2> QED
    BY <1>1, <2>1, <2>3, <2>7, <2>8, <2>13, <2>14
<1>4. \A s \in Seq(S) : s \in G
  BY <1>2, <1>3, ListInduction
<1> QED
  BY <1>1, <1>4

LEMMA FlattenEmpty ==
  ASSUME NEW S, NEW parts \in Seq(Seq(S)), \A i \in 1..Len(parts) : parts[i] = << >>
  PROVE  FlattenSeq(parts) = << >>
<1>1. PICK f : Sums(f, S, parts) /\ FlattenSeq(parts) = f[Len(parts)]
  BY FlattenIsASum
<1>2. PICK L \in Nat : L = Len(parts)
  OBVIOUS
<1>3. PICK good : good = {n \in Nat : n <= L => f[n] = << >>}
  OBVIOUS
<1>4. 0 \in good
  BY <1>1, <1>3 DEF Sums
<1>5. ASSUME NEW n \in Nat, n \in good PROVE n + 1 \in good
  <2> SUFFICES ASSUME n + 1 <= L PROVE f[n + 1] = << >>
    BY <1>3
  <2>1. n + 1 \in 1..L /\ (n + 1) - 1 = n
    OBVIOUS
  <2>2. f[n + 1] = f[(n + 1) - 1] \o parts[n + 1]
    BY <1>1, <1>2, <2>1 DEF Sums
  <2>3. f[n + 1] = << >> \o << >>
    BY <1>2, <1>3, <1>5, <2>1, <2>2
  <2>4. << >> \o << >> = << >>
    OBVIOUS
  <2> QED
    BY <2>3, <2>4
<1>6. L \in good
  BY <1>4, <1>5, Induction
<1> QED
  BY <1>1, <1>2, <1>3, <1>6

LEMMA OnlyPart ==
  ASSUME NEW S, NEW parts \in Seq(Seq(S)), NEW at \in 1..Len(parts),
         \A i \in 1..Len(parts) : i # at => parts[i] = << >>
  PROVE  FlattenSeq(parts) = parts[at]
<1>1. PICK f : Sums(f, S, parts) /\ FlattenSeq(parts) = f[Len(parts)]
  BY FlattenIsASum
<1>2. PICK L \in Nat : L = Len(parts)
  OBVIOUS
<1>3. PICK x \in Seq(S) : x = parts[at]
  OBVIOUS
<1>4. PICK good : good = {n \in Nat : n <= L => f[n] = IF n < at THEN << >> ELSE x}
  OBVIOUS
<1>5. 0 \in good
  BY <1>1, <1>4 DEF Sums
<1>6. ASSUME NEW n \in Nat, n \in good PROVE n + 1 \in good
  <2> SUFFICES ASSUME n + 1 <= L PROVE f[n + 1] = IF n + 1 < at THEN << >> ELSE x
    BY <1>4
  <2>1. n + 1 \in 1..L /\ (n + 1) - 1 = n
    OBVIOUS
  <2>2. f[n + 1] = f[(n + 1) - 1] \o parts[n + 1]
    BY <1>1, <1>2, <2>1 DEF Sums
  <2>3. f[n] = IF n < at THEN << >> ELSE x
    BY <1>4, <1>6
  <2>4. << >> \o << >> = << >> /\ << >> \o x = x /\ x \o << >> = x
    <3>1. EmptyList \o << >> = EmptyList
      BY EmptyListIsAList, ConcatEmptySeq
    <3>2. << >> \o x = x /\ x \o << >> = x
      BY ConcatEmptySeq
    <3> QED
      BY <3>1, <3>2, EmptyListIsAList
  <2>5. CASE n + 1 = at
    <3>1. f[n] = << >> /\ parts[n + 1] = x
      BY <1>3, <2>3, <2>5
    <3> QED
      BY <2>1, <2>2, <2>4, <2>5, <3>1
  <2>6. CASE n + 1 # at
    <3>1. parts[n + 1] = << >> /\ (n < at <=> n + 1 < at)
      BY <1>2, <2>1, <2>6
    <3> QED
      BY <2>1, <2>2, <2>3, <2>4, <3>1
  <2> QED
    BY <2>5, <2>6
<1>7. L \in good
  BY <1>5, <1>6, Induction
<1> QED
  BY <1>1, <1>2, <1>3, <1>4, <1>7

-----------------------------------------------------------------------------
(* Fields. *)

\* A field carries a number, eight bytes or a list of bytes.
WireValues(wire) == IF wire = 0 THEN Nat ELSE IF wire = 1 THEN Double ELSE Text

WireField == {f \in [number: Nat, wire: 0..2, value: Nat \cup Text] : f.value \in WireValues(f.wire)}

\* A field as the encoder writes it.
Body(wire, value) ==
  IF wire = 0 THEN Uvarint(value) ELSE IF wire = 1 THEN value ELSE Uvarint(Len(value)) \o value
WrittenField(number, wire, value) == Tag(number, wire) \o Body(wire, value)

LEMMA DoubleIsText == \A d \in Double : d \in Seq(Byte) /\ d \in Text /\ Len(d) = 8
  BY ListOfLength DEF Double, Text

LEMMA UvarintLength == \A n \in Nat : Uvarint(n) \in Seq(Byte) /\ Len(Uvarint(n)) \in Nat \ {0}
<1> SUFFICES ASSUME NEW n \in Nat PROVE Uvarint(n) \in Seq(Byte) /\ Len(Uvarint(n)) \in Nat \ {0}
  OBVIOUS
<1>1. Uvarint(n) \in Seq(Byte)
  BY UvarintEquation
<1>2. CASE n < 128
  <2>1. Uvarint(n) = <<n>>
    BY <1>2, UvarintEquation
  <2> QED
    BY <1>1, <2>1
<1>3. CASE ~ (n < 128)
  <2>1. PICK high \in Nat : high = n \div 128
    BY <1>3, Groups
  <2>2. PICK rest \in Seq(Byte) : rest = Uvarint(high)
    BY UvarintEquation
  <2>3. PICK b \in Byte : b = 128 + (n % 128)
    BY DEF Byte
  <2>4. Uvarint(n) = <<b>> \o rest
    BY <1>3, <2>1, <2>2, <2>3, UvarintEquation
  <2>5. <<b>> \in Seq(Byte) /\ Len(<<b>>) = 1
    OBVIOUS
  <2>6. Len(<<b>> \o rest) = 1 + Len(rest) /\ Len(rest) \in Nat
    BY <2>5, ConcatProperties
  <2> QED
    BY <1>1, <2>4, <2>6
<1> QED
  BY <1>2, <1>3

LEMMA BodyType ==
  ASSUME NEW wire \in 0..2, NEW value \in WireValues(wire)
  PROVE  Body(wire, value) \in Seq(Byte)
<1>1. CASE wire = 0
  BY <1>1, UvarintLength DEF WireValues, Body
<1>2. CASE wire = 1
  BY <1>2, DoubleIsText DEF WireValues, Body
<1>3. CASE wire = 2
  <2>1. value \in Seq(Byte) /\ Len(value) \in Nat
    BY <1>3 DEF WireValues, Text
  <2>2. Uvarint(Len(value)) \in Seq(Byte)
    BY <2>1, UvarintLength
  <2>3. Uvarint(Len(value)) \o value \in Seq(Byte)
    BY <2>1, <2>2, ConcatProperties
  <2> QED
    BY <1>3, <2>3 DEF Body
<1> QED
  BY <1>1, <1>2, <1>3

LEMMA WrittenType ==
  ASSUME NEW number \in Nat, NEW wire \in 0..2, NEW value \in WireValues(wire)
  PROVE  /\ Tag(number, wire) \in Seq(Byte) /\ WrittenField(number, wire, value) \in Seq(Byte)
         /\ Len(Tag(number, wire)) \in Nat \ {0} /\ Len(Body(wire, value)) \in Nat
         /\ Len(WrittenField(number, wire, value)) = Len(Tag(number, wire)) + Len(Body(wire, value))
         /\ Len(WrittenField(number, wire, value)) \in Nat \ {0}
<1>1. PICK tag \in Seq(Byte) : tag = Tag(number, wire) /\ Len(tag) \in Nat \ {0}
  <2>1. number * 8 + wire \in Nat
    OBVIOUS
  <2> QED
    BY <2>1, UvarintLength DEF Tag
<1>2. PICK body \in Seq(Byte) : body = Body(wire, value)
  BY BodyType
<1>3. tag \o body \in Seq(Byte) /\ Len(tag \o body) = Len(tag) + Len(body) /\ Len(body) \in Nat
  BY ConcatProperties
<1> QED
  BY <1>1, <1>2, <1>3 DEF WrittenField

LEMMA HeldPart ==
  ASSUME NEW S, NEW bytes \in Seq(S), NEW list \in Seq(S), NEW at, Holds(bytes, at, list)
  PROVE  SubSeq(bytes, at, at + Len(list) - 1) = list
<1>1. PICK n \in Nat : n = Len(list)
  OBVIOUS
<1>2. PICK L \in Nat : L = Len(bytes) /\ \A i \in 1..L : bytes[i] \in S
  OBVIOUS
<1>3. at \in 1..(L + 1) /\ at + n <= L + 1 /\ \A i \in 1..n : bytes[at + i - 1] = list[i]
  BY <1>1, <1>2 DEF Holds
<1>4. PICK last \in Int : last = at + n - 1
  BY <1>3
<1>5. at \in Int /\ \A i \in at..last : bytes[i] \in S
  BY <1>2, <1>3, <1>4
<1>6. PICK part : part = SubSeq(bytes, at, last)
  OBVIOUS
<1>7. /\ part \in Seq(S) /\ Len(part) = IF at <= last THEN last - at + 1 ELSE 0
      /\ \A i \in 1..(last - at + 1) : part[i] = bytes[at + i - 1]
  BY <1>5, <1>6, SubSeqProperties
<1>8. last - at + 1 = n
  BY <1>3, <1>4
<1>9. Len(part) = n
  BY <1>3, <1>4, <1>7
<1>10. \A i \in 1..n : part[i] = list[i]
  BY <1>3, <1>7, <1>8
<1>11. part = list
  BY <1>1, <1>7, <1>9, <1>10, SeqEqual
<1> QED
  BY <1>1, <1>4, <1>6, <1>11

LEMMA TagParts ==
  ASSUME NEW number \in Nat, NEW wire \in 0..2
  PROVE  (number * 8 + wire) % 8 = wire /\ (number * 8 + wire) \div 8 = number
  OBVIOUS

\* A field is read where it was written.
LEMMA FieldRead ==
  ASSUME NEW bytes \in Seq(Byte), NEW number \in Nat, NEW wire \in 0..2,
         NEW value \in WireValues(wire), NEW at, Holds(bytes, at, WrittenField(number, wire, value))
  PROVE  /\ Header(bytes, at).end = at + Len(WrittenField(number, wire, value))
         /\ FieldAt(bytes, Header(bytes, at)) = [number |-> number, wire |-> wire, value |-> value]
<1>1. PICK t \in Nat : t = number * 8 + wire /\ t % 8 = wire /\ t \div 8 = number
  BY TagParts
<1>2. PICK tag \in Seq(Byte) : tag = Tag(number, wire) /\ tag = Uvarint(t)
  BY <1>1, UvarintLength DEF Tag
<1>3. PICK body \in Seq(Byte) : body = Body(wire, value)
  BY BodyType
<1>4. PICK m \in Nat : m = Len(tag)
  OBVIOUS
<1>5. PICK n \in Nat : n = Len(body) /\ Len(WrittenField(number, wire, value)) = m + n
  <2>1. Len(WrittenField(number, wire, value)) = Len(Tag(number, wire)) + Len(Body(wire, value))
    BY WrittenType
  <2>2. Len(body) \in Nat
    OBVIOUS
  <2> QED
    BY <1>2, <1>3, <1>4, <2>1, <2>2
<1>6. Holds(bytes, at, tag) /\ Holds(bytes, at + m, body)
  BY <1>2, <1>3, <1>4, HoldsJoined DEF WrittenField
<1>7. PICK first : first = Number(bytes, at) /\ first.value = t /\ first.next = at + m
  <2>1. Number(bytes, at) = [value |-> t, next |-> at + Len(Uvarint(t))]
    BY <1>2, <1>6, NumberRead
  <2> QED
    BY <1>2, <1>4, <2>1
<1>8. PICK after : after = Number(bytes, at + m)
  OBVIOUS
<1>9. at \in Nat /\ at + m \in Nat
  BY <1>6 DEF Holds
<1>10. PICK header : header = Header(bytes, at)
  OBVIOUS
<1>11. /\ header.number = number /\ header.wire = wire
       /\ header.start = IF wire = 2 THEN after.next ELSE at + m
       /\ header.end = IF wire = 0 THEN after.next
                       ELSE IF wire = 2 THEN after.next + after.value ELSE at + m + 8
  BY <1>1, <1>7, <1>8, <1>10 DEF Header
<1>12. PICK field : field = FieldAt(bytes, header)
  OBVIOUS
<1>13. field = [number |-> number, wire |-> wire,
                value |-> IF wire = 0 THEN Number(bytes, header.start).value
                          ELSE SubSeq(bytes, header.start, header.end - 1)]
  BY <1>11, <1>12 DEF FieldAt
<1> SUFFICES /\ header.end = at + (m + n)
             /\ (IF wire = 0 THEN Number(bytes, header.start).value
                 ELSE SubSeq(bytes, header.start, header.end - 1)) = value
  BY <1>5, <1>10, <1>12, <1>13
<1>14. CASE wire = 0
  <2>1. value \in Nat /\ body = Uvarint(value)
    BY <1>3, <1>14 DEF WireValues, Body
  <2>2. Number(bytes, at + m) = [value |-> value, next |-> at + m + Len(Uvarint(value))]
    BY <1>6, <2>1, NumberRead
  <2>3. after.value = value /\ after.next = at + m + n
    BY <1>5, <1>8, <2>1, <2>2
  <2> QED
    BY <1>8, <1>9, <1>11, <1>14, <2>3
<1>15. CASE wire = 1
  <2>1. value = body /\ n = 8
    <3>1. value \in Double /\ body = value
      BY <1>3, <1>15 DEF WireValues, Body
    <3> QED
      BY <1>5, <3>1, DoubleIsText
  <2>2. SubSeq(bytes, at + m, at + m + n - 1) = body
    BY <1>5, <1>6, HeldPart
  <2> QED
    BY <1>9, <1>11, <1>15, <2>1, <2>2
<1>16. CASE wire = 2
  <2>1. value \in Seq(Byte)
    BY <1>16 DEF WireValues, Text
  <2>2. PICK k \in Nat : k = Len(value)
    BY <2>1
  <2>3. PICK size \in Seq(Byte) : size = Uvarint(k)
    BY UvarintLength
  <2>4. body = size \o value
    BY <1>3, <1>16, <2>2, <2>3 DEF Body
  <2>5. PICK j \in Nat : j = Len(size)
    OBVIOUS
  <2>6. n = j + k
    BY <1>5, <2>1, <2>2, <2>4, <2>5, ConcatProperties
  <2>7. Holds(bytes, at + m, size) /\ Holds(bytes, at + m + j, value)
    BY <1>6, <2>1, <2>4, <2>5, HoldsJoined
  <2>8. Number(bytes, at + m) = [value |-> k, next |-> at + m + Len(Uvarint(k))]
    BY <2>3, <2>7, NumberRead
  <2>9. after.value = k /\ after.next = at + m + j
    BY <1>8, <2>3, <2>5, <2>8
  <2>10. SubSeq(bytes, at + m + j, at + m + j + k - 1) = value
    BY <2>1, <2>2, <2>7, HeldPart
  <2>11. header.start = at + m + j /\ header.end = at + m + j + k
    BY <1>11, <1>16, <2>9
  <2>12. at + m + j + k = at + (m + n)
    BY <1>9, <2>6
  <2>13. SubSeq(bytes, header.start, header.end - 1) = value
    <3>1. PICK s : s = header.start /\ s = at + m + j
      BY <2>11
    <3>2. PICK e : e = header.end - 1 /\ e = at + m + j + k - 1
      BY <1>9, <2>11
    <3> QED
      BY <2>10, <3>1, <3>2
  <2> QED
    BY <1>16, <2>11, <2>12, <2>13
<1> QED
  BY <1>14, <1>15, <1>16

\* Whatever the bytes, a field ends after it begins: the reader goes forward.
LEMMA HeaderEnds ==
  ASSUME NEW bytes \in Seq(Byte), NEW at \in 1..Len(bytes)
  PROVE  Header(bytes, at).end \in Nat /\ Header(bytes, at).end > at
<1>1. PICK L \in Nat : L = Len(bytes) /\ at \in 1..L
  OBVIOUS
<1>2. PICK tag : tag = Number(bytes, at)
  OBVIOUS
<1>3. tag.value \in Nat /\ tag.next \in at..(L + 1) /\ tag.next > at
  BY <1>1, <1>2, NumberEquation
<1>4. PICK next \in Nat : next = tag.next /\ next > at /\ next \in 1..(L + 1)
  BY <1>3
<1>5. PICK after : after = Number(bytes, next)
  OBVIOUS
<1>6. after.value \in Nat /\ after.next \in next..(L + 1)
  BY <1>1, <1>4, <1>5, NumberEquation
<1>7. PICK wire : wire = tag.value % 8
  OBVIOUS
<1>8. Header(bytes, at).end = IF wire = 0 THEN after.next
                              ELSE IF wire = 2 THEN after.next + after.value ELSE next + 8
  BY <1>2, <1>4, <1>5, <1>7 DEF Header
<1>9. after.next \in Nat /\ after.next > at /\ after.next + after.value \in Nat
      /\ after.next + after.value > at /\ next + 8 \in Nat /\ next + 8 > at
  BY <1>4, <1>6
<1> QED
  BY <1>8, <1>9

FieldsFrom(bytes, at, rest) ==
  IF at > Len(bytes) \/ Header(bytes, at).end > Len(bytes) + 1 THEN << >>
  ELSE <<FieldAt(bytes, Header(bytes, at))>> \o rest

LEMMA FieldsEquation ==
  ASSUME NEW bytes \in Seq(Byte)
  PROVE  \E fields : /\ Fields(bytes) = fields[1]
                     /\ \A at \in 1..(Len(bytes) + 1) :
                          fields[at] = FieldsFrom(bytes, at, fields[Header(bytes, at).end])
<1> DEFINE Eq(f) == f = [at \in 1..(Len(bytes) + 1) |->
                           LET header == Header(bytes, at) IN
                           IF at > Len(bytes) \/ header.end > Len(bytes) + 1 THEN << >>
                           ELSE <<FieldAt(bytes, header)>> \o f[header.end]]
<1>1. PICK L \in Nat : L = Len(bytes)
  OBVIOUS
<1>2. PICK D : D = 1..(L + 1)
  OBVIOUS
<1>3. PICK F : F = {FieldAt(bytes, Header(bytes, at)) : at \in D}
  OBVIOUS
<1>4. PICK S : S = Seq(F)
  OBVIOUS
<1>5. PICK stops : stops = {at \in D : at > L \/ Header(bytes, at).end > L + 1}
  OBVIOUS
<1>6. PICK start : start = [at \in D |-> << >>]
  OBVIOUS
<1>7. start \in [D -> S]
  <2>1. << >> \in Seq(F)
    OBVIOUS
  <2> QED
    BY <1>4, <1>6, <2>1
<1>8. PICK step : step = [at \in D |-> [s \in S |-> <<FieldAt(bytes, Header(bytes, at))>> \o s]]
  OBVIOUS
<1>9. step \in [D -> [S -> S]]
  <2>1. ASSUME NEW at \in D, NEW s \in S PROVE <<FieldAt(bytes, Header(bytes, at))>> \o s \in S
    <3>1. PICK x \in F : x = FieldAt(bytes, Header(bytes, at))
      BY <1>3
    <3>2. <<x>> \in Seq(F) /\ s \in Seq(F)
      BY <1>4
    <3>3. <<x>> \o s \in Seq(F)
      BY <3>2, ConcatProperties
    <3> QED
      BY <1>4, <3>1, <3>3
  <2> QED
    BY <1>8, <2>1
<1>10. PICK measure : measure = [at \in D |-> L + 1 - at]
  OBVIOUS
<1>11. PICK jump : jump = [at \in D |-> IF at \in stops THEN at ELSE Header(bytes, at).end]
  OBVIOUS
<1>12. \A at \in D : at \notin stops =>
         Header(bytes, at).end \in Nat /\ Header(bytes, at).end > at /\ Header(bytes, at).end <= L + 1
  <2> SUFFICES ASSUME NEW at \in D, at \notin stops
               PROVE  Header(bytes, at).end \in Nat /\ Header(bytes, at).end > at
                      /\ Header(bytes, at).end <= L + 1
    OBVIOUS
  <2>1. at \in 1..(L + 1) /\ ~ (at > L) /\ ~ (Header(bytes, at).end > L + 1)
    BY <1>2, <1>5
  <2>2. at \in 1..Len(bytes)
    BY <1>1, <2>1
  <2>3. Header(bytes, at).end \in Nat /\ Header(bytes, at).end > at
    BY <2>2, HeaderEnds
  <2> QED
    BY <2>1, <2>3
<1>13. measure \in [D -> Nat]
  BY <1>2, <1>10
<1>14. jump \in [D -> D]
  <2>1. \A at \in D : at \notin stops => Header(bytes, at).end \in D
    BY <1>2, <1>12
  <2> QED
    BY <1>11, <2>1
<1>15. \A at \in D : at \notin stops => measure[jump[at]] < measure[at]
  <2> SUFFICES ASSUME NEW at \in D, at \notin stops PROVE measure[jump[at]] < measure[at]
    OBVIOUS
  <2>1. PICK to \in D : to = jump[at] /\ to > at
    BY <1>11, <1>12, <1>14
  <2> QED
    BY <1>2, <1>10, <2>1
<1>16. PICK f : Solution(f, D, S, stops, start, step, jump)
  BY <1>7, <1>9, <1>13, <1>14, <1>15, JumpRecursion
<1>17. ASSUME NEW at \in D
       PROVE  f[at] = IF at > L \/ Header(bytes, at).end > L + 1 THEN << >>
                      ELSE <<FieldAt(bytes, Header(bytes, at))>> \o f[Header(bytes, at).end]
  <2>1. f[at] = IF at \in stops THEN start[at] ELSE step[at][f[jump[at]]]
    BY <1>16 DEF Solution
  <2>2. CASE at \in stops
    BY <1>5, <1>6, <2>1, <2>2
  <2>3. CASE at \notin stops
    <3>1. jump[at] = Header(bytes, at).end /\ f[jump[at]] \in S
      BY <1>11, <1>14, <1>16, <2>3 DEF Solution
    <3>2. step[at][f[jump[at]]] = <<FieldAt(bytes, Header(bytes, at))>> \o f[jump[at]]
      BY <1>8, <3>1
    <3>3. ~ (at > L \/ Header(bytes, at).end > L + 1)
      BY <1>5, <2>3
    <3> QED
      BY <2>1, <2>3, <3>1, <3>2, <3>3
  <2> QED
    BY <2>2, <2>3
<1>18. f = [at \in D |-> f[at]]
  BY <1>16 DEF Solution
<1>19. Eq(f)
  BY <1>1, <1>2, <1>17, <1>18
<1>20. PICK fields : fields = (CHOOSE g : Eq(g)) /\ Fields(bytes) = fields[1]
  BY DEF Fields
<1>21. Eq(fields)
  <2> HIDE DEF Eq
  <2> QED
    BY <1>19, <1>20
<1>22. \A at \in 1..(Len(bytes) + 1) :
         fields[at] = FieldsFrom(bytes, at, fields[Header(bytes, at).end])
  BY <1>21 DEF FieldsFrom
<1> HIDE DEF Eq
<1> QED
  BY <1>20, <1>22

\* A message is its fields, one after the other.
Encoding == [f \in WireField |-> WrittenField(f.number, f.wire, f.value)]
Message(list) == Each(Encoding, list)

LEMMA EncodingGives ==
  /\ Gives(Encoding, WireField, Byte)
  /\ \A list \in Seq(WireField) : Message(list) \in Seq(Byte)
<1>1. \A f \in WireField : WrittenField(f.number, f.wire, f.value) \in Seq(Byte)
  <2> SUFFICES ASSUME NEW f \in WireField PROVE WrittenField(f.number, f.wire, f.value) \in Seq(Byte)
    OBVIOUS
  <2>1. f.number \in Nat /\ f.wire \in 0..2 /\ f.value \in WireValues(f.wire)
    BY DEF WireField
  <2> QED
    BY <2>1, WrittenType
<1>2. Gives(Encoding, WireField, Byte)
  BY <1>1 DEF Gives, Encoding
<1> QED
  BY <1>2, EachType DEF Message

LEMMA HoldsAll == \A bytes \in Seq(Byte) : Holds(bytes, 1, bytes)
  BY DEF Holds

\* The fields of a message are read back in their order, each with its number, its wire
\* type and its value, for tags and lengths of any size (sdk/metric_envelope.go:229-291).
THEOREM FieldsRead ==
  ASSUME NEW list \in Seq(WireField)
  PROVE  Fields(Message(list)) = list
<1>1. PICK bytes \in Seq(Byte) : bytes = Message(list)
  BY EncodingGives
<1>2. PICK L \in Nat : L = Len(bytes)
  OBVIOUS
<1>3. PICK fields : /\ Fields(bytes) = fields[1]
                    /\ \A at \in 1..(L + 1) :
                         fields[at] = FieldsFrom(bytes, at, fields[Header(bytes, at).end])
  BY <1>2, FieldsEquation
<1>4. PICK good : good = {n \in Nat : \A rest \in Seq(WireField) : \A at :
                     Len(rest) = n /\ Holds(bytes, at, Message(rest)) /\ at + Len(Message(rest)) = L + 1
                       => fields[at] = rest}
  OBVIOUS
<1>5. 0 \in good
  <2> SUFFICES ASSUME NEW rest \in Seq(WireField), NEW at, Len(rest) = 0,
                      Holds(bytes, at, Message(rest)), at + Len(Message(rest)) = L + 1
               PROVE  fields[at] = rest
    BY <1>4
  <2>1. rest = << >>
    OBVIOUS
  <2>2. Len(Message(rest)) = 0
    BY <2>1, EachOfNone, EmptyListIsAList DEF Message
  <2>3. at \in 1..(L + 1) /\ at > L
    BY <1>2, <2>2 DEF Holds
  <2> QED
    BY <1>2, <1>3, <2>1, <2>3 DEF FieldsFrom
<1>6. ASSUME NEW n \in Nat, n \in good PROVE n + 1 \in good
  <2> SUFFICES ASSUME NEW list0 \in Seq(WireField), NEW at, Len(list0) = n + 1,
                      Holds(bytes, at, Message(list0)), at + Len(Message(list0)) = L + 1
               PROVE  fields[at] = list0
    BY <1>4
  <2>0. list0 # << >>
    OBVIOUS
  <2>1. PICK x \in WireField : x = Head(list0)
    BY <2>0, HeadTailProperties
  <2>2. PICK rest \in Seq(WireField) : rest = Tail(list0)
    BY <2>0, HeadTailProperties
  <2>02. Len(rest) = n
    <3>1. Len(Tail(list0)) = Len(list0) - 1
      BY <2>0, HeadTailProperties
    <3> QED
      BY <2>2, <3>1
  <2>3. <<x>> \in Seq(WireField) /\ list0 = <<x>> \o rest
    <3>1. <<x>> \in Seq(WireField) /\ list0 = <<Head(list0)>> \o Tail(list0)
      OBVIOUS
    <3> QED
      BY <2>1, <2>2, <3>1
  <2>4. PICK first \in Seq(Byte) : first = WrittenField(x.number, x.wire, x.value)
                                   /\ first = Message(<<x>>) /\ first = Encoding[x]
    <3>1. Encoding[x] \in Seq(Byte) /\ Encoding[x] = WrittenField(x.number, x.wire, x.value)
      BY EncodingGives DEF Gives, Encoding
    <3>2. Message(<<x>>) = Encoding[x]
      BY EncodingGives, EachOfOne DEF Message
    <3> QED
      BY <3>1, <3>2
  <2>5. PICK more \in Seq(Byte) : more = Message(rest)
    BY EncodingGives
  <2>6. Message(list0) = first \o more
    <3>1. PICK one \in Seq(WireField) : one = <<x>>
      BY <2>3
    <3>2. Each(Encoding, one \o rest) = Each(Encoding, one) \o Each(Encoding, rest)
      <4>1. PICK h : h = Encoding
        OBVIOUS
      <4>2. PICK F : F = WireField
        OBVIOUS
      <4>3. one \in Seq(F) /\ rest \in Seq(F) /\ Gives(h, F, Byte)
        BY <4>1, <4>2, EncodingGives
      <4>4. Each(h, one \o rest) = Each(h, one) \o Each(h, rest)
        BY <4>3, EachJoined
      <4> QED
        BY <4>1, <4>4
    <3> QED
      BY <2>3, <2>4, <2>5, <3>1, <3>2 DEF Message
  <2>7. Holds(bytes, at, first) /\ Holds(bytes, at + Len(first), more)
    BY <2>6, HoldsJoined
  <2>8. x.number \in Nat /\ x.wire \in 0..2 /\ x.value \in WireValues(x.wire)
    BY DEF WireField
  <2>9. Header(bytes, at).end = at + Len(first)
        /\ FieldAt(bytes, Header(bytes, at)) = [number |-> x.number, wire |-> x.wire, value |-> x.value]
    <3>1. Holds(bytes, at, WrittenField(x.number, x.wire, x.value))
      BY <2>4, <2>7
    <3>2. /\ Header(bytes, at).end = at + Len(WrittenField(x.number, x.wire, x.value))
          /\ FieldAt(bytes, Header(bytes, at)) = [number |-> x.number, wire |-> x.wire, value |-> x.value]
      BY <2>8, <3>1, FieldRead
    <3> QED
      BY <2>4, <3>2
  <2>10. Len(first) \in Nat \ {0}
    BY <2>4, <2>8, WrittenType
  <2>11. x = [number |-> x.number, wire |-> x.wire, value |-> x.value]
    BY DEF WireField
  <2>12. at \in 1..(L + 1) /\ at + Len(first) <= L + 1
    BY <1>2, <2>7 DEF Holds
  <2>13. at + Len(first) + Len(more) = L + 1
    <3>1. Len(first \o more) = Len(first) + Len(more) /\ Len(more) \in Nat
      BY ConcatProperties
    <3> QED
      BY <2>6, <2>10, <2>12, <3>1
  <2>14. fields[at + Len(first)] = rest
    BY <1>4, <1>6, <2>02, <2>5, <2>7, <2>13
  <2>15. ~ (at > L) /\ ~ (Header(bytes, at).end > L + 1)
    BY <2>9, <2>10, <2>12
  <2>16. fields[at] = <<x>> \o rest
    BY <1>2, <1>3, <2>9, <2>11, <2>12, <2>14, <2>15 DEF FieldsFrom
  <2> QED
    BY <2>3, <2>16
<1>7. Len(list) \in good
  <2>1. \A n \in Nat : n \in good
    BY <1>5, <1>6, Induction
  <2> QED
    BY <2>1
<1>8. Holds(bytes, 1, Message(list)) /\ 1 + Len(Message(list)) = L + 1
  BY <1>1, <1>2, HoldsAll
<1> QED
  BY <1>1, <1>3, <1>4, <1>7, <1>8

-----------------------------------------------------------------------------
(* Messages. *)

\* The values of one field number, as the encoder writes them.
Wire(number, wire) == [v \in WireValues(wire) |-> WrittenField(number, wire, v)]
Repeated(number, wire, values) == Each(Wire(number, wire), values)

LEMMA WireGives ==
  ASSUME NEW number \in Nat, NEW wire \in 0..2
  PROVE  Gives(Wire(number, wire), WireValues(wire), Byte)
  BY WrittenType DEF Gives, Wire

LEMMA RepeatedType ==
  ASSUME NEW number \in Nat, NEW wire \in 0..2, NEW values \in Seq(WireValues(wire))
  PROVE  Repeated(number, wire, values) \in Seq(Byte)
  BY WireGives, EachType DEF Repeated

\* What Those keeps of a field.
Selecting(number, wire) ==
  [f \in WireField |-> IF f.number = number /\ f.wire = wire THEN <<f.value>> ELSE << >>]

AnyValue == Nat \cup Text

LEMMA SelectingGives ==
  ASSUME NEW number, NEW wire
  PROVE  Gives(Selecting(number, wire), WireField, AnyValue)
<1>1. ASSUME NEW f \in WireField
      PROVE  (IF f.number = number /\ f.wire = wire THEN <<f.value>> ELSE << >>) \in Seq(AnyValue)
  <2>1. PICK v \in AnyValue : v = f.value
    BY DEF WireField, AnyValue
  <2>2. <<v>> \in Seq(AnyValue) /\ << >> \in Seq(AnyValue)
    OBVIOUS
  <2> QED
    BY <2>1, <2>2
<1> QED
  BY <1>1 DEF Gives, Selecting

LEMMA ThoseRead ==
  ASSUME NEW list \in Seq(WireField), NEW number, NEW wire
  PROVE  Those(Message(list), number, wire) = Each(Selecting(number, wire), list)
<1>1. Fields(Message(list)) = list
  BY FieldsRead
<1>2. \A i \in 1..Len(list) : list[i] \in WireField
  OBVIOUS
<1>3. [i \in 1..Len(list) |->
         IF list[i].number = number /\ list[i].wire = wire THEN <<list[i].value>> ELSE << >>]
      = [i \in 1..Len(list) |-> Selecting(number, wire)[list[i]]]
  BY <1>2 DEF Selecting
<1> QED
  BY <1>1, <1>3 DEF Those, Joined, Each

\* The fields that hold the values of one number.
Holding(number, wire, values) ==
  [x \in 1..Len(values) |-> [number |-> number, wire |-> wire, value |-> values[x]]]

LEMMA WireValuesAre == \A wire \in 0..2 : WireValues(wire) \subseteq AnyValue
  BY DoubleIsText DEF WireValues, AnyValue

LEMMA HoldingType ==
  ASSUME NEW number \in Nat, NEW wire \in 0..2, NEW values \in Seq(WireValues(wire))
  PROVE  /\ Holding(number, wire, values) \in Seq(WireField)
         /\ Message(Holding(number, wire, values)) = Repeated(number, wire, values)
         /\ Each(Selecting(number, wire), Holding(number, wire, values)) = values
         /\ \A n, w : n # number => Each(Selecting(n, w), Holding(number, wire, values)) = << >>
<1>1. PICK k \in Nat : k = Len(values) /\ \A x \in 1..k : values[x] \in WireValues(wire)
  OBVIOUS
<1>2. PICK list : list = Holding(number, wire, values)
  OBVIOUS
<1>3. list = [x \in 1..k |-> [number |-> number, wire |-> wire, value |-> values[x]]]
  BY <1>1, <1>2 DEF Holding
<1>4. ASSUME NEW x \in 1..k
      PROVE  /\ list[x] \in WireField /\ values[x] \in WireValues(wire)
             /\ list[x].number = number /\ list[x].wire = wire /\ list[x].value = values[x]
  <2>1. values[x] \in AnyValue
    BY <1>1, WireValuesAre
  <2>2. PICK f : f = [number |-> number, wire |-> wire, value |-> values[x]]
    OBVIOUS
  <2>3. f \in [number: Nat, wire: 0..2, value: Nat \cup Text] /\ f.value \in WireValues(f.wire)
    BY <1>1, <2>1, <2>2 DEF AnyValue
  <2>4. f \in WireField
    BY <2>3 DEF WireField
  <2>5. list[x] = f
    BY <1>3, <2>2
  <2>6. f.number = number /\ f.wire = wire /\ f.value = values[x]
    BY <2>2
  <2> QED
    BY <1>1, <2>4, <2>5, <2>6
<1>5. list \in Seq(WireField) /\ Len(list) = k
  <2>1. list \in [1..k -> WireField]
    BY <1>3, <1>4
  <2> QED
    BY <2>1, ListOfLength
<1>6. [x \in 1..k |-> Encoding[list[x]]] = [x \in 1..k |-> Wire(number, wire)[values[x]]]
  <2>1. ASSUME NEW x \in 1..k PROVE Encoding[list[x]] = Wire(number, wire)[values[x]]
    <3>1. PICK f \in WireField : f = list[x] /\ f.number = number /\ f.wire = wire /\ f.value = values[x]
      BY <1>4
    <3>2. PICK v \in WireValues(wire) : v = values[x]
      BY <1>4
    <3>3. Encoding[f] = WrittenField(f.number, f.wire, f.value)
      BY DEF Encoding
    <3>4. Wire(number, wire)[v] = WrittenField(number, wire, v)
      BY DEF Wire
    <3>5. Encoding[f] = Wire(number, wire)[v]
      BY <3>1, <3>2, <3>3, <3>4
    <3> QED
      BY <3>1, <3>2, <3>5
  <2> QED
    BY <2>1
<1>7. Message(list) = Repeated(number, wire, values)
  BY <1>1, <1>5, <1>6 DEF Message, Repeated, Each
<1>8. Each(Selecting(number, wire), list) = values
  <2>1. PICK V : V = WireValues(wire)
    OBVIOUS
  <2>2. PICK f : f = [v \in V |-> <<v>>]
    OBVIOUS
  <2>3. PICK g : g = [v \in V |-> v]
    OBVIOUS
  <2>4. Gives(f, V, V) /\ g \in [V -> V] /\ \A v \in V : f[v] = <<g[v]>>
    <3>1. \A v \in V : <<v>> \in Seq(V)
      OBVIOUS
    <3> QED
      BY <2>2, <2>3, <3>1 DEF Gives
  <2>5. values \in Seq(V)
    BY <2>1
  <2>6. Each(f, values) = [i \in 1..Len(values) |-> g[values[i]]]
    BY <2>4, <2>5, EachAlone
  <2>7. [i \in 1..Len(values) |-> g[values[i]]] = values
    <3>1. [i \in 1..k |-> g[values[i]]] = [i \in 1..k |-> values[i]]
      BY <1>1, <2>1, <2>3
    <3>2. values = [i \in 1..k |-> values[i]]
      BY <1>1
    <3> QED
      BY <1>1, <3>1, <3>2
  <2>8. [x \in 1..k |-> Selecting(number, wire)[list[x]]] = [x \in 1..k |-> f[values[x]]]
    <3>1. ASSUME NEW x \in 1..k PROVE Selecting(number, wire)[list[x]] = f[values[x]]
      <4>1. PICK field \in WireField : /\ field = list[x] /\ field.number = number
                                       /\ field.wire = wire /\ field.value = values[x]
        BY <1>4
      <4>2. Selecting(number, wire)[field] = <<field.value>>
        BY <4>1 DEF Selecting
      <4>3. f[values[x]] = <<values[x]>>
        BY <1>4, <2>1, <2>2
      <4>4. Selecting(number, wire)[field] = f[values[x]]
        BY <4>1, <4>2, <4>3
      <4> QED
        BY <4>1, <4>4
    <3> QED
      BY <3>1
  <2> QED
    BY <1>1, <1>5, <2>6, <2>7, <2>8 DEF Each
<1>9. ASSUME NEW n, NEW w, n # number PROVE Each(Selecting(n, w), list) = << >>
  <2>1. PICK parts : parts = [x \in 1..k |-> Selecting(n, w)[list[x]]]
    OBVIOUS
  <2>2. \A x \in 1..k : parts[x] = << >>
    <3> SUFFICES ASSUME NEW x \in 1..k PROVE parts[x] = << >>
      OBVIOUS
    <3>1. PICK field \in WireField : field = list[x] /\ field.number # n
      BY <1>4, <1>9
    <3>2. Selecting(n, w)[field] = << >>
      BY <3>1 DEF Selecting
    <3> QED
      BY <2>1, <3>1, <3>2
  <2>3. parts \in Seq(Seq(AnyValue)) /\ Len(parts) = k
    <3>1. PICK S : S = Seq(AnyValue)
      OBVIOUS
    <3>2. << >> \in S
      BY <3>1
    <3>3. parts \in [1..k -> S]
      BY <2>1, <2>2, <3>2
    <3>4. parts \in Seq(S) /\ Len(parts) = k
      BY <3>3, ListOfLength
    <3> QED
      BY <3>1, <3>4
  <2>4. FlattenSeq(parts) = << >>
    BY <2>2, <2>3, FlattenEmpty
  <2> QED
    BY <1>5, <2>1, <2>4 DEF Each
<1> QED
  BY <1>2, <1>5, <1>7, <1>8, <1>9

\* A message whose parts have field numbers of their own: every part is found by its number.
Parts(parts) ==
  /\ \A i \in 1..Len(parts) : /\ parts[i].number \in Nat /\ parts[i].wire \in 0..2
                              /\ parts[i].values \in Seq(WireValues(parts[i].wire))
  /\ \A i, j \in 1..Len(parts) : parts[i].number = parts[j].number => i = j
Assembled(parts) ==
  FlattenSeq([i \in 1..Len(parts) |-> Repeated(parts[i].number, parts[i].wire, parts[i].values)])

\* Each number gives back the values under it, and no others.
LEMMA PartsRead ==
  ASSUME NEW S, NEW parts \in Seq(S), Parts(parts)
  PROVE  /\ Assembled(parts) \in Seq(Byte)
         /\ \A j \in 1..Len(parts) :
              Those(Assembled(parts), parts[j].number, parts[j].wire) = parts[j].values
         /\ (\A j \in 1..Len(parts) : parts[j].values = << >>) => Assembled(parts) = << >>
<1>1. PICK k \in Nat : k = Len(parts)
  OBVIOUS
<1>2. PICK lists : lists = [i \in 1..k |-> Holding(parts[i].number, parts[i].wire, parts[i].values)]
  OBVIOUS
<1>3. ASSUME NEW i \in 1..k
      PROVE  /\ parts[i].number \in Nat /\ parts[i].wire \in 0..2
             /\ parts[i].values \in Seq(WireValues(parts[i].wire))
             /\ lists[i] = Holding(parts[i].number, parts[i].wire, parts[i].values)
             /\ lists[i] \in Seq(WireField)
             /\ Message(lists[i]) = Repeated(parts[i].number, parts[i].wire, parts[i].values)
             /\ Message(lists[i]) \in Seq(Byte)
  <2>1. /\ parts[i].number \in Nat /\ parts[i].wire \in 0..2
        /\ parts[i].values \in Seq(WireValues(parts[i].wire))
    BY <1>1 DEF Parts
  <2>2. lists[i] = Holding(parts[i].number, parts[i].wire, parts[i].values)
    BY <1>2
  <2>3. lists[i] \in Seq(WireField)
        /\ Message(lists[i]) = Repeated(parts[i].number, parts[i].wire, parts[i].values)
    BY <2>1, <2>2, HoldingType
  <2> QED
    BY <2>1, <2>2, <2>3, EncodingGives
<1>4. lists \in Seq(Seq(WireField)) /\ Len(lists) = k
  <2>1. PICK T : T = Seq(WireField)
    OBVIOUS
  <2>2. lists \in [1..k -> T]
    BY <1>2, <1>3, <2>1
  <2>3. lists \in Seq(T) /\ Len(lists) = k
    BY <2>2, ListOfLength
  <2> QED
    BY <2>1, <2>3
<1>5. PICK list \in Seq(WireField) : list = FlattenSeq(lists)
  BY <1>4, FlattenType
<1>6. Message(list) = Assembled(parts)
  <2>1. Each(Encoding, FlattenSeq(lists)) = EachPart(Encoding, lists)
    <3>1. PICK h : h = Encoding
      OBVIOUS
    <3>2. PICK F : F = WireField
      OBVIOUS
    <3>3. Gives(h, F, Byte) /\ lists \in Seq(Seq(F))
      BY <1>4, <3>1, <3>2, EncodingGives
    <3>4. Each(h, FlattenSeq(lists)) = EachPart(h, lists)
      BY <3>3, EachOfParts
    <3> QED
      BY <3>1, <3>4
  <2>2. [i \in 1..k |-> Each(Encoding, lists[i])]
        = [i \in 1..k |-> Repeated(parts[i].number, parts[i].wire, parts[i].values)]
    BY <1>3 DEF Message
  <2> QED
    BY <1>1, <1>4, <1>5, <2>1, <2>2 DEF Message, Assembled, EachPart
<1>7. Assembled(parts) \in Seq(Byte)
  BY <1>6, EncodingGives
<1>8. ASSUME NEW j \in 1..k
      PROVE  Those(Assembled(parts), parts[j].number, parts[j].wire) = parts[j].values
  <2>1. PICK select : select = Selecting(parts[j].number, parts[j].wire)
    OBVIOUS
  <2>2. Gives(select, WireField, AnyValue)
    BY <2>1, SelectingGives
  <2>3. Those(Assembled(parts), parts[j].number, parts[j].wire) = Each(select, list)
    BY <1>6, <2>1, ThoseRead
  <2>4. PICK found : found = [i \in 1..k |-> Each(select, lists[i])]
    OBVIOUS
  <2>5. Each(select, list) = FlattenSeq(found)
    <3>1. Each(select, list) = EachPart(select, lists)
      BY <1>4, <1>5, <2>2, EachOfParts
    <3> QED
      BY <1>4, <2>4, <3>1 DEF EachPart
  <2>6. found \in Seq(Seq(AnyValue)) /\ Len(found) = k
    <3>1. PICK T : T = Seq(AnyValue)
      OBVIOUS
    <3>2. \A i \in 1..k : Each(select, lists[i]) \in T
      BY <1>3, <2>2, <3>1, EachType
    <3>3. found \in [1..k -> T]
      BY <2>4, <3>2
    <3>4. found \in Seq(T) /\ Len(found) = k
      BY <3>3, ListOfLength
    <3> QED
      BY <3>1, <3>4
  <2>7. found[j] = parts[j].values
    <3>1. PICK number \in Nat : number = parts[j].number
      BY <1>3
    <3>2. PICK wire \in 0..2 : wire = parts[j].wire
      BY <1>3
    <3>3. PICK values \in Seq(WireValues(wire)) : values = parts[j].values
      BY <1>3, <3>2
    <3>4. Each(Selecting(number, wire), Holding(number, wire, values)) = values
      BY HoldingType
    <3> QED
      BY <1>3, <2>1, <2>4, <3>1, <3>2, <3>3, <3>4
  <2>8. ASSUME NEW i \in 1..k, i # j PROVE found[i] = << >>
    <3>1. parts[i].number # parts[j].number
      BY <1>1, <2>8 DEF Parts
    <3>2. PICK number \in Nat : number = parts[i].number
      BY <1>3
    <3>3. PICK wire \in 0..2 : wire = parts[i].wire
      BY <1>3
    <3>4. PICK values \in Seq(WireValues(wire)) : values = parts[i].values
      BY <1>3, <3>3
    <3>5. \A n, w : n # number => Each(Selecting(n, w), Holding(number, wire, values)) = << >>
      BY HoldingType
    <3>6. Each(select, Holding(number, wire, values)) = << >>
      BY <2>1, <3>1, <3>2, <3>5
    <3> QED
      BY <1>3, <2>4, <3>2, <3>3, <3>4, <3>6
  <2>9. FlattenSeq(found) = found[j]
    BY <2>6, <2>8, OnlyPart
  <2> QED
    BY <2>3, <2>5, <2>7, <2>9
<1>9. ASSUME \A j \in 1..k : parts[j].values = << >>
      PROVE  Assembled(parts) = << >>
  <2>1. \A i \in 1..k : lists[i] = << >>
    <3>1. \A number, wire : Holding(number, wire, << >>) = << >>
      BY DEF Holding
    <3> QED
      BY <1>2, <1>9, <3>1
  <2>2. list = << >>
    BY <1>4, <1>5, <2>1, FlattenEmpty
  <2> QED
    BY <1>6, <2>2, EachOfNone DEF Message
<1> QED
  BY <1>1, <1>7, <1>8, <1>9

-----------------------------------------------------------------------------
(* What the encoder appends, as parts of a message. *)

PartOf(number, wire, values) == [number |-> number, wire |-> wire, values |-> values]
\* The bytes are a field with these values, once, repeatedly or not at all.
Carries(bytes, part) ==
  /\ part.number \in Nat /\ part.wire \in 0..2 /\ part.values \in Seq(WireValues(part.wire))
  /\ bytes = Repeated(part.number, part.wire, part.values)

LEMMA CarriesValues ==
  ASSUME NEW number \in Nat, NEW wire \in 0..2, NEW values \in Seq(WireValues(wire))
  PROVE  Carries(Repeated(number, wire, values), PartOf(number, wire, values))
  BY DEF Carries, PartOf

LEMMA RepeatedOne ==
  ASSUME NEW number \in Nat, NEW wire \in 0..2
  PROVE  /\ Repeated(number, wire, << >>) = << >>
         /\ \A v \in WireValues(wire) : Repeated(number, wire, <<v>>) = WrittenField(number, wire, v)
<1>1. Repeated(number, wire, << >>) = << >>
  BY EachOfNone DEF Repeated
<1>2. ASSUME NEW v \in WireValues(wire) PROVE Repeated(number, wire, <<v>>) = WrittenField(number, wire, v)
  <2>1. PICK f : f = Wire(number, wire)
    OBVIOUS
  <2>2. PICK V : V = WireValues(wire)
    OBVIOUS
  <2>3. Gives(f, V, Byte) /\ v \in V /\ f[v] = WrittenField(number, wire, v)
    BY <2>1, <2>2, WireGives DEF Wire
  <2>4. Each(f, <<v>>) = f[v]
    BY <2>3, EachOfOne
  <2> QED
    BY <2>1, <2>3, <2>4 DEF Repeated
<1> QED
  BY <1>1, <1>2

\* One value, or none: when it is zero it is left out.
LEMMA OneCarried ==
  ASSUME NEW number \in Nat, NEW wire \in 0..2, NEW nothing, NEW v \in WireValues(wire)
  PROVE  Carries(IF v = nothing THEN << >> ELSE WrittenField(number, wire, v),
                 PartOf(number, wire, Unless(nothing, v)))
<1>1. PICK values : values = Unless(nothing, v)
  OBVIOUS
<1>2. values \in Seq(WireValues(wire))
  <2>1. PICK V : V = WireValues(wire)
    OBVIOUS
  <2>2. <<v>> \in Seq(V) /\ << >> \in Seq(V)
    BY <2>1
  <2> QED
    BY <1>1, <2>1, <2>2 DEF Unless
<1>3. Repeated(number, wire, values) = IF v = nothing THEN << >> ELSE WrittenField(number, wire, v)
  BY <1>1, RepeatedOne DEF Unless
<1> QED
  BY <1>1, <1>2, <1>3, CarriesValues

LEMMA BytesCarried ==
  ASSUME NEW number \in Nat, NEW bytes \in Text
  PROVE  Carries(appendBytes(number, bytes), PartOf(number, 2, Unless(<< >>, bytes)))
<1>1. bytes \in WireValues(2) /\ 2 \in 0..2
  BY DEF WireValues
<1>2. PICK tag \in Seq(Byte) : tag = Tag(number, 2)
  BY <1>1, WrittenType
<1>3. bytes \in Seq(Byte) /\ Len(bytes) \in Nat
  BY DEF Text
<1>4. PICK size \in Seq(Byte) : size = Uvarint(Len(bytes))
  BY <1>3, UvarintLength
<1>5. (tag \o size) \o bytes = tag \o (size \o bytes)
  BY <1>3
<1>6. appendBytes(number, bytes) = IF bytes = << >> THEN << >> ELSE (tag \o size) \o bytes
  BY <1>2, <1>4 DEF appendBytes
<1>7. WrittenField(number, 2, bytes) = tag \o (size \o bytes)
  BY <1>2, <1>4 DEF WrittenField, Body
<1>8. appendBytes(number, bytes) = IF bytes = << >> THEN << >> ELSE WrittenField(number, 2, bytes)
  BY <1>5, <1>6, <1>7
<1> QED
  BY <1>1, <1>8, OneCarried

LEMMA UintCarried ==
  ASSUME NEW number \in Nat, NEW n \in Nat
  PROVE  Carries(appendUint(number, n), PartOf(number, 0, Unless(0, n)))
<1>1. n \in WireValues(0) /\ 0 \in 0..2
  BY DEF WireValues
<1>2. appendUint(number, n) = IF n = 0 THEN << >> ELSE WrittenField(number, 0, n)
  BY DEF appendUint, WrittenField, Body
<1> QED
  BY <1>1, <1>2, OneCarried

LEMMA ZerosAre == Zeros \in Double /\ NegativeZero \in Double /\ Zeros # NegativeZero
<1>1. 0 \in Byte /\ 128 \in Byte
  BY DEF Byte
<1>2. Zeros \in Double
  BY <1>1 DEF Zeros, Double
<1>3. NegativeZero \in Double
  BY <1>1, <1>2 DEF NegativeZero, Double
<1>4. Zeros[8] = 0 /\ NegativeZero[8] = 128
  BY DEF Zeros, NegativeZero
<1> QED
  BY <1>2, <1>3, <1>4

LEMMA DoubleCarried ==
  ASSUME NEW number \in Nat, NEW double \in Double
  PROVE  Carries(appendDouble(number, double), PartOf(number, 1, Unless(Zeros, Positive(double))))
<1>1. PICK v : v = Positive(double)
  OBVIOUS
<1>2. v \in Double /\ (v = Zeros <=> double \in {Zeros, NegativeZero}) /\ (v # Zeros => v = double)
  BY <1>1, ZerosAre DEF Positive
<1>3. v \in WireValues(1) /\ 1 \in 0..2
  BY <1>2 DEF WireValues
<1>4. appendDouble(number, double) = IF v = Zeros THEN << >> ELSE WrittenField(number, 1, v)
  BY <1>2 DEF appendDouble, WrittenField, Body
<1> QED
  BY <1>1, <1>3, <1>4, OneCarried

\* A message put together of pieces with field numbers of their own.
Composed(pieces, parts, k) ==
  /\ pieces = [i \in 1..k |-> pieces[i]] /\ parts = [i \in 1..k |-> parts[i]]
  /\ \A i \in 1..k : Carries(pieces[i], parts[i])
  /\ \A i, j \in 1..k : parts[i].number = parts[j].number => i = j

\* What PartsRead says, of a message in as many pieces as its struct has fields.
LEMMA PiecesRead ==
  ASSUME NEW k \in Nat, NEW pieces, NEW parts, Composed(pieces, parts, k)
  PROVE  /\ FlattenSeq(pieces) \in Text
         /\ \A j \in 1..k : Those(FlattenSeq(pieces), parts[j].number, parts[j].wire) = parts[j].values
         /\ (\A j \in 1..k : parts[j].values = << >>) => FlattenSeq(pieces) = << >>
<1>1. PICK T : T = {parts[i] : i \in 1..k}
  OBVIOUS
<1>2. parts \in Seq(T) /\ Len(parts) = k
  <2>1. parts \in [1..k -> T]
    BY <1>1 DEF Composed
  <2> QED
    BY <2>1, ListOfLength
<1>3. Parts(parts)
  BY <1>2 DEF Parts, Carries, Composed
<1>4. [i \in 1..k |-> Repeated(parts[i].number, parts[i].wire, parts[i].values)] = [i \in 1..k |-> pieces[i]]
  BY DEF Carries, Composed
<1>5. FlattenSeq(pieces) = Assembled(parts)
  BY <1>2, <1>4 DEF Assembled, Composed
<1> QED
  BY <1>2, <1>3, <1>5, PartsRead DEF Text

\* A single value is read, or what stands for none.
LEMMA SingleRead ==
  ASSUME NEW bytes, NEW number, NEW wire, NEW nothing, NEW v, NEW default,
         Those(bytes, number, wire) = Unless(nothing, v)
  PROVE  Single(bytes, number, wire, default) = IF v = nothing THEN default ELSE v
<1>1. CASE v = nothing
  BY <1>1 DEF Single, Unless
<1>2. CASE v # nothing
  <2>1. Those(bytes, number, wire) = <<v>>
    BY <1>2 DEF Unless
  <2>2. <<v>> # << >> /\ Last(<<v>>) = v
    BY DEF Last
  <2> QED
    BY <1>2, <2>1, <2>2 DEF Single
<1> QED
  BY <1>1, <1>2

\* EmptyList is read from no bytes.
LEMMA NothingRead == \A number, wire : Those(<< >>, number, wire) = << >>
<1> SUFFICES ASSUME NEW number, NEW wire PROVE Those(<< >>, number, wire) = << >>
  OBVIOUS
<1>1. EmptyList \in Seq(WireField)
  BY EmptyListIsAList
<1>2. Message(EmptyList) = << >>
  BY EmptyListIsAList, EachOfNone DEF Message
<1>3. Those(Message(EmptyList), number, wire) = Each(Selecting(number, wire), EmptyList)
  BY <1>1, ThoseRead
<1>4. Each(Selecting(number, wire), EmptyList) = << >>
  BY EmptyListIsAList, EachOfNone
<1> QED
  BY <1>2, <1>3, <1>4

LEMMA NoSingleRead ==
  ASSUME NEW number, NEW wire, NEW default
  PROVE  Single(<< >>, number, wire, default) = default
  BY NothingRead DEF Single

\* Messages in a repeated field, of which the empty ones are left out.
Mean(protos, meanings, nothing, read, R) ==
  /\ protos \in Seq(Text) /\ meanings \in Seq(R) /\ Len(meanings) = Len(protos) /\ read \in [Text -> R]
  /\ \A i \in 1..Len(protos) :
       read[protos[i]] = meanings[i] /\ (protos[i] = << >> <=> meanings[i] = nothing)

AppendedAll(number, protos) == FlattenSeq([i \in 1..Len(protos) |-> appendBytes(number, protos[i])])
ReadBy(read, values) == [i \in 1..Len(values) |-> read[values[i]]]
WithoutEmpty(nothing, meanings) == FlattenSeq([i \in 1..Len(meanings) |-> Unless(nothing, meanings[i])])

\* The elements that have a value are read, in their order, and the others are not there.
LEMMA ElementsRead ==
  ASSUME NEW number \in Nat, NEW protos, NEW R, NEW read, NEW nothing, NEW meanings,
         Mean(protos, meanings, nothing, read, R)
  PROVE  \E values \in Seq(Text) :
           /\ Carries(AppendedAll(number, protos), PartOf(number, 2, values))
           /\ ReadBy(read, values) = WithoutEmpty(nothing, meanings)
<1>0. protos \in Seq(Text) /\ meanings \in Seq(R) /\ Len(meanings) = Len(protos) /\ read \in [Text -> R]
  BY DEF Mean
<1>1. PICK k \in Nat : k = Len(protos) /\ \A i \in 1..k : protos[i] \in Text /\ meanings[i] \in R
  BY <1>0
<1>01. \A i \in 1..k : read[protos[i]] = meanings[i] /\ (protos[i] = << >> <=> meanings[i] = nothing)
  BY <1>1 DEF Mean
<1>2. PICK parts : parts = [i \in 1..k |-> Unless(<< >>, protos[i])]
  OBVIOUS
<1>3. ASSUME NEW i \in 1..k
      PROVE  /\ parts[i] = Unless(<< >>, protos[i]) /\ parts[i] \in Seq(Text)
             /\ appendBytes(number, protos[i]) = Repeated(number, 2, parts[i])
  <2>1. PICK b \in Text : b = protos[i]
    BY <1>1
  <2>2. <<b>> \in Seq(Text) /\ << >> \in Seq(Text)
    OBVIOUS
  <2>3. Unless(<< >>, b) \in Seq(Text)
    BY <2>2 DEF Unless
  <2>4. Carries(appendBytes(number, b), PartOf(number, 2, Unless(<< >>, b)))
    BY BytesCarried
  <2>5. appendBytes(number, b) = Repeated(number, 2, Unless(<< >>, b))
    BY <2>4 DEF Carries, PartOf
  <2> QED
    BY <1>2, <2>1, <2>3, <2>5
<1>4. parts \in Seq(Seq(Text)) /\ Len(parts) = k
  <2>1. PICK P : P = Seq(Text)
    OBVIOUS
  <2>2. parts \in [1..k -> P]
    BY <1>2, <1>3, <2>1
  <2>3. parts \in Seq(P) /\ Len(parts) = k
    BY <2>2, ListOfLength
  <2> QED
    BY <2>1, <2>3
<1>5. PICK values \in Seq(Text) : values = FlattenSeq(parts)
  BY <1>4, FlattenType
<1>6. Carries(FlattenSeq([i \in 1..k |-> appendBytes(number, protos[i])]), PartOf(number, 2, values))
  <2>1. PICK f : f = Wire(number, 2)
    OBVIOUS
  <2>2. Gives(f, Text, Byte)
    <3>1. WireValues(2) = Text /\ 2 \in 0..2
      BY DEF WireValues
    <3>2. Gives(Wire(number, 2), WireValues(2), Byte)
      BY <3>1, WireGives
    <3> QED
      BY <2>1, <3>1, <3>2
  <2>3. Each(f, FlattenSeq(parts)) = EachPart(f, parts)
    <3>1. PICK V : V = Text
      OBVIOUS
    <3>2. PICK B : B = Byte
      OBVIOUS
    <3>3. Gives(f, V, B) /\ parts \in Seq(Seq(V))
      BY <1>4, <2>2, <3>1, <3>2
    <3> QED
      BY <3>3, EachOfParts
  <2>4. [i \in 1..k |-> Each(f, parts[i])] = [i \in 1..k |-> appendBytes(number, protos[i])]
    BY <1>3, <2>1 DEF Repeated
  <2>5. Repeated(number, 2, values) = FlattenSeq([i \in 1..k |-> appendBytes(number, protos[i])])
    BY <1>4, <1>5, <2>1, <2>3, <2>4 DEF Repeated, EachPart
  <2>6. values \in Seq(WireValues(2)) /\ 2 \in 0..2
    BY DEF WireValues
  <2> QED
    BY <2>5, <2>6, CarriesValues
<1>7. [i \in 1..Len(values) |-> read[values[i]]]
      = FlattenSeq([i \in 1..k |-> Unless(nothing, meanings[i])])
  <2>1. PICK h : h = [b \in Text |-> <<read[b]>>]
    OBVIOUS
  <2>2. Gives(h, Text, R) /\ \A b \in Text : h[b] = <<read[b]>>
    <3>1. ASSUME NEW b \in Text PROVE <<read[b]>> \in Seq(R)
      <4>1. PICK r \in R : r = read[b]
        BY <1>0
      <4>2. <<r>> \in Seq(R)
        OBVIOUS
      <4> QED
        BY <4>1, <4>2
    <3> QED
      BY <2>1, <3>1 DEF Gives
  <2>3. Each(h, values) = [i \in 1..Len(values) |-> read[values[i]]]
    <3>1. PICK V : V = Text
      OBVIOUS
    <3>2. Gives(h, V, R) /\ (\A b \in V : h[b] = <<read[b]>>) /\ read \in [V -> R] /\ values \in Seq(V)
      BY <1>0, <2>2, <3>1
    <3> QED
      BY <3>2, EachAlone
  <2>4. Each(h, FlattenSeq(parts)) = EachPart(h, parts)
    <3>1. PICK V : V = Text
      OBVIOUS
    <3>2. Gives(h, V, R) /\ parts \in Seq(Seq(V))
      BY <1>4, <2>2, <3>1
    <3> QED
      BY <3>2, EachOfParts
  <2>5. ASSUME NEW i \in 1..k PROVE Each(h, parts[i]) = Unless(nothing, meanings[i])
    <3>1. PICK b \in Text : b = protos[i]
      BY <1>1
    <3>2. CASE b = << >>
      <4>1. parts[i] = << >> /\ Unless(nothing, meanings[i]) = << >>
        BY <1>01, <1>3, <3>1, <3>2 DEF Unless
      <4> QED
        BY <4>1, EachOfNone
    <3>3. CASE b # << >>
      <4>1. parts[i] = <<b>> /\ Unless(nothing, meanings[i]) = <<meanings[i]>>
        BY <1>01, <1>3, <3>1, <3>3 DEF Unless
      <4>2. Each(h, <<b>>) = h[b]
        BY <2>2, EachOfOne
      <4>3. h[b] = <<meanings[i]>>
        BY <1>01, <2>2, <3>1
      <4> QED
        BY <4>1, <4>2, <4>3
    <3> QED
      BY <3>2, <3>3
  <2>6. [i \in 1..k |-> Each(h, parts[i])] = [i \in 1..k |-> Unless(nothing, meanings[i])]
    BY <2>5
  <2> QED
    BY <1>4, <1>5, <2>3, <2>4, <2>6 DEF EachPart
<1>8. Carries(AppendedAll(number, protos), PartOf(number, 2, values))
  BY <1>1, <1>6 DEF AppendedAll
<1>9. ReadBy(read, values) = WithoutEmpty(nothing, meanings)
  BY <1>0, <1>1, <1>7 DEF ReadBy, WithoutEmpty
<1> QED
  BY <1>8, <1>9

-----------------------------------------------------------------------------
(* Numbers with a sign. *)

LEMMA Remainder ==
  ASSUME NEW a \in Int, NEW m \in Nat \ {0}
  PROVE  /\ a \div m \in Int /\ a % m \in Nat /\ a % m < m /\ a = m * (a \div m) + (a % m)
  OBVIOUS

LEMMA OnlyRemainder ==
  ASSUME NEW m \in Nat \ {0}, NEW q \in Int, NEW r \in Nat, r < m
  PROVE  (m * q + r) % m = r
<1>1. PICK a \in Int : a = m * q + r
  OBVIOUS
<1>2. PICK d \in Int : d = a \div m
  BY Remainder
<1>3. PICK s \in Nat : s = a % m /\ s < m
  BY Remainder
<1>4. m * q + r = m * d + s
  BY <1>1, <1>2, <1>3, Remainder
<1>5. m * (q - d) = s - r
  BY <1>4
<1>6. PICK e \in Int : e = q - d
  OBVIOUS
<1>7. e >= 1 => m * e >= m
  OBVIOUS
<1>8. e <= -1 => m * e <= -m
  OBVIOUS
<1>9. e = 0
  BY <1>3, <1>5, <1>6, <1>7, <1>8
<1>10. s = r
  BY <1>5, <1>6, <1>9
<1> QED
  BY <1>1, <1>3, <1>10

\* The sign of an int32 survives its extension to 64 bits and the reader that drops them.
LEMMA Int32Back ==
  ASSUME NEW n \in Int32
  PROVE  /\ n % WordSize \in Nat /\ (n = 0 => n % WordSize = 0)
         /\ n = LET low == (n % WordSize) % Int32Size
                IN IF low >= Int32Size \div 2 THEN low - Int32Size ELSE low
<1>1. PICK I \in Nat \ {0} : I = Int32Size /\ I % 2 = 0
  BY EnvelopeAssumption
<1>2. PICK W \in Nat \ {0} : W = WordSize /\ W % I = 0
  BY <1>1, EnvelopeAssumption
<1>3. PICK h \in Nat : h = I \div 2 /\ I = 2 * h /\ h >= 1
  <2>1. I = 2 * (I \div 2) + (I % 2) /\ I \div 2 \in Int
    OBVIOUS
  <2>2. I \div 2 \in Nat
    OBVIOUS
  <2> QED
    BY <1>1, <2>1, <2>2
<1>4. n \in Int /\ -h <= n /\ n <= h - 1
  BY <1>1, <1>3 DEF Int32
<1>5. PICK q \in Int : W = I * q /\ q >= 1
  <2>1. PICK q \in Int : q = W \div I /\ W = I * q
    BY <1>2, Remainder
  <2>2. q <= 0 => I * q <= 0
    OBVIOUS
  <2> QED
    BY <2>1, <2>2
<1>6. W >= I
  <2>1. I * q >= I
    BY <1>5
  <2> QED
    BY <1>5, <2>1
<1>7. n % W \in Nat
  BY <1>4, Remainder
<1>8. CASE n >= 0
  <2>1. n \in Nat /\ n < W /\ n < I
    BY <1>3, <1>4, <1>6, <1>8
  <2>2. W * 0 + n = n /\ I * 0 + n = n
    BY <2>1
  <2>3. n % W = n
    BY <2>1, <2>2, OnlyRemainder
  <2>4. n % I = n
    BY <2>1, <2>2, OnlyRemainder
  <2> QED
    BY <1>1, <1>2, <1>3, <1>4, <1>7, <2>3, <2>4
<1>9. CASE n < 0
  <2>1. n + W \in Nat /\ n + W < W
    BY <1>3, <1>4, <1>6, <1>9
  <2>2. W * (-1) + (n + W) = n
    BY <1>4
  <2>3. (W * (-1) + (n + W)) % W = n + W
    BY <2>1, OnlyRemainder
  <2>4. n % W = n + W
    BY <2>2, <2>3
  <2>5. n + I \in Nat /\ n + I < I /\ q - 1 \in Int
    BY <1>3, <1>4, <1>9
  <2>6. (I * (q - 1) + (n + I)) % I = n + I
    BY <2>5, OnlyRemainder
  <2>7. I * (q - 1) + (n + I) = n + W
    BY <1>4, <1>5
  <2>8. (n + W) % I = n + I
    BY <2>6, <2>7
  <2>9. n + I >= h /\ (n + I) - I = n
    BY <1>3, <1>4
  <2> QED
    BY <1>1, <1>2, <1>3, <1>4, <1>7, <1>9, <2>4, <2>8, <2>9
<1> QED
  BY <1>4, <1>8, <1>9

LEMMA Int32Carried ==
  ASSUME NEW number \in Nat, NEW n \in Int32
  PROVE  Carries(appendInt32(number, n), PartOf(number, 0, Unless(0, n % WordSize)))
  BY Int32Back, UintCarried DEF appendInt32

LEMMA Int32Read ==
  ASSUME NEW bytes, NEW number, NEW n \in Int32, Those(bytes, number, 0) = Unless(0, n % WordSize)
  PROVE  Int32Of(bytes, number) = n
<1>1. Single(bytes, number, 0, 0) = n % WordSize
  BY SingleRead
<1> QED
  BY <1>1, Int32Back DEF Int32Of

LEMMA NoInt32Read == \A number : Int32Of(<< >>, number) = 0
<1> SUFFICES ASSUME NEW number PROVE Int32Of(<< >>, number) = 0
  OBVIOUS
<1>1. PICK I \in Nat \ {0} : I = Int32Size /\ I % 2 = 0
  BY EnvelopeAssumption
<1>2. Single(<< >>, number, 0, 0) = 0
  BY NoSingleRead
<1>3. 0 % I = 0 /\ ~ (0 >= I \div 2)
  BY <1>1
<1> QED
  BY <1>1, <1>2, <1>3 DEF Int32Of

-----------------------------------------------------------------------------
(* Map entries. *)

LEMMA AppendToOne == \A a, b : Append(<<a>>, b) = <<a, b>>
<1> SUFFICES ASSUME NEW a, NEW b PROVE Append(<<a>>, b) = <<a, b>>
  OBVIOUS
<1>1. PICK S : S = {a, b}
  OBVIOUS
<1>2. PICK one : one = <<a>>
  OBVIOUS
<1>3. one \in Seq(S) /\ Len(one) = 1 /\ one[1] = a /\ b \in S
  BY <1>1, <1>2
<1>4. PICK left : left = Append(one, b)
  OBVIOUS
<1>5. left \in Seq(S) /\ Len(left) = Len(one) + 1 /\ left[Len(one) + 1] = b
  BY <1>3, <1>4, AppendProperties
<1>6. left[1] = one[1]
  <2>1. 1 \in 1..Len(one)
    BY <1>3
  <2> QED
    BY <1>3, <1>4, <2>1, AppendProperties
<1>7. Len(left) = 2 /\ left[1] = a /\ left[2] = b
  BY <1>3, <1>5, <1>6
<1>8. PICK right : right = <<a, b>>
  OBVIOUS
<1>9. right \in Seq(S) /\ Len(right) = 2 /\ right[1] = a /\ right[2] = b
  BY <1>1, <1>8
<1>10. \A i \in 1..2 : left[i] = right[i]
  BY <1>7, <1>9
<1>11. left = right
  BY <1>5, <1>7, <1>9, <1>10, SeqEqual
<1> QED
  BY <1>2, <1>4, <1>8, <1>11

LEMMA FlattenTwo ==
  ASSUME NEW S, NEW a \in Seq(S), NEW b \in Seq(S)
  PROVE  FlattenSeq(<<a, b>>) = a \o b
<1>1. PICK T : T = Seq(S)
  OBVIOUS
<1>2. PICK none \in Seq(T) : none = EmptyList
  BY EmptyListIsAList
<1>3. PICK one \in Seq(T) : one = Append(none, a) /\ FlattenSeq(one) = FlattenSeq(none) \o a
  BY <1>1, AppendProperties, FlattenAppend
<1>4. FlattenSeq(Append(one, b)) = FlattenSeq(one) \o b
  BY <1>1, FlattenAppend
<1>5. Append(one, b) = <<a, b>>
  <2>1. Append(<< >>, a) = <<a>>
    OBVIOUS
  <2>2. one = <<a>>
    BY <1>2, <1>3, <2>1, EmptyListIsAList
  <2> QED
    BY <2>2, AppendToOne
<1>6. FlattenSeq(none) \o a = a
  BY <1>2, EmptyListIsAList, FlattenOfNone, ConcatEmptySeq
<1> QED
  BY <1>3, <1>4, <1>5, <1>6

\* A map entry is read as it was written; without a key and a value it is no bytes.
LEMMA EntryRead ==
  ASSUME NEW entry \in MetricStringMapEntry
  PROVE  /\ stringMapEntryProto(entry) \in Text /\ ReadEntry(stringMapEntryProto(entry)) = entry
         /\ stringMapEntryProto(entry) = << >> <=> entry = NoEntry
<1>1. PICK key \in Text : key = entry.key
  BY DEF MetricStringMapEntry
<1>2. PICK value \in Text : value = entry.value
  BY DEF MetricStringMapEntry
<1>3. entry = [key |-> key, value |-> value]
  BY <1>1, <1>2 DEF MetricStringMapEntry
<1>4. PICK a : a = appendBytes(1, key) /\ Carries(a, PartOf(1, 2, Unless(<< >>, key)))
  BY BytesCarried
<1>5. PICK b : b = appendBytes(2, value) /\ Carries(b, PartOf(2, 2, Unless(<< >>, value)))
  BY BytesCarried
<1>6. PICK pieces : pieces = <<a, b>>
  OBVIOUS
<1>7. PICK parts : parts = <<PartOf(1, 2, Unless(<< >>, key)), PartOf(2, 2, Unless(<< >>, value))>>
  OBVIOUS
<1>8. \A i \in 1..2 : Carries(pieces[i], parts[i])
  BY <1>4, <1>5, <1>6, <1>7
<1>9. /\ parts[1].number = 1 /\ parts[1].wire = 2 /\ parts[1].values = Unless(<< >>, key)
      /\ parts[2].number = 2 /\ parts[2].wire = 2 /\ parts[2].values = Unless(<< >>, value)
  BY <1>7 DEF PartOf
<1>10. \A i, j \in 1..2 : parts[i].number = parts[j].number => i = j
  BY <1>9
<1>11. pieces = [i \in 1..2 |-> pieces[i]] /\ parts = [i \in 1..2 |-> parts[i]]
  BY <1>6, <1>7
<1>12. Composed(pieces, parts, 2)
  BY <1>8, <1>10, <1>11 DEF Composed
<1>13. PICK bytes : bytes = FlattenSeq(pieces)
  OBVIOUS
<1>14. /\ bytes \in Text
       /\ \A j \in 1..2 : Those(bytes, parts[j].number, parts[j].wire) = parts[j].values
       /\ (\A j \in 1..2 : parts[j].values = << >>) => bytes = << >>
  BY <1>12, <1>13, PiecesRead
<1>15. bytes = stringMapEntryProto(entry)
  <2>1. a \in Seq(Byte) /\ b \in Seq(Byte)
    BY <1>4, <1>5, RepeatedType DEF Carries
  <2>2. FlattenSeq(<<a, b>>) = a \o b
    BY <2>1, FlattenTwo
  <2> QED
    BY <1>1, <1>2, <1>4, <1>5, <1>6, <1>13, <2>2 DEF stringMapEntryProto
<1>16. Those(bytes, 1, 2) = Unless(<< >>, key) /\ Those(bytes, 2, 2) = Unless(<< >>, value)
  BY <1>9, <1>14
<1>17. Single(bytes, 1, 2, << >>) = key /\ Single(bytes, 2, 2, << >>) = value
  BY <1>16, SingleRead
<1>18. ReadEntry(bytes) = entry
  BY <1>3, <1>17 DEF ReadEntry
<1>19. bytes = << >> => entry = NoEntry
  BY <1>18, NoSingleRead DEF ReadEntry, NoEntry
<1>20. ASSUME entry = NoEntry PROVE bytes = << >>
  <2>1. key = << >> /\ value = << >>
    BY <1>3, <1>20 DEF NoEntry
  <2>2. parts[1].values = << >> /\ parts[2].values = << >>
    BY <1>9, <2>1 DEF Unless
  <2> QED
    BY <1>14, <2>2
<1> QED
  BY <1>14, <1>15, <1>18, <1>19, <1>20

LEMMA NoLength == \A S : \A s \in Seq(S) : Len(s) = 0 => s = << >>
  OBVIOUS

\* The entries of a repeated field, as bytes.
EntriesIn(values, entries) ==
  values \in Seq(Text) /\ [i \in 1..Len(values) |-> ReadEntry(values[i])] = Set(entries)

LEMMA EntriesCarried ==
  ASSUME NEW number \in Nat, NEW entries \in Seq(MetricStringMapEntry)
  PROVE  \E values : Carries(appendEntries(number, entries), PartOf(number, 2, values))
                     /\ EntriesIn(values, entries)
<1>1. PICK k \in Nat : k = Len(entries) /\ \A i \in 1..k : entries[i] \in MetricStringMapEntry
  OBVIOUS
<1>2. PICK protos : protos = [i \in 1..k |-> stringMapEntryProto(entries[i])]
  OBVIOUS
<1>3. ASSUME NEW i \in 1..k
      PROVE  /\ protos[i] \in Text /\ protos[i] = stringMapEntryProto(entries[i])
             /\ ReadEntry(protos[i]) = entries[i] /\ (protos[i] = << >> <=> entries[i] = NoEntry)
  BY <1>1, <1>2, EntryRead
<1>4. protos \in Seq(Text) /\ Len(protos) = k
  <2>1. protos \in [1..k -> Text]
    BY <1>2, <1>3
  <2> QED
    BY <2>1, ListOfLength
<1>5. PICK R : R = {ReadEntry(b) : b \in Text}
  OBVIOUS
<1>6. PICK read : read = [b \in Text |-> ReadEntry(b)]
  OBVIOUS
<1>7. read \in [Text -> R] /\ \A b \in Text : read[b] = ReadEntry(b)
  BY <1>5, <1>6
<1>8. entries \in Seq(R)
  <2>1. \A i \in 1..k : entries[i] \in R
    <3> SUFFICES ASSUME NEW i \in 1..k PROVE entries[i] \in R
      OBVIOUS
    <3>1. PICK b \in Text : entries[i] = ReadEntry(b)
      BY <1>3
    <3> QED
      BY <1>5, <3>1
  <2> QED
    BY <1>1, <2>1
<1>9. \A i \in 1..Len(protos) :
        read[protos[i]] = entries[i] /\ (protos[i] = << >> <=> entries[i] = NoEntry)
  BY <1>3, <1>4, <1>7
<1>09. Mean(protos, entries, NoEntry, read, R)
  BY <1>1, <1>4, <1>7, <1>8, <1>9 DEF Mean
<1>10. PICK values \in Seq(Text) :
         /\ Carries(AppendedAll(number, protos), PartOf(number, 2, values))
         /\ ReadBy(read, values) = WithoutEmpty(NoEntry, entries)
  BY <1>09, ElementsRead
<1>11. [i \in 1..k |-> appendBytes(number, protos[i])]
       = [i \in 1..k |-> appendBytes(number, stringMapEntryProto(entries[i]))]
  BY <1>3
<1>12. Carries(appendEntries(number, entries), PartOf(number, 2, values))
  BY <1>1, <1>4, <1>10, <1>11 DEF appendEntries, Joined, AppendedAll
<1>13. [i \in 1..Len(values) |-> ReadEntry(values[i])] = ReadBy(read, values)
  <2>1. \A i \in 1..Len(values) : values[i] \in Text
    OBVIOUS
  <2> QED
    BY <1>7, <2>1 DEF ReadBy
<1>14. EntriesIn(values, entries)
  BY <1>10, <1>13 DEF EntriesIn, Set, Joined, WithoutEmpty
<1> QED
  BY <1>12, <1>14

LEMMA EntriesRead ==
  ASSUME NEW values, NEW entries, EntriesIn(values, entries)
  PROVE  /\ \A bytes, number : Those(bytes, number, 2) = values => EntriesOf(bytes, number) = Set(entries)
         /\ Set(entries) = << >> => values = << >>
<1>1. \A bytes, number : Those(bytes, number, 2) = values => EntriesOf(bytes, number) = Set(entries)
  BY DEF EntriesIn, EntriesOf, EachOf
<1>2. ASSUME Set(entries) = << >> PROVE values = << >>
  <2>1. PICK k \in Nat : k = Len(values)
    BY DEF EntriesIn
  <2>2. [i \in 1..k |-> ReadEntry(values[i])] = << >>
    BY <1>2, <2>1 DEF EntriesIn
  <2>3. k = 0
    BY <2>2
  <2>4. values \in Seq(Text)
    BY DEF EntriesIn
  <2> QED
    BY <2>1, <2>3, <2>4, NoLength
<1> QED
  BY <1>1, <1>2

LEMMA NoEntriesRead == \A number : EntriesOf(<< >>, number) = << >>
  BY NothingRead DEF EntriesOf, EachOf

-----------------------------------------------------------------------------
(* The structs. *)

LEMMA TextCarried ==
  ASSUME NEW number \in Nat, NEW numbers, NEW texts \in Texts(numbers), number \in numbers
  PROVE  /\ texts[number] \in Text
         /\ Carries(appendText(number, texts), PartOf(number, 2, Unless(<< >>, texts[number])))
<1>1. texts[number] \in Text
  BY DEF Texts
<1> QED
  BY <1>1, BytesCarried DEF appendText

LEMMA TextsRead ==
  ASSUME NEW bytes, NEW numbers, NEW texts \in Texts(numbers),
         \A n \in numbers : Those(bytes, n, 2) = Unless(<< >>, texts[n])
  PROVE  TextsOf(bytes, numbers) = texts
<1>1. ASSUME NEW n \in numbers PROVE Single(bytes, n, 2, << >>) = texts[n]
  <2>1. Those(bytes, n, 2) = Unless(<< >>, texts[n])
    OBVIOUS
  <2>2. Single(bytes, n, 2, << >>) = IF texts[n] = << >> THEN << >> ELSE texts[n]
    BY <2>1, SingleRead
  <2> QED
    BY <2>2
<1>2. texts = [n \in numbers |-> texts[n]]
  BY DEF Texts
<1>3. [n \in numbers |-> Single(bytes, n, 2, << >>)] = [n \in numbers |-> texts[n]]
  BY <1>1
<1> QED
  BY <1>2, <1>3 DEF TextsOf

LEMMA NoTextsRead == \A numbers : TextsOf(<< >>, numbers) = NoTexts(numbers)
  BY NoSingleRead DEF TextsOf, NoTexts

LEMMA PartIs ==
  \A number, wire, values : /\ PartOf(number, wire, values).number = number
                            /\ PartOf(number, wire, values).wire = wire
                            /\ PartOf(number, wire, values).values = values
  BY DEF PartOf

\* A struct of texts and entries.
TextsProto(k, texts, entries) ==
  FlattenSeq([number \in 1..k |-> appendText(number, texts)]) \o appendEntries(20, entries)

\* A resource and an identity: texts under the numbers 1 to k, and attributes under 20.
LEMMA TextsAndEntriesRead ==
  ASSUME NEW k \in Nat, k < 20, NEW texts \in Texts(1..k), NEW entries \in Seq(MetricStringMapEntry),
         NEW bytes, bytes = TextsProto(k, texts, entries)
  PROVE  bytes \in Text /\ TextsOf(bytes, 1..k) = texts /\ EntriesOf(bytes, 20) = Set(entries)
<1>1. PICK values : Carries(appendEntries(20, entries), PartOf(20, 2, values)) /\ EntriesIn(values, entries)
  BY EntriesCarried
<1>2. PICK last \in Seq(Byte) : last = appendEntries(20, entries)
  BY <1>1, RepeatedType DEF Carries
<1>3. PICK n \in Nat : n = k + 1
  OBVIOUS
<1>4. PICK pieces : pieces = [i \in 1..n |-> IF i <= k THEN appendText(i, texts) ELSE last]
  OBVIOUS
<1>5. PICK parts : parts = [i \in 1..n |-> IF i <= k THEN PartOf(i, 2, Unless(<< >>, texts[i]))
                                           ELSE PartOf(20, 2, values)]
  OBVIOUS
<1>6. ASSUME NEW i \in 1..k
      PROVE  /\ i \in 1..n /\ pieces[i] = appendText(i, texts)
             /\ parts[i] = PartOf(i, 2, Unless(<< >>, texts[i])) /\ Carries(pieces[i], parts[i])
  <2>1. Carries(appendText(i, texts), PartOf(i, 2, Unless(<< >>, texts[i])))
    BY TextCarried
  <2>2. i \in 1..n /\ i <= k
    BY <1>3
  <2> QED
    BY <1>4, <1>5, <2>1, <2>2
<1>7. n \in 1..n /\ pieces[n] = last /\ parts[n] = PartOf(20, 2, values) /\ Carries(pieces[n], parts[n])
  <2>1. n \in 1..n /\ ~ (n <= k)
    BY <1>3
  <2> QED
    BY <1>1, <1>2, <1>4, <1>5, <2>1
<1>8. \A i \in 1..n : i = n \/ i \in 1..k
  BY <1>3
<1>9. \A i \in 1..n : Carries(pieces[i], parts[i])
  BY <1>6, <1>7, <1>8
<1>10. \A i \in 1..n : parts[i].number = IF i = n THEN 20 ELSE i
  <2> SUFFICES ASSUME NEW i \in 1..n PROVE parts[i].number = IF i = n THEN 20 ELSE i
    OBVIOUS
  <2>1. CASE i = n
    BY <1>7, <2>1, PartIs
  <2>2. CASE i # n
    BY <1>6, <1>8, <2>2, PartIs
  <2> QED
    BY <2>1, <2>2
<1>11. \A i, j \in 1..n : parts[i].number = parts[j].number => i = j
  <2>1. \A i \in 1..n : i # n => i \in 1..k /\ i < 20
    BY <1>8
  <2> SUFFICES ASSUME NEW i \in 1..n, NEW j \in 1..n, parts[i].number = parts[j].number PROVE i = j
    OBVIOUS
  <2>2. PICK a : a = parts[i].number /\ a = parts[j].number
    OBVIOUS
  <2>3. a = IF i = n THEN 20 ELSE i
    BY <1>10, <2>2
  <2>4. a = IF j = n THEN 20 ELSE j
    BY <1>10, <2>2
  <2> QED
    BY <2>1, <2>3, <2>4
<1>12. Composed(pieces, parts, n)
  BY <1>4, <1>5, <1>9, <1>11 DEF Composed
<1>13. FlattenSeq(pieces) = bytes
  <2>1. PICK S : S = Seq(Byte)
    OBVIOUS
  <2>2. PICK front : front = [number \in 1..k |-> appendText(number, texts)]
    OBVIOUS
  <2>3. \A i \in 1..k : appendText(i, texts) \in S
    <3> SUFFICES ASSUME NEW i \in 1..k PROVE appendText(i, texts) \in S
      OBVIOUS
    <3>1. Carries(appendText(i, texts), PartOf(i, 2, Unless(<< >>, texts[i])))
      BY TextCarried
    <3> QED
      BY <2>1, <3>1, RepeatedType DEF Carries
  <2>4. front \in Seq(S) /\ Len(front) = k
    <3>1. front \in [1..k -> S]
      BY <2>2, <2>3
    <3> QED
      BY <3>1, ListOfLength
  <2>5. last \in S
    BY <2>1
  <2>6. FlattenSeq(Append(front, last)) = FlattenSeq(front) \o last
    BY <2>1, <2>4, FlattenAppend
  <2>7. PICK more : more = Append(front, last)
    OBVIOUS
  <2>8. more \in Seq(S) /\ Len(more) = n /\ more[n] = last /\ \A i \in 1..k : more[i] = front[i]
    <3>1. /\ Append(front, last) \in Seq(S) /\ Len(Append(front, last)) = Len(front) + 1
          /\ Append(front, last)[Len(front) + 1] = last
          /\ \A i \in 1..Len(front) : Append(front, last)[i] = front[i]
      BY <2>4, <2>5, AppendProperties
    <3> QED
      BY <1>3, <2>4, <2>7, <3>1
  <2>9. pieces \in Seq(S) /\ Len(pieces) = n
    <3>1. \A i \in 1..n : pieces[i] \in S
      BY <1>6, <1>7, <1>8, <2>3, <2>5
    <3>2. pieces \in [1..n -> S]
      BY <1>4, <3>1
    <3> QED
      BY <3>2, ListOfLength
  <2>10. \A i \in 1..n : more[i] = pieces[i]
    BY <1>6, <1>7, <1>8, <2>2, <2>8
  <2>11. more = pieces
    BY <2>8, <2>9, <2>10, SeqEqual
  <2> QED
    BY <1>2, <2>2, <2>6, <2>7, <2>11 DEF TextsProto
<1>14. /\ bytes \in Text
       /\ \A j \in 1..n : Those(bytes, parts[j].number, parts[j].wire) = parts[j].values
  <2>1. /\ FlattenSeq(pieces) \in Text
        /\ \A j \in 1..n : Those(FlattenSeq(pieces), parts[j].number, parts[j].wire) = parts[j].values
    BY <1>12, PiecesRead
  <2> QED
    BY <1>13, <2>1
<1>15. \A i \in 1..k : Those(bytes, i, 2) = Unless(<< >>, texts[i])
  BY <1>6, <1>14, PartIs
<1>16. Those(bytes, 20, 2) = values
  BY <1>7, <1>14, PartIs
<1>17. TextsOf(bytes, 1..k) = texts
  BY <1>15, TextsRead
<1>18. EntriesOf(bytes, 20) = Set(entries)
  BY <1>1, <1>16, EntriesRead
<1> QED
  BY <1>14, <1>17, <1>18

LEMMA ResourceRead ==
  ASSUME NEW resource \in MetricResource
  PROVE  /\ metricResourceProto(resource) \in Text
         /\ ReadResource(metricResourceProto(resource)) = [resource EXCEPT !.attributes = Set(@)]
<1>1. PICK texts : texts = resource.texts /\ texts \in Texts(1..10)
  BY DEF MetricResource
<1>2. PICK entries \in Seq(MetricStringMapEntry) : entries = resource.attributes
  BY DEF MetricResource
<1>3. [resource EXCEPT !.attributes = Set(@)] = [texts |-> texts, attributes |-> Set(entries)]
  BY <1>1, <1>2 DEF MetricResource
<1>4. PICK bytes : bytes = metricResourceProto(resource)
  OBVIOUS
<1>5. bytes = TextsProto(10, texts, entries)
  BY <1>1, <1>2, <1>4 DEF metricResourceProto, TextsProto
<1>6. bytes \in Text /\ TextsOf(bytes, 1..10) = texts /\ EntriesOf(bytes, 20) = Set(entries)
  <2>1. PICK k \in Nat : k = 10 /\ k < 20
    OBVIOUS
  <2>2. texts \in Texts(1..k) /\ bytes = TextsProto(k, texts, entries)
    BY <1>1, <1>5, <2>1
  <2>3. bytes \in Text /\ TextsOf(bytes, 1..k) = texts /\ EntriesOf(bytes, 20) = Set(entries)
    BY <2>1, <2>2, TextsAndEntriesRead
  <2> QED
    BY <2>1, <2>3
<1> QED
  BY <1>3, <1>4, <1>6 DEF ReadResource

LEMMA IdentityRead ==
  ASSUME NEW identity \in MetricIngestIdentity
  PROVE  /\ metricIngestIdentityProto(identity) \in Text
         /\ ReadIdentity(metricIngestIdentityProto(identity)) = [identity EXCEPT !.attributes = Set(@)]
<1>1. PICK texts : texts = identity.texts /\ texts \in Texts(1..5)
  BY DEF MetricIngestIdentity
<1>2. PICK entries \in Seq(MetricStringMapEntry) : entries = identity.attributes
  BY DEF MetricIngestIdentity
<1>3. [identity EXCEPT !.attributes = Set(@)] = [texts |-> texts, attributes |-> Set(entries)]
  BY <1>1, <1>2 DEF MetricIngestIdentity
<1>4. PICK bytes : bytes = metricIngestIdentityProto(identity)
  OBVIOUS
<1>5. bytes = TextsProto(5, texts, entries)
  BY <1>1, <1>2, <1>4 DEF metricIngestIdentityProto, TextsProto
<1>6. bytes \in Text /\ TextsOf(bytes, 1..5) = texts /\ EntriesOf(bytes, 20) = Set(entries)
  <2>1. PICK k \in Nat : k = 5 /\ k < 20
    OBVIOUS
  <2>2. texts \in Texts(1..k) /\ bytes = TextsProto(k, texts, entries)
    BY <1>1, <1>5, <2>1
  <2>3. bytes \in Text /\ TextsOf(bytes, 1..k) = texts /\ EntriesOf(bytes, 20) = Set(entries)
    BY <2>1, <2>2, TextsAndEntriesRead
  <2> QED
    BY <2>1, <2>3
<1> QED
  BY <1>3, <1>4, <1>6 DEF ReadIdentity

LEMMA DoubleRead ==
  ASSUME NEW bytes, NEW number, NEW v, Those(bytes, number, 1) = Unless(Zeros, v)
  PROVE  Single(bytes, number, 1, Zeros) = v
  BY SingleRead

\* A point is read as it was written; it is no bytes only when none of its fields is set.
LEMMA PointRead ==
  ASSUME NEW point \in MetricPoint
  PROVE  /\ metricPointProto(point) \in Text /\ ReadPoint(metricPointProto(point)) = PointMeaning(point)
         /\ metricPointProto(point) = << >> <=> PointMeaning(point) = NoPoint
<1>1. /\ point.value \in Double /\ point.texts \in Texts({2, 6, 8, 9}) /\ point.rawValueType \in Int32
      /\ point.observedAt \in Nat /\ point.startTime \in Nat /\ point.ifIndex \in Int32
      /\ point.attributes \in Seq(MetricStringMapEntry) /\ point.metadata \in Seq(MetricStringMapEntry)
  BY EnvelopeAssumption DEF MetricPoint, Word
<1>2. PICK meaning : meaning = PointMeaning(point)
  OBVIOUS
<1>3. meaning = [value |-> Positive(point.value), texts |-> point.texts,
                 rawValueType |-> point.rawValueType, observedAt |-> point.observedAt,
                 startTime |-> point.startTime, ifIndex |-> point.ifIndex,
                 attributes |-> Set(point.attributes), metadata |-> Set(point.metadata)]
  BY <1>2 DEF PointMeaning, MetricPoint
<1>4. PICK v10 : Carries(appendEntries(20, point.attributes), PartOf(20, 2, v10))
                 /\ EntriesIn(v10, point.attributes)
  BY <1>1, EntriesCarried
<1>5. PICK v11 : Carries(appendEntries(21, point.metadata), PartOf(21, 2, v11))
                 /\ EntriesIn(v11, point.metadata)
  BY <1>1, EntriesCarried
<1>6. PICK pieces :
        pieces = <<appendDouble(1, point.value), appendText(2, point.texts),
                   appendInt32(3, point.rawValueType), appendUint(4, point.observedAt),
                   appendUint(5, point.startTime), appendText(6, point.texts),
                   appendInt32(7, point.ifIndex), appendText(8, point.texts),
                   appendText(9, point.texts), appendEntries(20, point.attributes),
                   appendEntries(21, point.metadata)>>
  OBVIOUS
<1>7. PICK parts :
        parts = <<PartOf(1, 1, Unless(Zeros, Positive(point.value))),
                  PartOf(2, 2, Unless(<< >>, point.texts[2])),
                  PartOf(3, 0, Unless(0, point.rawValueType % WordSize)),
                  PartOf(4, 0, Unless(0, point.observedAt)),
                  PartOf(5, 0, Unless(0, point.startTime)),
                  PartOf(6, 2, Unless(<< >>, point.texts[6])),
                  PartOf(7, 0, Unless(0, point.ifIndex % WordSize)),
                  PartOf(8, 2, Unless(<< >>, point.texts[8])),
                  PartOf(9, 2, Unless(<< >>, point.texts[9])),
                  PartOf(20, 2, v10), PartOf(21, 2, v11)>>
  OBVIOUS
<1>8. /\ Carries(pieces[1], parts[1]) /\ Carries(pieces[2], parts[2]) /\ Carries(pieces[3], parts[3])
      /\ Carries(pieces[4], parts[4]) /\ Carries(pieces[5], parts[5]) /\ Carries(pieces[6], parts[6])
      /\ Carries(pieces[7], parts[7]) /\ Carries(pieces[8], parts[8]) /\ Carries(pieces[9], parts[9])
      /\ Carries(pieces[10], parts[10]) /\ Carries(pieces[11], parts[11])
  <2>1. Carries(pieces[1], parts[1])
    <3>1. Carries(appendDouble(1, point.value), PartOf(1, 1, Unless(Zeros, Positive(point.value))))
      BY <1>1, DoubleCarried
    <3> QED
      BY <1>6, <1>7, <3>1
  <2>2. \A n \in {2, 6, 8, 9} :
          Carries(appendText(n, point.texts), PartOf(n, 2, Unless(<< >>, point.texts[n])))
    BY <1>1, TextCarried
  <2>3. Carries(pieces[2], parts[2]) /\ Carries(pieces[6], parts[6])
        /\ Carries(pieces[8], parts[8]) /\ Carries(pieces[9], parts[9])
    BY <1>6, <1>7, <2>2
  <2>4. Carries(pieces[3], parts[3]) /\ Carries(pieces[7], parts[7])
    <3>1. Carries(appendInt32(3, point.rawValueType), PartOf(3, 0, Unless(0, point.rawValueType % WordSize)))
      BY <1>1, Int32Carried
    <3>2. Carries(appendInt32(7, point.ifIndex), PartOf(7, 0, Unless(0, point.ifIndex % WordSize)))
      BY <1>1, Int32Carried
    <3> QED
      BY <1>6, <1>7, <3>1, <3>2
  <2>5. Carries(pieces[4], parts[4]) /\ Carries(pieces[5], parts[5])
    <3>1. Carries(appendUint(4, point.observedAt), PartOf(4, 0, Unless(0, point.observedAt)))
      BY <1>1, UintCarried
    <3>2. Carries(appendUint(5, point.startTime), PartOf(5, 0, Unless(0, point.startTime)))
      BY <1>1, UintCarried
    <3> QED
      BY <1>6, <1>7, <3>1, <3>2
  <2>6. Carries(pieces[10], parts[10]) /\ Carries(pieces[11], parts[11])
    BY <1>4, <1>5, <1>6, <1>7
  <2> QED
    BY <2>1, <2>3, <2>4, <2>5, <2>6
<1>9. /\ parts[1].number = 1 /\ parts[2].number = 2 /\ parts[3].number = 3 /\ parts[4].number = 4
      /\ parts[5].number = 5 /\ parts[6].number = 6 /\ parts[7].number = 7 /\ parts[8].number = 8
      /\ parts[9].number = 9 /\ parts[10].number = 20 /\ parts[11].number = 21
  BY <1>7 DEF PartOf
<1>10. \A i \in 1..11 : \/ i = 1 \/ i = 2 \/ i = 3 \/ i = 4 \/ i = 5 \/ i = 6
                        \/ i = 7 \/ i = 8 \/ i = 9 \/ i = 10 \/ i = 11
  OBVIOUS
<1>11. Composed(pieces, parts, 11)
  <2>1. pieces = [i \in 1..11 |-> pieces[i]] /\ parts = [i \in 1..11 |-> parts[i]]
    BY <1>6, <1>7
  <2>2. \A i \in 1..11 : Carries(pieces[i], parts[i])
    BY <1>8, <1>10
  <2>3. \A i \in 1..11 : parts[i].number = IF i <= 9 THEN i ELSE i + 10
    BY <1>9, <1>10
  <2>4. \A i, j \in 1..11 : parts[i].number = parts[j].number => i = j
    BY <2>3
  <2> QED
    BY <2>1, <2>2, <2>4 DEF Composed
<1>12. PICK bytes : bytes = FlattenSeq(pieces)
  OBVIOUS
<1>13. bytes = metricPointProto(point)
  BY <1>6, <1>12 DEF metricPointProto
<1>14. /\ bytes \in Text
       /\ \A j \in 1..11 : Those(bytes, parts[j].number, parts[j].wire) = parts[j].values
       /\ (\A j \in 1..11 : parts[j].values = << >>) => bytes = << >>
  BY <1>11, <1>12, PiecesRead
<1>15. /\ Those(bytes, 1, 1) = Unless(Zeros, Positive(point.value))
       /\ Those(bytes, 3, 0) = Unless(0, point.rawValueType % WordSize)
       /\ Those(bytes, 4, 0) = Unless(0, point.observedAt)
       /\ Those(bytes, 5, 0) = Unless(0, point.startTime)
       /\ Those(bytes, 7, 0) = Unless(0, point.ifIndex % WordSize)
       /\ Those(bytes, 20, 2) = v10 /\ Those(bytes, 21, 2) = v11
  <2>1. /\ parts[1].wire = 1 /\ parts[3].wire = 0 /\ parts[4].wire = 0 /\ parts[5].wire = 0
        /\ parts[7].wire = 0 /\ parts[10].wire = 2 /\ parts[11].wire = 2
        /\ parts[1].values = Unless(Zeros, Positive(point.value))
        /\ parts[3].values = Unless(0, point.rawValueType % WordSize)
        /\ parts[4].values = Unless(0, point.observedAt) /\ parts[5].values = Unless(0, point.startTime)
        /\ parts[7].values = Unless(0, point.ifIndex % WordSize)
        /\ parts[10].values = v10 /\ parts[11].values = v11
    BY <1>7 DEF PartOf
  <2> QED
    BY <1>9, <1>14, <2>1
<1>16. \A n \in {2, 6, 8, 9} :
         /\ parts[n].number = n /\ parts[n].wire = 2 /\ parts[n].values = Unless(<< >>, point.texts[n])
         /\ Those(bytes, n, 2) = Unless(<< >>, point.texts[n])
  <2>1. \A n \in {2, 6, 8, 9} :
          /\ n \in 1..11 /\ parts[n].number = n /\ parts[n].wire = 2
          /\ parts[n].values = Unless(<< >>, point.texts[n])
    BY <1>7 DEF PartOf
  <2> QED
    BY <1>14, <2>1
<1>17. ReadPoint(bytes) = meaning
  <2>1. Single(bytes, 1, 1, Zeros) = Positive(point.value)
    BY <1>15, DoubleRead
  <2>2. TextsOf(bytes, {2, 6, 8, 9}) = point.texts
    BY <1>1, <1>16, TextsRead
  <2>3. Int32Of(bytes, 3) = point.rawValueType /\ Int32Of(bytes, 7) = point.ifIndex
    BY <1>1, <1>15, Int32Read
  <2>4. Single(bytes, 4, 0, 0) = point.observedAt /\ Single(bytes, 5, 0, 0) = point.startTime
    <3>1. Single(bytes, 4, 0, 0) = IF point.observedAt = 0 THEN 0 ELSE point.observedAt
      BY <1>15, SingleRead
    <3>2. Single(bytes, 5, 0, 0) = IF point.startTime = 0 THEN 0 ELSE point.startTime
      BY <1>15, SingleRead
    <3> QED
      BY <3>1, <3>2
  <2>5. EntriesOf(bytes, 20) = Set(point.attributes) /\ EntriesOf(bytes, 21) = Set(point.metadata)
    BY <1>4, <1>5, <1>15, EntriesRead
  <2> QED
    BY <1>3, <2>1, <2>2, <2>3, <2>4, <2>5 DEF ReadPoint
<1>18. ASSUME bytes = << >> PROVE meaning = NoPoint
  <2>1. ReadPoint(<< >>) = NoPoint
    <3>1. Int32Of(<< >>, 3) = 0 /\ Int32Of(<< >>, 7) = 0
      BY NoSingleRead, NoInt32Read
    <3> QED
      BY <3>1, NoSingleRead, NoTextsRead, NoEntriesRead DEF ReadPoint, NoPoint
  <2> QED
    BY <1>17, <1>18, <2>1
<1>19. ASSUME meaning = NoPoint PROVE bytes = << >>
  <2>1. /\ Positive(point.value) = Zeros /\ point.texts = NoTexts({2, 6, 8, 9})
        /\ point.rawValueType = 0 /\ point.observedAt = 0 /\ point.startTime = 0 /\ point.ifIndex = 0
        /\ Set(point.attributes) = << >> /\ Set(point.metadata) = << >>
    BY <1>3, <1>19 DEF NoPoint
  <2>2. v10 = << >> /\ v11 = << >>
    BY <1>4, <1>5, <2>1, EntriesRead
  <2>3. \A n \in {2, 6, 8, 9} : point.texts[n] = << >>
    BY <2>1 DEF NoTexts
  <2>4. 0 % WordSize = 0
    BY <1>1, <2>1, Int32Back
  <2>5. \A n \in {2, 6, 8, 9} : parts[n].values = << >>
    BY <1>16, <2>3 DEF Unless
  <2>6. /\ parts[1].values = << >> /\ parts[3].values = << >> /\ parts[4].values = << >>
        /\ parts[5].values = << >> /\ parts[7].values = << >> /\ parts[10].values = << >>
        /\ parts[11].values = << >>
    BY <1>7, <2>1, <2>2, <2>4 DEF PartOf, Unless
  <2>7. \A j \in 1..11 : parts[j].values = << >>
    BY <1>10, <2>5, <2>6
  <2> QED
    BY <1>14, <2>7
<1> QED
  BY <1>2, <1>13, <1>14, <1>17, <1>18, <1>19

\* The points of a repeated field, as bytes.
PointsProto(number, points) == Joined(LAMBDA point : appendBytes(number, metricPointProto(point)), points)
\* The points that have a value.
PointsSet(points) == Joined(LAMBDA point : Unless(NoPoint, PointMeaning(point)), points)
PointsIn(values, points) ==
  values \in Seq(Text) /\ [i \in 1..Len(values) |-> ReadPoint(values[i])] = PointsSet(points)

LEMMA PointsCarried ==
  ASSUME NEW number \in Nat, NEW points \in Seq(MetricPoint)
  PROVE  \E values : Carries(PointsProto(number, points), PartOf(number, 2, values))
                     /\ PointsIn(values, points)
<1>1. PICK k \in Nat : k = Len(points) /\ \A i \in 1..k : points[i] \in MetricPoint
  OBVIOUS
<1>2. PICK protos : protos = [i \in 1..k |-> metricPointProto(points[i])]
  OBVIOUS
<1>3. PICK meanings : meanings = [i \in 1..k |-> PointMeaning(points[i])]
  OBVIOUS
<1>4. ASSUME NEW i \in 1..k
      PROVE  /\ protos[i] \in Text /\ protos[i] = metricPointProto(points[i])
             /\ meanings[i] = PointMeaning(points[i])
             /\ ReadPoint(protos[i]) = meanings[i] /\ (protos[i] = << >> <=> meanings[i] = NoPoint)
  BY <1>1, <1>2, <1>3, PointRead
<1>5. protos \in Seq(Text) /\ Len(protos) = k
  <2>1. protos \in [1..k -> Text]
    BY <1>2, <1>4
  <2> QED
    BY <2>1, ListOfLength
<1>6. PICK R : R = {ReadPoint(b) : b \in Text}
  OBVIOUS
<1>7. PICK read : read = [b \in Text |-> ReadPoint(b)]
  OBVIOUS
<1>8. read \in [Text -> R] /\ \A b \in Text : read[b] = ReadPoint(b)
  BY <1>6, <1>7
<1>9. meanings \in Seq(R) /\ Len(meanings) = k
  <2>1. \A i \in 1..k : meanings[i] \in R
    <3> SUFFICES ASSUME NEW i \in 1..k PROVE meanings[i] \in R
      OBVIOUS
    <3>1. PICK b \in Text : meanings[i] = ReadPoint(b)
      BY <1>4
    <3> QED
      BY <1>6, <3>1
  <2>2. meanings \in [1..k -> R]
    BY <1>3, <2>1
  <2> QED
    BY <2>2, ListOfLength
<1>10. \A i \in 1..Len(protos) :
         read[protos[i]] = meanings[i] /\ (protos[i] = << >> <=> meanings[i] = NoPoint)
  BY <1>4, <1>5, <1>8
<1>11. Mean(protos, meanings, NoPoint, read, R)
  BY <1>5, <1>8, <1>9, <1>10 DEF Mean
<1>12. PICK values \in Seq(Text) :
         /\ Carries(AppendedAll(number, protos), PartOf(number, 2, values))
         /\ ReadBy(read, values) = WithoutEmpty(NoPoint, meanings)
  BY <1>11, ElementsRead
<1>13. [i \in 1..k |-> appendBytes(number, protos[i])]
       = [i \in 1..k |-> appendBytes(number, metricPointProto(points[i]))]
  BY <1>4
<1>14. Carries(PointsProto(number, points), PartOf(number, 2, values))
  BY <1>1, <1>5, <1>12, <1>13 DEF PointsProto, Joined, AppendedAll
<1>15. [i \in 1..Len(values) |-> ReadPoint(values[i])] = ReadBy(read, values)
  <2>1. \A i \in 1..Len(values) : values[i] \in Text
    OBVIOUS
  <2> QED
    BY <1>8, <2>1 DEF ReadBy
<1>16. [i \in 1..k |-> Unless(NoPoint, meanings[i])]
       = [i \in 1..k |-> Unless(NoPoint, PointMeaning(points[i]))]
  BY <1>4
<1>17. PointsIn(values, points)
  BY <1>1, <1>9, <1>12, <1>15, <1>16 DEF PointsIn, PointsSet, Joined, WithoutEmpty
<1> QED
  BY <1>14, <1>17

LEMMA PointsRead ==
  ASSUME NEW values, NEW points, PointsIn(values, points)
  PROVE  /\ \A bytes, number : Those(bytes, number, 2) = values =>
                               EachOf(ReadPoint, bytes, number) = PointsSet(points)
         /\ PointsSet(points) = << >> => values = << >>
<1>1. \A bytes, number : Those(bytes, number, 2) = values =>
                         EachOf(ReadPoint, bytes, number) = PointsSet(points)
  BY DEF PointsIn, EachOf
<1>2. ASSUME PointsSet(points) = << >> PROVE values = << >>
  <2>1. PICK k \in Nat : k = Len(values)
    BY DEF PointsIn
  <2>2. [i \in 1..k |-> ReadPoint(values[i])] = << >>
    BY <1>2, <2>1 DEF PointsIn
  <2>3. k = 0
    BY <2>2
  <2>4. values \in Seq(Text)
    BY DEF PointsIn
  <2> QED
    BY <2>1, <2>3, <2>4, NoLength
<1> QED
  BY <1>1, <1>2

LEMMA BoolCarried ==
  ASSUME NEW number \in Nat, NEW b \in BOOLEAN
  PROVE  Carries(appendBool(number, b), PartOf(number, 0, Unless(0, IF b THEN 1 ELSE 0)))
<1>1. PICK n \in Nat : n = IF b THEN 1 ELSE 0
  OBVIOUS
<1> QED
  BY <1>1, UintCarried DEF appendBool

\* A metric is read as it was written, its points with it.
LEMMA MetricRead ==
  ASSUME NEW metric \in Metric
  PROVE  /\ metricProto(metric) \in Text /\ ReadMetric(metricProto(metric)) = MetricMeaning(metric)
         /\ metricProto(metric) = << >> <=> MetricMeaning(metric) = NoMetric
<1>1. /\ metric.texts \in Texts({1, 2, 6}) /\ metric.metricKind \in Int32 /\ metric.temporality \in Int32
      /\ metric.isMonotonic \in BOOLEAN /\ metric.scale \in Double /\ metric.counterWidth \in Nat
      /\ metric.points \in Seq(MetricPoint) /\ metric.tags \in Seq(MetricStringMapEntry)
      /\ metric.metadata \in Seq(MetricStringMapEntry) /\ metric.thresholds \in Seq(MetricStringMapEntry)
  BY EnvelopeAssumption DEF Metric
<1>2. PICK meaning : meaning = MetricMeaning(metric)
  OBVIOUS
<1>3. meaning = [texts |-> metric.texts, metricKind |-> metric.metricKind,
                 temporality |-> metric.temporality, isMonotonic |-> metric.isMonotonic,
                 scale |-> Positive(metric.scale), counterWidth |-> metric.counterWidth,
                 points |-> PointsSet(metric.points), tags |-> Set(metric.tags),
                 metadata |-> Set(metric.metadata), thresholds |-> Set(metric.thresholds)]
  BY <1>2 DEF MetricMeaning, Metric, PointsSet
<1>4. PICK v9 : Carries(PointsProto(20, metric.points), PartOf(20, 2, v9)) /\ PointsIn(v9, metric.points)
  BY <1>1, PointsCarried
<1>5. PICK v10 : Carries(appendEntries(30, metric.tags), PartOf(30, 2, v10)) /\ EntriesIn(v10, metric.tags)
  BY <1>1, EntriesCarried
<1>6. PICK v11 : Carries(appendEntries(31, metric.metadata), PartOf(31, 2, v11))
                 /\ EntriesIn(v11, metric.metadata)
  BY <1>1, EntriesCarried
<1>7. PICK v12 : Carries(appendEntries(32, metric.thresholds), PartOf(32, 2, v12))
                 /\ EntriesIn(v12, metric.thresholds)
  BY <1>1, EntriesCarried
<1>8. PICK flag \in {0, 1} : flag = IF metric.isMonotonic THEN 1 ELSE 0
  OBVIOUS
<1>9. PICK pieces :
        pieces = <<appendText(1, metric.texts), appendText(2, metric.texts),
                   appendInt32(3, metric.metricKind), appendInt32(4, metric.temporality),
                   appendBool(5, metric.isMonotonic), appendText(6, metric.texts),
                   appendDouble(7, metric.scale), appendUint(8, metric.counterWidth),
                   PointsProto(20, metric.points), appendEntries(30, metric.tags),
                   appendEntries(31, metric.metadata), appendEntries(32, metric.thresholds)>>
  OBVIOUS
<1>10. PICK parts :
        parts = <<PartOf(1, 2, Unless(<< >>, metric.texts[1])),
                  PartOf(2, 2, Unless(<< >>, metric.texts[2])),
                  PartOf(3, 0, Unless(0, metric.metricKind % WordSize)),
                  PartOf(4, 0, Unless(0, metric.temporality % WordSize)),
                  PartOf(5, 0, Unless(0, flag)),
                  PartOf(6, 2, Unless(<< >>, metric.texts[6])),
                  PartOf(7, 1, Unless(Zeros, Positive(metric.scale))),
                  PartOf(8, 0, Unless(0, metric.counterWidth)),
                  PartOf(20, 2, v9), PartOf(30, 2, v10), PartOf(31, 2, v11), PartOf(32, 2, v12)>>
  OBVIOUS
<1>11. /\ Carries(pieces[1], parts[1]) /\ Carries(pieces[2], parts[2]) /\ Carries(pieces[3], parts[3])
       /\ Carries(pieces[4], parts[4]) /\ Carries(pieces[5], parts[5]) /\ Carries(pieces[6], parts[6])
       /\ Carries(pieces[7], parts[7]) /\ Carries(pieces[8], parts[8]) /\ Carries(pieces[9], parts[9])
       /\ Carries(pieces[10], parts[10]) /\ Carries(pieces[11], parts[11]) /\ Carries(pieces[12], parts[12])
  <2>1. \A n \in {1, 2, 6} :
          Carries(appendText(n, metric.texts), PartOf(n, 2, Unless(<< >>, metric.texts[n])))
    BY <1>1, TextCarried
  <2>2. Carries(pieces[1], parts[1]) /\ Carries(pieces[2], parts[2]) /\ Carries(pieces[6], parts[6])
    BY <1>9, <1>10, <2>1
  <2>3. Carries(pieces[3], parts[3]) /\ Carries(pieces[4], parts[4])
    <3>1. Carries(appendInt32(3, metric.metricKind), PartOf(3, 0, Unless(0, metric.metricKind % WordSize)))
      BY <1>1, Int32Carried
    <3>2. Carries(appendInt32(4, metric.temporality), PartOf(4, 0, Unless(0, metric.temporality % WordSize)))
      BY <1>1, Int32Carried
    <3> QED
      BY <1>9, <1>10, <3>1, <3>2
  <2>4. Carries(pieces[5], parts[5]) /\ Carries(pieces[8], parts[8])
    <3>1. Carries(appendBool(5, metric.isMonotonic), PartOf(5, 0, Unless(0, flag)))
      BY <1>1, <1>8, BoolCarried
    <3>2. Carries(appendUint(8, metric.counterWidth), PartOf(8, 0, Unless(0, metric.counterWidth)))
      BY <1>1, UintCarried
    <3> QED
      BY <1>9, <1>10, <3>1, <3>2
  <2>5. Carries(pieces[7], parts[7])
    <3>1. Carries(appendDouble(7, metric.scale), PartOf(7, 1, Unless(Zeros, Positive(metric.scale))))
      BY <1>1, DoubleCarried
    <3> QED
      BY <1>9, <1>10, <3>1
  <2>6. Carries(pieces[9], parts[9]) /\ Carries(pieces[10], parts[10])
        /\ Carries(pieces[11], parts[11]) /\ Carries(pieces[12], parts[12])
    BY <1>4, <1>5, <1>6, <1>7, <1>9, <1>10
  <2> QED
    BY <2>2, <2>3, <2>4, <2>5, <2>6
<1>12. /\ parts[1].number = 1 /\ parts[2].number = 2 /\ parts[3].number = 3 /\ parts[4].number = 4
       /\ parts[5].number = 5 /\ parts[6].number = 6 /\ parts[7].number = 7 /\ parts[8].number = 8
       /\ parts[9].number = 20 /\ parts[10].number = 30 /\ parts[11].number = 31
       /\ parts[12].number = 32
  BY <1>10 DEF PartOf
<1>13. \A i \in 1..12 : \/ i = 1 \/ i = 2 \/ i = 3 \/ i = 4 \/ i = 5 \/ i = 6
                        \/ i = 7 \/ i = 8 \/ i = 9 \/ i = 10 \/ i = 11 \/ i = 12
  OBVIOUS
<1>14. Composed(pieces, parts, 12)
  <2>1. pieces = [i \in 1..12 |-> pieces[i]] /\ parts = [i \in 1..12 |-> parts[i]]
    BY <1>9, <1>10
  <2>2. \A i \in 1..12 : Carries(pieces[i], parts[i])
    BY <1>11, <1>13
  <2>3. \A i \in 1..12 : parts[i].number = IF i <= 8 THEN i ELSE IF i = 9 THEN 20 ELSE i + 20
    BY <1>12, <1>13
  <2>4. \A i, j \in 1..12 : parts[i].number = parts[j].number => i = j
    BY <2>3
  <2> QED
    BY <2>1, <2>2, <2>4 DEF Composed
<1>15. PICK bytes : bytes = FlattenSeq(pieces)
  OBVIOUS
<1>16. bytes = metricProto(metric)
  BY <1>9, <1>15 DEF metricProto, PointsProto
<1>17. /\ bytes \in Text
       /\ \A j \in 1..12 : Those(bytes, parts[j].number, parts[j].wire) = parts[j].values
       /\ (\A j \in 1..12 : parts[j].values = << >>) => bytes = << >>
  BY <1>14, <1>15, PiecesRead
<1>18. /\ Those(bytes, 3, 0) = Unless(0, metric.metricKind % WordSize)
       /\ Those(bytes, 4, 0) = Unless(0, metric.temporality % WordSize)
       /\ Those(bytes, 5, 0) = Unless(0, flag)
       /\ Those(bytes, 7, 1) = Unless(Zeros, Positive(metric.scale))
       /\ Those(bytes, 8, 0) = Unless(0, metric.counterWidth)
       /\ Those(bytes, 20, 2) = v9 /\ Those(bytes, 30, 2) = v10
       /\ Those(bytes, 31, 2) = v11 /\ Those(bytes, 32, 2) = v12
  <2>1. /\ parts[3].wire = 0 /\ parts[4].wire = 0 /\ parts[5].wire = 0 /\ parts[7].wire = 1
        /\ parts[8].wire = 0 /\ parts[9].wire = 2 /\ parts[10].wire = 2 /\ parts[11].wire = 2
        /\ parts[12].wire = 2
        /\ parts[3].values = Unless(0, metric.metricKind % WordSize)
        /\ parts[4].values = Unless(0, metric.temporality % WordSize)
        /\ parts[5].values = Unless(0, flag) /\ parts[7].values = Unless(Zeros, Positive(metric.scale))
        /\ parts[8].values = Unless(0, metric.counterWidth)
        /\ parts[9].values = v9 /\ parts[10].values = v10 /\ parts[11].values = v11
        /\ parts[12].values = v12
    BY <1>10 DEF PartOf
  <2>2. /\ Those(bytes, 3, 0) = parts[3].values /\ Those(bytes, 4, 0) = parts[4].values
        /\ Those(bytes, 5, 0) = parts[5].values /\ Those(bytes, 7, 1) = parts[7].values
        /\ Those(bytes, 8, 0) = parts[8].values
    BY <1>12, <1>17, <2>1
  <2>3. /\ Those(bytes, 20, 2) = parts[9].values /\ Those(bytes, 30, 2) = parts[10].values
        /\ Those(bytes, 31, 2) = parts[11].values /\ Those(bytes, 32, 2) = parts[12].values
    BY <1>12, <1>17, <2>1
  <2> QED
    BY <2>1, <2>2, <2>3
<1>19. \A n \in {1, 2, 6} :
         /\ parts[n].values = Unless(<< >>, metric.texts[n])
         /\ Those(bytes, n, 2) = Unless(<< >>, metric.texts[n])
  <2>1. \A n \in {1, 2, 6} :
          /\ n \in 1..12 /\ parts[n].number = n /\ parts[n].wire = 2
          /\ parts[n].values = Unless(<< >>, metric.texts[n])
    BY <1>10 DEF PartOf
  <2> QED
    BY <1>17, <2>1
<1>20. ReadMetric(bytes) = meaning
  <2>1. TextsOf(bytes, {1, 2, 6}) = metric.texts
    <3>1. \A n \in {1, 2, 6} : Those(bytes, n, 2) = Unless(<< >>, metric.texts[n])
      BY <1>19
    <3> QED
      BY <1>1, <3>1, TextsRead
  <2>2. Int32Of(bytes, 3) = metric.metricKind /\ Int32Of(bytes, 4) = metric.temporality
    BY <1>1, <1>18, Int32Read
  <2>3. (Single(bytes, 5, 0, 0) # 0) = metric.isMonotonic
    <3>1. Single(bytes, 5, 0, 0) = IF flag = 0 THEN 0 ELSE flag
      BY <1>18, SingleRead
    <3> QED
      BY <1>1, <1>8, <3>1
  <2>4. Single(bytes, 7, 1, Zeros) = Positive(metric.scale)
    BY <1>18, DoubleRead
  <2>5. Single(bytes, 8, 0, 0) = metric.counterWidth
    <3>1. Single(bytes, 8, 0, 0) = IF metric.counterWidth = 0 THEN 0 ELSE metric.counterWidth
      BY <1>18, SingleRead
    <3> QED
      BY <3>1
  <2>6. EachOf(ReadPoint, bytes, 20) = PointsSet(metric.points)
    BY <1>4, <1>18, PointsRead
  <2>7. EntriesOf(bytes, 30) = Set(metric.tags) /\ EntriesOf(bytes, 31) = Set(metric.metadata)
        /\ EntriesOf(bytes, 32) = Set(metric.thresholds)
    BY <1>5, <1>6, <1>7, <1>18, EntriesRead
  <2> QED
    BY <1>3, <2>1, <2>2, <2>3, <2>4, <2>5, <2>6, <2>7 DEF ReadMetric
<1>21. ASSUME bytes = << >> PROVE meaning = NoMetric
  <2>1. ReadMetric(<< >>) = NoMetric
    <3>1. Int32Of(<< >>, 3) = 0 /\ Int32Of(<< >>, 4) = 0
      BY NoInt32Read
    <3>2. EachOf(ReadPoint, << >>, 20) = << >>
      BY NothingRead DEF EachOf
    <3>3. Single(<< >>, 5, 0, 0) = 0 /\ Single(<< >>, 8, 0, 0) = 0 /\ Single(<< >>, 7, 1, Zeros) = Zeros
      BY NoSingleRead
    <3> QED
      BY <3>1, <3>2, <3>3, NoTextsRead, NoEntriesRead DEF ReadMetric, NoMetric
  <2> QED
    BY <1>20, <1>21, <2>1
<1>22. ASSUME meaning = NoMetric PROVE bytes = << >>
  <2>1. /\ metric.texts = NoTexts({1, 2, 6}) /\ metric.metricKind = 0 /\ metric.temporality = 0
        /\ metric.isMonotonic = FALSE /\ Positive(metric.scale) = Zeros /\ metric.counterWidth = 0
        /\ PointsSet(metric.points) = << >> /\ Set(metric.tags) = << >>
        /\ Set(metric.metadata) = << >> /\ Set(metric.thresholds) = << >>
    BY <1>3, <1>22 DEF NoMetric
  <2>2. v9 = << >> /\ v10 = << >> /\ v11 = << >> /\ v12 = << >>
    BY <1>4, <1>5, <1>6, <1>7, <2>1, EntriesRead, PointsRead
  <2>3. \A n \in {1, 2, 6} : metric.texts[n] = << >>
    BY <2>1 DEF NoTexts
  <2>4. 0 % WordSize = 0 /\ flag = 0
    BY <1>1, <1>8, <2>1, Int32Back
  <2>5. \A n \in {1, 2, 6} : parts[n].values = << >>
    BY <1>19, <2>3 DEF Unless
  <2>6. /\ parts[3].values = << >> /\ parts[4].values = << >> /\ parts[5].values = << >>
        /\ parts[7].values = << >> /\ parts[8].values = << >> /\ parts[9].values = << >>
        /\ parts[10].values = << >> /\ parts[11].values = << >> /\ parts[12].values = << >>
    BY <1>10, <2>1, <2>2, <2>4 DEF PartOf, Unless
  <2>7. \A j \in 1..12 : parts[j].values = << >>
    BY <1>13, <2>5, <2>6
  <2> QED
    BY <1>17, <2>7
<1> QED
  BY <1>2, <1>16, <1>17, <1>20, <1>21, <1>22

\* The metrics of a repeated field, as bytes.
MetricsProto(number, metrics) == Joined(LAMBDA metric : appendBytes(number, metricProto(metric)), metrics)
\* The metrics that have a value.
MetricsSet(metrics) == Joined(LAMBDA metric : Unless(NoMetric, MetricMeaning(metric)), metrics)
MetricsIn(values, metrics) ==
  values \in Seq(Text) /\ [i \in 1..Len(values) |-> ReadMetric(values[i])] = MetricsSet(metrics)

LEMMA MetricsCarried ==
  ASSUME NEW number \in Nat, NEW metrics \in Seq(Metric)
  PROVE  \E values : Carries(MetricsProto(number, metrics), PartOf(number, 2, values))
                     /\ MetricsIn(values, metrics)
<1>1. PICK k \in Nat : k = Len(metrics) /\ \A i \in 1..k : metrics[i] \in Metric
  OBVIOUS
<1>2. PICK protos : protos = [i \in 1..k |-> metricProto(metrics[i])]
  OBVIOUS
<1>3. PICK meanings : meanings = [i \in 1..k |-> MetricMeaning(metrics[i])]
  OBVIOUS
<1>4. ASSUME NEW i \in 1..k
      PROVE  /\ protos[i] \in Text /\ protos[i] = metricProto(metrics[i])
             /\ meanings[i] = MetricMeaning(metrics[i])
             /\ ReadMetric(protos[i]) = meanings[i] /\ (protos[i] = << >> <=> meanings[i] = NoMetric)
  BY <1>1, <1>2, <1>3, MetricRead
<1>5. protos \in Seq(Text) /\ Len(protos) = k
  <2>1. protos \in [1..k -> Text]
    BY <1>2, <1>4
  <2> QED
    BY <2>1, ListOfLength
<1>6. PICK R : R = {ReadMetric(b) : b \in Text}
  OBVIOUS
<1>7. PICK read : read = [b \in Text |-> ReadMetric(b)]
  OBVIOUS
<1>8. read \in [Text -> R] /\ \A b \in Text : read[b] = ReadMetric(b)
  BY <1>6, <1>7
<1>9. meanings \in Seq(R) /\ Len(meanings) = k
  <2>1. \A i \in 1..k : meanings[i] \in R
    <3> SUFFICES ASSUME NEW i \in 1..k PROVE meanings[i] \in R
      OBVIOUS
    <3>1. PICK b \in Text : meanings[i] = ReadMetric(b)
      BY <1>4
    <3> QED
      BY <1>6, <3>1
  <2>2. meanings \in [1..k -> R]
    BY <1>3, <2>1
  <2> QED
    BY <2>2, ListOfLength
<1>10. \A i \in 1..Len(protos) :
         read[protos[i]] = meanings[i] /\ (protos[i] = << >> <=> meanings[i] = NoMetric)
  BY <1>4, <1>5, <1>8
<1>11. Mean(protos, meanings, NoMetric, read, R)
  BY <1>5, <1>8, <1>9, <1>10 DEF Mean
<1>12. PICK values \in Seq(Text) :
         /\ Carries(AppendedAll(number, protos), PartOf(number, 2, values))
         /\ ReadBy(read, values) = WithoutEmpty(NoMetric, meanings)
  BY <1>11, ElementsRead
<1>13. [i \in 1..k |-> appendBytes(number, protos[i])]
       = [i \in 1..k |-> appendBytes(number, metricProto(metrics[i]))]
  BY <1>4
<1>14. Carries(MetricsProto(number, metrics), PartOf(number, 2, values))
  BY <1>1, <1>5, <1>12, <1>13 DEF MetricsProto, Joined, AppendedAll
<1>15. [i \in 1..Len(values) |-> ReadMetric(values[i])] = ReadBy(read, values)
  <2>1. \A i \in 1..Len(values) : values[i] \in Text
    OBVIOUS
  <2> QED
    BY <1>8, <2>1 DEF ReadBy
<1>16. [i \in 1..k |-> Unless(NoMetric, meanings[i])]
       = [i \in 1..k |-> Unless(NoMetric, MetricMeaning(metrics[i]))]
  BY <1>4
<1>17. MetricsIn(values, metrics)
  BY <1>1, <1>9, <1>12, <1>15, <1>16 DEF MetricsIn, MetricsSet, Joined, WithoutEmpty
<1> QED
  BY <1>14, <1>17

LEMMA MetricsRead ==
  ASSUME NEW values, NEW metrics, MetricsIn(values, metrics)
  PROVE  /\ \A bytes, number : Those(bytes, number, 2) = values =>
                               EachOf(ReadMetric, bytes, number) = MetricsSet(metrics)
         /\ MetricsSet(metrics) = << >> => values = << >>
<1>1. \A bytes, number : Those(bytes, number, 2) = values =>
                         EachOf(ReadMetric, bytes, number) = MetricsSet(metrics)
  BY DEF MetricsIn, EachOf
<1>2. ASSUME MetricsSet(metrics) = << >> PROVE values = << >>
  <2>1. PICK k \in Nat : k = Len(values)
    BY DEF MetricsIn
  <2>2. [i \in 1..k |-> ReadMetric(values[i])] = << >>
    BY <1>2, <2>1 DEF MetricsIn
  <2>3. k = 0
    BY <2>2
  <2>4. values \in Seq(Text)
    BY DEF MetricsIn
  <2> QED
    BY <2>1, <2>3, <2>4, NoLength
<1> QED
  BY <1>1, <1>2

\* The names metricBatchProto gives leave a batch a batch.
LEMMA NamedIsABatch ==
  ASSUME NEW from \in MetricBatch
  PROVE  Named(from) \in MetricBatch
<1>1. /\ from.texts \in Texts({1, 4}) /\ from.identity \in MetricIngestIdentity
      /\ from.resource \in MetricResource /\ from.ingressAt \in Word /\ from.emittedAt \in Word
      /\ from.metrics \in Seq(Metric)
  BY DEF MetricBatch
<1>2. SchemaName \in Text
  BY EnvelopeAssumption
<1>3. PICK texts : texts = [from.texts EXCEPT ![1] = IF @ = << >> THEN SchemaName ELSE @]
  OBVIOUS
<1>4. texts \in Texts({1, 4})
  BY <1>1, <1>2, <1>3 DEF Texts
<1>5. PICK names : names = [from.identity.texts EXCEPT ![2] = IF @ = << >> THEN SchemaName ELSE @]
  OBVIOUS
<1>6. from.identity.texts \in Texts(1..5)
  BY <1>1 DEF MetricIngestIdentity
<1>7. names \in Texts(1..5)
  BY <1>2, <1>5, <1>6 DEF Texts
<1>8. PICK identity : identity = [from.identity EXCEPT !.texts = names]
  OBVIOUS
<1>9. identity \in MetricIngestIdentity
  BY <1>1, <1>7, <1>8 DEF MetricIngestIdentity
<1>10. Named(from) = [from EXCEPT !.texts = texts, !.identity = identity]
  BY <1>3, <1>5, <1>8 DEF Named, MetricBatch
<1>11. [from EXCEPT !.texts = texts, !.identity = identity] \in MetricBatch
  BY <1>4, <1>9 DEF MetricBatch
<1> QED
  BY <1>10, <1>11

\* Every batch is read as it was written, under the names metricBatchProto gives it
\* (sdk/metric_envelope.go:132-291).
THEOREM BatchRead ==
  ASSUME NEW from \in MetricBatch
  PROVE  ReadBatch(metricBatchProto(from)) = BatchMeaning(Named(from))
<1>1. PICK batch \in MetricBatch : batch = Named(from)
  BY NamedIsABatch
<1>2. /\ batch.texts \in Texts({1, 4}) /\ batch.resource \in MetricResource
      /\ batch.identity \in MetricIngestIdentity /\ batch.ingressAt \in Nat /\ batch.emittedAt \in Nat
      /\ batch.metrics \in Seq(Metric)
  BY EnvelopeAssumption DEF MetricBatch, Word
<1>3. BatchMeaning(batch) =
        [texts |-> batch.texts, resource |-> [batch.resource EXCEPT !.attributes = Set(@)],
         identity |-> [batch.identity EXCEPT !.attributes = Set(@)],
         ingressAt |-> batch.ingressAt, emittedAt |-> batch.emittedAt,
         metrics |-> MetricsSet(batch.metrics)]
  <2>1. PICK resource : resource = [batch.resource EXCEPT !.attributes = Set(@)]
    OBVIOUS
  <2>2. PICK identity : identity = [batch.identity EXCEPT !.attributes = Set(@)]
    OBVIOUS
  <2>3. PICK metrics : metrics = MetricsSet(batch.metrics)
    OBVIOUS
  <2>4. BatchMeaning(batch) =
          [batch EXCEPT !.resource = resource, !.identity = identity, !.metrics = metrics]
    BY <2>1, <2>2, <2>3 DEF BatchMeaning, MetricBatch, MetricsSet
  <2>5. [batch EXCEPT !.resource = resource, !.identity = identity, !.metrics = metrics] =
          [texts |-> batch.texts, resource |-> resource, identity |-> identity,
           ingressAt |-> batch.ingressAt, emittedAt |-> batch.emittedAt, metrics |-> metrics]
    <3>1. PICK one : one = [batch EXCEPT !.resource = resource]
      OBVIOUS
    <3>2. one = [texts |-> batch.texts, resource |-> resource, identity |-> batch.identity,
                 ingressAt |-> batch.ingressAt, emittedAt |-> batch.emittedAt,
                 metrics |-> batch.metrics]
      BY <3>1 DEF MetricBatch
    <3>3. PICK two : two = [one EXCEPT !.identity = identity]
      OBVIOUS
    <3>4. two = [texts |-> batch.texts, resource |-> resource, identity |-> identity,
                 ingressAt |-> batch.ingressAt, emittedAt |-> batch.emittedAt,
                 metrics |-> batch.metrics]
      BY <3>2, <3>3
    <3>5. [two EXCEPT !.metrics = metrics] =
            [texts |-> batch.texts, resource |-> resource, identity |-> identity,
             ingressAt |-> batch.ingressAt, emittedAt |-> batch.emittedAt, metrics |-> metrics]
      BY <3>4
    <3>6. [batch EXCEPT !.resource = resource, !.identity = identity, !.metrics = metrics] =
            [two EXCEPT !.metrics = metrics]
      BY <3>1, <3>3
    <3> QED
      BY <3>5, <3>6
  <2> QED
    BY <2>1, <2>2, <2>3, <2>4, <2>5
<1>4. PICK resource \in Text :
        /\ resource = metricResourceProto(batch.resource)
        /\ ReadResource(resource) = [batch.resource EXCEPT !.attributes = Set(@)]
  BY <1>2, ResourceRead
<1>5. PICK identity \in Text :
        /\ identity = metricIngestIdentityProto(batch.identity)
        /\ ReadIdentity(identity) = [batch.identity EXCEPT !.attributes = Set(@)]
  BY <1>2, IdentityRead
<1>6. PICK v7 : Carries(MetricsProto(20, batch.metrics), PartOf(20, 2, v7)) /\ MetricsIn(v7, batch.metrics)
  BY <1>2, MetricsCarried
<1>7. PICK pieces :
        pieces = <<appendText(1, batch.texts), appendBytes(2, resource), appendBytes(3, identity),
                   appendText(4, batch.texts), appendUint(5, batch.ingressAt),
                   appendUint(6, batch.emittedAt), MetricsProto(20, batch.metrics)>>
  OBVIOUS
<1>8. PICK parts :
        parts = <<PartOf(1, 2, Unless(<< >>, batch.texts[1])), PartOf(2, 2, Unless(<< >>, resource)),
                  PartOf(3, 2, Unless(<< >>, identity)), PartOf(4, 2, Unless(<< >>, batch.texts[4])),
                  PartOf(5, 0, Unless(0, batch.ingressAt)), PartOf(6, 0, Unless(0, batch.emittedAt)),
                  PartOf(20, 2, v7)>>
  OBVIOUS
<1>9. /\ Carries(pieces[1], parts[1]) /\ Carries(pieces[2], parts[2]) /\ Carries(pieces[3], parts[3])
      /\ Carries(pieces[4], parts[4]) /\ Carries(pieces[5], parts[5]) /\ Carries(pieces[6], parts[6])
      /\ Carries(pieces[7], parts[7])
  <2>1. \A n \in {1, 4} :
          Carries(appendText(n, batch.texts), PartOf(n, 2, Unless(<< >>, batch.texts[n])))
    BY <1>2, TextCarried
  <2>2. Carries(appendBytes(2, resource), PartOf(2, 2, Unless(<< >>, resource)))
        /\ Carries(appendBytes(3, identity), PartOf(3, 2, Unless(<< >>, identity)))
    BY BytesCarried
  <2>3. Carries(appendUint(5, batch.ingressAt), PartOf(5, 0, Unless(0, batch.ingressAt)))
    BY <1>2, UintCarried
  <2>4. Carries(appendUint(6, batch.emittedAt), PartOf(6, 0, Unless(0, batch.emittedAt)))
    BY <1>2, UintCarried
  <2> QED
    BY <1>6, <1>7, <1>8, <2>1, <2>2, <2>3, <2>4
<1>10. /\ parts[1].number = 1 /\ parts[2].number = 2 /\ parts[3].number = 3 /\ parts[4].number = 4
       /\ parts[5].number = 5 /\ parts[6].number = 6 /\ parts[7].number = 20
  BY <1>8 DEF PartOf
<1>11. Composed(pieces, parts, 7)
  <2>1. pieces = [i \in 1..7 |-> pieces[i]] /\ parts = [i \in 1..7 |-> parts[i]]
    BY <1>7, <1>8
  <2>2. \A i \in 1..7 : i = 1 \/ i = 2 \/ i = 3 \/ i = 4 \/ i = 5 \/ i = 6 \/ i = 7
    OBVIOUS
  <2>3. \A i \in 1..7 : Carries(pieces[i], parts[i])
    BY <1>9, <2>2
  <2>4. \A i \in 1..7 : parts[i].number = IF i <= 6 THEN i ELSE 20
    BY <1>10, <2>2
  <2>5. \A i, j \in 1..7 : parts[i].number = parts[j].number => i = j
    BY <2>4
  <2> QED
    BY <2>1, <2>3, <2>5 DEF Composed
<1>12. PICK bytes : bytes = FlattenSeq(pieces)
  OBVIOUS
<1>13. bytes = metricBatchProto(from)
  BY <1>1, <1>4, <1>5, <1>7, <1>12 DEF metricBatchProto, MetricsProto
<1>14. \A j \in 1..7 : Those(bytes, parts[j].number, parts[j].wire) = parts[j].values
  BY <1>11, <1>12, PiecesRead
<1>15. /\ Those(bytes, 1, 2) = Unless(<< >>, batch.texts[1]) /\ Those(bytes, 2, 2) = Unless(<< >>, resource)
       /\ Those(bytes, 3, 2) = Unless(<< >>, identity) /\ Those(bytes, 4, 2) = Unless(<< >>, batch.texts[4])
       /\ Those(bytes, 5, 0) = Unless(0, batch.ingressAt) /\ Those(bytes, 6, 0) = Unless(0, batch.emittedAt)
       /\ Those(bytes, 20, 2) = v7
  <2>1. /\ parts[1].wire = 2 /\ parts[2].wire = 2 /\ parts[3].wire = 2 /\ parts[4].wire = 2
        /\ parts[5].wire = 0 /\ parts[6].wire = 0 /\ parts[7].wire = 2
        /\ parts[1].values = Unless(<< >>, batch.texts[1]) /\ parts[2].values = Unless(<< >>, resource)
        /\ parts[3].values = Unless(<< >>, identity) /\ parts[4].values = Unless(<< >>, batch.texts[4])
        /\ parts[5].values = Unless(0, batch.ingressAt) /\ parts[6].values = Unless(0, batch.emittedAt)
        /\ parts[7].values = v7
    BY <1>8 DEF PartOf
  <2> QED
    BY <1>10, <1>14, <2>1
<1>16. TextsOf(bytes, {1, 4}) = batch.texts
  <2>1. \A n \in {1, 4} : Those(bytes, n, 2) = Unless(<< >>, batch.texts[n])
    BY <1>15
  <2> QED
    BY <1>2, <2>1, TextsRead
<1>17. Single(bytes, 2, 2, << >>) = resource /\ Single(bytes, 3, 2, << >>) = identity
  <2>1. Single(bytes, 2, 2, << >>) = IF resource = << >> THEN << >> ELSE resource
    BY <1>15, SingleRead
  <2>2. Single(bytes, 3, 2, << >>) = IF identity = << >> THEN << >> ELSE identity
    BY <1>15, SingleRead
  <2> QED
    BY <2>1, <2>2
<1>18. Single(bytes, 5, 0, 0) = batch.ingressAt /\ Single(bytes, 6, 0, 0) = batch.emittedAt
  <2>1. Single(bytes, 5, 0, 0) = IF batch.ingressAt = 0 THEN 0 ELSE batch.ingressAt
    BY <1>15, SingleRead
  <2>2. Single(bytes, 6, 0, 0) = IF batch.emittedAt = 0 THEN 0 ELSE batch.emittedAt
    BY <1>15, SingleRead
  <2> QED
    BY <2>1, <2>2
<1>19. EachOf(ReadMetric, bytes, 20) = MetricsSet(batch.metrics)
  BY <1>6, <1>15, MetricsRead
<1>20. ReadBatch(bytes) = BatchMeaning(batch)
  BY <1>3, <1>4, <1>5, <1>16, <1>17, <1>18, <1>19 DEF ReadBatch
<1> QED
  BY <1>1, <1>13, <1>20

=============================================================================

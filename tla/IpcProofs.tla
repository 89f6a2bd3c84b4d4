------------------------------ MODULE IpcProofs ------------------------------
(***************************************************************************)
(* Theorems about framing: for every size of a byte, every limit of the    *)
(* sender and the receiver and every set of payloads, the receiver takes   *)
(* whole messages, once and in order, however the stream is cut.           *)
(***************************************************************************)
EXTENDS IpcProperties, WellFoundedInduction, TLAPS

---------------------------------------------------------------------------
(* The four bytes of the header.                                           *)

(* Quotient and remainder. *)
LEMMA DivMod ==
    ASSUME NEW n \in Nat, NEW d \in Nat \ {0}
    PROVE  n \div d \in Nat /\ n % d \in 0..(d - 1) /\ n = d * (n \div d) + (n % d)
OBVIOUS

(* Multiplication keeps the order. *)
LEMMA TimesMonotone ==
    ASSUME NEW d \in Nat, NEW a \in Nat, NEW b \in Nat, a <= b
    PROVE  d * a <= d * b
OBVIOUS

(* There is one way to divide with a remainder. *)
LEMMA DivModUnique ==
    ASSUME NEW d \in Nat \ {0}, NEW q \in Nat, NEW r \in 0..(d - 1), NEW n \in Nat,
           n = d * q + r
    PROVE  n \div d = q /\ n % d = r
<1> DEFINE p == n \div d
<1> DEFINE s == n % d
<1>1. p \in Nat /\ s \in 0..(d - 1) /\ d * p + s = d * q + r
  BY DivMod
<1> HIDE DEF p, s
<1>2. ~(p + 1 <= q)
  <2> SUFFICES ASSUME p + 1 <= q PROVE FALSE
    OBVIOUS
  <2>1. d * (p + 1) <= d * q
    BY <1>1, TimesMonotone
  <2>2. d * (p + 1) = d * p + d
    BY <1>1
  <2>3. d * p \in Nat /\ d * q \in Nat
    BY <1>1
  <2>. QED
    BY <1>1, <2>1, <2>2, <2>3
<1>3. ~(q + 1 <= p)
  <2> SUFFICES ASSUME q + 1 <= p PROVE FALSE
    OBVIOUS
  <2>1. d * (q + 1) <= d * p
    BY <1>1, TimesMonotone
  <2>2. d * (q + 1) = d * q + d
    BY <1>1
  <2>3. d * p \in Nat /\ d * q \in Nat
    BY <1>1
  <2>. QED
    BY <1>1, <2>1, <2>2, <2>3
<1>4. p = q
  BY <1>1, <1>2, <1>3
<1>5. s = r
  BY <1>1, <1>4
<1>. QED
  BY <1>4, <1>5 DEF p, s

(* Dividing twice is dividing by the product. *)
LEMMA DivDiv ==
    ASSUME NEW n \in Nat, NEW b \in Nat \ {0}, NEW c \in Nat \ {0}
    PROVE  n \div (c * b) = (n \div c) \div b
<1> DEFINE q == n \div c
<1> DEFINE p == q \div b
<1>1. q \in Nat /\ n % c \in 0..(c - 1) /\ n = c * q + (n % c)
  BY DivMod
<1>2. p \in Nat /\ q % b \in 0..(b - 1) /\ q = b * p + (q % b)
  BY <1>1, DivMod
<1> HIDE DEF q, p
<1> DEFINE r == n % c
<1> DEFINE s == q % b
<1>3. r \in 0..(c - 1) /\ s \in 0..(b - 1) /\ q = b * p + s /\ n = c * q + r
  BY <1>1, <1>2
<1> HIDE DEF r, s
<1>4. n = (c * b) * p + (c * s + r)
  BY <1>1, <1>2, <1>3
<1>5. c * s + r \in 0..(c * b - 1)
  <2>1. c * (s + 1) <= c * b
    BY <1>3, TimesMonotone
  <2>2. c * (s + 1) = c * s + c /\ c * s \in Nat /\ c * b \in Nat
    BY <1>3
  <2>. QED
    BY <1>3, <2>1, <2>2
<1>6. c * b \in Nat \ {0}
  OBVIOUS
<1>7. n \div (c * b) = p
  BY <1>2, <1>4, <1>5, <1>6, DivModUnique
<1>. QED
  BY <1>7 DEF p, q

(* A number below the divisor is its own remainder. *)
LEMMA ModSmall ==
    ASSUME NEW d \in Nat \ {0}, NEW n \in Nat, n < d
    PROVE  n % d = n
OBVIOUS

(* The quotient of a number below a product. *)
LEMMA LeadingDigit ==
    ASSUME NEW n \in Nat, NEW b \in Nat, NEW c \in Nat \ {0}, n < c * b
    PROVE  n \div c < b
<1> DEFINE q == n \div c
<1>1. q \in Nat /\ c * q <= n
  BY DivMod
<1> HIDE DEF q
<1>2. ASSUME b <= q PROVE FALSE
  <2>1. c * b <= c * q
    BY <1>1, <1>2, TimesMonotone
  <2>. QED
    BY <1>1, <2>1
<1>3. q < b
  BY <1>1, <1>2
<1>. QED
  BY <1>3 DEF q

(* Four digits read back, where the first is one. *)
LEMMA DigitsRead ==
    ASSUME NEW n \in Nat, NEW B \in Nat \ {0}, n \div (B * B * B) < B
    PROVE  ((((n \div (B * B * B)) % B) * B + ((n \div (B * B)) % B)) * B
              + ((n \div B) % B)) * B + (n % B) = n
<1> DEFINE q1 == n \div B
<1> DEFINE q2 == q1 \div B
<1> DEFINE q3 == q2 \div B
<1>1. q1 \in Nat /\ n = B * q1 + (n % B) /\ n % B \in Nat
  BY DivMod
<1>2. q2 \in Nat /\ q1 = B * q2 + (q1 % B) /\ q1 % B \in Nat
  <2>1. \A m \in Nat : m \div B \in Nat /\ m = B * (m \div B) + (m % B) /\ m % B \in Nat
    BY DivMod
  <2>. QED
    BY <1>1, <2>1
<1>3. q3 \in Nat /\ q2 = B * q3 + (q2 % B) /\ q2 % B \in Nat
  BY <1>2, DivMod
<1> HIDE DEF q1, q2, q3
<1>4. n \div (B * B) = q2
  BY DivDiv DEF q1, q2
<1>5. n \div (B * B * B) = q3
  <2>1. B * B \in Nat \ {0}
    OBVIOUS
  <2>2. n \div (B * B * B) = (n \div (B * B)) \div B
    BY <2>1, DivDiv
  <2>. QED
    BY <1>4, <2>2 DEF q3
<1>6. q3 % B = q3
  BY <1>3, <1>5, ModSmall
<1>7. ((q3 * B + (q2 % B)) * B + (q1 % B)) * B + (n % B) = n
  BY <1>1, <1>2, <1>3
<1>. QED
  BY <1>4, <1>5, <1>6, <1>7 DEF q1

(* A number that fits four digits is what its digits say. *)
LEMMA FourDigits ==
    ASSUME NEW n \in Nat, NEW B \in Nat \ {0}, n < B * B * B * B
    PROVE  ((((n \div (B * B * B)) % B) * B + ((n \div (B * B)) % B)) * B
              + ((n \div B) % B)) * B + (n % B) = n
<1>1. B * B * B \in Nat \ {0}
  <2>1. B * B \in Nat \ {0}
    OBVIOUS
  <2>. QED
    BY <2>1
<1>2. n \div (B * B * B) < B
  BY <1>1, LeadingDigit
<1>. QED
  BY <1>2, DigitsRead

---------------------------------------------------------------------------
(* Induction.                                                              *)

(* A set of numbers that is not empty has a least element: what stands in    *)
(* for induction, whose library theorems take an operator.                   *)
LEMMA LeastElement ==
    ASSUME NEW T \in SUBSET Nat, T # {}
    PROVE  \E n \in T : \A m \in T : n <= m
<1> DEFINE R == {ss \in Nat \X Nat : ss[1] < ss[2]}
<1>1. IsWellFoundedOn(R, Nat)
  BY NatLessThanWellFounded DEF OpToRel
<1> HIDE DEF R
<1>2. PICK n \in T : \A m \in T : <<m, n>> \notin R
  BY <1>1, WFMin
<1>3. ASSUME NEW m \in T PROVE n <= m
  <2>1. n \in Nat /\ m \in Nat
    OBVIOUS
  <2>2. ~(m < n)
    BY <1>2, <2>1 DEF R
  <2>. QED
    BY <2>1, <2>2
<1>. QED
  BY <1>3

(* Induction, as a closure property of a set. *)
LEMMA InductionNat ==
    ASSUME NEW S \in SUBSET Nat, 0 \in S, \A n \in S : n + 1 \in S
    PROVE  \A n \in Nat : n \in S
<1> SUFFICES ASSUME Nat \ S # {} PROVE FALSE
  OBVIOUS
<1>1. PICK n \in Nat \ S : \A m \in Nat \ S : n <= m
  BY LeastElement
<1>2. n # 0 /\ n - 1 \in Nat /\ n - 1 \notin Nat \ S
  BY <1>1
<1>. QED
  BY <1>1, <1>2

---------------------------------------------------------------------------
(* Cutting sequences.                                                      *)

(* The elements of a concatenation. *)
LEMMA ConcatAt ==
    ASSUME NEW S, NEW x \in Seq(S), NEW y \in Seq(S)
    PROVE  /\ x \o y \in Seq(S) /\ Len(x \o y) = Len(x) + Len(y)
           /\ \A i \in 1..Len(x) : (x \o y)[i] = x[i]
           /\ \A i \in 1..Len(y) : (x \o y)[Len(x) + i] = y[i]
OBVIOUS

(* Sequences are equal that agree in length and elements. *)
LEMMA SameSeq ==
    ASSUME NEW S, NEW x \in Seq(S), NEW y \in Seq(S), Len(x) = Len(y),
           \A i \in 1..Len(x) : x[i] = y[i]
    PROVE  x = y
OBVIOUS

(* The elements of a piece of a sequence. *)
LEMMA Piece ==
    ASSUME NEW S, NEW x \in Seq(S), NEW k \in Nat, NEW m \in Nat, k + m <= Len(x)
    PROVE  /\ SubSeq(x, k + 1, k + m) \in Seq(S)
           /\ Len(SubSeq(x, k + 1, k + m)) = m
           /\ \A i \in 1..m : SubSeq(x, k + 1, k + m)[i] = x[k + i]
OBVIOUS

(* Names that keep the provers from expanding a stream. *)
Joined(x, y) == x \o y
Rest(x, k)   == SubSeq(x, k + 1, Len(x))

(* A sequence that begins with one and goes on with another. *)
LEMMA JoinOf ==
    ASSUME NEW S, NEW x \in Seq(S), NEW y \in Seq(S), NEW b \in Seq(S),
           Len(b) = Len(x) + Len(y),
           \A i \in 1..Len(x) : b[i] = x[i],
           \A i \in 1..Len(y) : b[Len(x) + i] = y[i]
    PROVE  x \o y = b
<1> DEFINE j == x \o y
<1>1. /\ j \in Seq(S) /\ Len(j) = Len(b)
      /\ \A i \in 1..Len(x) : j[i] = x[i]
      /\ \A i \in 1..Len(y) : j[Len(x) + i] = y[i]
  BY ConcatAt
<1>2. Len(x) \in Nat /\ Len(y) \in Nat
  OBVIOUS
<1> HIDE DEF j
<1>3. ASSUME NEW i \in 1..Len(j) PROVE j[i] = b[i]
  <2>1. CASE i \in 1..Len(x)
    BY <1>1, <2>1
  <2>2. CASE i \notin 1..Len(x)
    <3>1. i - Len(x) \in 1..Len(y) /\ Len(x) + (i - Len(x)) = i
      BY <1>1, <1>2, <2>2
    <3>2. j[Len(x) + (i - Len(x))] = y[i - Len(x)] /\ b[Len(x) + (i - Len(x))] = y[i - Len(x)]
      BY <1>1, <3>1
    <3>. QED
      BY <3>1, <3>2
  <2>. QED
    BY <2>1, <2>2
<1>4. j = b
  BY <1>1, <1>3, SameSeq
<1>. QED
  BY <1>4 DEF j

(* Where a stream is cut in two places, the shorter beginning begins the   *)
(* longer one, and what the longer one has more begins the other rest.     *)
LEMMA CutPrefix ==
    ASSUME NEW S, NEW x \in Seq(S), NEW y \in Seq(S), NEW a \in Seq(S), NEW b \in Seq(S),
           Joined(x, y) = Joined(a, b), Len(a) <= Len(x)
    PROVE  /\ \A i \in 1..Len(a) : x[i] = a[i]
           /\ Rest(x, Len(a)) \in Seq(S)
           /\ Joined(Rest(x, Len(a)), y) = b
<1>0. x \o y = a \o b
  BY DEF Joined
<1> DEFINE k == Len(a)
           m == Len(x) - k
           z == SubSeq(x, k + 1, k + m)
<1>1. k \in Nat /\ m \in Nat /\ k + m = Len(x) /\ Len(y) \in Nat /\ Len(b) \in Nat
  OBVIOUS
<1>2. z \in Seq(S) /\ Len(z) = m /\ \A i \in 1..m : z[i] = x[k + i]
  BY <1>1, Piece
<1>3. /\ Len(x \o y) = k + m + Len(y)
      /\ \A i \in 1..(k + m) : (x \o y)[i] = x[i]
      /\ \A i \in 1..Len(y) : (x \o y)[k + m + i] = y[i]
  BY <1>1, ConcatAt
<1>4. /\ Len(a \o b) = k + Len(b)
      /\ \A i \in 1..k : (a \o b)[i] = a[i]
      /\ \A i \in 1..Len(b) : (a \o b)[k + i] = b[i]
  BY ConcatAt
<1>5. Rest(x, Len(a)) = z
  BY <1>1 DEF Rest
<1> HIDE DEF z, k, m
<1>6. \A i \in 1..k : x[i] = a[i]
  BY <1>0, <1>1, <1>3, <1>4
<1>7. Len(b) = Len(z) + Len(y)
  BY <1>0, <1>1, <1>2, <1>3, <1>4
<1>8. \A i \in 1..Len(z) : b[i] = z[i]
  <2>1. ASSUME NEW i \in 1..Len(z) PROVE b[i] = z[i]
    <3>1. i \in 1..Len(b) /\ k + i \in 1..(k + m) /\ z[i] = x[k + i]
      BY <1>1, <1>2, <1>7
    <3>2. b[i] = (a \o b)[k + i]
      BY <1>4, <3>1
    <3>3. (x \o y)[k + i] = x[k + i]
      BY <1>3, <3>1
    <3>. QED
      BY <1>0, <3>1, <3>2, <3>3
  <2>. QED
    BY <2>1
<1>9. \A i \in 1..Len(y) : b[Len(z) + i] = y[i]
  <2>1. ASSUME NEW i \in 1..Len(y) PROVE b[Len(z) + i] = y[i]
    <3>1. m + i \in 1..Len(b) /\ k + (m + i) = k + m + i /\ Len(z) = m
      BY <1>1, <1>2, <1>7
    <3>2. b[m + i] = (a \o b)[k + (m + i)]
      BY <1>4, <3>1
    <3>3. (x \o y)[k + m + i] = y[i]
      BY <1>3
    <3>. QED
      BY <1>0, <3>1, <3>2, <3>3
  <2>. QED
    BY <2>1
<1>10. z \o y = b
  BY <1>2, <1>7, <1>8, <1>9, JoinOf, Zenon
<1>. QED
  BY <1>2, <1>5, <1>6, <1>10 DEF k, Joined

---------------------------------------------------------------------------
(* Flattening a sequence of sequences.                                     *)

(* The function that FlattenSeq builds. *)
Flattens(f, ss, n) == f = [i \in 1..n |-> IF i = 1 THEN ss[i] ELSE f[i - 1] \o ss[i]]

(* The values of a solution. *)
LEMMA FlattensValue ==
    ASSUME NEW f, NEW ss, NEW n \in Nat, Flattens(f, ss, n), NEW i \in 1..n
    PROVE  f[i] = IF i = 1 THEN ss[i] ELSE f[i - 1] \o ss[i]
<1> DEFINE h == [j \in 1..n |-> IF j = 1 THEN ss[j] ELSE f[j - 1] \o ss[j]]
<1>1. f = h
  BY DEF Flattens
<1>2. h[i] = IF i = 1 THEN ss[i] ELSE f[i - 1] \o ss[i]
  OBVIOUS
<1>. QED
  BY <1>1, <1>2

(* The recursive definition has a solution, of any length. *)
LEMMA FlattensExists ==
    ASSUME NEW ss
    PROVE  \A n \in Nat : \E f : Flattens(f, ss, n)
<1> DEFINE S == {n \in Nat : \E f : Flattens(f, ss, n)}
<1>1. 0 \in S
  <2>1. Flattens([i \in 1..0 |-> ss[i]], ss, 0)
    BY DEF Flattens
  <2>. QED
    BY <2>1
<1>2. ASSUME NEW n \in S PROVE n + 1 \in S
  <2>1. n \in Nat
    OBVIOUS
  <2>2. PICK f : Flattens(f, ss, n)
    OBVIOUS
  <2> DEFINE g == [i \in 1..(n + 1) |-> IF i = 1 THEN ss[i] ELSE f[i - 1] \o ss[i]]
  <2>3. \A i \in 1..n : g[i] = f[i]
    <3>1. ASSUME NEW i \in 1..n PROVE g[i] = f[i]
      <4>1. i \in 1..(n + 1) /\ g[i] = IF i = 1 THEN ss[i] ELSE f[i - 1] \o ss[i]
        BY <2>1
      <4>2. f[i] = IF i = 1 THEN ss[i] ELSE f[i - 1] \o ss[i]
        BY <2>2, FlattensValue
      <4>. QED
        BY <4>1, <4>2
    <3>. QED
      BY <3>1
  <2>4. g = [i \in 1..(n + 1) |-> IF i = 1 THEN ss[i] ELSE g[i - 1] \o ss[i]]
    <3>1. ASSUME NEW i \in 1..(n + 1), i # 1 PROVE g[i - 1] = f[i - 1]
      <4>1. i - 1 \in 1..n
        BY <2>1, <3>1
      <4>. QED
        BY <2>3, <4>1
    <3> DEFINE h == [i \in 1..(n + 1) |-> IF i = 1 THEN ss[i] ELSE g[i - 1] \o ss[i]]
    <3>2. \A i \in 1..(n + 1) : g[i] = h[i]
      BY <3>1
    <3>3. DOMAIN g = DOMAIN h /\ g = [i \in DOMAIN g |-> g[i]] /\ h = [i \in DOMAIN h |-> h[i]]
      OBVIOUS
    <3>4. DOMAIN g = 1..(n+1)
      OBVIOUS
    <3> HIDE DEF g, h
    <3>5. g = h
      BY <3>2, <3>3, <3>4
    <3>. QED
      BY <3>5 DEF h
  <2> HIDE DEF g
  <2>5. Flattens(g, ss, n + 1)
    BY <2>4 DEF Flattens
  <2>. QED
    BY <2>1, <2>5
<1> HIDE DEF S
<1>3. \A n \in Nat : n \in S
  <2>1. S \in SUBSET Nat
    BY DEF S
  <2>. QED
    BY <1>1, <1>2, <2>1, InductionNat
<1>. QED
  BY <1>3 DEF S

(* FlattenSeq() is the last value of a solution. *)
LEMMA FlattenUnfold ==
    ASSUME NEW ss, Len(ss) \in Nat, Len(ss) # 0
    PROVE  \E f : Flattens(f, ss, Len(ss)) /\ FlattenSeq(ss) = f[Len(ss)]
<1> DEFINE f == CHOOSE f : f = [i \in 1..Len(ss) |-> IF i = 1 THEN ss[i] ELSE f[i - 1] \o ss[i]]
<1>1. FlattenSeq(ss) = f[Len(ss)]
  BY DEF FlattenSeq
<1>2. Flattens(f, ss, Len(ss))
  BY FlattensExists DEF Flattens
<1>. QED
  BY <1>1, <1>2

(* Solutions for sequences that agree so far agree so far. *)
LEMMA FlattensAgree ==
    ASSUME NEW f, NEW g, NEW ss, NEW tt, NEW m \in Nat, NEW n \in Nat, m <= n,
           Flattens(f, ss, m), Flattens(g, tt, n),
           \A i \in 1..m : ss[i] = tt[i]
    PROVE  \A i \in 1..m : f[i] = g[i]
<1> DEFINE S == {k \in Nat : k \in 1..m => f[k] = g[k]}
<1>0. /\ \A i \in 1..m : f[i] = IF i = 1 THEN ss[i] ELSE f[i - 1] \o ss[i]
      /\ \A i \in 1..n : g[i] = IF i = 1 THEN tt[i] ELSE g[i - 1] \o tt[i]
  BY FlattensValue
<1>1. 0 \in S
  OBVIOUS
<1>2. ASSUME NEW k \in S PROVE k + 1 \in S
  <2>0. k \in Nat /\ (k \in 1..m => f[k] = g[k])
    OBVIOUS
  <2>1. CASE k + 1 \in 1..m /\ k # 0
    <3>1. k \in 1..m /\ k + 1 \in 1..n /\ k + 1 # 1 /\ (k + 1) - 1 = k
      BY <2>0, <2>1
    <3>2. f[k + 1] = f[k] \o ss[k + 1]
      BY <1>0, <2>1, <3>1
    <3>3. g[k + 1] = g[k] \o tt[k + 1]
      BY <1>0, <3>1
    <3>4. f[k + 1] = g[k + 1]
      BY <2>0, <2>1, <3>1, <3>2, <3>3
    <3>. QED
      BY <2>0, <3>4
  <2>2. CASE k = 0 /\ 1 \in 1..m
    <3>1. 1 \in 1..n
      BY <2>2
    <3>2. f[1] = ss[1] /\ g[1] = tt[1]
      BY <1>0, <2>2, <3>1
    <3>. QED
      BY <2>2, <3>2
  <2>3. CASE ~(k + 1 \in 1..m)
    BY <2>0, <2>3
  <2>. QED
    BY <2>0, <2>1, <2>2, <2>3
<1> HIDE DEF S
<1>3. \A k \in Nat : k \in S
  <2>1. S \in SUBSET Nat
    BY DEF S
  <2>. QED
    BY <1>1, <1>2, <2>1, InductionNat
<1>. QED
  BY <1>3 DEF S

(* Nothing flattens to nothing. *)
LEMMA FlattenEmpty == FlattenSeq(<<>>) = <<>>
BY DEF FlattenSeq

(* One sequence flattens to itself. *)
LEMMA FlattenOne ==
    ASSUME NEW S, NEW s \in Seq(S)
    PROVE  FlattenSeq(<<s>>) = s
<1> DEFINE ss == <<s>>
<1>1. Len(ss) = 1 /\ Len(ss) \in Nat /\ Len(ss) # 0 /\ ss[1] = s
  OBVIOUS
<1> HIDE DEF ss
<1>2. PICK f : Flattens(f, ss, Len(ss)) /\ FlattenSeq(ss) = f[Len(ss)]
  BY <1>1, FlattenUnfold
<1>3. f[1] = ss[1]
  BY <1>1, <1>2, FlattensValue
<1>. QED
  BY <1>1, <1>2, <1>3 DEF ss

(* A sequence that joins at the end is appended. *)
LEMMA FlattenAppend ==
    ASSUME NEW S, NEW ss \in Seq(Seq(S)), NEW s \in Seq(S)
    PROVE  FlattenSeq(Append(ss, s)) = FlattenSeq(ss) \o s
<1> DEFINE tt == Append(ss, s)
<1>0. /\ tt \in Seq(Seq(S)) /\ Len(tt) = Len(ss) + 1
      /\ tt[Len(tt)] = s /\ \A i \in 1..Len(ss) : ss[i] = tt[i]
  OBVIOUS
<1>1. CASE ss = <<>>
  <2>1. tt = <<s>> /\ <<>> \o s = s
    BY <1>1
  <2>. QED
    BY <1>1, <2>1, FlattenOne, FlattenEmpty
<1>2. CASE ss # <<>>
  <2>1. Len(ss) \in Nat /\ Len(ss) # 0
    BY <1>2
  <2> DEFINE m == Len(ss)
             n == Len(tt)
  <2> HIDE DEF tt
  <2>2. m \in Nat /\ n \in Nat /\ m # 0 /\ n = m + 1 /\ m <= n /\ m \in 1..m
    BY <1>0, <2>1
  <2>3. PICK f : Flattens(f, ss, m) /\ FlattenSeq(ss) = f[m]
    BY <2>2, FlattenUnfold
  <2>4. PICK g : Flattens(g, tt, n) /\ FlattenSeq(tt) = g[n]
    BY <2>2, FlattenUnfold
  <2> HIDE DEF m, n
  <2>5. \A i \in 1..m : ss[i] = tt[i]
    BY <1>0 DEF m
  <2>6. \A i \in 1..m : f[i] = g[i]
    BY <2>2, <2>3, <2>4, <2>5, FlattensAgree
  <2>7. \A i \in 1..n : g[i] = IF i = 1 THEN tt[i] ELSE g[i - 1] \o tt[i]
    BY <2>2, <2>4, FlattensValue
  <2>8. n \in 1..n /\ n # 1 /\ n - 1 = m
    BY <2>2
  <2>9. g[n] = g[m] \o tt[n]
    BY <2>7, <2>8
  <2>. QED
    BY <1>0, <2>2, <2>3, <2>4, <2>6, <2>9 DEF tt, n
<1>. QED
  BY <1>1, <1>2

(* A sequence that is not empty has a front and a last element. *)
LEMMA FrontLast ==
    ASSUME NEW X, NEW s \in Seq(X), s # <<>>
    PROVE  \E front \in Seq(X), e \in X : s = Append(front, e) /\ Len(s) = Len(front) + 1
<1> DEFINE m == Len(s) - 1
           front == [i \in 1..m |-> s[i]]
<1>1. m \in Nat /\ Len(s) = m + 1 /\ s[m + 1] \in X
  OBVIOUS
<1>2. \A i \in 1..m : s[i] \in X
  OBVIOUS
<1>3. front \in Seq(X) /\ Len(front) = m
  <2> HIDE DEF m
  <2>. QED
    BY <1>1, <1>2
<1>4. s = Append(front, s[m + 1])
  OBVIOUS
<1> HIDE DEF m, front
<1>. QED
  BY <1>1, <1>3, <1>4

(* Induction over sequences, from the front to the end. *)
LEMMA InductionSeq ==
    ASSUME NEW X, NEW T \in SUBSET Seq(X), <<>> \in T,
           \A s \in T, e \in X : Append(s, e) \in T
    PROVE  \A s \in Seq(X) : s \in T
<1> DEFINE D == {n \in Nat : \A s \in Seq(X) : Len(s) = n => s \in T}
<1>1. 0 \in D
  <2>1. \A s \in Seq(X) : Len(s) = 0 => s = <<>>
    OBVIOUS
  <2>. QED
    BY <2>1
<1>2. ASSUME NEW n \in D PROVE n + 1 \in D
  <2>1. n \in Nat /\ \A s \in Seq(X) : Len(s) = n => s \in T
    OBVIOUS
  <2> HIDE DEF D
  <2>2. ASSUME NEW s \in Seq(X), Len(s) = n + 1 PROVE s \in T
    <3>1. s # <<>>
      BY <2>1, <2>2
    <3>2. PICK front \in Seq(X), e \in X : s = Append(front, e) /\ Len(s) = Len(front) + 1
      BY <3>1, FrontLast
    <3>3. Len(front) = n
      BY <2>1, <2>2, <3>2
    <3>. QED
      BY <2>1, <3>2, <3>3
  <2>. QED
    BY <2>1, <2>2 DEF D
<1>3. D \in SUBSET Nat
  OBVIOUS
<1> HIDE DEF D
<1>4. \A n \in Nat : n \in D
  BY <1>1, <1>2, <1>3, InductionNat
<1>5. \A s \in Seq(X) : Len(s) \in Nat
  OBVIOUS
<1>. QED
  BY <1>4, <1>5 DEF D

(* Sequences over a set flatten to a sequence over it. *)
LEMMA FlattenType ==
    ASSUME NEW S
    PROVE  \A ss \in Seq(Seq(S)) : FlattenSeq(ss) \in Seq(S)
<1> DEFINE T == {ss \in Seq(Seq(S)) : FlattenSeq(ss) \in Seq(S)}
<1>1. <<>> \in T
  <2>1. <<>> \in Seq(Seq(S)) /\ <<>> \in Seq(S)
    OBVIOUS
  <2>. QED
    BY <2>1, FlattenEmpty
<1>2. ASSUME NEW ss \in T, NEW s \in Seq(S) PROVE Append(ss, s) \in T
  <2>1. Append(ss, s) \in Seq(Seq(S)) /\ FlattenSeq(ss) \o s \in Seq(S)
    OBVIOUS
  <2>2. FlattenSeq(Append(ss, s)) = FlattenSeq(ss) \o s
    BY FlattenAppend
  <2>. QED
    BY <2>1, <2>2
<1>3. T \in SUBSET Seq(Seq(S))
  OBVIOUS
<1> HIDE DEF T
<1>4. \A ss \in Seq(Seq(S)) : ss \in T
  BY <1>1, <1>2, <1>3, InductionSeq
<1>. QED
  BY <1>4 DEF T

(* A sequence that joins at the front is prepended. *)
LEMMA FlattenCons ==
    ASSUME NEW S, NEW s \in Seq(S)
    PROVE  \A ss \in Seq(Seq(S)) : FlattenSeq(<<s>> \o ss) = s \o FlattenSeq(ss)
<1> DEFINE T == {ss \in Seq(Seq(S)) : FlattenSeq(<<s>> \o ss) = s \o FlattenSeq(ss)}
<1>1. <<>> \in T
  <2>1. <<s>> \o <<>> = <<s>> /\ s \o <<>> = s /\ <<>> \in Seq(Seq(S))
    OBVIOUS
  <2>2. FlattenSeq(<<s>> \o <<>>) = s \o FlattenSeq(<<>>)
    BY <2>1, FlattenEmpty, FlattenOne
  <2>. QED
    BY <2>1, <2>2
<1>2. ASSUME NEW ss \in T, NEW e \in Seq(S) PROVE Append(ss, e) \in T
  <2>1. ss \in Seq(Seq(S)) /\ FlattenSeq(<<s>> \o ss) = s \o FlattenSeq(ss)
    OBVIOUS
  <2> HIDE DEF T
  <2>2. /\ Append(ss, e) \in Seq(Seq(S)) /\ <<s>> \o ss \in Seq(Seq(S))
        /\ <<s>> \o Append(ss, e) = Append(<<s>> \o ss, e)
    BY <2>1
  <2>3. FlattenSeq(ss) \in Seq(S)
    BY <2>1, FlattenType
  <2>4. FlattenSeq(Append(ss, e)) = FlattenSeq(ss) \o e
    BY <2>1, FlattenAppend
  <2>5. FlattenSeq(Append(<<s>> \o ss, e)) = FlattenSeq(<<s>> \o ss) \o e
    BY <2>2, FlattenAppend
  <2>6. (s \o FlattenSeq(ss)) \o e = s \o (FlattenSeq(ss) \o e)
    BY <2>3
  <2>7. FlattenSeq(<<s>> \o Append(ss, e)) = s \o FlattenSeq(Append(ss, e))
    BY <2>1, <2>2, <2>4, <2>5, <2>6
  <2>. QED
    BY <2>2, <2>7 DEF T
<1>3. T \in SUBSET Seq(Seq(S))
  OBVIOUS
<1> HIDE DEF T
<1>4. \A ss \in Seq(Seq(S)) : ss \in T
  BY <1>1, <1>2, <1>3, InductionSeq
<1>. QED
  BY <1>4 DEF T

---------------------------------------------------------------------------
(* Framing.                                                                *)

(* Every length that the header's four bytes can hold is read back.        *)
LEMMA HeaderRead ==
    ASSUME NEW n \in Nat, n < Base * Base * Base * Base
    PROVE  Header(n) \in Seq(Byte) /\ Len(Header(n)) = 4 /\ Length(Header(n)) = n
<1>1. Base \in Nat \ {0}
  BY BaseAssumption
<1>2. \A m \in Nat : m % Base \in Byte
  BY <1>1, DivMod DEF Byte
<1>3. Base * Base \in Nat \ {0} /\ Base * Base * Base \in Nat \ {0}
  <2>1. Base * Base \in Nat \ {0}
    BY <1>1
  <2>. QED
    BY <1>1, <2>1
<1>4. n \div (Base * Base * Base) \in Nat /\ n \div (Base * Base) \in Nat /\ n \div Base \in Nat
  BY <1>1, <1>3, DivMod
<1>5. Header(n) \in Seq(Byte) /\ Len(Header(n)) = 4
  BY <1>2, <1>4 DEF Header
<1>6. Length(Header(n)) = n
  BY <1>1, FourDigits DEF Header, Length
<1>. QED
  BY <1>5, <1>6

(* The length is the number that the header's own bytes hold, whatever     *)
(* follows them.                                                           *)
LEMMA LengthOfFirst ==
    ASSUME NEW x \in Seq(Byte), NEW y \in Seq(Byte), Len(x) >= 4, Len(y) >= 4,
           \A i \in 1..4 : x[i] = y[i]
    PROVE  Length(x) = Length(y)
BY DEF Length

(* The frame of a message. *)
LEMMA FrameBytes ==
    ASSUME NEW message \in Seq(Byte), Len(message) < Base * Base * Base * Base
    PROVE  /\ Header(Len(message)) \o message \in Seq(Byte)
           /\ Len(Header(Len(message)) \o message) = 4 + Len(message)
           /\ Length(Header(Len(message)) \o message) = Len(message)
           /\ SubSeq(Header(Len(message)) \o message, 5, 4 + Len(message)) = message
<1> DEFINE header == Header(Len(message))
           frame == header \o message
           payload == SubSeq(frame, 5, 4 + Len(message))
<1>1. header \in Seq(Byte) /\ Len(header) = 4 /\ Length(header) = Len(message)
  BY HeaderRead
<1> HIDE DEF header
<1>2. /\ frame \in Seq(Byte) /\ Len(frame) = Len(header) + Len(message)
      /\ \A i \in 1..Len(header) : frame[i] = header[i]
      /\ \A i \in 1..Len(message) : frame[Len(header) + i] = message[i]
  <2> HIDE DEF frame
  <2>1. \A x, y \in Seq(Byte) :
           /\ x \o y \in Seq(Byte) /\ Len(x \o y) = Len(x) + Len(y)
           /\ \A i \in 1..Len(x) : (x \o y)[i] = x[i]
           /\ \A i \in 1..Len(y) : (x \o y)[Len(x) + i] = y[i]
    BY ConcatAt
  <2>. QED
    BY <1>1, <2>1, Zenon DEF frame
<1>3. Len(message) \in Nat
  OBVIOUS
<1> HIDE DEF frame
<1>4. Length(frame) = Len(message)
  BY <1>1, <1>2 DEF Length
<1>5. /\ payload \in Seq(Byte) /\ Len(payload) = Len(message)
      /\ \A i \in 1..Len(message) : payload[i] = frame[4 + i]
  <2>1. 4 + Len(message) <= Len(frame) /\ 4 + 1 = 5
    BY <1>1, <1>2, <1>3
  <2>. QED
    BY <1>2, <1>3, <2>1, Piece
<1>6. payload = message
  <2> HIDE DEF payload
  <2>. QED
    BY <1>1, <1>2, <1>5, SameSeq
<1>. QED
  BY <1>1, <1>2, <1>4, <1>6 DEF frame, header

(* The length and the payload of the first frame of a stream. *)
LEMMA FrameCut ==
    ASSUME NEW inside \in Seq(Byte), NEW outside \in Seq(Byte),
           NEW message \in Seq(Byte), NEW rest \in Seq(Byte),
           NEW frame \in Seq(Byte),
           Len(frame) = 4 + Len(message), Length(frame) = Len(message),
           SubSeq(frame, 5, 4 + Len(message)) = message,
           Joined(inside, outside) = Joined(frame, rest),
           Len(inside) >= 4
    PROVE  /\ Length(inside) = Len(message)
           /\ Len(inside) >= 4 + Len(message) =>
                 /\ FirstPayload(inside) = message
                 /\ AfterFirst(inside) \in Seq(Byte)
                 /\ Joined(AfterFirst(inside), outside) = rest
<1>1. Len(message) \in Nat
  OBVIOUS
<1>2. \A i \in 1..4 : inside[i] = frame[i]
  <2>1. \A i \in 1..4 : Joined(inside, outside)[i] = inside[i]
    BY ConcatAt DEF Joined
  <2>2. \A i \in 1..4 : Joined(frame, rest)[i] = frame[i]
    BY <1>1, ConcatAt DEF Joined
  <2>. QED
    BY <2>1, <2>2
<1>3. Length(inside) = Len(message)
  <2>1. Len(frame) >= 4
    BY <1>1
  <2>2. Length(inside) = Length(frame)
    BY <1>2, <2>1, LengthOfFirst
  <2>. QED
    BY <2>2
<1>4. ASSUME Len(inside) >= 4 + Len(message)
      PROVE  /\ FirstPayload(inside) = message
             /\ AfterFirst(inside) \in Seq(Byte)
             /\ Joined(AfterFirst(inside), outside) = rest
  <2>1. FrameSize(inside) = Len(frame)
    BY <1>3 DEF FrameSize
  <2>2. /\ \A i \in 1..Len(frame) : inside[i] = frame[i]
        /\ Rest(inside, Len(frame)) \in Seq(Byte)
        /\ Joined(Rest(inside, Len(frame)), outside) = rest
    <3>1. Len(frame) <= Len(inside)
      BY <1>1, <1>4
    <3>. QED
      BY <3>1, CutPrefix
  <2>3. SubSeq(inside, 5, 4 + Len(message)) = SubSeq(frame, 5, 4 + Len(message))
    <3> DEFINE x == SubSeq(inside, 4 + 1, 4 + Len(message))
               y == SubSeq(frame, 4 + 1, 4 + Len(message))
    <3>1. /\ x \in Seq(Byte) /\ Len(x) = Len(message)
          /\ \A i \in 1..Len(message) : x[i] = inside[4 + i]
      BY <1>1, <1>4, Piece
    <3>2. /\ y \in Seq(Byte) /\ Len(y) = Len(message)
          /\ \A i \in 1..Len(message) : y[i] = frame[4 + i]
      BY <1>1, Piece
    <3>3. \A i \in 1..Len(message) : inside[4 + i] = frame[4 + i]
      BY <1>1, <2>2
    <3> HIDE DEF x, y
    <3>4. x = y
      BY <3>1, <3>2, <3>3, SameSeq
    <3>. QED
      BY <3>4 DEF x, y
  <2>. QED
    BY <2>1, <2>2, <2>3 DEF FirstPayload, AfterFirst, Rest
<1>. QED
  BY <1>3, <1>4

(* What the receiver finds at the head of its buffer, when the stream      *)
(* begins with the frame of a message that fits the header.                *)
LEMMA FrameFound ==
    ASSUME NEW inside \in Seq(Byte), NEW outside \in Seq(Byte),
           NEW message \in Seq(Byte), NEW rest \in Seq(Byte),
           Len(message) < Base * Base * Base * Base,
           Joined(inside, outside) = Joined(Header(Len(message)) \o message, rest),
           Len(inside) >= 4
    PROVE  /\ Length(inside) = Len(message)
           /\ Len(inside) >= 4 + Len(message) =>
                 /\ FirstPayload(inside) = message
                 /\ AfterFirst(inside) \in Seq(Byte)
                 /\ Joined(AfterFirst(inside), outside) = rest
<1> DEFINE frame == Header(Len(message)) \o message
<1>1. /\ frame \in Seq(Byte) /\ Len(frame) = 4 + Len(message) /\ Length(frame) = Len(message)
      /\ SubSeq(frame, 5, 4 + Len(message)) = message
      /\ Joined(inside, outside) = Joined(frame, rest)
  BY FrameBytes
<1> HIDE DEF frame
<1>. QED
  BY <1>1, FrameCut

(* framePayload() of a sender with that limit, and what a sender of        *)
(* messages writes, both as constants.                                     *)
Framed(limit, message) ==
    IF Len(message) > limit THEN <<>> ELSE Header(Len(message)) \o message
FramesList(limit, messages) == [i \in 1..Len(messages) |-> Framed(limit, messages[i])]
Stream(limit, messages)     == FlattenSeq(FramesList(limit, messages))

(* The specification's own operators, in these terms. *)
LEMMA StreamIsFrames ==
    /\ \A message : FramePayload(message) = Framed(senderLimit, message)
    /\ Aligned <=> Joined(buffer, pipe) = Stream(senderLimit, Rest(sent, Len(received)))
BY DEF FramePayload, Framed, Aligned, FramesOf, UnderWay, FramesList, Stream, Joined, Rest

(* The same of the next state. *)
LEMMA StreamIsFramesNext ==
    Aligned' <=> Joined(buffer', pipe') = Stream(senderLimit', Rest(sent', Len(received')))
BY DEF FramePayload, Framed, Aligned, FramesOf, UnderWay, FramesList, Stream, Joined, Rest

(* A frame is made of bytes. *)
LEMMA FramedType ==
    ASSUME NEW limit \in SenderLimits, NEW message \in Seq(Byte)
    PROVE  Framed(limit, message) \in Seq(Byte)
<1>1. limit \in Nat /\ limit < Base * Base * Base * Base /\ Len(message) \in Nat
  BY LimitsAssumption
<1>2. CASE Len(message) > limit
  BY <1>2 DEF Framed
<1>3. CASE ~(Len(message) > limit)
  <2>1. Len(message) < Base * Base * Base * Base
    <3> DEFINE B4 == Base * Base * Base * Base
    <3>1. B4 \in Nat
      BY BaseAssumption
    <3> HIDE DEF B4
    <3>2. Len(message) < B4
      BY <1>1, <1>3, <3>1 DEF B4
    <3>. QED
      BY <3>2 DEF B4
  <2>2. Header(Len(message)) \o message \in Seq(Byte)
    BY <2>1, FrameBytes
  <2>. QED
    BY <1>3, <2>2 DEF Framed
<1>. QED
  BY <1>2, <1>3

(* So are the frames of a sequence of messages. *)
LEMMA FramesListType ==
    ASSUME NEW limit \in SenderLimits, NEW messages \in Seq(Payloads)
    PROVE  /\ FramesList(limit, messages) \in Seq(Seq(Byte))
           /\ Len(FramesList(limit, messages)) = Len(messages)
           /\ \A i \in 1..Len(messages) :
                 FramesList(limit, messages)[i] = Framed(limit, messages[i])
<1>1. \A i \in 1..Len(messages) : Framed(limit, messages[i]) \in Seq(Byte)
  <2>1. \A i \in 1..Len(messages) : messages[i] \in Seq(Byte)
    BY PayloadsAssumption
  <2>. QED
    BY <2>1, FramedType
<1>2. Len(messages) \in Nat
  OBVIOUS
<1>. QED
  BY <1>1, <1>2 DEF FramesList

(* No message, no byte. *)
LEMMA StreamEmpty ==
    ASSUME NEW limit
    PROVE  Stream(limit, <<>>) = <<>>
<1>1. FramesList(limit, <<>>) = <<>>
  BY DEF FramesList
<1>. QED
  BY <1>1, FlattenEmpty DEF Stream

(* A stream is made of bytes. *)
LEMMA StreamType ==
    ASSUME NEW limit \in SenderLimits, NEW messages \in Seq(Payloads)
    PROVE  Stream(limit, messages) \in Seq(Byte)
BY FramesListType, FlattenType DEF Stream

(* A message that is sent appends its frame to the stream. *)
LEMMA StreamAppend ==
    ASSUME NEW limit \in SenderLimits, NEW messages \in Seq(Payloads), NEW message \in Payloads
    PROVE  Stream(limit, Append(messages, message)) =
              Joined(Stream(limit, messages), Framed(limit, message))
<1> DEFINE all  == Append(messages, message)
           list == FramesList(limit, messages)
           one  == Framed(limit, message)
<1>1. /\ all \in Seq(Payloads) /\ Len(all) = Len(messages) + 1 /\ all[Len(messages) + 1] = message
      /\ \A i \in 1..Len(messages) : all[i] = messages[i]
      /\ Len(messages) \in Nat
  OBVIOUS
<1>2. /\ list \in Seq(Seq(Byte)) /\ Len(list) = Len(messages)
      /\ \A i \in 1..Len(messages) : list[i] = Framed(limit, messages[i])
  BY FramesListType
<1>3. one \in Seq(Byte)
  BY FramedType, PayloadsAssumption
<1> HIDE DEF all, list, one
<1>4. /\ FramesList(limit, all) \in Seq(Seq(Byte)) /\ Len(FramesList(limit, all)) = Len(all)
      /\ \A i \in 1..Len(all) : FramesList(limit, all)[i] = Framed(limit, all[i])
  BY <1>1, FramesListType
<1>5. FramesList(limit, all) = Append(list, one)
  <2> DEFINE x == FramesList(limit, all)
             y == Append(list, one)
  <2>1. /\ y \in Seq(Seq(Byte)) /\ Len(y) = Len(list) + 1 /\ y[Len(list) + 1] = one
        /\ \A i \in 1..Len(list) : y[i] = list[i]
    BY <1>2, <1>3
  <2> HIDE DEF y
  <2>2. ASSUME NEW i \in 1..Len(x) PROVE x[i] = y[i]
    <3>1. CASE i \in 1..Len(messages)
      BY <1>1, <1>2, <1>4, <2>1, <3>1
    <3>2. CASE i = Len(messages) + 1
      BY <1>1, <1>2, <1>4, <2>1, <3>2 DEF one
    <3>. QED
      BY <1>1, <1>4, <3>1, <3>2
  <2>3. x \in Seq(Seq(Byte)) /\ Len(x) = Len(y)
    BY <1>1, <1>2, <1>4, <2>1
  <2> HIDE DEF x
  <2>4. x = y
    BY <2>1, <2>2, <2>3, SameSeq
  <2>. QED
    BY <2>4 DEF x, y
<1>6. FlattenSeq(Append(list, one)) = FlattenSeq(list) \o one
  BY <1>2, <1>3, FlattenAppend
<1>. QED
  BY <1>5, <1>6 DEF Stream, Joined, all, list, one

(* The first message's frame begins the stream. *)
LEMMA StreamHead ==
    ASSUME NEW limit \in SenderLimits, NEW messages \in Seq(Payloads), messages # <<>>
    PROVE  Stream(limit, messages) =
              Joined(Framed(limit, Head(messages)), Stream(limit, Tail(messages)))
<1> DEFINE rest == Tail(messages)
           list == FramesList(limit, rest)
           one  == Framed(limit, Head(messages))
<1>1. /\ Head(messages) \in Payloads /\ Head(messages) = messages[1]
      /\ rest \in Seq(Payloads) /\ Len(messages) = Len(rest) + 1
      /\ \A i \in 1..Len(rest) : rest[i] = messages[i + 1]
      /\ Len(rest) \in Nat
  OBVIOUS
<1>2. one \in Seq(Byte)
  BY <1>1, FramedType, PayloadsAssumption
<1> HIDE DEF rest, one
<1>3. /\ list \in Seq(Seq(Byte)) /\ Len(list) = Len(rest)
      /\ \A i \in 1..Len(rest) : list[i] = Framed(limit, rest[i])
  BY <1>1, FramesListType
<1> HIDE DEF list
<1>4. FramesList(limit, messages) = <<one>> \o list
  <2> DEFINE x == FramesList(limit, messages)
             y == <<one>> \o list
  <2>1. /\ y \in Seq(Seq(Byte)) /\ Len(y) = Len(list) + 1 /\ y[1] = one
        /\ \A i \in 1..Len(list) : y[i + 1] = list[i]
    BY <1>2, <1>3
  <2>2. /\ x \in Seq(Seq(Byte)) /\ Len(x) = Len(messages)
        /\ \A i \in 1..Len(messages) : x[i] = Framed(limit, messages[i])
    BY FramesListType
  <2> HIDE DEF x, y
  <2>3. ASSUME NEW i \in 1..Len(x) PROVE x[i] = y[i]
    <3>1. CASE i = 1
      BY <1>1, <2>1, <2>2, <3>1 DEF one
    <3>2. CASE i # 1
      <4>1. i - 1 \in 1..Len(rest) /\ (i - 1) + 1 = i
        BY <1>1, <2>2, <3>2
      <4>2. y[(i - 1) + 1] = list[i - 1] /\ list[i - 1] = Framed(limit, rest[i - 1])
        BY <1>3, <2>1, <4>1
      <4>3. rest[i - 1] = messages[(i - 1) + 1]
        BY <1>1, <4>1
      <4>. QED
        BY <2>2, <4>1, <4>2, <4>3
    <3>. QED
      BY <3>1, <3>2
  <2>4. Len(x) = Len(y)
    BY <1>1, <1>3, <2>1, <2>2
  <2>5. x = y
    BY <2>1, <2>2, <2>3, <2>4, SameSeq
  <2>. QED
    BY <2>5 DEF x, y
<1>5. FlattenSeq(<<one>> \o list) = one \o FlattenSeq(list)
  BY <1>2, <1>3, FlattenCons
<1>. QED
  BY <1>4, <1>5 DEF Stream, Joined, list, one, rest

---------------------------------------------------------------------------
(* The messages under way.                                                 *)

(* What comes after the first k elements. *)
LEMMA RestElements ==
    ASSUME NEW X, NEW s \in Seq(X), NEW k \in Nat, k <= Len(s)
    PROVE  /\ Rest(s, k) \in Seq(X) /\ Len(Rest(s, k)) = Len(s) - k
           /\ \A i \in 1..(Len(s) - k) : Rest(s, k)[i] = s[k + i]
<1>1. Rest(s, k) \in Seq(X)
  BY DEF Rest
<1>2. Len(Rest(s, k)) = Len(s) - k
  BY DEF Rest
<1>3. \A i \in 1..(Len(s) - k) : Rest(s, k)[i] = s[k + i]
  BY DEF Rest
<1>. QED
  BY <1>1, <1>2, <1>3

(* They grow when an element joins. *)
LEMMA RestAppend ==
    ASSUME NEW X, NEW s \in Seq(X), NEW e \in X, NEW k \in Nat, k <= Len(s)
    PROVE  Rest(Append(s, e), k) = Append(Rest(s, k), e)
<1> DEFINE t == Append(s, e)
           m == Len(s) - k
           x == Rest(t, k)
           y == Append(Rest(s, k), e)
<1>1. /\ t \in Seq(X) /\ Len(t) = Len(s) + 1 /\ t[Len(s) + 1] = e
      /\ \A i \in 1..Len(s) : t[i] = s[i]
      /\ m \in Nat /\ Len(s) = k + m
  OBVIOUS
<1>2. /\ Rest(s, k) \in Seq(X) /\ Len(Rest(s, k)) = m
      /\ \A i \in 1..m : Rest(s, k)[i] = s[k + i]
  BY RestElements
<1>3. x \in Seq(X) /\ Len(x) = m + 1 /\ \A i \in 1..(m + 1) : x[i] = t[k + i]
  <2>1. k <= Len(t) /\ Len(t) - k = m + 1
    BY <1>1
  <2>2. /\ x \in Seq(X) /\ Len(x) = Len(t) - k
        /\ \A i \in 1..(Len(t) - k) : x[i] = t[k + i]
    BY <1>1, <2>1, RestElements
  <2>. QED
    BY <2>1, <2>2
<1> HIDE DEF t, m
<1>4. y \in Seq(X) /\ Len(y) = m + 1 /\ y[m + 1] = e /\ \A i \in 1..m : y[i] = Rest(s, k)[i]
  BY <1>1, <1>2
<1> HIDE DEF x, y
<1>5. ASSUME NEW i \in 1..Len(x) PROVE x[i] = y[i]
  <2>1. CASE i = m + 1
    <3>1. k + i = Len(s) + 1
      BY <1>1, <2>1
    <3>. QED
      BY <1>1, <1>3, <1>4, <2>1, <3>1
  <2>2. CASE i # m + 1
    <3>1. i \in 1..m /\ k + i \in 1..Len(s)
      BY <1>1, <1>3, <2>2
    <3>. QED
      BY <1>1, <1>2, <1>3, <1>4, <3>1
  <2>. QED
    BY <2>1, <2>2
<1>6. x = y
  BY <1>3, <1>4, <1>5, SameSeq
<1>. QED
  BY <1>6 DEF t, x, y

(* They are the next one and what comes after it. *)
LEMMA RestTail ==
    ASSUME NEW X, NEW s \in Seq(X), NEW k \in Nat, k < Len(s)
    PROVE  /\ Rest(s, k) \in Seq(X) /\ Rest(s, k) # <<>>
           /\ Head(Rest(s, k)) = s[k + 1] /\ s[k + 1] \in X
           /\ Tail(Rest(s, k)) = Rest(s, k + 1)
<1> DEFINE m == Len(s) - k
           r == Rest(s, k)
           x == Tail(r)
           y == Rest(s, k + 1)
<1>1. m \in Nat \ {0} /\ Len(s) = k + m /\ \A i \in 1..Len(s) : s[i] \in X
  OBVIOUS
<1>2. r \in Seq(X) /\ Len(r) = m /\ \A i \in 1..m : r[i] = s[k + i]
  BY RestElements
<1>3. y \in Seq(X) /\ Len(y) = m - 1 /\ \A i \in 1..(m - 1) : y[i] = s[(k + 1) + i]
  <2>1. k + 1 \in Nat /\ k + 1 <= Len(s) /\ Len(s) - (k + 1) = m - 1
    OBVIOUS
  <2>2. /\ y \in Seq(X) /\ Len(y) = Len(s) - (k + 1)
        /\ \A i \in 1..(Len(s) - (k + 1)) : y[i] = s[(k + 1) + i]
    BY <2>1, RestElements
  <2>. QED
    BY <2>1, <2>2
<1> HIDE DEF m, r, y
<1>4. r # <<>> /\ Head(r) = s[k + 1] /\ s[k + 1] \in X
  BY <1>1, <1>2
<1>5. x \in Seq(X) /\ Len(x) = m - 1 /\ \A i \in 1..(m - 1) : x[i] = r[i + 1]
  BY <1>1, <1>2
<1> HIDE DEF x
<1>6. ASSUME NEW i \in 1..Len(x) PROVE x[i] = y[i]
  <2>1. i \in 1..(m - 1) /\ i + 1 \in 1..m /\ k + (i + 1) = (k + 1) + i
    BY <1>1, <1>5
  <2>. QED
    BY <1>2, <1>3, <1>5, <2>1
<1>7. x = y
  BY <1>3, <1>5, <1>6, SameSeq
<1>. QED
  BY <1>2, <1>4, <1>7 DEF r, x, y

(* Nothing comes after the last. *)
LEMMA RestEmpty ==
    ASSUME NEW X, NEW s \in Seq(X), NEW k \in Nat, k <= Len(s)
    PROVE  /\ Rest(s, k) \in Seq(X)
           /\ k = Len(s) => Rest(s, k) = <<>>
BY DEF Rest

(* Joining three streams. *)
LEMMA JoinedThree ==
    ASSUME NEW x \in Seq(Byte), NEW y \in Seq(Byte), NEW z \in Seq(Byte)
    PROVE  /\ Joined(x, y) \in Seq(Byte)
           /\ Joined(Joined(x, y), z) = Joined(x, Joined(y, z))
BY DEF Joined

(* The receiver has read some of the bytes of the stream: what is left of  *)
(* the pipe goes on where the buffer ends.                                 *)
LEMMA ReadSome ==
    ASSUME NEW inside \in Seq(Byte), NEW outside \in Seq(Byte), NEW n \in 1..Len(outside)
    PROVE  /\ inside \o SubSeq(outside, 1, n) \in Seq(Byte)
           /\ SubSeq(outside, n + 1, Len(outside)) \in Seq(Byte)
           /\ Joined(inside \o SubSeq(outside, 1, n), SubSeq(outside, n + 1, Len(outside)))
                = Joined(inside, outside)
<1> DEFINE x == SubSeq(outside, 1, n)
           y == SubSeq(outside, n + 1, Len(outside))
<1>1. x \in Seq(Byte) /\ y \in Seq(Byte) /\ x \o y = outside
  OBVIOUS
<1> HIDE DEF x, y
<1>2. /\ Joined(x, y) = outside
      /\ Joined(inside, x) \in Seq(Byte)
      /\ Joined(Joined(inside, x), y) = Joined(inside, Joined(x, y))
  <2>1. Joined(x, y) = outside
    BY <1>1 DEF Joined
  <2>. QED
    BY <1>1, <2>1, JoinedThree
<1>3. inside \o x = Joined(inside, x)
  BY DEF Joined
<1>. QED
  BY <1>1, <1>2, <1>3 DEF x, y

---------------------------------------------------------------------------
(* The invariant.                                                          *)

(* A turn of the loop that finds a frame, or refuses one, finds the frame  *)
(* of the first message under way.                                         *)
LEMMA FirstUnderWay ==
    ASSUME FramingInv, Len(buffer) >= 4
    PROVE  LET message == sent[Len(received) + 1]
           IN  /\ Len(received) < Len(sent)
               /\ message \in Payloads /\ message \in Seq(Byte) /\ Len(message) <= senderLimit
               /\ Length(buffer) = Len(message)
               /\ Len(buffer) >= FrameSize(buffer) =>
                     /\ FirstPayload(buffer) = message
                     /\ AfterFirst(buffer) \in Seq(Byte)
                     /\ Joined(AfterFirst(buffer), pipe)
                           = Stream(senderLimit, Rest(sent, Len(received) + 1))
<1> DEFINE k       == Len(received)
           message == sent[k + 1]
           rest    == Stream(senderLimit, Rest(sent, k + 1))
<1>1. /\ k \in Nat /\ k <= Len(sent) /\ sent \in Seq(Payloads) /\ senderLimit \in SenderLimits
      /\ buffer \in Seq(Byte) /\ pipe \in Seq(Byte)
      /\ \A i \in 1..Len(sent) : Len(sent[i]) <= senderLimit
  BY DEF FramingInv, TypeOK
<1>2. Joined(buffer, pipe) = Stream(senderLimit, Rest(sent, k))
  BY StreamIsFrames DEF FramingInv
<1>3. k # Len(sent)
  <2>1. k = Len(sent) => Joined(buffer, pipe) = <<>>
    BY <1>1, <1>2, RestEmpty, StreamEmpty
  <2>2. Len(Joined(buffer, pipe)) >= 4
    BY <1>1 DEF Joined
  <2>. QED
    BY <2>1, <2>2
<1>4. k < Len(sent)
  BY <1>1, <1>3
<1>5. /\ Rest(sent, k) \in Seq(Payloads) /\ Rest(sent, k) # <<>>
      /\ Head(Rest(sent, k)) = message /\ message \in Payloads
      /\ Tail(Rest(sent, k)) = Rest(sent, k + 1)
  BY <1>1, <1>4, RestTail
<1>6. message \in Seq(Byte) /\ Len(message) <= senderLimit
  <2>1. k + 1 \in 1..Len(sent)
    BY <1>1, <1>4
  <2>. QED
    BY <1>1, <1>5, <2>1, PayloadsAssumption
<1>7. Stream(senderLimit, Rest(sent, k)) = Joined(Framed(senderLimit, message), rest)
  BY <1>1, <1>5, StreamHead
<1>8. rest \in Seq(Byte)
  <2>1. Rest(sent, k + 1) \in Seq(Payloads)
    BY <1>5
  <2>. QED
    BY <1>1, <2>1, StreamType
<1> HIDE DEF message, rest, k
<1>9. Framed(senderLimit, message) = Header(Len(message)) \o message
  <2>1. senderLimit \in Nat /\ Len(message) \in Nat
    BY <1>1, <1>6, LimitsAssumption
  <2>. QED
    BY <1>6, <2>1 DEF Framed
<1>10. Len(message) < Base * Base * Base * Base
  <2> DEFINE B4 == Base * Base * Base * Base
  <2>1. B4 \in Nat /\ senderLimit \in Nat /\ senderLimit < B4 /\ Len(message) \in Nat
    BY <1>1, <1>6, BaseAssumption, LimitsAssumption
  <2> HIDE DEF B4
  <2>2. Len(message) < B4
    BY <1>6, <2>1
  <2>. QED
    BY <2>2 DEF B4
<1>11. Joined(buffer, pipe) = Joined(Header(Len(message)) \o message, rest)
  BY <1>2, <1>7, <1>9
<1>12. /\ Length(buffer) = Len(message)
       /\ Len(buffer) >= 4 + Len(message) =>
             /\ FirstPayload(buffer) = message
             /\ AfterFirst(buffer) \in Seq(Byte)
             /\ Joined(AfterFirst(buffer), pipe) = rest
  BY <1>1, <1>6, <1>8, <1>10, <1>11, FrameFound
<1>. QED
  BY <1>4, <1>5, <1>6, <1>12 DEF FrameSize, message, rest, k

(* A message that is sent, and one that is too long to be. *)
LEMMA SendAligned ==
    ASSUME FramingInv, NEW payload \in Payloads, Send(payload)
    PROVE  FramingInv'
<1> DEFINE k    == Len(received)
           rest == Rest(sent, k)
           one  == Framed(senderLimit, payload)
<1>1. /\ k \in Nat /\ k <= Len(sent) /\ sent \in Seq(Payloads) /\ senderLimit \in SenderLimits
      /\ buffer \in Seq(Byte) /\ pipe \in Seq(Byte) /\ payload \in Seq(Byte)
      /\ Joined(buffer, pipe) = Stream(senderLimit, rest)
  BY StreamIsFrames, PayloadsAssumption DEF FramingInv, TypeOK
<1>2. /\ UNCHANGED <<senderLimit, connected, buffer, reading, received>> /\ connected
      /\ pipe' = Joined(pipe, one)
      /\ sent' = IF Len(payload) > senderLimit THEN sent ELSE Append(sent, payload)
      /\ Len(sent) < MaxSent
  BY StreamIsFrames DEF Send, Joined
<1>3. one \in Seq(Byte)
  BY <1>1, FramedType
<1>4. rest \in Seq(Payloads)
  BY <1>1, RestEmpty
<1>5. pipe' \in Seq(Byte) /\ Joined(buffer', pipe') = Joined(Stream(senderLimit, rest), one)
  BY <1>1, <1>2, <1>3, JoinedThree
<1>6. CASE Len(payload) > senderLimit
  <2>1. one = <<>>
    BY <1>6 DEF Framed
  <2>2. Joined(pipe, one) = pipe
    BY <1>1, <2>1 DEF Joined
  <2>. QED
    BY <1>1, <1>2, <1>6, <2>2, StreamIsFramesNext DEF FramingInv, TypeOK
<1>7. CASE ~(Len(payload) > senderLimit)
  <2>1. sent' = Append(sent, payload)
    BY <1>2, <1>7
  <2>2. /\ sent' \in Seq(Payloads) /\ Len(sent') = Len(sent) + 1
        /\ sent'[Len(sent) + 1] = payload /\ \A i \in 1..Len(sent) : sent'[i] = sent[i]
    BY <1>1, <2>1
  <2>3. Rest(sent', k) = Append(rest, payload)
    BY <1>1, <2>1, RestAppend
  <2>4. Stream(senderLimit, Append(rest, payload)) = Joined(Stream(senderLimit, rest), one)
    BY <1>1, <1>4, StreamAppend
  <2>5. Joined(buffer', pipe') = Stream(senderLimit', Rest(sent', Len(received')))
    BY <1>2, <1>5, <2>3, <2>4
  <2>6. Aligned'
    BY <2>5, StreamIsFramesNext
  <2> HIDE DEF k, rest, one
  <2>7. TypeOK'
    <3>1. Len(sent') <= MaxSent
      BY <1>1, <1>2, <2>2, MaxSentAssumption
    <3>. QED
      BY <1>2, <1>5, <2>2, <3>1 DEF FramingInv, TypeOK
  <2>8. \A i \in 1..Len(sent') : Len(sent'[i]) <= senderLimit'
    <3>1. \A i \in 1..Len(sent) : Len(sent[i]) <= senderLimit
      BY DEF FramingInv
    <3>2. Len(payload) <= senderLimit
      BY <1>1, <1>7, LimitsAssumption
    <3>3. Len(sent) \in Nat
      BY <1>1
    <3>4. ASSUME NEW i \in 1..Len(sent') PROVE Len(sent'[i]) <= senderLimit'
      <4>1. i \in 1..Len(sent) \/ i = Len(sent) + 1
        BY <2>2, <3>3
      <4>. QED
        BY <1>2, <2>2, <3>1, <3>2, <4>1
    <3>. QED
      BY <3>4
  <2>9. Len(received') <= Len(sent') /\ \A i \in 1..Len(received') : received'[i] = sent'[i]
    <3>1. /\ Len(received) \in Nat /\ Len(received) <= Len(sent) /\ Len(sent) \in Nat
          /\ \A i \in 1..Len(received) : received[i] = sent[i]
      BY <1>1 DEF FramingInv, k
    <3>2. \A i \in 1..Len(received) : i \in 1..Len(sent)
      BY <3>1
    <3>. QED
      BY <1>2, <2>2, <3>1, <3>2
  <2>. QED
    BY <1>2, <2>6, <2>7, <2>8, <2>9 DEF FramingInv
<1>. QED
  BY <1>6, <1>7

(* A frame that is taken is the first message under way, whole. *)
LEMMA TakeAligned ==
    ASSUME FramingInv, TakeFrame
    PROVE  FramingInv' /\ Len(received) < Len(sent)
                       /\ received' = Append(received, sent[Len(received) + 1])
<1> DEFINE k       == Len(received)
           message == sent[k + 1]
<1>1. Len(buffer) >= 4 /\ Len(buffer) >= FrameSize(buffer)
  <2>1. buffer \in Seq(Byte) /\ Len(buffer) \in Nat
    BY DEF FramingInv, TypeOK
  <2>2. ~(Len(buffer) < 4) /\ ~(Len(buffer) < FrameSize(buffer))
    BY DEF TakeFrame, FrameStatus
  <2>3. FrameSize(buffer) \in Nat
    <3>1. Len(buffer) >= 4
      BY <2>1, <2>2
    <3>2. Length(buffer) = Len(message) /\ message \in Seq(Byte)
      BY <3>1, FirstUnderWay
    <3>. QED
      BY <3>2 DEF FrameSize
  <2>. QED
    BY <2>1, <2>2, <2>3
<1>2. /\ k < Len(sent) /\ message \in Seq(Byte)
      /\ FirstPayload(buffer) = message
      /\ AfterFirst(buffer) \in Seq(Byte)
      /\ Joined(AfterFirst(buffer), pipe) = Stream(senderLimit, Rest(sent, k + 1))
  BY <1>1, FirstUnderWay
<1>3. /\ received' = Append(received, message) /\ buffer' = AfterFirst(buffer)
      /\ UNCHANGED <<senderLimit, connected, pipe, reading, sent>>
  BY <1>2 DEF TakeFrame
<1>4. /\ received \in Seq(Seq(Byte)) /\ k \in Nat /\ Len(sent) \in Nat
      /\ \A i \in 1..k : received[i] = sent[i]
  BY DEF FramingInv, TypeOK
<1> HIDE DEF message
<1>5. /\ received' \in Seq(Seq(Byte)) /\ Len(received') = k + 1 /\ received'[k + 1] = message
      /\ \A i \in 1..k : received'[i] = received[i]
  BY <1>2, <1>3, <1>4
<1> HIDE DEF k
<1>6. TypeOK'
  BY <1>2, <1>3, <1>5 DEF FramingInv, TypeOK
<1>7. Aligned'
  BY <1>2, <1>3, <1>5, StreamIsFramesNext
<1>8. Len(received') <= Len(sent') /\ \A i \in 1..Len(received') : received'[i] = sent'[i]
  <2>1. Len(received') <= Len(sent')
    BY <1>2, <1>3, <1>4, <1>5
  <2>2. ASSUME NEW i \in 1..Len(received') PROVE received'[i] = sent'[i]
    <3>1. i \in 1..k \/ i = k + 1
      BY <1>4, <1>5
    <3>. QED
      BY <1>3, <1>4, <1>5, <3>1 DEF message
  <2>. QED
    BY <2>1, <2>2
<1>9. connected
  <2>1. ~connected => sent = <<>>
    BY DEF FramingInv
  <2>. QED
    BY <1>2, <1>4, <2>1
<1>10. \A i \in 1..Len(sent') : Len(sent'[i]) <= senderLimit'
  BY <1>3 DEF FramingInv
<1>. QED
  BY <1>2, <1>3, <1>6, <1>7, <1>8, <1>9, <1>10 DEF FramingInv, k, message

(* A connection that is lost, or not there yet, has no bytes. *)
LEMMA NothingUnderWay ==
    ASSUME senderLimit' \in SenderLimits, connected' \in BOOLEAN, reading' \in BOOLEAN,
           pipe' = <<>>, buffer' = <<>>, sent' = <<>>, received' = <<>>
    PROVE  FramingInv'
<1>1. /\ <<>> \in Seq(Byte) /\ <<>> \in Seq(Payloads) /\ <<>> \in Seq(Seq(Byte))
      /\ \A S : <<>> \in Seq(S)
      /\ Len(<<>>) = 0
  OBVIOUS
<1>2. TypeOK'
  BY <1>1, MaxSentAssumption DEF TypeOK
<1>3. Aligned'
  <2>1. Rest(sent', Len(received')) = <<>>
    BY DEF Rest
  <2>2. Joined(buffer', pipe') = <<>>
    BY DEF Joined
  <2>. QED
    BY <2>1, <2>2, StreamEmpty, StreamIsFramesNext
<1>. QED
  BY <1>1, <1>2, <1>3 DEF FramingInv

(* Every step keeps the invariant. *)
LEMMA FramingStep ==
    ASSUME FramingInv, [Next]_vars
    PROVE  FramingInv'
<1>1. CASE \E payload \in Payloads : Send(payload)
  BY <1>1, SendAligned
<1>2. CASE ReadAll
  <2>1. PICK n \in 1..Len(pipe) :
             /\ buffer' = buffer \o SubSeq(pipe, 1, n)
             /\ pipe' = SubSeq(pipe, n + 1, Len(pipe))
    BY <1>2 DEF ReadAll
  <2>2. buffer \in Seq(Byte) /\ pipe \in Seq(Byte)
    BY DEF FramingInv, TypeOK
  <2>3. /\ buffer' \in Seq(Byte) /\ pipe' \in Seq(Byte)
        /\ Joined(buffer', pipe') = Joined(buffer, pipe)
    BY <2>1, <2>2, ReadSome
  <2>4. /\ UNCHANGED <<senderLimit, connected, sent, received>> /\ reading' = TRUE /\ connected
    BY <1>2 DEF ReadAll
  <2>5. Aligned'
    BY <2>3, <2>4, StreamIsFrames, StreamIsFramesNext DEF FramingInv
  <2>6. TypeOK'
    BY <2>3, <2>4 DEF FramingInv, TypeOK
  <2>. QED
    BY <2>4, <2>5, <2>6 DEF FramingInv
<1>3. CASE TakeFrame
  BY <1>3, TakeAligned
<1>4. CASE Invalid \/ Disconnect
  BY <1>4, NothingUnderWay DEF Invalid, Disconnect, FramingInv, TypeOK
<1>5. CASE Connect
  BY <1>5, NothingUnderWay DEF Connect, FramingInv, TypeOK
<1>6. CASE NeedMoreData \/ UNCHANGED vars
  <2>1. UNCHANGED <<senderLimit, connected, pipe, buffer, sent, received>> /\ reading' \in BOOLEAN
    BY <1>6 DEF NeedMoreData, vars, FramingInv, TypeOK
  <2>2. Aligned'
    BY <2>1, StreamIsFrames, StreamIsFramesNext DEF FramingInv
  <2>. QED
    BY <2>1, <2>2 DEF FramingInv, TypeOK
<1>. QED
  BY <1>1, <1>2, <1>3, <1>4, <1>5, <1>6 DEF Next

(* Initially nothing is under way. *)
LEMMA FramingInit ==
    ASSUME Init
    PROVE  FramingInv
<1>1. /\ <<>> \in Seq(Byte) /\ <<>> \in Seq(Payloads) /\ <<>> \in Seq(Seq(Byte))
      /\ \A S : <<>> \in Seq(S)
      /\ Len(<<>>) = 0
  OBVIOUS
<1>2. TypeOK
  <2>1. connected \in BOOLEAN /\ reading \in BOOLEAN
    BY Zenon DEF Init
  <2>2. /\ senderLimit \in SenderLimits
        /\ pipe = <<>> /\ buffer = <<>> /\ sent = <<>> /\ received = <<>>
    BY DEF Init
  <2>. QED
    BY <1>1, <2>1, <2>2, MaxSentAssumption DEF TypeOK
<1>3. Aligned
  <2>1. Rest(sent, Len(received)) = <<>>
    BY DEF Init, Rest
  <2>2. Joined(buffer, pipe) = <<>>
    BY DEF Init, Joined
  <2>. QED
    BY <2>1, <2>2, StreamEmpty, StreamIsFrames
<1>4. sent = <<>> /\ received = <<>> /\ connected
  BY DEF Init
<1>. QED
  BY <1>1, <1>2, <1>3, <1>4 DEF FramingInv

---------------------------------------------------------------------------
(* Theorems.                                                               *)

(* The invariant holds however the stream is cut into pieces, whatever the *)
(* payloads and the limits, of this release or of another.                 *)
THEOREM FramingCorrect == Spec => []FramingInv
BY FramingInit, FramingStep, PTL DEF Spec

(* The state stays within its types: what is taken out of the stream is    *)
(* bytes.                                                                  *)
THEOREM FramingTypeCorrect == Spec => []TypeOK
<1>1. FramingInv => TypeOK
  BY DEF FramingInv
<1>. QED
  BY <1>1, FramingCorrect, PTL

(* The receiver never loses its place: its buffer, and the bytes that      *)
(* follow, are whole frames of the messages under way.                     *)
THEOREM AlwaysAligned == Spec => []Aligned
<1>1. FramingInv => Aligned
  BY DEF FramingInv
<1>. QED
  BY <1>1, FramingCorrect, PTL

(* Between peers of one release takeFrame() refuses nothing.               *)
THEOREM NeverRefused == Spec => []NeverInvalid
<1>1. ASSUME FramingInv, senderLimit <= MaxPayload PROVE FrameStatus(buffer) # "Invalid"
  <2>1. CASE Len(buffer) < 4
    BY <2>1 DEF FrameStatus
  <2>2. CASE ~(Len(buffer) < 4)
    <3>1. Len(buffer) >= 4
      BY <1>1, <2>2 DEF FramingInv, TypeOK
    <3> DEFINE message == sent[Len(received) + 1]
    <3>2. message \in Seq(Byte) /\ Len(message) <= senderLimit /\ Length(buffer) = Len(message)
      BY <1>1, <3>1, FirstUnderWay
    <3> HIDE DEF message
    <3>3. senderLimit \in Nat /\ MaxPayload \in Nat
      BY <1>1, LimitsAssumption DEF FramingInv, TypeOK
    <3>4. ~(Length(buffer) > MaxPayload)
      BY <1>1, <3>2, <3>3
    <3>. QED
      BY <3>4 DEF FrameStatus
  <2>. QED
    BY <2>1, <2>2
<1>2. FramingInv => NeverInvalid
  BY <1>1 DEF NeverInvalid
<1>. QED
  BY <1>2, FramingCorrect, PTL

(* Framing is a channel of messages: each arrives whole, once and in its   *)
(* turn, and only a lost connection loses any.                             *)
THEOREM FramingIsAChannel == Spec => ChannelRefined
<1> DEFINE Step == Messages!Send \/ Messages!Deliver \/ Messages!Drop
<1>1. UnderWay = Rest(sent, Len(received))
      /\ UnderWay' = Rest(sent', Len(received'))
  BY DEF UnderWay, Rest
<1>2. Init => Messages!Init
  BY <1>1 DEF Init, Messages!Init, Rest
<1>3. ASSUME FramingInv, [Next]_vars PROVE [Step]_<<UnderWay, received>>
  <2>1. ASSUME NEW payload \in Payloads, Send(payload) PROVE [Step]_<<UnderWay, received>>
    <3>1. received' = received
      BY <2>1 DEF Send
    <3>2. CASE sent' = sent
      BY <1>1, <3>1, <3>2
    <3>3. CASE sent' = Append(sent, payload)
      <4>1. sent \in Seq(Payloads) /\ Len(received) \in Nat /\ Len(received) <= Len(sent)
        BY <1>3 DEF FramingInv, TypeOK
      <4>2. Rest(sent', Len(received')) = Append(Rest(sent, Len(received)), payload)
        BY <3>1, <3>3, <4>1, RestAppend
      <4>. QED
        BY <1>1, <2>1, <3>1, <4>2 DEF Messages!Send
    <3>. QED
      BY <2>1, <3>2, <3>3 DEF Send
  <2>2. ASSUME TakeFrame PROVE [Step]_<<UnderWay, received>>
    <3>1. /\ Len(received) < Len(sent)
          /\ received' = Append(received, sent[Len(received) + 1])
      BY <1>3, <2>2, TakeAligned
    <3>2. sent \in Seq(Payloads) /\ received \in Seq(Seq(Byte)) /\ Len(received) \in Nat
      BY <1>3 DEF FramingInv, TypeOK
    <3>3. Len(received') = Len(received) + 1 /\ sent' = sent
      <4>1. received' \in Seq(Seq(Byte)) /\ sent' = sent
        BY <1>3, <2>2, TakeAligned DEF FramingInv, TypeOK, TakeFrame
      <4>. QED
        BY <3>1, <3>2, <4>1
    <3>4. /\ Rest(sent, Len(received)) # <<>>
          /\ Head(Rest(sent, Len(received))) = sent[Len(received) + 1]
          /\ Tail(Rest(sent, Len(received))) = Rest(sent, Len(received) + 1)
      BY <3>1, <3>2, RestTail
    <3>. QED
      BY <1>1, <3>1, <3>3, <3>4 DEF Messages!Deliver
  <2>3. ASSUME Invalid \/ Disconnect PROVE [Step]_<<UnderWay, received>>
    <3>1. sent' = <<>> /\ received' = <<>>
      BY <2>3 DEF Invalid, Disconnect
    <3>2. Rest(sent', Len(received')) = <<>>
      BY <3>1 DEF Rest
    <3>. QED
      BY <1>1, <3>1, <3>2 DEF Messages!Drop
  <2>4. ASSUME ReadAll \/ NeedMoreData \/ Connect \/ UNCHANGED vars
        PROVE  [Step]_<<UnderWay, received>>
    <3>1. sent' = sent /\ received' = received
      BY <2>4 DEF ReadAll, NeedMoreData, Connect, vars
    <3>. QED
      BY <1>1, <3>1
  <2>. QED
    BY <1>3, <2>1, <2>2, <2>3, <2>4 DEF Next
<1>4. Spec => Messages!Init /\ [][Step]_<<UnderWay, received>>
  BY <1>2, <1>3, FramingCorrect, PTL DEF Spec
<1>. QED
  BY <1>4 DEF ChannelRefined, Messages!Spec
==============================================================================

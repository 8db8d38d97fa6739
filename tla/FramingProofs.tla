---------------------------- MODULE FramingProofs ----------------------------
(***************************************************************************)
(* The theorems about Framing: IInv is an inductive invariant, and         *)
(* LinePerFrame follows from it, for all lines, ceilings and chunks.       *)
(***************************************************************************)
EXTENDS FramingInv, FiniteSetTheorems, SequenceTheorems, TLAPS

-----------------------------------------------------------------------------
(* Induction, about sets of numbers. *)

(* A set of natural numbers has a least element. *)
LEMMA LeastElement ==
    ASSUME NEW S \in SUBSET Nat, S # {}
    PROVE  \E x \in S : \A y \in S : x <= y
<1> DEFINE Segments == {0 .. x : x \in S}
           Order == StrictSubsetOrdering(Nat)
<1>1. Segments # {} /\ Segments \subseteq FiniteSubsetsOf(Nat)
    <2>1. \A x \in S : x \in Nat /\ IsFiniteSet(0 .. x) /\ 0 .. x \in SUBSET Nat
        BY FS_Interval
    <2> QED BY <2>1 DEF FiniteSubsetsOf
<1>2. IsWellFoundedOn(Order, FiniteSubsetsOf(Nat))
    BY FS_StrictSubsetOrderingWellFounded
<1>3. PICK U \in Segments : \A V \in Segments : ~(<<V, U>> \in Order)
    <2> HIDE DEF Order, Segments
    <2> QED BY <1>1, <1>2, WFMin
<1>4. PICK x \in S : U = 0 .. x
    OBVIOUS
<1>5. \A y \in S : x <= y
    <2> SUFFICES ASSUME NEW y \in S, y < x PROVE FALSE
        OBVIOUS
    <2>1. 0 .. y \subseteq 0 .. x /\ x \notin 0 .. y /\ x \in 0 .. x
        OBVIOUS
    <2>2. <<0 .. y, 0 .. x>> \in Order
        BY <2>1 DEF StrictSubsetOrdering
    <2> QED BY <2>2, <1>3, <1>4
<1> QED BY <1>5

(* A bounded one has a greatest element, too. *)
LEMMA GreatestElement ==
    ASSUME NEW n \in Nat, NEW S \in SUBSET (0 .. n), S # {}
    PROVE  \E x \in S : \A y \in S : y <= x
<1> DEFINE Rest == {n - x : x \in S}
<1>1. Rest \in SUBSET Nat /\ Rest # {}
    <2>1. \A x \in S : n - x \in Nat
        OBVIOUS
    <2> QED BY <2>1
<1>2. PICK r \in Rest : \A q \in Rest : r <= q
    <2> HIDE DEF Rest
    <2> QED BY <1>1, LeastElement
<1>3. PICK x \in S : r = n - x
    OBVIOUS
<1>4. \A y \in S : y <= x
    <2> TAKE y \in S
    <2>1. r <= n - y
        BY <1>2
    <2> QED BY <2>1, <1>3
<1> QED BY <1>4

(* What holds of a number whenever it holds of all smaller ones. *)
LEMMA AllNumbers ==
    ASSUME NEW P \in SUBSET Nat,
           \A n \in Nat : (\A k \in 0 .. n - 1 : k \in P) => n \in P
    PROVE  P = Nat
<1> SUFFICES ASSUME Nat \ P # {} PROVE FALSE
    OBVIOUS
<1>1. PICK n \in Nat \ P : \A k \in Nat \ P : n <= k
    BY LeastElement
<1>2. \A k \in 0 .. n - 1 : k \in P
    BY <1>1
<1> QED BY <1>1, <1>2

(* A recursion on a smaller argument, and what follows it up to N. *)
IsRecursion(N, T, x0, pred, step) ==
    /\ N \in Nat
    /\ x0 \in T
    /\ pred \in [1 .. N -> Nat]
    /\ \A n \in 1 .. N : pred[n] < n
    /\ \A n \in 1 .. N, x \in T : step[<<n, x>>] \in T

Follows(h, N, x0, pred, step) ==
    h[0] = x0 /\ \A n \in 1 .. N : h[n] = step[<<n, h[pred[n]]>>]

Agree(f, g, N) == \A n \in 0 .. N : f[n] = g[n]

(* There is a function that follows it. *)
LEMMA Recursion ==
    ASSUME NEW N, NEW T, NEW x0, NEW pred, NEW step, IsRecursion(N, T, x0, pred, step)
    PROVE  \E h \in [0 .. N -> T] : Follows(h, N, x0, pred, step)
<1>0. /\ N \in Nat /\ x0 \in T
      /\ pred \in [1 .. N -> Nat]
      /\ \A n \in 1 .. N : pred[n] < n
      /\ \A n \in 1 .. N, x \in T : step[<<n, x>>] \in T
    BY DEF IsRecursion
<1> DEFINE Good(h, m) == h[0] = x0 /\ \A n \in 1 .. m : h[n] = step[<<n, h[pred[n]]>>]
           P == {m \in Nat : m <= N => \E h \in [0 .. m -> T] : Good(h, m)}
<1>1. ASSUME NEW m \in Nat, \A k \in 0 .. m - 1 : k \in P PROVE m \in P
    <2>1. CASE m = 0
        <3>1. [n \in 0 .. 0 |-> x0] \in [0 .. 0 -> T] /\ Good([n \in 0 .. 0 |-> x0], 0)
            BY <1>0
        <3>2. m <= N => \E h \in [0 .. m -> T] : Good(h, m)
            BY <2>1, <3>1
        <3> QED BY <3>2
    <2>2. CASE m > 0 /\ m <= N
        <3>0. m - 1 \in 0 .. m - 1 /\ m - 1 <= N
            BY <1>0, <2>2
        <3>1. m - 1 \in P
            BY <1>1, <3>0
        <3>2. PICK h \in [0 .. m - 1 -> T] : Good(h, m - 1)
            BY <3>0, <3>1
        <3> DEFINE g == [n \in 0 .. m |-> IF n < m THEN h[n] ELSE step[<<m, h[pred[m]]>>]]
        <3>3. pred[m] \in 0 .. m - 1 /\ h[pred[m]] \in T /\ step[<<m, h[pred[m]]>>] \in T
            BY <1>0, <2>2
        <3>4. g \in [0 .. m -> T]
            BY <2>2, <3>3
        <3>5. ASSUME NEW n \in 1 .. m PROVE g[n] = step[<<n, g[pred[n]]>>]
            <4>0. n \in 1 .. N /\ pred[n] \in 0 .. n - 1 /\ pred[n] \in 0 .. m /\ pred[n] < m
                BY <1>0, <2>2
            <4>1. g[pred[n]] = h[pred[n]]
                BY <4>0
            <4>2. CASE n < m
                <5>1. g[n] = h[n] /\ n \in 1 .. m - 1
                    BY <4>2
                <5>2. h[n] = step[<<n, h[pred[n]]>>]
                    BY <5>1, <3>2
                <5> QED BY <4>1, <5>1, <5>2
            <4>3. CASE n = m
                <5>1. g[m] = step[<<m, h[pred[m]]>>]
                    BY <2>2
                <5> QED BY <4>1, <4>3, <5>1
            <4> QED BY <4>2, <4>3
        <3>6. g[0] = x0
            BY <3>2, <2>2
        <3> QED BY <3>4, <3>5, <3>6
    <2> QED BY <2>1, <2>2
<1>2. P = Nat
    <2>1. P \in SUBSET Nat
        OBVIOUS
    <2> HIDE DEF P
    <2> QED BY <1>1, <2>1, AllNumbers
<1>3. N \in P
    BY <1>0, <1>2
<1> QED BY <1>0, <1>3 DEF Follows

(* There is only one. *)
LEMMA SameRecursion ==
    ASSUME NEW N, NEW T, NEW x0, NEW pred, NEW step, IsRecursion(N, T, x0, pred, step),
           NEW f, NEW g,
           Follows(f, N, x0, pred, step), Follows(g, N, x0, pred, step)
    PROVE  Agree(f, g, N)
<1>0. /\ N \in Nat
      /\ pred \in [1 .. N -> Nat]
      /\ \A n \in 1 .. N : pred[n] < n
      /\ f[0] = g[0]
      /\ \A n \in 1 .. N : f[n] = step[<<n, f[pred[n]]>>]
      /\ \A n \in 1 .. N : g[n] = step[<<n, g[pred[n]]>>]
    BY DEF IsRecursion, Follows
<1> DEFINE P == {n \in Nat : n <= N => f[n] = g[n]}
<1>1. ASSUME NEW n \in Nat, \A k \in 0 .. n - 1 : k \in P PROVE n \in P
    <2>1. CASE n = 0
        BY <1>0, <2>1
    <2>2. CASE n > 0 /\ n <= N
        <3>1. n \in 1 .. N /\ pred[n] \in 0 .. n - 1 /\ pred[n] <= N
            BY <1>0, <2>2
        <3>2. f[pred[n]] = g[pred[n]]
            BY <3>1, <1>1
        <3>3. f[n] = g[n]
            BY <1>0, <3>1, <3>2
        <3> QED BY <3>3
    <2> QED BY <2>1, <2>2
<1>2. P = Nat
    <2>1. P \in SUBSET Nat
        OBVIOUS
    <2> HIDE DEF P
    <2> QED BY <1>1, <2>1, AllNumbers
<1> QED BY <1>0, <1>2 DEF Agree

-----------------------------------------------------------------------------
(* Numerals. *)

(* The values of the beginnings of b. *)
LEMMA LengthValues ==
    ASSUME NEW b \in Seq(Digits)
    PROVE  \E v \in [0 .. Len(b) -> Nat] :
              /\ Length(b) = v[Len(b)]
              /\ v[0] = 0
              /\ \A n \in 1 .. Len(b) : v[n] = 10 * v[n - 1] + b[n]
<1> DEFINE value[n \in 0 .. Len(b)] == IF n = 0 THEN 0 ELSE 10 * value[n - 1] + b[n]
           N == Len(b)
           pred == [n \in 1 .. N |-> n - 1]
           step == [p \in (1 .. N) \X Nat |-> 10 * p[2] + b[p[1]]]
<1>1. N \in Nat /\ \A n \in 1 .. N : b[n] \in 0 .. 9
    BY DEF Digits
<1>2. pred \in [1 .. N -> Nat] /\ \A n \in 1 .. N : pred[n] < n /\ pred[n] = n - 1
    BY <1>1
<1>3. \A n \in 1 .. N, x \in Nat : step[<<n, x>>] = 10 * x + b[n] /\ step[<<n, x>>] \in Nat
    <2> TAKE n \in 1 .. N, x \in Nat
    <2>1. <<n, x>> \in (1 .. N) \X Nat /\ step[<<n, x>>] = 10 * x + b[n]
        OBVIOUS
    <2>2. b[n] \in Nat
        BY <1>1
    <2> QED BY <2>1, <2>2
<1>4. PICK h \in [0 .. N -> Nat] : h[0] = 0 /\ \A n \in 1 .. N : h[n] = step[<<n, h[pred[n]]>>]
    <2> HIDE DEF value, N, pred, step
    <2>1. IsRecursion(N, Nat, 0, pred, step)
        BY <1>1, <1>2, <1>3 DEF IsRecursion
    <2> QED BY <2>1, Recursion DEF Follows
<1>5. \A n \in 1 .. N : h[n - 1] \in Nat /\ h[n] = 10 * h[n - 1] + b[n]
    <2> TAKE n \in 1 .. N
    <2>1. n - 1 \in 0 .. N /\ h[n - 1] \in Nat
        BY <1>1
    <2> QED BY <2>1, <1>2, <1>3, <1>4
<1>6. h = [n \in 0 .. Len(b) |-> IF n = 0 THEN 0 ELSE 10 * h[n - 1] + b[n]]
    <2>1. \A n \in 0 .. N : h[n] = IF n = 0 THEN 0 ELSE 10 * h[n - 1] + b[n]
        BY <1>1, <1>4, <1>5
    <2> QED BY <2>1
<1>7. value = [n \in 0 .. Len(b) |-> IF n = 0 THEN 0 ELSE 10 * value[n - 1] + b[n]]
    BY <1>6
<1>8. Length(b) = value[Len(b)]
    BY DEF Length
<1>9. \A n \in 0 .. N : value[n] = h[n]
    <2> DEFINE P == {n \in Nat : n <= N => value[n] = h[n]}
    <2> HIDE DEF value
    <2>1. ASSUME NEW n \in Nat, \A k \in 0 .. n - 1 : k \in P PROVE n \in P
        <3>1. CASE n = 0
            BY <3>1, <1>1, <1>4, <1>7
        <3>2. CASE n > 0 /\ n <= N
            <4>1. n - 1 \in 0 .. n - 1 /\ n - 1 <= N /\ n \in 1 .. N
                BY <3>2
            <4>2. value[n - 1] = h[n - 1]
                BY <2>1, <4>1
            <4>3. value[n] = 10 * value[n - 1] + b[n]
                BY <4>1, <1>7
            <4>4. value[n] = h[n]
                BY <4>1, <4>2, <4>3, <1>5
            <4> QED BY <4>4
        <3> QED BY <3>1, <3>2
    <2>2. P = Nat
        <3>1. P \in SUBSET Nat
            OBVIOUS
        <3> HIDE DEF P
        <3> QED BY <2>1, <3>1, AllNumbers
    <2> QED BY <2>2, <1>1
<1> HIDE DEF value, pred, step
<1> QED BY <1>1, <1>4, <1>5, <1>8, <1>9

LEMMA LengthOne == ASSUME NEW d \in Digits PROVE Length(<<d>>) = d
<1>1. <<d>> \in Seq(Digits) /\ Len(<<d>>) = 1 /\ <<d>>[1] = d /\ d \in Nat
    BY DEF Digits
<1>2. PICK v \in [0 .. 1 -> Nat] :
          /\ Length(<<d>>) = v[1]
          /\ v[0] = 0
          /\ \A n \in 1 .. 1 : v[n] = 10 * v[n - 1] + <<d>>[n]
    BY <1>1, LengthValues
<1>3. v[1] = 10 * v[1 - 1] + <<d>>[1]
    BY <1>2
<1>4. v[1 - 1] = 0
    BY <1>2
<1> QED BY <1>1, <1>2, <1>3, <1>4

LEMMA LengthAppend ==
    ASSUME NEW b \in Seq(Digits), NEW d \in Digits
    PROVE  Length(b) \in Nat /\ Length(Append(b, d)) = 10 * Length(b) + d
<1> DEFINE N == Len(b)
           pred == [n \in 1 .. N |-> n - 1]
           step == [p \in (1 .. N) \X Nat |-> 10 * p[2] + b[p[1]]]
<1>1. PICK v \in [0 .. N -> Nat] :
          /\ Length(b) = v[N]
          /\ v[0] = 0
          /\ \A n \in 1 .. N : v[n] = 10 * v[n - 1] + b[n]
    BY LengthValues
<1> DEFINE c == Append(b, d)
<1>2. c \in Seq(Digits) /\ Len(c) = N + 1 /\ N \in Nat
    OBVIOUS
<1>3. (\A n \in 1 .. N : c[n] = b[n]) /\ c[N + 1] = d
    OBVIOUS
<1>4. PICK w \in [0 .. N + 1 -> Nat] :
          /\ Length(c) = w[N + 1]
          /\ w[0] = 0
          /\ \A n \in 1 .. N + 1 : w[n] = 10 * w[n - 1] + c[n]
    <2> HIDE DEF c, N
    <2>1. Len(c) = N + 1 /\ c \in Seq(Digits)
        BY <1>2
    <2>2. PICK w \in [0 .. Len(c) -> Nat] :
              /\ Length(c) = w[Len(c)]
              /\ w[0] = 0
              /\ \A n \in 1 .. Len(c) : w[n] = 10 * w[n - 1] + c[n]
        BY <2>1, LengthValues
    <2> QED BY <2>1, <2>2
<1>5. pred \in [1 .. N -> Nat] /\ \A n \in 1 .. N : pred[n] < n /\ pred[n] = n - 1
    OBVIOUS
<1>6. \A n \in 1 .. N, x \in Nat : step[<<n, x>>] = 10 * x + b[n] /\ step[<<n, x>>] \in Nat
    <2> TAKE n \in 1 .. N, x \in Nat
    <2>1. <<n, x>> \in (1 .. N) \X Nat /\ step[<<n, x>>] = 10 * x + b[n]
        OBVIOUS
    <2>2. b[n] \in Nat
        BY DEF Digits
    <2> QED BY <2>1, <2>2
<1> HIDE DEF c, N, pred, step
<1>7. \A n \in 1 .. N : v[n] = step[<<n, v[pred[n]]>>]
    <2> TAKE n \in 1 .. N
    <2>1. n - 1 \in 0 .. N
        BY <1>2
    <2> QED BY <2>1, <1>1, <1>5, <1>6
<1>8. \A n \in 1 .. N : w[n] = step[<<n, w[pred[n]]>>]
    <2> TAKE n \in 1 .. N
    <2>1. n - 1 \in 0 .. N + 1 /\ n \in 1 .. N + 1
        BY <1>2
    <2> QED BY <2>1, <1>3, <1>4, <1>5, <1>6
<1>9. \A n \in 0 .. N : v[n] = w[n]
    <2>1. IsRecursion(N, Nat, 0, pred, step)
        BY <1>2, <1>5, <1>6 DEF IsRecursion
    <2>2. Follows(v, N, 0, pred, step) /\ Follows(w, N, 0, pred, step)
        BY <1>1, <1>4, <1>7, <1>8 DEF Follows
    <2> HIDE DEF N
    <2>3. Agree(v, w, N)
        BY <2>1, <2>2, SameRecursion
    <2> QED BY <2>3 DEF Agree
<1>10. w[N + 1] = 10 * w[N] + d /\ N \in 0 .. N
    <2>1. N + 1 \in 1 .. N + 1 /\ (N + 1) - 1 = N
        BY <1>2
    <2> QED BY <2>1, <1>2, <1>3, <1>4
<1> QED BY <1>1, <1>4, <1>9, <1>10 DEF c

LEMMA DivMod ==
    ASSUME NEW k \in Nat, k >= 10
    PROVE  /\ k \div 10 \in 0 .. k - 1
           /\ k % 10 \in Digits
           /\ k = 10 * (k \div 10) + (k % 10)
BY DEF Digits

(* int(str(n)) is n. *)
LEMMA DecimalFacts ==
    ASSUME NEW n \in Nat
    PROVE  Decimal(n) \in Seq(Digits) /\ Decimal(n) # <<>> /\ Length(Decimal(n)) = n
<1> DEFINE digits[k \in 0 .. n] == IF k < 10 THEN <<k>> ELSE Append(digits[k \div 10], k % 10)
           pred == [k \in 1 .. n |-> k \div 10]
           step == [p \in (1 .. n) \X Seq(Digits) |->
                       IF p[1] < 10 THEN <<p[1]>> ELSE Append(p[2], p[1] % 10)]
<1>1. pred \in [1 .. n -> Nat] /\ \A k \in 1 .. n : pred[k] < k /\ pred[k] = k \div 10
    OBVIOUS
<1>2. \A k \in 1 .. n, x \in Seq(Digits) :
         /\ step[<<k, x>>] = IF k < 10 THEN <<k>> ELSE Append(x, k % 10)
         /\ step[<<k, x>>] \in Seq(Digits)
    <2> TAKE k \in 1 .. n, x \in Seq(Digits)
    <2>1. <<k, x>> \in (1 .. n) \X Seq(Digits)
        OBVIOUS
    <2>2. step[<<k, x>>] = IF k < 10 THEN <<k>> ELSE Append(x, k % 10)
        BY <2>1
    <2>3. CASE k < 10
        <3>1. k \in Digits
            BY <2>3 DEF Digits
        <3> QED BY <3>1, <2>2, <2>3
    <2>4. CASE k >= 10
        <3>1. k % 10 \in Digits
            BY <2>4, DivMod
        <3>2. Append(x, k % 10) \in Seq(Digits)
            BY <3>1
        <3> QED BY <3>2, <2>2, <2>4
    <2> QED BY <2>3, <2>4
<1>3. <<0>> \in Seq(Digits)
    BY DEF Digits
<1>4. PICK h \in [0 .. n -> Seq(Digits)] :
          h[0] = <<0>> /\ \A k \in 1 .. n : h[k] = step[<<k, h[pred[k]]>>]
    <2> HIDE DEF digits, pred, step
    <2>1. IsRecursion(n, Seq(Digits), <<0>>, pred, step)
        BY <1>1, <1>2, <1>3 DEF IsRecursion
    <2>2. PICK h \in [0 .. n -> Seq(Digits)] : Follows(h, n, <<0>>, pred, step)
        BY <2>1, Recursion
    <2> QED BY <2>2 DEF Follows
<1>5. h = [k \in 0 .. n |-> IF k < 10 THEN <<k>> ELSE Append(h[k \div 10], k % 10)]
    <2>1. ASSUME NEW k \in 0 .. n
          PROVE  h[k] = IF k < 10 THEN <<k>> ELSE Append(h[k \div 10], k % 10)
        <3>1. CASE k = 0
            BY <3>1, <1>4
        <3>2. CASE k \in 1 .. n
            <4>1. pred[k] = k \div 10 /\ pred[k] \in 0 .. n
                BY <3>2, <1>1
            <4>2. h[pred[k]] \in Seq(Digits)
                BY <4>1
            <4> QED BY <3>2, <4>1, <4>2, <1>2, <1>4
        <3> QED BY <3>1, <3>2
    <2> QED BY <2>1
<1>6. digits = [k \in 0 .. n |-> IF k < 10 THEN <<k>> ELSE Append(digits[k \div 10], k % 10)]
    BY <1>5
<1>7. Decimal(n) = digits[n]
    BY DEF Decimal
<1> HIDE DEF digits
<1> DEFINE P == {k \in Nat : k <= n =>
                    digits[k] \in Seq(Digits) /\ digits[k] # <<>> /\ Length(digits[k]) = k}
<1>8. ASSUME NEW k \in Nat, \A j \in 0 .. k - 1 : j \in P PROVE k \in P
    <2>1. CASE k < 10 /\ k <= n
        <3>1. digits[k] = <<k>> /\ k \in Digits
            BY <2>1, <1>6 DEF Digits
        <3>2. Length(digits[k]) = k
            BY <3>1, LengthOne
        <3>3. digits[k] \in Seq(Digits) /\ digits[k] # <<>>
            BY <3>1
        <3> QED BY <3>2, <3>3
    <2>2. CASE k >= 10 /\ k <= n
        <3> DEFINE j == k \div 10
                   d == k % 10
        <3>1. j \in 0 .. k - 1 /\ j <= n /\ d \in Digits /\ k = 10 * j + d
            BY <2>2, DivMod
        <3>2. digits[k] = Append(digits[j], d)
            <4>1. k \in 0 .. n /\ ~(k < 10)
                BY <2>2
            <4> QED BY <4>1, <1>6
        <3> HIDE DEF j, d
        <3>3. digits[j] \in Seq(Digits) /\ Length(digits[j]) = j
            <4>1. j \in P
                BY <1>8, <3>1
            <4> QED BY <3>1, <4>1
        <3>4. Length(digits[k]) = k
            BY <3>1, <3>2, <3>3, LengthAppend
        <3>5. digits[k] \in Seq(Digits) /\ digits[k] # <<>>
            BY <3>1, <3>2, <3>3
        <3> QED BY <3>4, <3>5
    <2> QED BY <2>1, <2>2
<1>9. P = Nat
    <2>1. P \in SUBSET Nat
        OBVIOUS
    <2> HIDE DEF P
    <2> QED BY <1>8, <2>1, AllNumbers
<1>10. n \in P
    BY <1>9
<1> QED BY <1>7, <1>10

-----------------------------------------------------------------------------
(* The bytes of a payload. *)

LEMMA MinFacts ==
    ASSUME NEW S \in SUBSET Nat, S # {}
    PROVE  Min(S) \in S /\ \A y \in S : Min(S) <= y
BY LeastElement DEF Min

LEMMA MaxFacts ==
    ASSUME NEW n \in Nat, NEW S \in SUBSET (0 .. n), S # {}
    PROVE  Max(S) \in S /\ \A y \in S : y <= Max(S)
<1>1. \E x \in S : \A y \in S : x >= y
    <2>1. PICK x \in S : \A y \in S : y <= x
        BY GreatestElement
    <2>2. \A y \in S : x >= y
        BY <2>1
    <2> QED BY <2>2
<1>2. Max(S) \in S /\ \A y \in S : Max(S) >= y
    BY <1>1 DEF Max
<1> QED BY <1>2

(* rstrip removes the line feeds after the last other byte. *)
LEMMA WithoutNewlinesFacts ==
    ASSUME NEW b \in Seq(Bytes)
    PROVE  \E m \in 0 .. Len(b) :
              /\ WithoutNewlines(b) = SubSeq(b, 1, m)
              /\ m > 0 => b[m] # LineFeed
              /\ \A i \in m + 1 .. Len(b) : b[i] = LineFeed
<1> DEFINE I == {i \in 1 .. Len(b) : b[i] # LineFeed}
           m == IF I # {} THEN Max(I) ELSE 0
<1>1. WithoutNewlines(b) = SubSeq(b, 1, m)
    BY DEF WithoutNewlines, SelectLastInSeq
<1>2. CASE I = {}
    BY <1>1, <1>2
<1>3. CASE I # {}
    <2>1. I \in SUBSET (0 .. Len(b)) /\ Len(b) \in Nat
        OBVIOUS
    <2>2. Max(I) \in I /\ \A y \in I : y <= Max(I)
        <3> HIDE DEF I
        <3> QED BY <2>1, <1>3, MaxFacts
    <2>3. m = Max(I)
        BY <1>3
    <2>4. \A i \in 1 .. Len(b) : i \in I <=> b[i] # LineFeed
        OBVIOUS
    <2>5. m \in 1 .. Len(b) /\ m \in I /\ \A y \in I : y <= m
        BY <2>2, <2>3
    <2> HIDE DEF m, I
    <2>6. \A i \in m + 1 .. Len(b) : b[i] = LineFeed
        BY <2>4, <2>5
    <2> QED BY <1>1, <2>4, <2>5, <2>6
<1> QED BY <1>2, <1>3

(* strip of a text that does not begin with a blank. *)
LEMMA StripFacts ==
    ASSUME NEW b \in Seq(Bytes), b # <<>>, b[1] = Letter
    PROVE  \E m \in 1 .. Len(b) :
              /\ Strip(b) = SubSeq(b, 1, m)
              /\ ~Blank(b[m])
              /\ \A i \in m + 1 .. Len(b) : Blank(b[i])
<1> DEFINE I == {i \in 1 .. Len(b) : ~Blank(b[i])}
           first == IF I # {} THEN Min(I) ELSE 0
           m == IF I # {} THEN Max(I) ELSE 0
<1>1. Strip(b) = IF first = 0 THEN <<>> ELSE SubSeq(b, first, m)
    BY DEF Strip, SelectInSeq, SelectLastInSeq
<1>2. 1 \in I
    BY DEF Blank, Letter, Space, LineFeed
<1>3. Min(I) \in I /\ \A y \in I : Min(I) <= y
    <2>1. I \in SUBSET Nat /\ I # {}
        BY <1>2
    <2> HIDE DEF I
    <2> QED BY <2>1, MinFacts
<1>4. first = 1
    BY <1>2, <1>3
<1>5. Max(I) \in I /\ \A y \in I : y <= Max(I)
    <2>1. I \in SUBSET (0 .. Len(b)) /\ Len(b) \in Nat /\ I # {}
        BY <1>2
    <2> HIDE DEF I
    <2> QED BY <2>1, MaxFacts
<1>6. m = Max(I)
    BY <1>2
<1>7. \A i \in 1 .. Len(b) : i \in I <=> ~Blank(b[i])
    OBVIOUS
<1>8. m \in 1 .. Len(b) /\ m \in I /\ \A y \in I : y <= m
    BY <1>5, <1>6
<1> HIDE DEF m, first, I
<1>9. Strip(b) = SubSeq(b, 1, m)
    BY <1>1, <1>4
<1>10. \A i \in m + 1 .. Len(b) : Blank(b[i])
    BY <1>7, <1>8
<1> QED BY <1>7, <1>8, <1>9, <1>10

LEMMA StripType == ASSUME NEW b \in Seq(Bytes) PROVE Strip(b) \in Seq(Bytes)
<1> DEFINE I == {i \in 1 .. Len(b) : ~Blank(b[i])}
           first == IF I # {} THEN Min(I) ELSE 0
           m == IF I # {} THEN Max(I) ELSE 0
<1>1. Strip(b) = IF first = 0 THEN <<>> ELSE SubSeq(b, first, m)
    BY DEF Strip, SelectInSeq, SelectLastInSeq
<1>2. CASE I = {}
    BY <1>1, <1>2
<1>3. CASE I # {}
    <2>1. I \in SUBSET Nat /\ I \in SUBSET (0 .. Len(b)) /\ Len(b) \in Nat
        OBVIOUS
    <2>2. Min(I) \in I /\ Max(I) \in I
        <3> HIDE DEF I
        <3> QED BY <2>1, <1>3, MinFacts, MaxFacts
    <2>3. Min(I) \in 1 .. Len(b) /\ Max(I) \in 1 .. Len(b)
        BY <2>2
    <2>4. SubSeq(b, Min(I), Max(I)) \in Seq(Bytes)
        <3> DEFINE j == Min(I)
                   k == Max(I)
        <3>1. j \in 1 .. Len(b) /\ k \in 1 .. Len(b)
            BY <2>3
        <3> HIDE DEF j, k
        <3>2. SubSeq(b, j, k) \in Seq(Bytes)
            BY <3>1
        <3> QED BY <3>2 DEF j, k
    <2> QED BY <1>1, <1>3, <2>4
<1> QED BY <1>2, <1>3

(* A reader that strips sees no difference. *)
LEMMA StripTrimmed ==
    ASSUME NEW b \in Seq(Bytes), b # <<>>, b[1] = Letter
    PROVE  Strip(WithoutNewlines(b)) = Strip(b)
<1>1. PICK m \in 0 .. Len(b) :
          /\ WithoutNewlines(b) = SubSeq(b, 1, m)
          /\ m > 0 => b[m] # LineFeed
          /\ \A i \in m + 1 .. Len(b) : b[i] = LineFeed
    BY WithoutNewlinesFacts
<1>2. PICK k \in 1 .. Len(b) :
          /\ Strip(b) = SubSeq(b, 1, k)
          /\ ~Blank(b[k])
          /\ \A i \in k + 1 .. Len(b) : Blank(b[i])
    BY StripFacts
<1> DEFINE c == SubSeq(b, 1, m)
<1>3. Len(b) \in Nat /\ k <= m
    <2>1. b[k] # LineFeed
        BY <1>2 DEF Blank
    <2> QED BY <2>1, <1>1
<1>4. c \in Seq(Bytes) /\ Len(c) = m /\ \A i \in 1 .. m : c[i] = b[i]
    BY <1>3
<1> HIDE DEF c
<1>5. c # <<>> /\ c[1] = Letter
    BY <1>3, <1>4
<1>6. PICK l \in 1 .. Len(c) :
          /\ Strip(c) = SubSeq(c, 1, l)
          /\ ~Blank(c[l])
          /\ \A i \in l + 1 .. Len(c) : Blank(c[i])
    BY <1>4, <1>5, StripFacts
<1>7. l = k
    <2>1. k \in 1 .. m /\ l \in 1 .. m
        BY <1>3, <1>4
    <2>2. c[k] = b[k] /\ c[l] = b[l]
        BY <2>1, <1>4
    <2>3. ~(l < k)
        BY <2>1, <2>2, <1>2, <1>4, <1>6
    <2>4. ~(k < l)
        BY <2>1, <2>2, <1>2, <1>3, <1>6
    <2> QED BY <2>1, <2>3, <2>4
<1>8. SubSeq(c, 1, k) = SubSeq(b, 1, k)
    <2>1. \A i \in 1 .. k : c[i] = b[i]
        BY <1>3, <1>4
    <2> QED BY <2>1, <1>3, <1>4
<1> QED BY <1>1, <1>2, <1>6, <1>7, <1>8 DEF c

LEMMA PayloadFacts ==
    ASSUME NEW line \in Lines
    PROVE  /\ Payload(line) \in Seq(Bytes) /\ Payload(line) # <<>>
           /\ Payload(line)[1] = Letter
           /\ \E n \in 1 .. Len(Payload(line)) : Payload(line)[n] = Space
           /\ (\A n \in DOMAIN line : line[n] = LineFeed => n = Len(line)) =>
                 \A n \in 1 .. Len(Payload(line)) :
                    Payload(line)[n] = LineFeed => n = Len(Payload(line))
<1>1. /\ MaxBytes \in Nat /\ MaxBytes > 2
      /\ line \in Seq(Bytes) /\ line # <<>> /\ line[1] = Letter
      /\ \E n \in DOMAIN line : line[n] = Space
    BY FramingAssumption DEF Marker
<1>2. CASE Len(line) <= MaxBytes
    <2>1. Payload(line) = line
        BY <1>1, <1>2 DEF Payload
    <2> QED BY <1>1, <2>1
<1>3. CASE Len(line) > MaxBytes
    <2> DEFINE k == MaxBytes - 2
               a == SubSeq(line, 1, k)
               p == a \o Marker
    <2>1. k \in Nat /\ k >= 1 /\ k < Len(line) /\ Len(line) \in Nat
        BY <1>1, <1>3
    <2>2. Marker \in Seq(Bytes) /\ Len(Marker) = 2 /\ Marker[1] = Space /\ Marker[2] = Letter
        BY DEF Marker, Space, Letter, Bytes
    <2>3. Payload(line) = p
        BY <1>1, <1>3, <2>2 DEF Payload
    <2> HIDE DEF k
    <2>4. a \in Seq(Bytes) /\ Len(a) = k /\ \A i \in 1 .. k : a[i] = line[i]
        BY <1>1, <2>1
    <2> HIDE DEF a
    <2>5. /\ p \in Seq(Bytes) /\ Len(p) = k + 2
          /\ \A i \in 1 .. k : p[i] = line[i]
          /\ p[k + 1] = Space /\ p[k + 2] = Letter
        <3> HIDE DEF k
        <3>0. /\ p \in Seq(Bytes) /\ Len(p) = Len(a) + Len(Marker)
              /\ \A i \in 1 .. Len(a) + Len(Marker) :
                    p[i] = IF i <= Len(a) THEN a[i] ELSE Marker[i - Len(a)]
            BY <2>2, <2>4, ConcatProperties
        <3> HIDE DEF p
        <3>1. p \in Seq(Bytes) /\ Len(p) = k + 2
            BY <3>0, <2>2, <2>4
        <3>2. \A i \in 1 .. k : p[i] = line[i]
            BY <3>0, <2>1, <2>2, <2>4
        <3>3. p[k + 1] = Marker[1] /\ p[k + 2] = Marker[2]
            <4>1. (k + 1) - k = 1 /\ (k + 2) - k = 2 /\ k + 1 \in 1 .. k + 2 /\ k + 2 \in 1 .. k + 2
                BY <2>1
            <4> QED BY <4>1, <3>0, <2>1, <2>2, <2>4
        <3> QED BY <2>2, <3>1, <3>2, <3>3
    <2> HIDE DEF p
    <2>6. p # <<>> /\ p[1] = Letter
        BY <1>1, <2>1, <2>5
    <2>7. \E n \in 1 .. Len(p) : p[n] = Space
        <3>1. k + 1 \in 1 .. Len(p)
            BY <2>1, <2>5
        <3> QED BY <3>1, <2>5
    <2>8. ASSUME \A n \in DOMAIN line : line[n] = LineFeed => n = Len(line),
                 NEW n \in 1 .. Len(p), p[n] = LineFeed
          PROVE  FALSE
        <3>1. CASE n <= k
            BY <1>1, <2>1, <2>5, <2>8, <3>1
        <3>2. CASE n = k + 1 \/ n = k + 2
            BY <2>5, <2>8, <3>2 DEF LineFeed, Space, Letter
        <3> QED BY <2>1, <2>5, <3>1, <3>2
    <2> QED BY <2>3, <2>5, <2>6, <2>7, <2>8
<1> QED BY <1>1, <1>2, <1>3

-----------------------------------------------------------------------------
(* What the reader's loop makes of a buffer that begins with a frame. *)

(* bytes.find *)
LEMMA PositionFacts ==
    ASSUME NEW byte, buf \in Seq(Bytes)
    PROVE  /\ Position(byte) \in 0 .. Len(buf)
           /\ Position(byte) = 0 => \A i \in 1 .. Len(buf) : buf[i] # byte
           /\ Position(byte) # 0 => buf[Position(byte)] = byte
           /\ \A i \in 1 .. Len(buf) : i < Position(byte) => buf[i] # byte
<1> DEFINE I == {i \in 1 .. Len(buf) : buf[i] = byte}
<1>1. Position(byte) = IF I # {} THEN Min(I) ELSE 0
    BY DEF Position, SelectInSeq
<1>2. \A i \in 1 .. Len(buf) : i \in I <=> buf[i] = byte
    OBVIOUS
<1>3. I \in SUBSET Nat /\ I \in SUBSET (1 .. Len(buf)) /\ Len(buf) \in Nat
    OBVIOUS
<1> HIDE DEF I
<1>4. CASE I = {}
    BY <1>1, <1>2, <1>3, <1>4
<1>5. CASE I # {}
    <2>1. Min(I) \in I /\ \A y \in I : Min(I) <= y
        BY <1>3, <1>5, MinFacts
    <2>2. Position(byte) \in I /\ \A y \in I : Position(byte) <= y
        BY <1>1, <1>5, <2>1
    <2> DEFINE n == Position(byte)
    <2>3. n \in I /\ (\A y \in I : n <= y) /\ n \in 1 .. Len(buf)
        BY <1>3, <2>2
    <2> HIDE DEF n
    <2>4. \A i \in 1 .. Len(buf) : i < n => buf[i] # byte
        BY <1>2, <1>3, <2>3
    <2>5. buf[n] = byte /\ n \in 0 .. Len(buf) /\ n # 0
        BY <1>2, <1>3, <2>3
    <2> QED BY <2>4, <2>5 DEF n
<1> QED BY <1>4, <1>5

LEMMA PositionIs ==
    ASSUME NEW byte, buf \in Seq(Bytes), NEW k \in 1 .. Len(buf), buf[k] = byte,
           \A i \in 1 .. Len(buf) : i < k => buf[i] # byte
    PROVE  Position(byte) = k
<1>1. /\ Position(byte) \in 0 .. Len(buf)
      /\ Position(byte) = 0 => \A i \in 1 .. Len(buf) : buf[i] # byte
      /\ Position(byte) # 0 => buf[Position(byte)] = byte
      /\ \A i \in 1 .. Len(buf) : i < Position(byte) => buf[i] # byte
    BY PositionFacts
<1> QED BY <1>1

(* A frame of newline framing. *)
LEMMA LineFrame ==
    ASSUME NEW line \in Lines,
           \A n \in DOMAIN line : line[n] = LineFeed => n = Len(line)
    PROVE  \E w \in Seq(Bytes) :
              /\ w = WithoutNewlines(Payload(line))
              /\ Frame("newline", line) = Append(w, LineFeed)
              /\ w # <<>> /\ w[1] = Letter
              /\ \A i \in 1 .. Len(w) : w[i] # LineFeed
              /\ \E i \in 1 .. Len(w) : w[i] = Space
<1> DEFINE p == Payload(line)
<1>1. /\ p \in Seq(Bytes) /\ p # <<>>
      /\ p[1] = Letter
      /\ \E n \in 1 .. Len(p) : p[n] = Space
      /\ \A n \in 1 .. Len(p) : p[n] = LineFeed => n = Len(p)
    BY PayloadFacts
<1>2. Frame("newline", line) = Append(WithoutNewlines(p), LineFeed)
    BY DEF Frame
<1> HIDE DEF p
<1>3. PICK m \in 0 .. Len(p) :
          /\ WithoutNewlines(p) = SubSeq(p, 1, m)
          /\ m > 0 => p[m] # LineFeed
          /\ \A i \in m + 1 .. Len(p) : p[i] = LineFeed
    BY <1>1, WithoutNewlinesFacts
<1> DEFINE w == SubSeq(p, 1, m)
<1>4. w \in Seq(Bytes) /\ Len(w) = m /\ \A i \in 1 .. m : w[i] = p[i]
    BY <1>1
<1> HIDE DEF w
<1>5. Len(p) \in Nat /\ Len(p) >= 1
    BY <1>1
<1>6. \A i \in 1 .. Len(p) : p[i] # LineFeed => i <= m
    BY <1>3, <1>5
<1>7. m >= 1 /\ w[1] = Letter /\ w # <<>>
    <2>1. p[1] # LineFeed
        BY <1>1 DEF Letter, LineFeed
    <2> QED BY <2>1, <1>1, <1>4, <1>5, <1>6
<1>8. \E i \in 1 .. Len(w) : w[i] = Space
    <2>1. PICK n \in 1 .. Len(p) : p[n] = Space
        BY <1>1
    <2>2. n \in 1 .. m
        BY <2>1, <1>5, <1>6 DEF Space, LineFeed
    <2> QED BY <2>1, <2>2, <1>4
<1>9. \A i \in 1 .. Len(w) : w[i] # LineFeed
    BY <1>1, <1>3, <1>4, <1>5, <1>7
<1>10. w = WithoutNewlines(Payload(line))
    BY <1>3 DEF w, p
<1> QED BY <1>2, <1>4, <1>7, <1>8, <1>9, <1>10 DEF p

(* A frame of octet counting. *)
LEMMA CountedFrame ==
    ASSUME NEW line \in Lines
    PROVE  \E d \in Seq(Digits) :
              /\ d # <<>>
              /\ Length(d) = Len(Payload(line))
              /\ Frame("octet", line) = Append(d, Space) \o Payload(line)
<1>1. Len(Payload(line)) \in Nat
    BY PayloadFacts
<1> DEFINE d == Decimal(Len(Payload(line)))
<1>2. d \in Seq(Digits) /\ d # <<>> /\ Length(d) = Len(Payload(line))
    BY <1>1, DecimalFacts
<1>3. Frame("octet", line) = Append(d, Space) \o Payload(line)
    BY DEF Frame
<1> HIDE DEF d
<1> QED BY <1>2, <1>3

LEMMA FrameType ==
    ASSUME NEW line \in Lines, NEW kind \in {"newline", "octet"}
    PROVE  Frame(kind, line) \in Seq(Bytes) /\ Len(Frame(kind, line)) \in Nat \ {0}
<1> DEFINE p == Payload(line)
<1>1. p \in Seq(Bytes) /\ Space \in Bytes /\ LineFeed \in Bytes /\ Digits \subseteq Bytes
    BY PayloadFacts DEF Space, LineFeed, Bytes, Digits
<1>2. CASE kind = "newline"
    <2>1. Frame(kind, line) = Append(WithoutNewlines(p), LineFeed)
        BY <1>2 DEF Frame
    <2> HIDE DEF p
    <2>2. PICK m \in 0 .. Len(p) : WithoutNewlines(p) = SubSeq(p, 1, m)
        BY <1>1, WithoutNewlinesFacts
    <2>3. SubSeq(p, 1, m) \in Seq(Bytes)
        BY <1>1
    <2> QED BY <1>1, <2>1, <2>2, <2>3
<1>3. CASE kind = "octet"
    <2>1. PICK d \in Seq(Digits) :
              d # <<>> /\ Frame(kind, line) = Append(d, Space) \o p
        BY <1>3, CountedFrame
    <2> HIDE DEF p
    <2>2. d \in Seq(Bytes)
        BY <1>1
    <2>3. Append(d, Space) \in Seq(Bytes) /\ Len(Append(d, Space)) = Len(d) + 1
        BY <1>1, <2>2
    <2> QED BY <1>1, <2>1, <2>2, <2>3
<1> QED BY <1>2, <1>3

(* buf begins as the frame of a line does, or is the beginning of it. *)
Begins(line) ==
    \A i \in 1 .. Len(buf) : i <= Len(Frame(framing, line)) => buf[i] = Frame(framing, line)[i]

(* The loop waits until it has the whole frame, and takes then nothing else. *)
Parsed(line) ==
    /\ Incomplete <=> Len(buf) < Len(Frame(framing, line))
    /\ ~Incomplete => FrameEnd = Len(Frame(framing, line)) /\ Written(Message) = <<Shown(line)>>

LEMMA StripNotEmpty ==
    ASSUME NEW b \in Seq(Bytes), b # <<>>, b[1] = Letter
    PROVE  Strip(b) # <<>>
<1>1. PICK m \in 1 .. Len(b) : Strip(b) = SubSeq(b, 1, m)
    BY StripFacts
<1>2. Len(SubSeq(b, 1, m)) = m
    OBVIOUS
<1> QED BY <1>1, <1>2

LEMMA ParseLine ==
    ASSUME NEW line \in Lines, Fits(line), framing = "newline",
           reader \in {"receiver", "server"}, buf \in Seq(Bytes), Begins(line)
    PROVE  Parsed(line)
<1>1. PICK w \in Seq(Bytes) :
          /\ w = WithoutNewlines(Payload(line))
          /\ Frame("newline", line) = Append(w, LineFeed)
          /\ w # <<>> /\ w[1] = Letter
          /\ \A i \in 1 .. Len(w) : w[i] # LineFeed
          /\ \E i \in 1 .. Len(w) : w[i] = Space
    BY LineFrame DEF Fits
<1> DEFINE f == Frame(framing, line)
           sp == Position(Space)
           lf == Position(LineFeed)
<1>2. Len(f) = Len(w) + 1 /\ (\A i \in 1 .. Len(w) : f[i] = w[i]) /\ f[Len(w) + 1] = LineFeed
    BY <1>1
<1>3. \A i \in 1 .. Len(buf) : i <= Len(f) => buf[i] = f[i]
    BY DEF Begins
<1>4. /\ sp \in 0 .. Len(buf)
      /\ sp = 0 => \A i \in 1 .. Len(buf) : buf[i] # Space
      /\ sp # 0 => buf[sp] = Space
    BY PositionFacts
<1>5. /\ lf \in 0 .. Len(buf)
      /\ lf # 0 => buf[lf] = LineFeed
    BY PositionFacts
<1>6. Len(w) \in Nat /\ Len(w) >= 1 /\ Len(buf) \in Nat
    BY <1>1
<1> HIDE DEF f, sp, lf
<1>7. CASE buf = <<>>
    BY <1>2, <1>6, <1>7 DEF Parsed, Incomplete, f
<1>8. CASE buf # <<>>
    <2>1. buf[1] = Letter /\ Head(buf) = Letter /\ Letter \notin Digits /\ Len(buf) >= 1
        BY <1>1, <1>2, <1>3, <1>6, <1>8 DEF Letter, Digits
    <2>2. ~Counted
        <3>1. CASE sp = 0
            BY <3>1 DEF Counted, sp
        <3>2. CASE sp # 0
            <4>1. sp >= 2 /\ sp <= Len(buf)
                BY <1>4, <2>1, <3>2 DEF Letter, Space
            <4>2. LengthField = SubSeq(buf, 1, sp - 1)
                BY DEF LengthField, sp
            <4>3. LengthField[1] = Letter /\ 1 \in DOMAIN LengthField
                <5> DEFINE k == sp - 1
                <5>1. k \in 1 .. Len(buf)
                    BY <1>4, <1>6, <4>1
                <5> HIDE DEF k
                <5>2. 1 \in DOMAIN SubSeq(buf, 1, k) /\ SubSeq(buf, 1, k)[1] = buf[1]
                    BY <5>1
                <5> QED BY <2>1, <4>2, <5>2 DEF k
            <4> QED BY <2>1, <4>3 DEF Counted, IsLength
        <3> QED BY <3>1, <3>2
    <2>3. CASE Len(buf) < Len(f)
        <3>1. lf = 0
            <4>1. \A i \in 1 .. Len(buf) : i <= Len(w) /\ buf[i] = f[i] /\ f[i] = w[i]
                BY <1>2, <1>3, <1>6, <2>3
            <4>2. \A i \in 1 .. Len(buf) : buf[i] # LineFeed
                BY <1>1, <1>6, <4>1
            <4> QED BY <1>5, <1>6, <4>2
        <3>2. Incomplete
            BY <2>2, <3>1 DEF Incomplete, Delimited, lf
        <3> QED BY <2>3, <3>2 DEF Parsed, f
    <2>4. CASE Len(buf) >= Len(f)
        <3>1. sp # 0
            <4>1. PICK i \in 1 .. Len(w) : w[i] = Space
                BY <1>1
            <4>2. i \in 1 .. Len(buf) /\ buf[i] = Space
                BY <1>2, <1>3, <1>6, <2>4, <4>1
            <4> QED BY <1>4, <4>2
        <3>2. ~LengthMissing /\ Delimited
            BY <2>2, <3>1 DEF LengthMissing, Delimited, sp
        <3>3. lf = Len(w) + 1
            <4> DEFINE k == Len(w) + 1
            <4>1. k \in 1 .. Len(buf) /\ buf[k] = LineFeed
                BY <1>2, <1>3, <1>6, <2>4
            <4>2. \A i \in 1 .. Len(buf) : i < k => buf[i] # LineFeed
                BY <1>1, <1>2, <1>3, <1>6
            <4> HIDE DEF k
            <4>3. lf = k
                BY <4>1, <4>2, PositionIs DEF lf
            <4> QED BY <4>3 DEF k
        <3>4. FrameEnd = Len(f) /\ ~Incomplete
            BY <1>2, <1>6, <1>8, <2>2, <3>2, <3>3 DEF FrameEnd, Incomplete, lf
        <3>5. Message = w
            <4>1. Message = SubSeq(buf, 1, Len(w))
                BY <1>2, <1>6, <2>2, <3>4 DEF Message
            <4>2. Len(w) <= Len(buf) /\ \A i \in 1 .. Len(w) : buf[i] = w[i]
                BY <1>2, <1>3, <1>6, <2>4
            <4> QED BY <4>1, <4>2, <1>6
        <3>6. Strip(w) = Strip(Payload(line)) /\ Strip(w) # <<>>
            BY <1>1, PayloadFacts, StripTrimmed, StripNotEmpty
        <3>7. Written(Message) = <<Shown(line)>>
            BY <2>2, <3>5, <3>6 DEF Written, Shown
        <3> QED BY <2>4, <3>4, <3>7, <1>2, <1>6 DEF Parsed, f
    <2> QED BY <1>2, <1>6, <2>3, <2>4
<1> QED BY <1>7, <1>8

LEMMA ParseCounted ==
    ASSUME NEW line \in Lines, framing = "octet",
           reader \in {"receiver", "server"}, buf \in Seq(Bytes), Begins(line)
    PROVE  Parsed(line)
<1> DEFINE p == Payload(line)
           f == Frame(framing, line)
           sp == Position(Space)
<1>1. PICK d \in Seq(Digits) :
          d # <<>> /\ Length(d) = Len(p) /\ Frame("octet", line) = Append(d, Space) \o p
    BY CountedFrame
<1>2. p \in Seq(Bytes) /\ p # <<>> /\ p[1] = Letter
    BY PayloadFacts
<1>3. /\ sp \in 0 .. Len(buf)
      /\ sp = 0 => \A i \in 1 .. Len(buf) : buf[i] # Space
      /\ sp # 0 => buf[sp] = Space
    BY PositionFacts
<1>4. Len(d) \in Nat /\ Len(d) >= 1 /\ Len(p) \in Nat /\ Len(buf) \in Nat
    BY <1>1, <1>2
<1>5. \A i \in 1 .. Len(d) : d[i] \in Digits /\ d[i] # Space
    BY DEF Digits, Space
<1>6. /\ Len(f) = Len(d) + 1 + Len(p)
      /\ \A i \in 1 .. Len(d) : f[i] = d[i]
      /\ f[Len(d) + 1] = Space
      /\ \A i \in 1 .. Len(p) : f[Len(d) + 1 + i] = p[i]
    <2> DEFINE a == Append(d, Space)
    <2>1. Space \in Bytes /\ d \in Seq(Bytes)
        BY DEF Space, Bytes, Digits
    <2>2. a \in Seq(Bytes) /\ Len(a) = Len(d) + 1 /\ (\A i \in 1 .. Len(d) : a[i] = d[i]) /\ a[Len(d) + 1] = Space
        BY <2>1
    <2> HIDE DEF a, p
    <2>3. /\ Len(a \o p) = Len(a) + Len(p)
          /\ \A i \in 1 .. Len(a) + Len(p) : (a \o p)[i] = IF i <= Len(a) THEN a[i] ELSE p[i - Len(a)]
        BY <1>2, <2>2, ConcatProperties
    <2>4. f = a \o p
        BY <1>1 DEF a
    <2> HIDE DEF f
    <2>5. \A i \in 1 .. Len(d) + 1 : f[i] = a[i]
        BY <1>4, <2>2, <2>3, <2>4
    <2>6. ASSUME NEW i \in 1 .. Len(p) PROVE f[Len(d) + 1 + i] = p[i]
        <3>1. Len(d) + 1 + i \in 1 .. Len(a) + Len(p) /\ ~(Len(d) + 1 + i <= Len(a)) /\ (Len(d) + 1 + i) - Len(a) = i
            BY <1>4, <2>2
        <3> QED BY <3>1, <2>3, <2>4
    <2> QED BY <1>4, <2>2, <2>3, <2>4, <2>5, <2>6
<1>7. \A i \in 1 .. Len(buf) : i <= Len(f) => buf[i] = f[i]
    BY DEF Begins
<1> HIDE DEF f, p, sp
<1>8. CASE Len(buf) <= Len(d)
    <2>1. Len(buf) < Len(f)
        BY <1>4, <1>6, <1>8
    <2>2. \A i \in 1 .. Len(buf) : buf[i] \in Digits /\ buf[i] # Space
        BY <1>4, <1>5, <1>6, <1>7, <1>8
    <2>3. sp = 0
        BY <1>3, <1>4, <2>2
    <2>4. Incomplete
        <3>1. CASE buf = <<>>
            BY <3>1 DEF Incomplete
        <3>2. CASE buf # <<>>
            <4>1. Head(buf) \in Digits
                BY <1>4, <2>2, <3>2
            <4> QED BY <2>3, <3>2, <4>1 DEF Incomplete, LengthMissing, sp
        <3> QED BY <3>1, <3>2
    <2> QED BY <2>1, <2>4 DEF Parsed, f
<1>9. CASE Len(buf) > Len(d)
    <2>1. sp = Len(d) + 1
        <3> DEFINE k == Len(d) + 1
        <3>1. k \in 1 .. Len(buf) /\ buf[k] = Space
            BY <1>4, <1>6, <1>7, <1>9
        <3>2. \A i \in 1 .. Len(buf) : i < k => buf[i] # Space
            BY <1>4, <1>5, <1>6, <1>7
        <3> HIDE DEF k
        <3>3. sp = k
            BY <3>1, <3>2, PositionIs DEF sp
        <3> QED BY <3>3 DEF k
    <2>2. LengthField = d
        <3>1. LengthField = SubSeq(buf, 1, Len(d))
            BY <1>4, <2>1 DEF LengthField, sp
        <3>2. Len(d) <= Len(buf) /\ \A i \in 1 .. Len(d) : buf[i] = d[i]
            BY <1>4, <1>6, <1>7, <1>9
        <3> QED BY <3>1, <3>2, <1>4
    <2>3. Counted /\ buf # <<>> /\ ~LengthMissing /\ ~Delimited
        <3>1. IsLength(LengthField)
            BY <1>1, <1>5, <2>2 DEF IsLength
        <3>2. buf # <<>> /\ sp # 0
            BY <1>4, <1>9, <2>1
        <3> QED BY <3>1, <3>2 DEF Counted, LengthMissing, Delimited, sp
    <2>4. FrameEnd = Len(f)
        BY <1>1, <1>4, <1>6, <2>1, <2>2, <2>3 DEF FrameEnd, sp
    <2>5. Incomplete <=> Len(buf) < Len(f)
        BY <2>3, <2>4 DEF Incomplete
    <2>6. ASSUME ~Incomplete PROVE Written(Message) = <<Shown(line)>>
        <3>1. Len(buf) >= Len(f)
            BY <2>5, <2>6, <1>4, <1>6
        <3>2. Message = p
            <4> DEFINE k == Len(d) + 2
                       n == Len(f)
            <4>1. Message = SubSeq(buf, k, n)
                BY <1>4, <2>1, <2>3, <2>4 DEF Message, sp
            <4>2. k \in Nat /\ n \in Nat /\ k >= 1 /\ n <= Len(buf) /\ n = (k - 1) + Len(p)
                BY <1>4, <1>6, <3>1
            <4>3. \A i \in 1 .. Len(p) : buf[k + i - 1] = p[i]
                <5> TAKE i \in 1 .. Len(p)
                <5> DEFINE j == Len(d) + 1 + i
                <5>1. k + i - 1 = j
                    BY <1>4
                <5>2. j \in Nat /\ j >= 1 /\ j <= Len(f)
                    BY <1>4, <1>6
                <5>3. j \in 1 .. Len(buf)
                    BY <5>2, <1>4, <1>6, <3>1
                <5>4. f[j] = p[i]
                    BY <1>6
                <5> HIDE DEF j, k
                <5> QED BY <5>1, <5>2, <5>3, <5>4, <1>7
            <4> HIDE DEF k, n
            <4>4. /\ SubSeq(buf, k, n) \in Seq(Bytes) /\ Len(SubSeq(buf, k, n)) = Len(p)
                  /\ \A i \in 1 .. Len(p) : SubSeq(buf, k, n)[i] = buf[k + i - 1]
                BY <1>4, <4>2
            <4> DEFINE m == SubSeq(buf, k, n)
            <4>5. m \in Seq(Bytes) /\ Len(m) = Len(p) /\ \A i \in 1 .. Len(p) : m[i] = p[i]
                BY <4>3, <4>4
            <4> HIDE DEF m
            <4>6. m = p
                BY <1>2, <4>5, SeqEqual
            <4> QED BY <4>1, <4>6 DEF m
        <3>3. Strip(p) # <<>>
            BY <1>2, StripNotEmpty
        <3> QED BY <2>3, <3>2, <3>3 DEF Written, Shown, p
    <2> QED BY <2>4, <2>5, <2>6 DEF Parsed, f
<1> QED BY <1>4, <1>8, <1>9

-----------------------------------------------------------------------------
(* Where the frames end. *)

LEMMA EndsFacts ==
    ASSUME NEW lines \in Seq(Lines), NEW kind \in {"newline", "octet"}
    PROVE  /\ Ends(kind, lines) \in [0 .. Len(lines) -> Nat]
           /\ Ends(kind, lines)[0] = 0
           /\ \A n \in 1 .. Len(lines) :
                 Ends(kind, lines)[n] = Ends(kind, lines)[n - 1] + Len(Frame(kind, lines[n]))
<1> DEFINE end[n \in 0 .. Len(lines)] ==
               IF n = 0 THEN 0 ELSE end[n - 1] + Len(Frame(kind, lines[n]))
           N == Len(lines)
           pred == [n \in 1 .. N |-> n - 1]
           step == [p \in (1 .. N) \X Nat |-> p[2] + Len(Frame(kind, lines[p[1]]))]
<1>1. N \in Nat /\ \A n \in 1 .. N : Len(Frame(kind, lines[n])) \in Nat
    <2>1. \A n \in 1 .. N : lines[n] \in Lines
        OBVIOUS
    <2> QED BY <2>1, FrameType
<1>2. pred \in [1 .. N -> Nat] /\ \A n \in 1 .. N : pred[n] < n /\ pred[n] = n - 1
    BY <1>1
<1>3. \A n \in 1 .. N, x \in Nat :
         step[<<n, x>>] = x + Len(Frame(kind, lines[n])) /\ step[<<n, x>>] \in Nat
    <2> TAKE n \in 1 .. N, x \in Nat
    <2>1. <<n, x>> \in (1 .. N) \X Nat /\ step[<<n, x>>] = x + Len(Frame(kind, lines[n]))
        OBVIOUS
    <2>2. Len(Frame(kind, lines[n])) \in Nat
        BY <1>1
    <2> QED BY <2>1, <2>2
<1>4. IsRecursion(N, Nat, 0, pred, step)
    <2> HIDE DEF end, N, pred, step
    <2> QED BY <1>1, <1>2, <1>3 DEF IsRecursion
<1>5. PICK h \in [0 .. N -> Nat] : h[0] = 0 /\ \A n \in 1 .. N : h[n] = step[<<n, h[pred[n]]>>]
    <2> HIDE DEF end, N, pred, step
    <2> QED BY <1>4, Recursion DEF Follows
<1>6. \A n \in 1 .. N : h[n - 1] \in Nat /\ h[n] = h[n - 1] + Len(Frame(kind, lines[n]))
    <2> TAKE n \in 1 .. N
    <2>1. n - 1 \in 0 .. N /\ h[n - 1] \in Nat
        BY <1>1
    <2> QED BY <2>1, <1>2, <1>3, <1>5
<1>7. h = [n \in 0 .. Len(lines) |-> IF n = 0 THEN 0 ELSE h[n - 1] + Len(Frame(kind, lines[n]))]
    <2>1. \A n \in 0 .. N : h[n] = IF n = 0 THEN 0 ELSE h[n - 1] + Len(Frame(kind, lines[n]))
        BY <1>1, <1>5, <1>6
    <2> QED BY <2>1
<1>8. end = [n \in 0 .. Len(lines) |-> IF n = 0 THEN 0 ELSE end[n - 1] + Len(Frame(kind, lines[n]))]
    BY <1>7
<1>9. Ends(kind, lines) = end
    BY DEF Ends
<1>10. \A n \in 0 .. N : end[n] = h[n]
    <2> DEFINE P == {n \in Nat : n <= N => end[n] = h[n]}
    <2> HIDE DEF end
    <2>1. ASSUME NEW n \in Nat, \A k \in 0 .. n - 1 : k \in P PROVE n \in P
        <3>1. CASE n = 0
            BY <3>1, <1>1, <1>5, <1>8
        <3>2. CASE n > 0 /\ n <= N
            <4>1. n - 1 \in 0 .. n - 1 /\ n - 1 <= N /\ n \in 1 .. N
                BY <3>2
            <4>2. end[n - 1] = h[n - 1]
                BY <2>1, <4>1
            <4>3. end[n] = end[n - 1] + Len(Frame(kind, lines[n]))
                BY <4>1, <1>8
            <4>4. end[n] = h[n]
                BY <4>1, <4>2, <4>3, <1>6
            <4> QED BY <4>4
        <3> QED BY <3>1, <3>2
    <2>2. P = Nat
        <3>1. P \in SUBSET Nat
            OBVIOUS
        <3> HIDE DEF P
        <3> QED BY <2>1, <3>1, AllNumbers
    <2> QED BY <2>2, <1>1
<1> HIDE DEF end, pred, step
<1>11. end = h
    BY <1>8, <1>10
<1> QED BY <1>5, <1>6, <1>9, <1>11

LEMMA EndsGrow ==
    ASSUME NEW lines \in Seq(Lines), NEW kind \in {"newline", "octet"},
           NEW m \in 0 .. Len(lines), NEW n \in 0 .. Len(lines), m < n
    PROVE  Ends(kind, lines)[m] < Ends(kind, lines)[n]
<1> DEFINE e == Ends(kind, lines)
           P == {k \in Nat : k <= Len(lines) /\ m < k => e[m] < e[k]}
<1>1. /\ e \in [0 .. Len(lines) -> Nat]
      /\ \A k \in 1 .. Len(lines) : e[k] = e[k - 1] + Len(Frame(kind, lines[k]))
    BY EndsFacts
<1>2. \A k \in 1 .. Len(lines) : Len(Frame(kind, lines[k])) \in Nat \ {0}
    <2>1. \A k \in 1 .. Len(lines) : lines[k] \in Lines
        OBVIOUS
    <2> QED BY <2>1, FrameType
<1> HIDE DEF e
<1>3. ASSUME NEW k \in Nat, \A j \in 0 .. k - 1 : j \in P PROVE k \in P
    <2>1. CASE k <= Len(lines) /\ m < k
        <3>1. k \in 1 .. Len(lines) /\ k - 1 \in 0 .. k - 1 /\ k - 1 <= Len(lines)
            BY <2>1
        <3>2. m = k - 1 \/ e[m] < e[k - 1]
            BY <1>3, <2>1, <3>1
        <3>3. e[m] \in Nat /\ e[k - 1] \in Nat /\ e[k] > e[k - 1]
            <4>1. e[m] \in Nat /\ e[k - 1] \in Nat
                <5>1. k - 1 \in 0 .. Len(lines)
                    BY <3>1
                <5> QED BY <1>1, <5>1
            <4>2. e[k] = e[k - 1] + Len(Frame(kind, lines[k])) /\ Len(Frame(kind, lines[k])) \in Nat \ {0}
                BY <1>1, <1>2, <3>1
            <4> QED BY <4>1, <4>2
        <3>4. e[k] \in Nat
            BY <1>1, <3>1
        <3>5. e[m] < e[k]
            BY <3>2, <3>3, <3>4
        <3> QED BY <3>5
    <2> QED BY <2>1
<1>4. P = Nat
    <2>1. P \in SUBSET Nat
        OBVIOUS
    <2> HIDE DEF P
    <2> QED BY <1>3, <2>1, AllNumbers
<1> QED BY <1>4 DEF e

LEMMA EndsAppend ==
    ASSUME NEW lines \in Seq(Lines), NEW line \in Lines, NEW kind \in {"newline", "octet"}
    PROVE  /\ \A n \in 0 .. Len(lines) : Ends(kind, Append(lines, line))[n] = Ends(kind, lines)[n]
           /\ Ends(kind, Append(lines, line))[Len(lines) + 1]
                 = Ends(kind, lines)[Len(lines)] + Len(Frame(kind, line))
<1> DEFINE more == Append(lines, line)
           e == Ends(kind, lines)
           g == Ends(kind, more)
           N == Len(lines)
           P == {n \in Nat : n <= N => g[n] = e[n]}
<1>1. more \in Seq(Lines) /\ Len(more) = N + 1 /\ N \in Nat /\ (\A n \in 1 .. N : more[n] = lines[n]) /\ more[N + 1] = line
    OBVIOUS
<1>2. e[0] = 0 /\ \A n \in 1 .. N : e[n] = e[n - 1] + Len(Frame(kind, lines[n]))
    BY EndsFacts
<1>3. g[0] = 0 /\ \A n \in 1 .. N + 1 : g[n] = g[n - 1] + Len(Frame(kind, more[n]))
    <2> HIDE DEF more
    <2> QED BY <1>1, EndsFacts
<1> HIDE DEF e, g, more, N
<1>4. ASSUME NEW n \in Nat, \A k \in 0 .. n - 1 : k \in P PROVE n \in P
    <2>1. CASE n = 0
        BY <2>1, <1>2, <1>3
    <2>2. CASE n > 0 /\ n <= N
        <3>1. n \in 1 .. N /\ n \in 1 .. N + 1 /\ n - 1 \in 0 .. n - 1 /\ n - 1 <= N
            BY <1>1, <2>2
        <3>2. g[n - 1] = e[n - 1]
            BY <1>4, <3>1
        <3>3. g[n] = e[n]
            BY <1>1, <1>2, <1>3, <3>1, <3>2
        <3> QED BY <3>3
    <2> QED BY <2>1, <2>2
<1>5. P = Nat
    <2>1. P \in SUBSET Nat
        OBVIOUS
    <2> HIDE DEF P
    <2> QED BY <1>4, <2>1, AllNumbers
<1>6. \A n \in 0 .. N : g[n] = e[n]
    BY <1>1, <1>5
<1>7. g[N + 1] = e[N] + Len(Frame(kind, line))
    <2>1. N + 1 \in 1 .. N + 1 /\ (N + 1) - 1 = N /\ N \in 0 .. N
        BY <1>1
    <2>2. g[N + 1] = g[(N + 1) - 1] + Len(Frame(kind, more[N + 1]))
        BY <1>3, <2>1
    <2> QED BY <1>1, <1>6, <2>1, <2>2
<1> QED BY <1>6, <1>7 DEF e, g, more, N

-----------------------------------------------------------------------------
(* Type correctness. *)

(* What is taken from the buffer. *)
LEMMA TakeFacts ==
    ASSUME TypeOK, ~Incomplete
    PROVE  /\ FrameEnd \in 1 .. Len(buf)
           /\ Written(Message) \in Seq(Seq(Bytes))
<1>1. buf \in Seq(Bytes) /\ Len(buf) \in Nat /\ reader \in {"receiver", "server"}
    BY DEF TypeOK
<1> DEFINE sp == Position(Space)
           lf == Position(LineFeed)
<1>2. sp \in 0 .. Len(buf) /\ lf \in 0 .. Len(buf)
    BY <1>1, PositionFacts
<1> HIDE DEF sp, lf
<1>3. Message \in Seq(Bytes) /\ FrameEnd \in 1 .. Len(buf)
    <2>1. CASE Counted
        <3>1. sp # 0 /\ IsLength(LengthField) /\ LengthField = SubSeq(buf, 1, sp - 1)
            BY <2>1 DEF Counted, LengthField, sp
        <3>2. LengthField \in Seq(Digits)
            <4> DEFINE k == sp - 1
            <4>1. k \in 0 .. Len(buf)
                BY <1>1, <1>2, <3>1
            <4> HIDE DEF k
            <4>2. SubSeq(buf, 1, k) \in Seq(Bytes)
                BY <1>1, <4>1
            <4>3. LengthField \in Seq(Bytes)
                BY <3>1, <4>2 DEF k
            <4>4. \A n \in 1 .. Len(LengthField) : LengthField[n] \in Digits
                BY <3>1, <4>3 DEF IsLength
            <4> QED BY <4>3, <4>4
        <3>3. Length(LengthField) \in Nat
            <4>1. PICK v \in [0 .. Len(LengthField) -> Nat] : Length(LengthField) = v[Len(LengthField)]
                BY <3>2, LengthValues
            <4>2. Len(LengthField) \in 0 .. Len(LengthField)
                BY <3>2
            <4> QED BY <4>1, <4>2
        <3>4. FrameEnd = sp + Length(LengthField) /\ FrameEnd <= Len(buf)
            BY <1>1, <1>2, <2>1, <3>3 DEF FrameEnd, Incomplete, sp
        <3>5. Message = SubSeq(buf, sp + 1, FrameEnd)
            BY <2>1 DEF Message, sp
        <3> DEFINE n == FrameEnd
                   j == sp + 1
        <3>6. n \in 1 .. Len(buf) /\ j \in 1 .. Len(buf) + 1
            BY <1>1, <1>2, <3>1, <3>3, <3>4
        <3> HIDE DEF n, j
        <3>7. SubSeq(buf, j, n) \in Seq(Bytes)
            BY <1>1, <3>6
        <3> QED BY <3>5, <3>6, <3>7 DEF n, j
    <2>2. CASE ~Counted
        <3>1. lf # 0 /\ FrameEnd = lf
            BY <2>2 DEF Incomplete, Delimited, FrameEnd, lf
        <3> DEFINE k == lf - 1
        <3>2. k \in 0 .. Len(buf) /\ lf \in 1 .. Len(buf)
            BY <1>1, <1>2, <3>1
        <3>3. Message = SubSeq(buf, 1, k)
            BY <2>2, <3>1 DEF Message
        <3> HIDE DEF k
        <3>4. SubSeq(buf, 1, k) \in Seq(Bytes)
            BY <1>1, <3>2
        <3> QED BY <3>1, <3>2, <3>3, <3>4
    <2> QED BY <2>1, <2>2
<1>4. Written(Message) \in Seq(Seq(Bytes))
    <2>1. Strip(Message) \in Seq(Bytes)
        BY <1>3, StripType
    <2>2. \A b \in Seq(Bytes) : <<b>> \in Seq(Seq(Bytes))
        OBVIOUS
    <2>3. <<>> \in Seq(Seq(Bytes))
        OBVIOUS
    <2>4. Written(Message) \in {<<Message>>, <<Strip(Message)>>, <<>>}
        BY <1>1 DEF Written
    <2> QED BY <1>3, <2>1, <2>2, <2>3, <2>4
<1> QED BY <1>3, <1>4

(* Initially there is nothing. *)
LEMMA TypeInit == Init => TypeOK
BY DEF Init, TypeOK, Arriving, Up

LEMMA TypeStep == TypeOK /\ [Next]_vars => TypeOK'
<1> SUFFICES ASSUME TypeOK, [Next]_vars PROVE TypeOK'
    OBVIOUS
<1>0. /\ framing \in {"newline", "octet"} /\ reader \in {"receiver", "server"}
      /\ sent \in Seq(Lines) /\ stream \in Seq(Bytes) /\ Len(stream) \in Nat
      /\ cut \in {-1} \cup 0 .. Len(stream)
      /\ got \in 0 .. Arriving
      /\ buf \in Seq(Bytes) /\ Len(buf) <= got /\ Len(buf) \in Nat
      /\ out \in Seq(Seq(Bytes))
      /\ status \in {"receiving", "parsing", "closed"}
    BY DEF TypeOK
<1>a. got \in Nat /\ got <= Len(stream) /\ Arriving \in 0 .. Len(stream)
    BY <1>0 DEF Arriving, Up
<1>1. CASE SendAll
    <2>1. PICK line \in Lines : sent' = Append(sent, line) /\ stream' = stream \o Frame(framing, line)
        BY <1>1 DEF SendAll
    <2>2. UNCHANGED <<framing, reader, cut, got, buf, out, status>> /\ cut = -1
        BY <1>1 DEF SendAll, Up
    <2>3. Frame(framing, line) \in Seq(Bytes) /\ Len(Frame(framing, line)) \in Nat
        BY <1>0, FrameType
    <2>4. stream' \in Seq(Bytes) /\ Len(stream') \in Nat /\ Len(stream') >= Len(stream)
        BY <1>0, <2>1, <2>3
    <2>5. sent' \in Seq(Lines)
        BY <1>0, <2>1
    <2>6. got' \in 0 .. Arriving'
        BY <1>a, <2>2, <2>4 DEF Arriving, Up
    <2> QED BY <1>0, <2>2, <2>4, <2>5, <2>6 DEF TypeOK
<1>2. CASE Break
    <2>1. cut' \in got .. Len(stream) /\ UNCHANGED <<framing, reader, sent, stream, got, buf, out, status>>
        BY <1>2 DEF Break
    <2>2. cut' \in {-1} \cup 0 .. Len(stream') /\ got' \in 0 .. Arriving'
        BY <1>0, <1>a, <2>1 DEF Arriving, Up
    <2> QED BY <1>0, <2>1, <2>2 DEF TypeOK
<1>3. CASE Receive
    <2>1. PICK n \in (got + 1) .. Arriving : buf' = buf \o SubSeq(stream, got + 1, n) /\ got' = n
        BY <1>3 DEF Receive
    <2>2. status' = "parsing" /\ UNCHANGED <<framing, reader, sent, stream, cut, out>>
        BY <1>3 DEF Receive
    <2> DEFINE m == got + 1
    <2>3. m \in 1 .. n /\ n \in 1 .. Len(stream) /\ n - m + 1 = n - got
        BY <1>0, <1>a
    <2> HIDE DEF m
    <2>4. SubSeq(stream, m, n) \in Seq(Bytes) /\ Len(SubSeq(stream, m, n)) = n - m + 1
        BY <1>0, <2>3
    <2>5. buf' \in Seq(Bytes) /\ Len(buf') = Len(buf) + (n - got)
        <3> DEFINE chunk == SubSeq(stream, m, n)
        <3>1. chunk \in Seq(Bytes) /\ Len(chunk) = n - got
            BY <2>3, <2>4
        <3>2. buf' = buf \o chunk
            BY <2>1 DEF m
        <3> HIDE DEF chunk
        <3> QED BY <1>0, <3>1, <3>2, ConcatProperties
    <2>6. Len(buf') <= got' /\ got' \in 0 .. Arriving'
        BY <1>0, <1>a, <2>1, <2>2, <2>3, <2>5 DEF Arriving, Up
    <2> QED BY <1>0, <2>2, <2>5, <2>6 DEF TypeOK
<1>4. CASE EndOfStream
    <2>1. status' = "closed" /\ buf' = <<>> /\ UNCHANGED <<framing, reader, sent, stream, cut, got, out>>
        BY <1>4 DEF EndOfStream
    <2>2. Arriving' = Arriving
        BY <2>1 DEF Arriving, Up
    <2> QED BY <1>0, <1>a, <2>1, <2>2 DEF TypeOK
<1>5. CASE WaitForMore
    <2>1. status' = "receiving" /\ UNCHANGED <<framing, reader, sent, stream, cut, got, buf, out>>
        BY <1>5 DEF WaitForMore
    <2>2. Arriving' = Arriving
        BY <2>1 DEF Arriving, Up
    <2> QED BY <1>0, <2>1, <2>2 DEF TypeOK
<1>6. CASE TakeMessage
    <2>1. /\ ~Incomplete /\ out' = out \o Written(Message)
          /\ buf' = SubSeq(buf, FrameEnd + 1, Len(buf))
          /\ UNCHANGED <<framing, reader, sent, stream, cut, got, status>>
        BY <1>6 DEF TakeMessage
    <2>2. FrameEnd \in 1 .. Len(buf) /\ Written(Message) \in Seq(Seq(Bytes))
        BY <2>1, TakeFacts
    <2>3. out' \in Seq(Seq(Bytes))
        BY <1>0, <2>1, <2>2
    <2>4. buf' \in Seq(Bytes) /\ Len(buf') <= Len(buf)
        <3> DEFINE m == FrameEnd + 1
                   N == Len(buf)
        <3>1. m \in 1 .. N + 1 /\ N \in Nat
            BY <1>0, <2>2
        <3>2. buf' = SubSeq(buf, m, N)
            BY <2>1
        <3> HIDE DEF m, N
        <3>3. SubSeq(buf, m, N) \in Seq(Bytes) /\ Len(SubSeq(buf, m, N)) = (N - m) + 1
            BY <1>0, <3>1, SubSeqProperties DEF N
        <3> QED BY <3>1, <3>2, <3>3 DEF N
    <2>5. Len(buf') <= got'
        BY <1>0, <1>a, <2>1, <2>4
    <2>6. Arriving' = Arriving
        BY <2>1 DEF Arriving, Up
    <2> QED BY <1>0, <2>1, <2>3, <2>4, <2>5, <2>6 DEF TypeOK
<1>7. CASE UNCHANGED vars
    BY <1>7 DEF vars, TypeOK, Arriving, Up
<1> QED BY <1>1, <1>2, <1>3, <1>4, <1>5, <1>6, <1>7 DEF Next, Reader

-----------------------------------------------------------------------------
(* The stream. *)

(* The ends of the frames are in the stream, and in order. *)
LEMMA EndOfFacts ==
    ASSUME TypeOK, StreamInv
    PROVE  /\ \A n \in 0 .. Len(sent) : EndOf(n) \in 0 .. Len(stream)
           /\ EndOf(0) = 0
           /\ \A m, n \in 0 .. Len(sent) : m < n => EndOf(m) < EndOf(n)
           /\ \A n \in 1 .. Len(sent) :
                 /\ EndOf(n) = EndOf(n - 1) + Len(Frame(framing, sent[n]))
                 /\ Frame(framing, sent[n]) \in Seq(Bytes)
                 /\ Len(Frame(framing, sent[n])) \in Nat \ {0}
<1>1. sent \in Seq(Lines) /\ framing \in {"newline", "octet"} /\ Len(sent) \in Nat
    BY DEF TypeOK
<1>2. /\ \A n \in 0 .. Len(sent) : EndOf(n) \in Nat
      /\ EndOf(0) = 0
      /\ \A n \in 1 .. Len(sent) : EndOf(n) = EndOf(n - 1) + Len(Frame(framing, sent[n]))
    BY <1>1, EndsFacts DEF EndOf
<1>3. \A m, n \in 0 .. Len(sent) : m < n => EndOf(m) < EndOf(n)
    BY <1>1, EndsGrow DEF EndOf
<1>4. \A n \in 0 .. Len(sent) : EndOf(n) \in 0 .. Len(stream)
    <2> TAKE n \in 0 .. Len(sent)
    <2>1. Len(stream) = EndOf(Len(sent)) /\ Len(sent) \in 0 .. Len(sent)
        BY <1>1 DEF StreamInv
    <2> QED BY <1>1, <1>2, <1>3, <2>1
<1>5. \A n \in 1 .. Len(sent) : sent[n] \in Lines
    BY <1>1
<1> QED BY <1>1, <1>2, <1>3, <1>4, <1>5, FrameType

(* What sending a line does. *)
LEMMA SendEffect ==
    ASSUME TypeOK, StreamInv, SendAll
    PROVE  \E line \in Lines :
              /\ sent' = Append(sent, line) /\ stream' = stream \o Frame(framing, line)
              /\ UNCHANGED <<framing, reader, cut, got, buf, out, status>>
              /\ got <= Len(stream)
              /\ \A n \in 0 .. Len(sent) : EndOf(n)' = EndOf(n)
              /\ Ends(framing, sent')[Len(sent) + 1] = Len(stream) + Len(Frame(framing, line))
              /\ Frame(framing, line) \in Seq(Bytes) /\ Len(Frame(framing, line)) \in Nat \ {0}
<1>1. sent \in Seq(Lines) /\ framing \in {"newline", "octet"} /\ got \in 0 .. Arriving
    BY DEF TypeOK
<1>2. PICK line \in Lines : sent' = Append(sent, line) /\ stream' = stream \o Frame(framing, line)
    BY DEF SendAll
<1>3. UNCHANGED <<framing, reader, cut, got, buf, out, status>> /\ got <= Len(stream)
    BY <1>1 DEF SendAll, Arriving
<1>4. Frame(framing, line) \in Seq(Bytes) /\ Len(Frame(framing, line)) \in Nat \ {0}
    BY <1>1, FrameType
<1>5. \A n \in 0 .. Len(sent) : EndOf(n)' = EndOf(n)
    <2> TAKE n \in 0 .. Len(sent)
    <2>1. EndOf(n)' = Ends(framing, Append(sent, line))[n]
        BY <1>2, <1>3 DEF EndOf
    <2> QED BY <1>1, <2>1, EndsAppend DEF EndOf
<1>6. Ends(framing, sent')[Len(sent) + 1] = Len(stream) + Len(Frame(framing, line))
    <2>1. Ends(framing, sent')[Len(sent) + 1] = Ends(framing, sent)[Len(sent)] + Len(Frame(framing, line))
        BY <1>1, <1>2, EndsAppend
    <2> QED BY <1>3, <2>1 DEF EndOf, StreamInv
<1> QED BY <1>2, <1>3, <1>4, <1>5, <1>6

LEMMA StreamInit == Init => StreamInv
<1> SUFFICES ASSUME Init PROVE StreamInv
    OBVIOUS
<1>1. sent = <<>> /\ stream = <<>> /\ framing \in {"newline", "octet"}
    BY DEF Init
<1>2. EndOf(0) = 0
    <2>1. sent \in Seq(Lines)
        BY <1>1
    <2> QED BY <1>1, <2>1, EndsFacts DEF EndOf
<1> QED BY <1>1, <1>2 DEF StreamInv

LEMMA StreamStep == TypeOK /\ StreamInv /\ [Next]_vars => StreamInv'
<1> SUFFICES ASSUME TypeOK, StreamInv, [Next]_vars PROVE StreamInv'
    OBVIOUS
<1>1. CASE SendAll
    <2>1. PICK line \in Lines :
              /\ sent' = Append(sent, line) /\ stream' = stream \o Frame(framing, line)
              /\ UNCHANGED <<framing, reader, cut, got, buf, out, status>>
              /\ \A n \in 0 .. Len(sent) : EndOf(n)' = EndOf(n)
              /\ Ends(framing, sent')[Len(sent) + 1] = Len(stream) + Len(Frame(framing, line))
              /\ Frame(framing, line) \in Seq(Bytes) /\ Len(Frame(framing, line)) \in Nat \ {0}
        BY <1>1, SendEffect
    <2>2. sent \in Seq(Lines) /\ stream \in Seq(Bytes) /\ Len(sent) \in Nat /\ Len(stream) \in Nat
        BY DEF TypeOK
    <2>3. /\ Len(sent') = Len(sent) + 1 /\ sent'[Len(sent) + 1] = line
          /\ \A n \in 1 .. Len(sent) : sent'[n] = sent[n]
          /\ DOMAIN sent' = 1 .. Len(sent) + 1
        BY <2>1, <2>2
    <2> DEFINE f == Frame(framing, line)
    <2>4. /\ Len(stream') = Len(stream) + Len(f)
          /\ \A i \in 1 .. Len(stream) : stream'[i] = stream[i]
          /\ \A i \in 1 .. Len(f) : stream'[Len(stream) + i] = f[i]
        <3> HIDE DEF f
        <3>1. f \in Seq(Bytes) /\ Len(f) \in Nat /\ stream' = stream \o f
            BY <2>1 DEF f
        <3>2. /\ Len(stream') = Len(stream) + Len(f)
              /\ \A i \in 1 .. Len(stream) + Len(f) :
                    stream'[i] = IF i <= Len(stream) THEN stream[i] ELSE f[i - Len(stream)]
            BY <2>2, <3>1, ConcatProperties
        <3>3. ASSUME NEW i \in 1 .. Len(f) PROVE stream'[Len(stream) + i] = f[i]
            <4> DEFINE j == Len(stream) + i
            <4>1. j \in 1 .. Len(stream) + Len(f) /\ ~(j <= Len(stream)) /\ j - Len(stream) = i
                BY <2>2, <3>1
            <4> HIDE DEF j
            <4>2. stream'[j] = f[i]
                BY <3>2, <4>1
            <4> QED BY <4>2 DEF j
        <3> QED BY <2>2, <3>1, <3>2, <3>3
    <2>5. Len(stream') = EndOf(Len(sent))'
        BY <2>1, <2>3, <2>4 DEF EndOf
    <2>6. ASSUME NEW n \in 1 .. Len(sent) + 1, NEW i \in DOMAIN Frame(framing, sent'[n])
          PROVE  stream'[Ends(framing, sent')[n - 1] + i] = Frame(framing, sent'[n])[i]
        <3>0. n - 1 \in 0 .. Len(sent) /\ Ends(framing, sent')[n - 1] = EndOf(n - 1)
            <4>1. n - 1 \in 0 .. Len(sent)
                BY <2>2
            <4>2. \A m \in 0 .. Len(sent) : Ends(framing, sent')[m] = EndOf(m)
                BY <2>1 DEF EndOf
            <4> QED BY <4>1, <4>2
        <3>1. CASE n \in 1 .. Len(sent)
            <4>1. sent'[n] = sent[n] /\ EndOf(n) \in 0 .. Len(stream) /\ EndOf(n - 1) \in 0 .. Len(stream)
                BY <2>3, <3>0, <3>1, EndOfFacts
            <4>2. /\ EndOf(n) = EndOf(n - 1) + Len(Frame(framing, sent[n]))
                  /\ Frame(framing, sent[n]) \in Seq(Bytes)
                BY <3>1, EndOfFacts
            <4>3. i \in 1 .. Len(Frame(framing, sent[n])) /\ Len(Frame(framing, sent[n])) \in Nat
                BY <4>1, <4>2
            <4>4. EndOf(n - 1) + i \in 1 .. Len(stream)
                BY <2>2, <4>1, <4>2, <4>3
            <4>5. stream[EndOf(n - 1) + i] = Frame(framing, sent[n])[i]
                BY <3>1, <4>1 DEF StreamInv
            <4> QED BY <2>4, <3>0, <4>1, <4>4, <4>5
        <3>2. CASE n = Len(sent) + 1
            <4>1. sent'[n] = line /\ n - 1 = Len(sent)
                BY <2>2, <2>3, <3>2
            <4>2. EndOf(n - 1) = Len(stream)
                BY <4>1 DEF StreamInv
            <4>3. i \in 1 .. Len(f)
                BY <2>1, <4>1
            <4> HIDE DEF f
            <4>4. stream'[Len(stream) + i] = f[i]
                BY <2>4, <4>3
            <4> QED BY <3>0, <4>1, <4>2, <4>4 DEF f
        <3> QED BY <2>2, <3>1, <3>2
    <2>7. framing' = framing
        BY <2>1
    <2> QED BY <2>3, <2>5, <2>6, <2>7 DEF StreamInv, EndOf
<1>2. CASE UNCHANGED <<framing, sent, stream>>
    BY <1>2 DEF StreamInv, EndOf
<1>3. Next \/ UNCHANGED vars => SendAll \/ UNCHANGED <<framing, sent, stream>>
    BY DEF Next, Reader, Break, Receive, EndOfStream, WaitForMore, TakeMessage, vars
<1> QED BY <1>1, <1>2, <1>3

-----------------------------------------------------------------------------
(* The reader. *)

AllFit == \A n \in DOMAIN sent : Fits(sent[n])

AllShown == \A n \in DOMAIN out : out[n] = Shown(sent[n])

(* The conclusion of ReaderInv. *)
InStep ==
    /\ Len(out) <= Len(sent)
    /\ AllShown
    /\ EndOf(Len(out)) <= got
    /\ status # "closed" => buf = SubSeq(stream, EndOf(Len(out)) + 1, got)
    /\ status # "parsing" /\ Len(out) < Len(sent) => got < EndOf(Len(out) + 1)

LEMMA ReaderInvDef == ReaderInv <=> (AllFit => InStep)
BY DEF ReaderInv, AllFit, InStep, AllShown

(* What the loop finds in the buffer is the next frame, if there is one. *)
LEMMA LoopEffect ==
    ASSUME TypeOK, StreamInv, AllFit, InStep, status = "parsing"
    PROVE  /\ Len(out) = Len(sent) => Incomplete
           /\ Len(out) < Len(sent) =>
                 /\ Parsed(sent[Len(out) + 1])
                 /\ Len(buf) = got - EndOf(Len(out))
<1>1. /\ framing \in {"newline", "octet"} /\ reader \in {"receiver", "server"}
      /\ sent \in Seq(Lines) /\ Len(sent) \in Nat /\ stream \in Seq(Bytes) /\ Len(stream) \in Nat
      /\ out \in Seq(Seq(Bytes)) /\ Len(out) \in Nat /\ buf \in Seq(Bytes)
      /\ got \in Nat /\ got <= Len(stream)
    BY DEF TypeOK, Arriving, Up
<1> DEFINE k == Len(out)
           e == EndOf(k)
<1>2. k \in 0 .. Len(sent) /\ e \in 0 .. Len(stream) /\ e <= got /\ buf = SubSeq(stream, e + 1, got)
    BY <1>1, EndOfFacts DEF InStep
<1>3. Len(buf) = got - e /\ \A i \in 1 .. Len(buf) : buf[i] = stream[e + i]
    <2> HIDE DEF e, k
    <2> DEFINE m == e + 1
    <2>1. m \in Int /\ got \in Int /\ \A i \in m .. got : stream[i] \in Bytes
        BY <1>1, <1>2
    <2>2. got - m + 1 = got - e /\ (m <= got <=> got - e # 0)
        BY <1>1, <1>2
    <2>3. \A i \in Int : m + i - 1 = e + i
        BY <1>1, <1>2
    <2>4. buf = SubSeq(stream, m, got)
        BY <1>2
    <2> HIDE DEF m
    <2>5. /\ Len(SubSeq(stream, m, got)) = IF m <= got THEN got - m + 1 ELSE 0
          /\ \A i \in 1 .. got - m + 1 : SubSeq(stream, m, got)[i] = stream[m + i - 1]
        BY <2>1, SubSeqProperties
    <2>6. Len(buf) = got - e
        BY <2>2, <2>4, <2>5
    <2>7. \A i \in 1 .. Len(buf) : buf[i] = stream[e + i]
        <3> TAKE i \in 1 .. Len(buf)
        <3>1. i \in 1 .. got - m + 1
            BY <2>2, <2>6
        <3>2. buf[i] = stream[m + i - 1]
            BY <2>4, <2>5, <3>1
        <3>3. m + i - 1 = e + i
            BY <2>3
        <3> QED BY <3>2, <3>3
    <2> QED BY <2>6, <2>7
<1>4. ASSUME k = Len(sent) PROVE Incomplete
    <2>1. e = Len(stream)
        BY <1>4 DEF StreamInv
    <2>2. Len(buf) = 0
        BY <1>1, <1>2, <1>3, <2>1
    <2>3. buf = <<>>
        BY <1>1, <2>2
    <2> QED BY <2>3 DEF Incomplete
<1>5. ASSUME k < Len(sent) PROVE Parsed(sent[k + 1])
    <2> DEFINE n == k + 1
               line == sent[n]
    <2>1. n \in DOMAIN sent /\ n \in 1 .. Len(sent) /\ n - 1 = k
        BY <1>1, <1>2, <1>5
    <2>2. line \in Lines /\ Fits(line)
        BY <1>1, <2>1 DEF AllFit
    <2>3. Frame(framing, line) \in Seq(Bytes) /\ Len(Frame(framing, line)) \in Nat
        BY <2>1, EndOfFacts
    <2>4. \A i \in 1 .. Len(Frame(framing, line)) : stream[EndOf(n - 1) + i] = Frame(framing, line)[i]
        BY <2>1, <2>3 DEF StreamInv
    <2>5. EndOf(n - 1) = e
        BY <2>1
    <2> HIDE DEF n, e, line
    <2>6. Begins(line)
        BY <1>1, <1>3, <2>3, <2>4, <2>5 DEF Begins
    <2>7. Parsed(line)
        <3>1. CASE framing = "newline"
            BY <1>1, <2>2, <2>6, <3>1, ParseLine
        <3>2. CASE framing = "octet"
            BY <1>1, <2>2, <2>6, <3>2, ParseCounted
        <3> QED BY <1>1, <3>1, <3>2
    <2> QED BY <2>7 DEF n, line
<1> QED BY <1>3, <1>4, <1>5

LEMMA ReaderInit == Init => ReaderInv
<1> SUFFICES ASSUME Init PROVE InStep
    BY ReaderInvDef
<1>1. sent = <<>> /\ out = <<>> /\ got = 0 /\ buf = <<>> /\ stream = <<>> /\ framing \in {"newline", "octet"}
    BY DEF Init
<1>2. EndOf(0) = 0
    <2>1. sent \in Seq(Lines)
        BY <1>1
    <2> QED BY <1>1, <2>1, EndsFacts DEF EndOf
<1>3. SubSeq(<<>>, 1, 0) = <<>>
    OBVIOUS
<1> QED BY <1>1, <1>2, <1>3 DEF InStep, AllShown

(* A line that does not fit is never unsent. *)
LEMMA FitStep == TypeOK /\ [Next]_vars /\ AllFit' => AllFit
<1> SUFFICES ASSUME TypeOK, [Next]_vars, AllFit' PROVE AllFit
    OBVIOUS
<1>1. CASE SendAll
    <2>1. PICK line \in Lines : sent' = Append(sent, line) /\ framing' = framing
        BY <1>1 DEF SendAll
    <2>2. sent \in Seq(Lines)
        BY DEF TypeOK
    <2>3. \A n \in DOMAIN sent : n \in DOMAIN sent' /\ sent'[n] = sent[n]
        BY <2>1, <2>2
    <2> QED BY <2>1, <2>3 DEF AllFit, Fits
<1>2. CASE UNCHANGED <<framing, sent>>
    BY <1>2 DEF AllFit, Fits
<1> QED BY <1>1, <1>2 DEF Next, Reader, Break, Receive, EndOfStream, WaitForMore, TakeMessage, vars

(* The three kinds of steps of the reader that write nothing. *)
LEMMA ReceiveStep ==
    ASSUME TypeOK, StreamInv, InStep, Receive
    PROVE  InStep'
<1>1. /\ sent \in Seq(Lines) /\ Len(sent) \in Nat /\ stream \in Seq(Bytes) /\ Len(stream) \in Nat
      /\ out \in Seq(Seq(Bytes)) /\ Len(out) \in Nat
      /\ got \in Nat /\ got <= Len(stream) /\ Arriving <= Len(stream) /\ Arriving \in Int
    BY DEF TypeOK, Arriving, Up
<1>2. PICK n \in (got + 1) .. Arriving : buf' = buf \o SubSeq(stream, got + 1, n) /\ got' = n
    BY DEF Receive
<1>3. status = "receiving" /\ status' = "parsing" /\ UNCHANGED <<framing, reader, sent, stream, cut, out>>
    BY DEF Receive
<1> DEFINE k == Len(out)
           e == EndOf(k)
           m == e + 1
<1>4. k \in 0 .. Len(sent) /\ e \in 0 .. Len(stream) /\ e <= got /\ buf = SubSeq(stream, m, got)
    BY <1>1, <1>3, EndOfFacts DEF InStep
<1>5. buf' = SubSeq(stream, m, n)
    <2> HIDE DEF k, e
    <2>1. m \in 1 .. Len(stream) + 1 /\ got \in m - 1 .. Len(stream) /\ n \in got .. Len(stream)
        BY <1>1, <1>4
    <2> HIDE DEF m
    <2>2. SubSeq(stream, m, got) \o SubSeq(stream, got + 1, n) = SubSeq(stream, m, n)
        BY <1>1, <2>1, ConcatAdjacentSubSeq
    <2> QED BY <1>2, <1>4, <2>2
<1>6. EndOf(Len(out))' = e
    BY <1>3 DEF EndOf
<1>8. e <= n
    BY <1>1, <1>4
<1>9. AllShown'
    BY <1>3 DEF InStep, AllShown, Shown
<1> HIDE DEF e
<1> QED BY <1>2, <1>3, <1>4, <1>5, <1>6, <1>8, <1>9 DEF InStep

LEMMA WaitStep ==
    ASSUME TypeOK, StreamInv, AllFit, InStep, WaitForMore
    PROVE  InStep'
<1>1. status = "parsing" /\ Incomplete
      /\ status' = "receiving" /\ UNCHANGED <<framing, reader, sent, stream, cut, got, buf, out>>
    BY DEF WaitForMore
<1>2. ASSUME Len(out) < Len(sent) PROVE got < EndOf(Len(out) + 1)
    <2> DEFINE k == Len(out)
               n == k + 1
    <2>1. Parsed(sent[n]) /\ Len(buf) = got - EndOf(k)
        BY <1>1, <1>2, LoopEffect
    <2>2. Len(buf) < Len(Frame(framing, sent[n]))
        BY <1>1, <2>1 DEF Parsed
    <2>3. k \in Nat /\ Len(sent) \in Nat /\ got \in Nat
        BY DEF TypeOK, Arriving
    <2>4. n \in 1 .. Len(sent) /\ n - 1 = k /\ k \in 0 .. Len(sent)
        BY <1>2, <2>3
    <2>5. /\ EndOf(n) = EndOf(n - 1) + Len(Frame(framing, sent[n]))
          /\ Len(Frame(framing, sent[n])) \in Nat
        BY <2>4, EndOfFacts
    <2>6. EndOf(k) \in Nat
        BY <2>4, EndOfFacts
    <2> HIDE DEF k, n
    <2>7. got < EndOf(n)
        BY <2>1, <2>2, <2>3, <2>4, <2>5, <2>6
    <2> QED BY <2>7 DEF k, n
<1>4. EndOf(Len(out))' = EndOf(Len(out)) /\ EndOf(Len(out) + 1)' = EndOf(Len(out) + 1)
    BY <1>1 DEF EndOf
<1>5. AllShown'
    BY <1>1 DEF InStep, AllShown, Shown
<1>6. Len(out) <= Len(sent) /\ EndOf(Len(out)) <= got /\ buf = SubSeq(stream, EndOf(Len(out)) + 1, got)
    BY <1>1 DEF InStep
<1> QED BY <1>1, <1>2, <1>4, <1>5, <1>6 DEF InStep

LEMMA CloseStep ==
    ASSUME InStep, EndOfStream
    PROVE  InStep'
<1>1. status = "receiving" /\ status' = "closed" /\ UNCHANGED <<framing, reader, sent, stream, cut, got, out>>
    BY DEF EndOfStream
<1>3. EndOf(Len(out))' = EndOf(Len(out)) /\ EndOf(Len(out) + 1)' = EndOf(Len(out) + 1)
    BY <1>1 DEF EndOf
<1>4. AllShown'
    BY <1>1 DEF InStep, AllShown, Shown
<1> QED BY <1>1, <1>3, <1>4 DEF InStep

(* A message is taken: it is the line of the next frame. *)
LEMMA TakeStep ==
    ASSUME TypeOK, StreamInv, AllFit, InStep, TakeMessage
    PROVE  InStep'
<1>1. /\ status = "parsing" /\ ~Incomplete /\ out' = out \o Written(Message)
      /\ buf' = SubSeq(buf, FrameEnd + 1, Len(buf))
      /\ UNCHANGED <<framing, reader, sent, stream, cut, got, status>>
    BY DEF TakeMessage
<1>2. /\ sent \in Seq(Lines) /\ Len(sent) \in Nat /\ stream \in Seq(Bytes) /\ Len(stream) \in Nat
      /\ out \in Seq(Seq(Bytes)) /\ Len(out) \in Nat /\ buf \in Seq(Bytes) /\ Len(buf) \in Nat
      /\ got \in Nat /\ got <= Len(stream)
    BY DEF TypeOK, Arriving, Up
<1> DEFINE k == Len(out)
           n == k + 1
           e == EndOf(k)
           f == Len(Frame(framing, sent[n]))
           shown == Shown(sent[n])
<1>3. k < Len(sent)
    BY <1>1, <1>2, LoopEffect DEF InStep
<1>4. Parsed(sent[n]) /\ Len(buf) = got - e
    BY <1>1, <1>3, LoopEffect
<1>5. FrameEnd = f /\ Written(Message) = <<shown>> /\ Len(buf) >= f
    <2>1. n \in 1 .. Len(sent)
        BY <1>2, <1>3
    <2>2. f \in Nat
        BY <2>1, EndOfFacts
    <2> QED BY <1>1, <1>2, <1>4, <2>2 DEF Parsed
<1>6. /\ n \in 1 .. Len(sent) /\ n - 1 = k /\ e \in 0 .. Len(stream) /\ EndOf(n) = e + f /\ f \in Nat \ {0}
      /\ buf = SubSeq(stream, e + 1, got) /\ e <= got
    <2>1. n \in 1 .. Len(sent) /\ n - 1 = k /\ k \in 0 .. Len(sent)
        BY <1>2, <1>3
    <2>2. EndOf(n) = EndOf(n - 1) + f /\ f \in Nat \ {0} /\ e \in 0 .. Len(stream)
        BY <2>1, EndOfFacts
    <2> QED BY <1>1, <2>1, <2>2 DEF InStep
<1>7. Written(Message) \in Seq(Seq(Bytes))
    BY <1>1, TakeFacts
<1> HIDE DEF e, f, n, shown
<1>8. Len(out') = n /\ (\A i \in 1 .. k : out'[i] = out[i]) /\ out'[n] = shown /\ DOMAIN out' = 1 .. n
    BY <1>1, <1>2, <1>5, <1>7 DEF n
<1>10. AllShown'
    <2>1. \A i \in 1 .. k : out[i] = Shown(sent[i])
        BY <1>2 DEF InStep, AllShown
    <2>2. ASSUME NEW i \in 1 .. n PROVE out'[i] = Shown(sent[i])
        <3>1. CASE i \in 1 .. k
            BY <1>8, <2>1, <3>1
        <3>2. CASE i = n
            BY <1>8, <3>2 DEF shown
        <3> QED BY <1>2, <3>1, <3>2 DEF n
    <2> QED BY <1>1, <1>8, <2>2 DEF AllShown, Shown
<1>11. EndOf(Len(out))' = e + f /\ e + f <= got
    <2>1. EndOf(Len(out))' = EndOf(n)
        BY <1>1, <1>8 DEF EndOf
    <2>2. e + f <= got
        BY <1>2, <1>4, <1>5, <1>6
    <2> QED BY <1>6, <2>1, <2>2
<1>12. buf' = SubSeq(stream, e + f + 1, got)
    <2> DEFINE a == e + 1
               b == f + 1
               c == e + f + 1
    <2>1. a \in Int /\ b \in Int /\ c \in Int /\ got \in Int /\ Len(buf) \in Int
        BY <1>2, <1>6
    <2>2. \A i \in a .. got : stream[i] \in Bytes
        BY <1>2, <1>6
    <2>3. /\ \A i \in 1 .. got - a + 1 : SubSeq(stream, a, got)[i] = stream[a + i - 1]
        BY <2>1, <2>2, SubSeqProperties
    <2>4. got - a + 1 = Len(buf) /\ \A i \in Int : a + i - 1 = e + i
        BY <1>2, <1>4, <1>6
    <2>5. \A i \in 1 .. Len(buf) : buf[i] = stream[e + i]
        <3> TAKE i \in 1 .. Len(buf)
        <3>1. i \in 1 .. got - a + 1 /\ a + i - 1 = e + i
            BY <2>4
        <3>2. SubSeq(stream, a, got)[i] = stream[a + i - 1]
            BY <2>3, <3>1
        <3>3. buf = SubSeq(stream, a, got)
            BY <1>6
        <3> QED BY <3>1, <3>2, <3>3
    <2>6. (\A i \in b .. Len(buf) : buf[i] \in Bytes) /\ (\A i \in c .. got : stream[i] \in Bytes)
        BY <1>2, <1>6
    <2>7. /\ SubSeq(buf, b, Len(buf)) \in Seq(Bytes)
          /\ Len(SubSeq(buf, b, Len(buf))) = IF b <= Len(buf) THEN Len(buf) - b + 1 ELSE 0
          /\ \A i \in 1 .. Len(buf) - b + 1 : SubSeq(buf, b, Len(buf))[i] = buf[b + i - 1]
        BY <2>1, <2>6, SubSeqProperties
    <2>8. /\ SubSeq(stream, c, got) \in Seq(Bytes)
          /\ Len(SubSeq(stream, c, got)) = IF c <= got THEN got - c + 1 ELSE 0
          /\ \A i \in 1 .. got - c + 1 : SubSeq(stream, c, got)[i] = stream[c + i - 1]
        BY <2>1, <2>6, SubSeqProperties
    <2> DEFINE left == SubSeq(buf, b, Len(buf))
               right == SubSeq(stream, c, got)
    <2>9. Len(left) = Len(right) /\ Len(left) = Len(buf) - f
        BY <1>2, <1>4, <1>5, <1>6, <2>7, <2>8
    <2>10. ASSUME NEW i \in 1 .. Len(left) PROVE left[i] = right[i]
        <3> DEFINE j == b + i - 1
        <3>1. j \in 1 .. Len(buf) /\ e + j = c + i - 1
            BY <1>2, <1>5, <1>6, <2>9
        <3>2. i \in 1 .. Len(buf) - b + 1 /\ i \in 1 .. got - c + 1
            BY <1>2, <1>4, <1>5, <1>6, <2>9
        <3>3. left[i] = buf[j] /\ right[i] = stream[c + i - 1]
            BY <2>7, <2>8, <3>2
        <3> HIDE DEF j, left, right, c
        <3> QED BY <2>5, <3>1, <3>3
    <2> HIDE DEF a, b, c
    <2>11. left = right
        <3>1. left \in Seq(Bytes) /\ right \in Seq(Bytes)
            BY <2>7, <2>8
        <3> HIDE DEF left, right
        <3> QED BY <2>9, <2>10, <3>1, SeqEqual
    <2>12. buf' = left
        BY <1>1, <1>5 DEF b
    <2> QED BY <2>11, <2>12 DEF c
<1>13. Len(out') <= Len(sent')
    BY <1>1, <1>2, <1>6, <1>8
<1> QED BY <1>1, <1>10, <1>11, <1>12, <1>13 DEF InStep

LEMMA SendStep ==
    ASSUME TypeOK, StreamInv, InStep, SendAll
    PROVE  InStep'
<1>1. PICK line \in Lines :
          /\ sent' = Append(sent, line) /\ stream' = stream \o Frame(framing, line)
          /\ UNCHANGED <<framing, reader, cut, got, buf, out, status>>
          /\ got <= Len(stream)
          /\ \A n \in 0 .. Len(sent) : EndOf(n)' = EndOf(n)
          /\ Ends(framing, sent')[Len(sent) + 1] = Len(stream) + Len(Frame(framing, line))
          /\ Frame(framing, line) \in Seq(Bytes) /\ Len(Frame(framing, line)) \in Nat \ {0}
    BY SendEffect
<1>2. /\ sent \in Seq(Lines) /\ Len(sent) \in Nat /\ stream \in Seq(Bytes) /\ Len(stream) \in Nat
      /\ out \in Seq(Seq(Bytes)) /\ Len(out) \in Nat /\ got \in Nat
    BY DEF TypeOK, Arriving, Up
<1> DEFINE k == Len(out)
           e == EndOf(k)
<1>3. k \in 0 .. Len(sent) /\ e \in 0 .. Len(stream) /\ e <= got
    BY <1>2, EndOfFacts DEF InStep
<1>4. \A n \in 0 .. Len(sent) : Ends(framing, sent')[n] = EndOf(n)
    BY <1>1 DEF EndOf
<1>5. EndOf(Len(out))' = e
    BY <1>1, <1>3, <1>4 DEF EndOf
<1>7. Len(sent') = Len(sent) + 1 /\ \A n \in 1 .. Len(sent) : sent'[n] = sent[n]
    BY <1>1, <1>2
<1>8. AllShown'
    <2>1. \A i \in 1 .. k : i \in 1 .. Len(sent) /\ out[i] = Shown(sent[i])
        BY <1>2, <1>3 DEF InStep, AllShown
    <2>2. DOMAIN out' = 1 .. k
        BY <1>1, <1>2
    <2>3. \A i \in 1 .. k : out'[i] = Shown(sent'[i])
        BY <1>1, <1>7, <2>1
    <2> QED BY <1>1, <2>2, <2>3 DEF AllShown, Shown
<1>9. ASSUME status # "closed" PROVE buf = SubSeq(stream', e + 1, got)
    <2> DEFINE m == e + 1
    <2>1. buf = SubSeq(stream, m, got)
        BY <1>9 DEF InStep
    <2> HIDE DEF e
    <2>2. m \in Int /\ got \in Int /\ \A i \in m .. got : i \in 1 .. Len(stream)
        BY <1>1, <1>2, <1>3
    <2> DEFINE f == Frame(framing, line)
    <2>3. \A i \in 1 .. Len(stream) : stream'[i] = stream[i] /\ stream[i] \in Bytes
        <3> HIDE DEF f
        <3>1. f \in Seq(Bytes) /\ Len(f) \in Nat /\ stream' = stream \o f
            BY <1>1 DEF f
        <3>2. \A i \in 1 .. Len(stream) + Len(f) :
                 stream'[i] = IF i <= Len(stream) THEN stream[i] ELSE f[i - Len(stream)]
            BY <1>2, <3>1, ConcatProperties
        <3> QED BY <1>2, <3>1, <3>2
    <2> HIDE DEF m
    <2>4. \A i \in m .. got : stream[i] \in Bytes /\ stream'[i] \in Bytes /\ stream'[i] = stream[i]
        BY <2>2, <2>3
    <2> DEFINE old == SubSeq(stream, m, got)
               new == SubSeq(stream', m, got)
    <2>5. /\ old \in Seq(Bytes) /\ Len(old) = IF m <= got THEN got - m + 1 ELSE 0
          /\ \A i \in 1 .. got - m + 1 : old[i] = stream[m + i - 1]
        BY <2>2, <2>4, SubSeqProperties
    <2>6. /\ new \in Seq(Bytes) /\ Len(new) = IF m <= got THEN got - m + 1 ELSE 0
          /\ \A i \in 1 .. got - m + 1 : new[i] = stream'[m + i - 1]
        BY <2>2, <2>4, SubSeqProperties
    <2> HIDE DEF old, new
    <2>7. ASSUME NEW i \in 1 .. Len(old) PROVE old[i] = new[i]
        <3> DEFINE j == m + i - 1
        <3>1. i \in 1 .. got - m + 1 /\ j \in m .. got
            BY <2>2, <2>5
        <3> HIDE DEF j
        <3>2. stream[j] = stream'[j]
            BY <2>4, <3>1
        <3> QED BY <2>5, <2>6, <3>1, <3>2 DEF j
    <2>8. old = new
        BY <2>5, <2>6, <2>7, SeqEqual
    <2> QED BY <2>1, <2>8 DEF m, old, new
<1>10. ASSUME status # "parsing", k < Len(sent') PROVE got < EndOf(Len(out) + 1)'
    <2> DEFINE n == k + 1
    <2>1. EndOf(Len(out) + 1)' = Ends(framing, sent')[n]
        BY <1>1 DEF EndOf
    <2>2. CASE k < Len(sent)
        <3>1. n \in 0 .. Len(sent) /\ got < EndOf(n)
            BY <1>2, <1>10, <2>2 DEF InStep
        <3> QED BY <1>4, <2>1, <3>1
    <2>3. CASE k = Len(sent)
        <3>1. Ends(framing, sent')[n] = Len(stream) + Len(Frame(framing, line))
            BY <1>1, <2>3
        <3> QED BY <1>1, <1>2, <2>1, <3>1
    <2> QED BY <1>2, <1>3, <2>2, <2>3
<1>11. k <= Len(sent')
    BY <1>2, <1>3, <1>7
<1> QED BY <1>1, <1>3, <1>5, <1>8, <1>9, <1>10, <1>11 DEF InStep

LEMMA ReaderStep == TypeOK /\ StreamInv /\ ReaderInv /\ [Next]_vars => ReaderInv'
<1> SUFFICES ASSUME TypeOK, StreamInv, ReaderInv, [Next]_vars, AllFit' PROVE InStep'
    BY DEF ReaderInv, AllFit, InStep, AllShown
<1>0. AllFit /\ InStep
    BY FitStep, ReaderInvDef
<1>1. CASE UNCHANGED <<framing, reader, sent, stream, got, buf, out, status>>
    BY <1>0, <1>1 DEF InStep, EndOf, AllShown, Shown
<1>2. Break => UNCHANGED <<framing, reader, sent, stream, got, buf, out, status>>
    BY DEF Break
<1>3. UNCHANGED vars => UNCHANGED <<framing, reader, sent, stream, got, buf, out, status>>
    BY DEF vars
<1>4. CASE SendAll
    BY <1>0, <1>4, SendStep
<1>5. CASE Receive
    BY <1>0, <1>5, ReceiveStep
<1>6. CASE EndOfStream
    BY <1>0, <1>6, CloseStep
<1>7. CASE WaitForMore
    BY <1>0, <1>7, WaitStep
<1>8. CASE TakeMessage
    BY <1>0, <1>8, TakeStep
<1> QED BY <1>1, <1>2, <1>3, <1>4, <1>5, <1>6, <1>7, <1>8 DEF Next, Reader

-----------------------------------------------------------------------------
(* The theorems. *)

LEMMA InvInit == Init => IInv
BY TypeInit, StreamInit, ReaderInit DEF IInv

LEMMA InvStep == IInv /\ [Next]_vars => IInv'
BY TypeStep, StreamStep, ReaderStep DEF IInv

(* The stream is the sent frames one after the other, and the reader's buffer
   begins where the frame of the next line to write does (handle_client,
   parse_frames). *)
THEOREM FramingInvariant == Spec => []IInv
BY InvInit, InvStep, PTL DEF Spec

(* Whenever a reader waits, it has written exactly the lines whose frames have
   arrived: for every text with octet counting, and for lines without a line
   feed in the middle with newline framing, however the stream is cut. *)
THEOREM LinePerFrameTheorem == Spec => []LinePerFrame
<1>1. IInv => LinePerFrame
    <2> SUFFICES ASSUME IInv, AllFit, status # "parsing"
                 PROVE  out = [n \in Whole |-> Shown(sent[n])]
        BY DEF LinePerFrame, AllFit
    <2>1. TypeOK /\ StreamInv /\ InStep
        BY ReaderInvDef DEF IInv
    <2>2. Len(sent) \in Nat /\ out \in Seq(Seq(Bytes)) /\ Len(out) \in Nat /\ got \in Nat /\ sent \in Seq(Lines)
        BY <2>1 DEF TypeOK, Arriving
    <2> DEFINE k == Len(out)
    <2>3. /\ k \in 0 .. Len(sent) /\ EndOf(k) <= got
          /\ k < Len(sent) => got < EndOf(k + 1)
        BY <2>1, <2>2 DEF InStep
    <2>4. /\ \A n \in 0 .. Len(sent) : EndOf(n) \in Nat
          /\ \A m, n \in 0 .. Len(sent) : m < n => EndOf(m) < EndOf(n)
        BY <2>1, EndOfFacts
    <2> HIDE DEF k
    <2>5. \A n \in 1 .. Len(sent) : EndOf(n) <= got <=> n <= k
        <3> TAKE n \in 1 .. Len(sent)
        <3>1. CASE n <= k
            <4>1. n = k \/ EndOf(n) < EndOf(k)
                BY <2>2, <2>3, <2>4, <3>1
            <4> QED BY <2>2, <2>3, <2>4, <3>1, <4>1
        <3>2. CASE n > k
            <4> DEFINE j == k + 1
            <4>1. j \in 0 .. Len(sent) /\ got < EndOf(j) /\ (n = j \/ j < n)
                BY <2>2, <2>3, <3>2
            <4> HIDE DEF j
            <4>2. n = j \/ EndOf(j) < EndOf(n)
                BY <2>4, <4>1
            <4>3. EndOf(j) \in Nat /\ EndOf(n) \in Nat
                BY <2>4, <4>1
            <4>4. got < EndOf(n)
                BY <2>2, <4>1, <4>2, <4>3
            <4> QED BY <2>2, <2>3, <3>2, <4>3, <4>4
        <3> QED BY <2>3, <3>1, <3>2
    <2>6. Whole = 1 .. k
        BY <2>2, <2>3, <2>5 DEF Whole, EndOf
    <2>7. out = [n \in 1 .. k |-> out[n]]
        BY <2>2 DEF k
    <2>8. \A n \in 1 .. k : out[n] = Shown(sent[n])
        BY <2>1, <2>2 DEF InStep, AllShown, k
    <2> QED BY <2>6, <2>7, <2>8
<1> QED BY <1>1, FramingInvariant, PTL
=============================================================================

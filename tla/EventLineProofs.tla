--------------------------- MODULE EventLineProofs ---------------------------
(***************************************************************************)
(* The theorems about EventLine, for records of any number of fields with  *)
(* any texts.                                                              *)
(***************************************************************************)
EXTENDS EventLine, FiniteSetTheorems, SequenceTheorems, TLAPS

-----------------------------------------------------------------------------
(* Numbers, and recursion over them. *)

(* A set of natural numbers has a least element. *)
LEMMA LeastElement ==
    ASSUME NEW S \in SUBSET Nat, S # {}
    PROVE  \E x \in S : \A y \in S : x <= y
<1> DEFINE Segments == {0 .. x : x \in S}
           Order == StrictSubsetOrdering(Nat)
<1>1. Segments # {} /\ Segments \subseteq FiniteSubsetsOf(Nat)
    <2>1. \A x \in S : x \in Nat /\ IsFiniteSet(0 .. x) /\ 0 .. x \in SUBSET Nat
        BY FS_Interval
    <2> QED BY <2>1 DEF FiniteSubsetsOf
<1>2. IsWellFoundedOn(Order, FiniteSubsetsOf(Nat))
    BY FS_StrictSubsetOrderingWellFounded
<1>3. PICK U \in Segments : \A V \in Segments : ~(<<V, U>> \in Order)
    <2> HIDE DEF Order, Segments
    <2> QED BY <1>1, <1>2, WFMin
<1>4. PICK x \in S : U = 0 .. x
    OBVIOUS
<1>5. ASSUME NEW y \in S, y < x PROVE FALSE
    <2>1. 0 .. y \subseteq 0 .. x /\ x \notin 0 .. y /\ x \in 0 .. x
        BY <1>5
    <2>2. <<0 .. y, 0 .. x>> \in Order
        BY <2>1 DEF StrictSubsetOrdering
    <2> QED BY <2>2, <1>3, <1>4
<1> QED BY <1>5

(* The library's Max of some numbers up to n is one of them. *)
LEMMA MaxElement ==
    ASSUME NEW n \in Nat, NEW S \in SUBSET (0 .. n), S # {}
    PROVE  Max(S) \in S /\ \A y \in S : y <= Max(S)
<1> DEFINE Bounds == {b \in Nat : \A y \in S : y <= b}
<1>1. PICK b \in Bounds : \A c \in Bounds : b <= c
    <2>1. n \in Bounds /\ Bounds \in SUBSET Nat
        OBVIOUS
    <2> HIDE DEF Bounds
    <2> QED BY <2>1, LeastElement
<1>2. ASSUME b \notin S PROVE FALSE
    <2>1. \A y \in S : y \in Nat /\ y < b
        BY <1>2
    <2>2. PICK y \in S : y < b
        BY <2>1
    <2>3. b - 1 \in Nat /\ \A z \in S : z <= b - 1
        BY <2>1, <2>2
    <2>4. b - 1 \in Bounds
        BY <2>3
    <2> QED BY <1>1, <2>4
<1>3. b \in S /\ \A y \in S : b >= y
    BY <1>2
<1>4. PICK x \in S : x = Max(S) /\ \A y \in S : x >= y
    BY <1>3 DEF Max
<1> QED BY <1>4

LEMMA MaxIs == ASSUME NEW S, NEW x \in S, S \in SUBSET Nat, \A y \in S : y <= x PROVE Max(S) = x
<1>1. \A y \in S : y \in Nat
    OBVIOUS
<1>2. x \in S /\ \A y \in S : x >= y
    BY <1>1
<1>3. ASSUME NEW z \in S, \A y \in S : z >= y PROVE z = x
    <2>1. z >= x /\ z <= x
        BY <1>3
    <2> QED BY <1>1, <2>1
<1> QED BY <1>2, <1>3 DEF Max

LEMMA MinIs == ASSUME NEW S, NEW x \in S, S \in SUBSET Nat, \A y \in S : x <= y PROVE Min(S) = x
<1>1. \A y \in S : y \in Nat
    OBVIOUS
<1>2. x \in S /\ \A y \in S : x =< y
    BY <1>1
<1>3. ASSUME NEW z \in S, \A y \in S : z =< y PROVE z = x
    <2>1. z <= x /\ x <= z
        BY <1>3
    <2> QED BY <1>1, <2>1
<1> QED BY <1>2, <1>3 DEF Min

(* What holds of a number whenever it holds of all smaller ones. *)
LEMMA AllNumbers ==
    ASSUME NEW P \in SUBSET Nat,
           \A n \in Nat : (\A k \in 0 .. n - 1 : k \in P) => n \in P
    PROVE  P = Nat
<1> SUFFICES ASSUME Nat \ P # {} PROVE FALSE
    OBVIOUS
<1>1. PICK n \in Nat \ P : \A k \in Nat \ P : n <= k
    BY LeastElement
<1>2. \A k \in 0 .. n - 1 : k \in P
    BY <1>1
<1> QED BY <1>1, <1>2

(* A step from x0 on, and a function that takes it N times. *)
IsStep(N, T, x0, step) ==
    N \in Nat /\ x0 \in T /\ \A n \in 1 .. N, x \in T : step[<<n, x>>] \in T

Follows(h, N, x0, step) == h[0] = x0 /\ \A n \in 1 .. N : h[n] = step[<<n, h[n - 1]>>]

Agree(f, g, N) == \A n \in 0 .. N : f[n] = g[n]

(* There is such a function. *)
LEMMA Recursion ==
    ASSUME NEW N, NEW T, NEW x0, NEW step, IsStep(N, T, x0, step)
    PROVE  \E h \in [0 .. N -> T] : Follows(h, N, x0, step)
<1>0. N \in Nat /\ x0 \in T /\ \A n \in 1 .. N, x \in T : step[<<n, x>>] \in T
    BY DEF IsStep
<1> DEFINE Good(h, m) == h[0] = x0 /\ \A n \in 1 .. m : h[n] = step[<<n, h[n - 1]>>]
           P == {m \in Nat : m <= N => \E h \in [0 .. m -> T] : Good(h, m)}
<1>1. ASSUME NEW m \in Nat, \A k \in 0 .. m - 1 : k \in P PROVE m \in P
    <2>1. CASE m = 0
        <3>1. [n \in 0 .. 0 |-> x0] \in [0 .. 0 -> T] /\ Good([n \in 0 .. 0 |-> x0], 0)
            BY <1>0
        <3> QED BY <2>1, <3>1
    <2>2. CASE m > 0 /\ m <= N
        <3>0. m - 1 \in 0 .. m - 1 /\ m - 1 <= N
            BY <1>0, <2>2
        <3>2. PICK h \in [0 .. m - 1 -> T] : Good(h, m - 1)
            BY <1>1, <3>0
        <3> DEFINE g == [n \in 0 .. m |-> IF n < m THEN h[n] ELSE step[<<m, h[m - 1]>>]]
        <3>3. h[m - 1] \in T /\ step[<<m, h[m - 1]>>] \in T
            BY <1>0, <2>2
        <3>4. g \in [0 .. m -> T]
            BY <2>2, <3>3
        <3>5. ASSUME NEW n \in 1 .. m PROVE g[n] = step[<<n, g[n - 1]>>]
            <4>1. g[n - 1] = h[n - 1]
                OBVIOUS
            <4>2. CASE n < m
                <5>1. g[n] = h[n] /\ n \in 1 .. m - 1
                    BY <4>2
                <5>2. h[n] = step[<<n, h[n - 1]>>]
                    BY <5>1, <3>2
                <5> QED BY <4>1, <5>1, <5>2
            <4>3. CASE n = m
                <5>1. g[m] = step[<<m, h[m - 1]>>]
                    BY <2>2
                <5> QED BY <4>1, <4>3, <5>1
            <4> QED BY <4>2, <4>3
        <3>6. g[0] = x0
            BY <3>2, <2>2
        <3> QED BY <3>4, <3>5, <3>6
    <2> QED BY <2>1, <2>2
<1>2. P = Nat
    <2>1. P \in SUBSET Nat
        OBVIOUS
    <2> HIDE DEF P
    <2> QED BY <1>1, <2>1, AllNumbers
<1>3. N \in P
    BY <1>0, <1>2
<1> QED BY <1>0, <1>3 DEF Follows

(* There is only one. *)
LEMMA SameRecursion ==
    ASSUME NEW N \in Nat, NEW x0, NEW step, NEW f, NEW g,
           Follows(f, N, x0, step), Follows(g, N, x0, step)
    PROVE  Agree(f, g, N)
<1>0. /\ f[0] = g[0]
      /\ \A n \in 1 .. N : f[n] = step[<<n, f[n - 1]>>]
      /\ \A n \in 1 .. N : g[n] = step[<<n, g[n - 1]>>]
    BY DEF Follows
<1> DEFINE P == {n \in Nat : n <= N => f[n] = g[n]}
<1>1. ASSUME NEW n \in Nat, \A k \in 0 .. n - 1 : k \in P PROVE n \in P
    <2>1. CASE n = 0
        BY <1>0, <2>1
    <2>2. CASE n > 0 /\ n <= N
        <3>1. n \in 1 .. N /\ n - 1 \in 0 .. n - 1 /\ n - 1 <= N
            BY <2>2
        <3>2. f[n - 1] = g[n - 1]
            BY <3>1, <1>1
        <3>3. f[n] = g[n]
            BY <1>0, <3>1, <3>2
        <3> QED BY <3>3
    <2> QED BY <2>1, <2>2
<1>2. P = Nat
    <2>1. P \in SUBSET Nat
        OBVIOUS
    <2> HIDE DEF P
    <2> QED BY <1>1, <2>1, AllNumbers
<1> QED BY <1>2 DEF Agree

-----------------------------------------------------------------------------
(* Which keys a line has. *)

LEMMA Union == ASSUME NEW f, NEW g PROVE DOMAIN (f ++ g) = DOMAIN f \cup DOMAIN g
BY DEF ++

LEMMA CustomKeys == ASSUME NEW keys, NEW dates PROVE DOMAIN CustomFields(keys, dates) = keys
BY DEF CustomFields

LEMMA MappedKeys ==
    ASSUME NEW map, NEW dates, NEW i \in DOMAIN map, map[i][1] \in Valued
    PROVE  map[i][2] \in DOMAIN MappedFields(map, dates)
BY DEF MappedFields

(* A field with a value has a key of its map, or its own. *)
MapKeysFor(map, k) ==
    IF k \in MapKeys(map) THEN {map[i][2] : i \in {j \in DOMAIN map : map[j][1] = k}} ELSE {k}

LEMMA LoopsKeep ==
    ASSUME NEW map, NEW k \in Valued, NEW dates, NEW others, NEW base
    PROVE  MapKeysFor(map, k) \cap
               DOMAIN (CustomFields(Valued \ MapKeys(map), others) ++ MappedFields(map, dates) ++ base) # {}
<1> DEFINE custom == CustomFields(Valued \ MapKeys(map), others)
           mapped == MappedFields(map, dates)
<1>1. DOMAIN custom \cup DOMAIN mapped \subseteq DOMAIN (custom ++ mapped ++ base)
    <2>1. DOMAIN (custom ++ mapped) = DOMAIN custom \cup DOMAIN mapped
        BY Union
    <2>2. DOMAIN ((custom ++ mapped) ++ base) = DOMAIN (custom ++ mapped) \cup DOMAIN base
        BY Union
    <2> QED BY <2>1, <2>2
<1>2. CASE k \in MapKeys(map)
    <2>1. PICK i \in DOMAIN map : map[i][1] = k
        BY <1>2 DEF MapKeys
    <2>2. map[i][2] \in DOMAIN mapped
        BY <2>1, MappedKeys
    <2>3. map[i][2] \in MapKeysFor(map, k)
        BY <1>2, <2>1 DEF MapKeysFor
    <2> QED BY <1>1, <2>2, <2>3
<1>3. CASE k \notin MapKeys(map)
    <2>1. k \in DOMAIN custom /\ k \in MapKeysFor(map, k)
        BY <1>3, CustomKeys DEF MapKeysFor
    <2> QED BY <1>1, <2>1
<1> QED BY <1>2, <1>3

LEMMA LeefKeeps ==
    ASSUME format = "leef", NEW k \in Valued
    PROVE  KeysFor(k) \cap DOMAIN LeefFields # {}
BY LoopsKeep DEF KeysFor, LeefFields, MapKeysFor

LEMMA CefKeeps ==
    ASSUME format = "cef", NEW k \in Valued
    PROVE  KeysFor(k) \cap DOMAIN CefFields # {}
BY LoopsKeep DEF KeysFor, CefFields, MapKeysFor

LEMMA JsonKeeps == ASSUME NEW k \in Valued PROVE k \in DOMAIN JsonFields
<1> DEFINE times == EpochFields[stream] \cup PrimaryTimes[stream]
           own == [l \in {"_stream", "_ingested"} |-> As(Own, <<l>>)]
           dated == [l \in Valued \cap times |-> Iso(l)]
           rest == CustomFields(Valued \ times, {})
<1>1. JsonFields = (own ++ dated) ++ rest
    BY DEF JsonFields
<1>2. DOMAIN dated = Valued \cap times /\ DOMAIN rest = Valued \ times
    BY CustomKeys
<1> HIDE DEF own, dated, rest, times
<1>3. DOMAIN (own ++ dated) = DOMAIN own \cup DOMAIN dated
    BY Union
<1>4. DOMAIN ((own ++ dated) ++ rest) = DOMAIN (own ++ dated) \cup DOMAIN rest
    BY Union
<1> QED BY <1>1, <1>2, <1>3, <1>4

LEMMA QradarKeeps == ASSUME NEW k \in Valued PROVE k \in DOMAIN QradarFields
<1> DEFINE base == QradarBase
           rest == CustomFields(Valued \ DOMAIN base, {})
<1>1. QradarFields = base ++ rest
    BY DEF QradarFields
<1>2. DOMAIN rest = Valued \ DOMAIN base
    BY CustomKeys
<1> HIDE DEF base, rest
<1>3. DOMAIN (base ++ rest) = DOMAIN base \cup DOMAIN rest
    BY Union
<1> QED BY <1>1, <1>2, <1>3

(* Every field with a value reaches the line in all four formats, or another
   one has the key it would have (_build_leef, to_cef, to_json, to_qradar). *)
THEOREM NothingVanishesTheorem == Spec => []NothingVanishes
<1>1. Init => NothingVanishes
    BY DEF Init, NothingVanishes
<1>2. ASSUME NothingVanishes, [Next]_vars PROVE NothingVanishes'
    <2>1. CASE ToLeef
        <3>1. \A k \in Valued : KeysFor(k) \cap DOMAIN LeefFields # {}
            BY <2>1, LeefKeeps DEF ToLeef, Formatting
        <3>2. fields' = LeefFields /\ UNCHANGED <<format, stream, record>>
            BY <2>1 DEF ToLeef
        <3>3. \A k \in Valued' : KeysFor(k)' \cap DOMAIN fields' # {}
            BY <3>1, <3>2 DEF KeysFor, Valued
        <3> QED BY <3>3 DEF NothingVanishes
    <2>2. CASE ToCef
        <3>1. \A k \in Valued : KeysFor(k) \cap DOMAIN CefFields # {}
            BY <2>2, CefKeeps DEF ToCef, Formatting
        <3>2. fields' = CefFields /\ UNCHANGED <<format, stream, record>>
            BY <2>2 DEF ToCef
        <3>3. \A k \in Valued' : KeysFor(k)' \cap DOMAIN fields' # {}
            BY <3>1, <3>2 DEF KeysFor, Valued
        <3> QED BY <3>3 DEF NothingVanishes
    <2>3. CASE ToJson
        <3>1. fields' = JsonFields /\ record' = record /\ format' = "json"
            BY <2>3 DEF ToJson, Formatting
        <3>2. \A k \in Valued' : KeysFor(k)' = {k} /\ k \in DOMAIN fields'
            BY <3>1, JsonKeeps DEF KeysFor, Valued
        <3> QED BY <3>2 DEF NothingVanishes
    <2>4. CASE ToQradar
        <3>1. fields' = QradarFields /\ record' = record /\ format' = "qradar"
            BY <2>4 DEF ToQradar, Formatting
        <3>2. \A k \in Valued' : KeysFor(k)' = {k} /\ k \in DOMAIN fields'
            BY <3>1, QradarKeeps DEF KeysFor, Valued
        <3> QED BY <3>2 DEF NothingVanishes
    <2>5. CASE Refuse
        BY <2>5 DEF Refuse, NothingVanishes
    <2>6. CASE UNCHANGED vars
        BY <1>2, <2>6 DEF vars, NothingVanishes, KeysFor, Valued
    <2> QED BY <1>2, <2>1, <2>2, <2>3, <2>4, <2>5, <2>6 DEF Next
<1> QED BY <1>1, <1>2, PTL DEF Spec

-----------------------------------------------------------------------------
(* Which characters are escaped. *)

RunStep(s, n) == [p \in (1 .. n) \X Nat |-> IF s[p[1]] = "bs" THEN p[2] + 1 ELSE 0]

LEMMA RunSteps ==
    ASSUME NEW s, NEW n \in Nat, NEW m \in 1 .. n, NEW x \in Nat
    PROVE  RunStep(s, n)[<<m, x>>] = IF s[m] = "bs" THEN x + 1 ELSE 0
<1>1. <<m, x>> \in (1 .. n) \X Nat
    OBVIOUS
<1> QED BY <1>1 DEF RunStep

Runs(s, n, v) == v[0] = 0 /\ \A m \in 1 .. n : v[m] = IF s[m] = "bs" THEN v[m - 1] + 1 ELSE 0

(* The recursion of Backslashes has its values. *)
LEMMA RunValues ==
    ASSUME NEW s, NEW n \in Nat
    PROVE  \E v \in [0 .. n -> Nat] :
              Backslashes(s, n) = v[n] /\ Runs(s, n, v)
<1> DEFINE step == RunStep(s, n)
           run[m \in 0 .. n] == IF m > 0 /\ s[m] = "bs" THEN run[m - 1] + 1 ELSE 0
<1>1. PICK h \in [0 .. n -> Nat] : Follows(h, n, 0, step)
    <2>1. \A m \in 1 .. n, x \in Nat : step[<<m, x>>] \in Nat
        <3> TAKE m \in 1 .. n, x \in Nat
        <3>1. step[<<m, x>>] = IF s[m] = "bs" THEN x + 1 ELSE 0
            BY RunSteps
        <3> HIDE DEF step
        <3> QED BY <3>1
    <2> HIDE DEF step
    <2>2. IsStep(n, Nat, 0, step)
        BY <2>1 DEF IsStep
    <2> QED BY <2>2, Recursion
<1>2. \A m \in 1 .. n : h[m] = IF s[m] = "bs" THEN h[m - 1] + 1 ELSE 0
    <2> TAKE m \in 1 .. n
    <2>1. h[m - 1] \in Nat
        OBVIOUS
    <2>2. step[<<m, h[m - 1]>>] = IF s[m] = "bs" THEN h[m - 1] + 1 ELSE 0
        BY <2>1, RunSteps
    <2> HIDE DEF step
    <2> QED BY <1>1, <2>2 DEF Follows
<1>3. h[0] = 0
    BY <1>1 DEF Follows
<1>4. h = [m \in 0 .. n |-> IF m > 0 /\ s[m] = "bs" THEN h[m - 1] + 1 ELSE 0]
    <2>1. ASSUME NEW m \in 0 .. n PROVE h[m] = IF m > 0 /\ s[m] = "bs" THEN h[m - 1] + 1 ELSE 0
        BY <1>2, <1>3
    <2> QED BY <2>1
<1>5. run = [m \in 0 .. n |-> IF m > 0 /\ s[m] = "bs" THEN run[m - 1] + 1 ELSE 0]
    BY <1>4
<1>6. Backslashes(s, n) = run[n]
    BY DEF Backslashes
<1> HIDE DEF run
<1>7. run[0] = 0 /\ \A m \in 1 .. n : run[m] = IF s[m] = "bs" THEN run[m - 1] + 1 ELSE 0
    BY <1>5
<1>8. \A m \in 0 .. n : run[m] = h[m]
    <2> DEFINE P == {m \in Nat : m <= n => run[m] = h[m]}
    <2>1. ASSUME NEW m \in Nat, \A k \in 0 .. m - 1 : k \in P PROVE m \in P
        <3>1. CASE m = 0
            BY <1>3, <1>7, <3>1
        <3>2. CASE m > 0 /\ m <= n
            <4>1. m - 1 \in 0 .. m - 1 /\ m - 1 <= n /\ m \in 1 .. n
                BY <3>2
            <4>2. run[m - 1] = h[m - 1]
                BY <2>1, <4>1
            <4>3. run[m] = h[m]
                BY <1>2, <1>7, <4>1, <4>2
            <4> QED BY <4>3
        <3> QED BY <3>1, <3>2
    <2>2. P \in SUBSET Nat
        OBVIOUS
    <2> HIDE DEF P
    <2>3. P = Nat
        BY <2>1, <2>2, AllNumbers
    <2> QED BY <2>3 DEF P
<1> QED BY <1>2, <1>3, <1>6, <1>8 DEF Runs

LEMMA Parity == \A x \in Nat : (x + 1) % 2 = 1 <=> x % 2 # 1
OBVIOUS

(* A character is escaped if a backslash that is not precedes it. *)
LEMMA EscapingFacts ==
    ASSUME NEW s, NEW n \in Nat
    PROVE  /\ ~Escaping(s, 0)
           /\ Escaping(s, n + 1) <=> s[n + 1] = "bs" /\ ~Escaping(s, n)
<1>1. Backslashes(s, 0) = 0
    <2>1. PICK v \in [0 .. 0 -> Nat] : Backslashes(s, 0) = v[0] /\ Runs(s, 0, v)
        BY RunValues
    <2> QED BY <2>1 DEF Runs
<1>2. PICK v \in [0 .. n -> Nat] : Backslashes(s, n) = v[n] /\ Runs(s, n, v)
    BY RunValues
<1> DEFINE N == n + 1
<1>3. PICK w \in [0 .. N -> Nat] : Backslashes(s, N) = w[N] /\ Runs(s, N, w)
    <2>1. N \in Nat
        OBVIOUS
    <2> HIDE DEF N
    <2> QED BY <2>1, RunValues
<1>4. \A m \in 0 .. n : v[m] = w[m]
    <2> DEFINE P == {m \in Nat : m <= n => v[m] = w[m]}
    <2>1. ASSUME NEW m \in Nat, \A k \in 0 .. m - 1 : k \in P PROVE m \in P
        <3>1. CASE m = 0
            BY <1>2, <1>3, <3>1 DEF Runs
        <3>2. CASE m > 0 /\ m <= n
            <4>1. m - 1 \in 0 .. m - 1 /\ m - 1 <= n /\ m \in 1 .. n /\ m \in 1 .. N
                BY <3>2
            <4>2. v[m - 1] = w[m - 1]
                BY <2>1, <4>1
            <4>3. v[m] = w[m]
                BY <1>2, <1>3, <4>1, <4>2 DEF Runs
            <4> QED BY <4>3
        <3> QED BY <3>1, <3>2
    <2>2. P \in SUBSET Nat
        OBVIOUS
    <2> HIDE DEF P
    <2>3. P = Nat
        BY <2>1, <2>2, AllNumbers
    <2> QED BY <2>3 DEF P
<1>5. w[N] = IF s[N] = "bs" THEN w[n] + 1 ELSE 0
    <2>1. N \in 1 .. N /\ N - 1 = n
        OBVIOUS
    <2> QED BY <1>3, <2>1 DEF Runs
<1>6. w[n] = v[n] /\ v[n] \in Nat
    BY <1>4
<1>7. (v[n] + 1) % 2 = 1 <=> v[n] % 2 # 1
    BY <1>6, Parity
<1>8. Escaping(s, N) <=> s[N] = "bs" /\ ~Escaping(s, n)
    BY <1>2, <1>3, <1>5, <1>6, <1>7 DEF Escaping
<1> QED BY <1>1, <1>8 DEF Escaping

LEMMA SomeChars ==
    "bs" \in Chars /\ "eq" \in Chars /\ "pipe" \in Chars /\ "sp" \in Chars /\ "lf" \in Chars /\ "cr" \in Chars
BY DEF Chars, Special

LEMMA ShortTexts ==
    ASSUME NEW a \in Chars, NEW b \in Chars
    PROVE  /\ <<>> \in Text
           /\ <<a>> \in Text /\ Len(<<a>>) = 1 /\ <<a>>[1] = a
           /\ <<a, b>> \in Text /\ Len(<<a, b>>) = 2 /\ <<a, b>>[1] = a /\ <<a, b>>[2] = b
           /\ <<a>> \o <<b>> = <<a, b>>
<1>1. /\ <<>> \in Text /\ <<a>> \in Text /\ <<a, b>> \in Text
      /\ Len(<<a>>) = 1 /\ <<a>>[1] = a /\ Len(<<a, b>>) = 2 /\ <<a, b>>[1] = a /\ <<a, b>>[2] = b
    BY DEF Text
<1>2. <<a>> \o <<b>> = Append(<<a>>, b)
    BY <1>1, AppendIsConcat DEF Text
<1>3. Append(<<a>>, b) = <<a, b>>
    <2> DEFINE u == Append(<<a>>, b)
               v == <<a, b>>
    <2>1. u \in Text /\ Len(u) = 2 /\ u[1] = a /\ u[2] = b
        BY <1>1, AppendProperties DEF Text
    <2>2. v \in Text /\ Len(v) = 2 /\ v[1] = a /\ v[2] = b
        BY <1>1
    <2> HIDE DEF u, v
    <2>3. \A i \in 1 .. Len(u) : u[i] = v[i]
        <3> TAKE i \in 1 .. Len(u)
        <3>1. i = 1 \/ i = 2
            BY <2>1
        <3> QED BY <2>1, <2>2, <3>1
    <2>4. u = v
        BY <2>1, <2>2, <2>3, SeqEqual DEF Text
    <2> QED BY <2>4 DEF u, v
<1> QED BY <1>1, <1>2, <1>3

(* No character that follows s is escaped by it. *)
Closed(s) == ~Escaping(s, Len(s))

(* No c in s is bare. *)
Covered(s, c) == \A i \in 1 .. Len(s) : s[i] = c => Escaping(s, i - 1)

LEMMA Concat ==
    ASSUME NEW s \in Text, NEW t \in Text
    PROVE  /\ s \o t \in Text
           /\ Len(s \o t) = Len(s) + Len(t)
           /\ Len(s) \in Nat /\ Len(t) \in Nat
           /\ \A i \in 1 .. Len(s) : (s \o t)[i] = s[i]
           /\ \A i \in 1 .. Len(t) : (s \o t)[Len(s) + i] = t[i]
<1>1. /\ s \o t \in Text /\ Len(s \o t) = Len(s) + Len(t)
      /\ \A i \in 1 .. Len(s) + Len(t) : (s \o t)[i] = IF i <= Len(s) THEN s[i] ELSE t[i - Len(s)]
    BY ConcatProperties DEF Text
<1>2. Len(s) \in Nat /\ Len(t) \in Nat
    BY DEF Text
<1>3. ASSUME NEW i \in 1 .. Len(s) PROVE (s \o t)[i] = s[i]
    BY <1>1, <1>2
<1>4. ASSUME NEW i \in 1 .. Len(t) PROVE (s \o t)[Len(s) + i] = t[i]
    <2> DEFINE j == Len(s) + i
    <2>1. j \in 1 .. Len(s) + Len(t) /\ ~(j <= Len(s)) /\ j - Len(s) = i
        BY <1>2
    <2> HIDE DEF j
    <2>2. (s \o t)[j] = t[j - Len(s)]
        BY <1>1, <2>1
    <2> QED BY <2>1, <2>2 DEF j
<1> QED BY <1>1, <1>2, <1>3, <1>4

(* What follows does not change what is escaped. *)
LEMMA EscapingPrefix ==
    ASSUME NEW s \in Text, NEW t \in Text
    PROVE  \A n \in 0 .. Len(s) : Escaping(s \o t, n) <=> Escaping(s, n)
<1> DEFINE u == s \o t
           P == {n \in Nat : n <= Len(s) => (Escaping(u, n) <=> Escaping(s, n))}
<1>0. Len(s) \in Nat /\ \A i \in 1 .. Len(s) : u[i] = s[i]
    BY Concat
<1> HIDE DEF u
<1>1. ASSUME NEW n \in Nat, \A k \in 0 .. n - 1 : k \in P PROVE n \in P
    <2>1. CASE n = 0
        BY <2>1, EscapingFacts
    <2>2. CASE n > 0 /\ n <= Len(s)
        <3> DEFINE m == n - 1
        <3>1. m \in Nat /\ m \in 0 .. n - 1 /\ m <= Len(s) /\ m + 1 = n /\ n \in 1 .. Len(s)
            BY <1>0, <2>2
        <3>2. Escaping(u, m) <=> Escaping(s, m)
            BY <1>1, <3>1
        <3> HIDE DEF m
        <3>3. /\ Escaping(u, m + 1) <=> u[m + 1] = "bs" /\ ~Escaping(u, m)
              /\ Escaping(s, m + 1) <=> s[m + 1] = "bs" /\ ~Escaping(s, m)
            BY <3>1, EscapingFacts
        <3> QED BY <1>0, <3>1, <3>2, <3>3
    <2> QED BY <1>0, <2>1, <2>2
<1>2. P \in SUBSET Nat
    OBVIOUS
<1> HIDE DEF P
<1>3. P = Nat
    BY <1>1, <1>2, AllNumbers
<1> QED BY <1>0, <1>3 DEF P, u

(* Nor does what precedes, if it is closed. *)
LEMMA EscapingSuffix ==
    ASSUME NEW s \in Text, NEW t \in Text, Closed(s)
    PROVE  \A n \in 0 .. Len(t) : Escaping(s \o t, Len(s) + n) <=> Escaping(t, n)
<1> DEFINE u == s \o t
           l == Len(s)
           P == {n \in Nat : n <= Len(t) => (Escaping(u, l + n) <=> Escaping(t, n))}
<1>0. l \in Nat /\ Len(t) \in Nat /\ \A i \in 1 .. Len(t) : u[l + i] = t[i]
    BY Concat
<1>00. ~Escaping(u, l)
    <2>1. l \in 0 .. Len(s)
        BY <1>0
    <2>2. \A n \in 0 .. Len(s) : Escaping(u, n) <=> Escaping(s, n)
        BY EscapingPrefix
    <2> HIDE DEF u
    <2> QED BY <2>1, <2>2 DEF Closed
<1> HIDE DEF u, l
<1>1. ASSUME NEW n \in Nat, \A k \in 0 .. n - 1 : k \in P PROVE n \in P
    <2>1. CASE n = 0
        <3>1. l + 0 = l
            BY <1>0
        <3> QED BY <2>1, <3>1, <1>00, EscapingFacts
    <2>2. CASE n > 0 /\ n <= Len(t)
        <3> DEFINE m == n - 1
                   j == l + m
        <3>1. /\ m \in Nat /\ m \in 0 .. n - 1 /\ m <= Len(t) /\ m + 1 = n /\ n \in 1 .. Len(t)
              /\ j \in Nat /\ j + 1 = l + n
            BY <1>0, <2>2
        <3>2. Escaping(u, j) <=> Escaping(t, m)
            BY <1>1, <3>1
        <3> HIDE DEF m, j
        <3>3. /\ Escaping(u, j + 1) <=> u[j + 1] = "bs" /\ ~Escaping(u, j)
              /\ Escaping(t, m + 1) <=> t[m + 1] = "bs" /\ ~Escaping(t, m)
            BY <3>1, EscapingFacts
        <3>4. u[l + n] = t[n]
            BY <1>0, <3>1
        <3>5. Escaping(u, l + n) <=> Escaping(t, n)
            BY <3>1, <3>2, <3>3, <3>4
        <3> QED BY <3>5
    <2> QED BY <1>0, <2>1, <2>2
<1>2. P \in SUBSET Nat
    OBVIOUS
<1> HIDE DEF P
<1>3. P = Nat
    BY <1>1, <1>2, AllNumbers
<1>4. \A n \in 0 .. Len(t) : Escaping(u, l + n) <=> Escaping(t, n)
    <2> TAKE n \in 0 .. Len(t)
    <2>1. n \in P /\ n <= Len(t)
        BY <1>0, <1>3
    <2> QED BY <2>1 DEF P
<1> QED BY <1>4 DEF u, l

LEMMA ClosedConcat ==
    ASSUME NEW s \in Text, NEW t \in Text, Closed(s), Closed(t)
    PROVE  Closed(s \o t)
<1>1. Len(t) \in 0 .. Len(t) /\ Len(s \o t) = Len(s) + Len(t)
    BY Concat
<1> QED BY <1>1, EscapingSuffix DEF Closed

(* Where c is bare in s \o t. *)
LEMMA BareConcat ==
    ASSUME NEW s \in Text, NEW t \in Text, Closed(s), NEW c
    PROVE  /\ \A i \in 1 .. Len(s) : i \in Bare(s \o t, c) <=> i \in Bare(s, c)
           /\ \A i \in 1 .. Len(t) : Len(s) + i \in Bare(s \o t, c) <=> i \in Bare(t, c)
<1> DEFINE u == s \o t
<1>0. /\ u \in Text /\ Len(u) = Len(s) + Len(t) /\ Len(s) \in Nat /\ Len(t) \in Nat
      /\ \A i \in 1 .. Len(s) : u[i] = s[i]
      /\ \A i \in 1 .. Len(t) : u[Len(s) + i] = t[i]
    BY Concat
<1>1. DOMAIN u = 1 .. Len(u) /\ DOMAIN s = 1 .. Len(s) /\ DOMAIN t = 1 .. Len(t)
    BY <1>0 DEF Text
<1>2. \A n \in 0 .. Len(s) : Escaping(u, n) <=> Escaping(s, n)
    BY EscapingPrefix
<1>3. \A n \in 0 .. Len(t) : Escaping(u, Len(s) + n) <=> Escaping(t, n)
    BY EscapingSuffix
<1> HIDE DEF u
<1>4. ASSUME NEW i \in 1 .. Len(s) PROVE i \in Bare(u, c) <=> i \in Bare(s, c)
    <2>1. i \in DOMAIN u /\ i \in DOMAIN s /\ i - 1 \in 0 .. Len(s)
        BY <1>0, <1>1
    <2>2. u[i] = s[i] /\ (Escaping(u, i - 1) <=> Escaping(s, i - 1))
        BY <1>0, <1>2, <2>1
    <2> QED BY <2>1, <2>2 DEF Bare
<1>5. ASSUME NEW i \in 1 .. Len(t) PROVE Len(s) + i \in Bare(u, c) <=> i \in Bare(t, c)
    <2> DEFINE j == Len(s) + i
               m == i - 1
    <2>1. j \in DOMAIN u /\ i \in DOMAIN t /\ m \in 0 .. Len(t) /\ j - 1 = Len(s) + m
        BY <1>0, <1>1
    <2>2. u[j] = t[i] /\ (Escaping(u, j - 1) <=> Escaping(t, m))
        BY <1>0, <1>3, <2>1
    <2> HIDE DEF j
    <2>3. j \in Bare(u, c) <=> i \in Bare(t, c)
        BY <2>1, <2>2 DEF Bare
    <2> QED BY <2>3 DEF j
<1> QED BY <1>4, <1>5 DEF u

LEMMA CoveredBare ==
    ASSUME NEW s \in Text, NEW c
    PROVE  Covered(s, c) <=> Bare(s, c) = {}
BY DEF Covered, Bare, Text

LEMMA CoveredConcat ==
    ASSUME NEW s \in Text, NEW t \in Text, NEW c, Closed(s), Covered(s, c), Covered(t, c)
    PROVE  Covered(s \o t, c)
<1> DEFINE u == s \o t
<1>1. u \in Text /\ Len(u) = Len(s) + Len(t) /\ Len(s) \in Nat /\ Len(t) \in Nat
    BY Concat
<1>2. Bare(s, c) = {} /\ Bare(t, c) = {}
    BY CoveredBare
<1>3. ASSUME NEW i \in Bare(u, c) PROVE FALSE
    <2>1. i \in 1 .. Len(u)
        BY <1>1 DEF Bare, Text
    <2>2. CASE i <= Len(s)
        <3>1. i \in 1 .. Len(s)
            BY <1>1, <2>1, <2>2
        <3> QED BY <1>2, <1>3, <3>1, BareConcat
    <2>3. CASE i > Len(s)
        <3> DEFINE j == i - Len(s)
        <3>1. j \in 1 .. Len(t) /\ Len(s) + j = i
            BY <1>1, <2>1, <2>3
        <3> HIDE DEF j
        <3> QED BY <1>2, <1>3, <3>1, BareConcat
    <2> QED BY <1>1, <2>1, <2>2, <2>3
<1>4. Bare(u, c) = {}
    BY <1>3
<1> HIDE DEF u
<1>5. Covered(u, c)
    BY <1>1, <1>4, CoveredBare
<1> QED BY <1>5 DEF u

-----------------------------------------------------------------------------
(* Sequences of texts one after the other. *)

FlatStep(T, seqs) == [p \in (1 .. Len(seqs)) \X Seq(T) |-> p[2] \o seqs[p[1]]]

Flattens(v, seqs) == v[0] = <<>> /\ \A n \in 1 .. Len(seqs) : v[n] = v[n - 1] \o seqs[n]

LEMMA FlatSteps ==
    ASSUME NEW T, NEW seqs \in Seq(Seq(T)), NEW n \in 1 .. Len(seqs), NEW x \in Seq(T)
    PROVE  /\ FlatStep(T, seqs)[<<n, x>>] = x \o seqs[n]
           /\ FlatStep(T, seqs)[<<n, x>>] \in Seq(T)
<1>1. <<n, x>> \in (1 .. Len(seqs)) \X Seq(T)
    OBVIOUS
<1>2. FlatStep(T, seqs)[<<n, x>>] = x \o seqs[n]
    BY <1>1 DEF FlatStep
<1>3. seqs[n] \in Seq(T)
    OBVIOUS
<1>4. x \o seqs[n] \in Seq(T)
    BY <1>3, ConcatProperties
<1> QED BY <1>2, <1>4

(* FlattenSeq's recursion has its values. *)
LEMMA FlattenValues ==
    ASSUME NEW T, NEW seqs \in Seq(Seq(T))
    PROVE  \E v \in [0 .. Len(seqs) -> Seq(T)] : FlattenSeq(seqs) = v[Len(seqs)] /\ Flattens(v, seqs)
<1> DEFINE N == Len(seqs)
           step == FlatStep(T, seqs)
           flatten[i \in 1 .. Len(seqs)] == IF i = 1 THEN seqs[i] ELSE flatten[i - 1] \o seqs[i]
<1>0. N \in Nat /\ <<>> \in Seq(T)
    OBVIOUS
<1>1. PICK h \in [0 .. N -> Seq(T)] : Follows(h, N, <<>>, step)
    <2>1. \A n \in 1 .. N, x \in Seq(T) : step[<<n, x>>] \in Seq(T)
        BY FlatSteps
    <2> HIDE DEF step, N
    <2>2. IsStep(N, Seq(T), <<>>, step)
        BY <1>0, <2>1 DEF IsStep
    <2> QED BY <2>2, Recursion
<1>2. \A n \in 1 .. N : h[n - 1] \in Seq(T) /\ h[n] = h[n - 1] \o seqs[n]
    <2> TAKE n \in 1 .. N
    <2>0. n - 1 \in 0 .. N
        BY <1>0
    <2>1. h[n - 1] \in Seq(T)
        BY <2>0
    <2>2. step[<<n, h[n - 1]>>] = h[n - 1] \o seqs[n]
        BY <2>1, FlatSteps
    <2> HIDE DEF step, N
    <2>3. h[n] = step[<<n, h[n - 1]>>]
        BY <1>1 DEF Follows
    <2> QED BY <2>1, <2>2, <2>3
<1>3. h[0] = <<>>
    BY <1>1 DEF Follows
<1>4. Flattens(h, seqs)
    BY <1>2, <1>3 DEF Flattens
<1>5. CASE N = 0
    <2>1. FlattenSeq(seqs) = <<>>
        BY <1>5 DEF FlattenSeq
    <2> QED BY <1>3, <1>4, <1>5, <2>1
<1>6. CASE N # 0
    <2> DEFINE f == [i \in 1 .. Len(seqs) |-> h[i]]
    <2>1. h[1] = seqs[1]
        <3>1. 1 \in 1 .. N /\ seqs[1] \in Seq(T) /\ 1 - 1 = 0
            BY <1>0, <1>6
        <3>2. h[1] = <<>> \o seqs[1]
            BY <1>2, <1>3, <3>1
        <3> QED BY <3>1, <3>2, ConcatEmptySeq
    <2>2. ASSUME NEW i \in 1 .. Len(seqs)
          PROVE  f[i] = IF i = 1 THEN seqs[i] ELSE f[i - 1] \o seqs[i]
        <3>1. CASE i = 1
            BY <2>1, <3>1
        <3>2. CASE i # 1
            <4>1. i - 1 \in 1 .. Len(seqs) /\ f[i - 1] = h[i - 1] /\ f[i] = h[i]
                BY <3>2
            <4> QED BY <1>2, <3>2, <4>1
        <3> QED BY <3>1, <3>2
    <2>3. f = [i \in 1 .. Len(seqs) |-> IF i = 1 THEN seqs[i] ELSE f[i - 1] \o seqs[i]]
        BY <2>2
    <2>4. flatten = [i \in 1 .. Len(seqs) |-> IF i = 1 THEN seqs[i] ELSE flatten[i - 1] \o seqs[i]]
        <3> HIDE DEF f
        <3> QED BY <2>3
    <2>5. FlattenSeq(seqs) = flatten[Len(seqs)]
        BY <1>6 DEF FlattenSeq
    <2> HIDE DEF flatten
    <2>6. ASSUME NEW i \in 1 .. N PROVE flatten[i] = IF i = 1 THEN seqs[i] ELSE flatten[i - 1] \o seqs[i]
        BY <2>4
    <2>7. \A i \in 1 .. N : flatten[i] = h[i]
        <3> DEFINE P == {i \in Nat : i \in 1 .. N => flatten[i] = h[i]}
        <3>1. ASSUME NEW i \in Nat, \A k \in 0 .. i - 1 : k \in P PROVE i \in P
            <4>1. CASE i = 1
                BY <2>1, <2>6, <4>1
            <4>2. CASE i > 1 /\ i <= N
                <5>1. i - 1 \in 0 .. i - 1 /\ i - 1 \in 1 .. N /\ i \in 1 .. N
                    BY <4>2
                <5>2. flatten[i - 1] = h[i - 1]
                    BY <3>1, <5>1
                <5>3. flatten[i] = flatten[i - 1] \o seqs[i]
                    <6>1. i # 1
                        BY <4>2
                    <6>2. flatten[i] = IF i = 1 THEN seqs[i] ELSE flatten[i - 1] \o seqs[i]
                        BY <2>6, <5>1
                    <6> QED BY <6>1, <6>2
                <5>4. flatten[i] = h[i]
                    BY <1>2, <5>1, <5>2, <5>3
                <5> QED BY <5>4
            <4> QED BY <4>1, <4>2
        <3>2. P \in SUBSET Nat
            OBVIOUS
        <3> HIDE DEF P
        <3>3. P = Nat
            BY <3>1, <3>2, AllNumbers
        <3> QED BY <3>3, SMTT(30) DEF P
    <2>8. FlattenSeq(seqs) = h[N]
        BY <1>0, <1>6, <2>5, <2>7
    <2> QED BY <1>4, <2>8
<1> QED BY <1>5, <1>6

(* FlattenSeq gives the elements one after the other. *)
LEMMA FlattenFacts ==
    ASSUME NEW T, NEW seqs \in Seq(Seq(T))
    PROVE  /\ FlattenSeq(seqs) \in Seq(T)
           /\ seqs = <<>> => FlattenSeq(seqs) = <<>>
           /\ \A s \in Seq(T) : FlattenSeq(Append(seqs, s)) = FlattenSeq(seqs) \o s
<1> DEFINE N == Len(seqs)
<1>1. PICK v \in [0 .. N -> Seq(T)] : FlattenSeq(seqs) = v[N] /\ Flattens(v, seqs)
    BY FlattenValues
<1>2. N \in Nat /\ v[N] \in Seq(T)
    OBVIOUS
<1>3. seqs = <<>> => FlattenSeq(seqs) = <<>>
    BY <1>1 DEF Flattens
<1>4. ASSUME NEW s \in Seq(T) PROVE FlattenSeq(Append(seqs, s)) = FlattenSeq(seqs) \o s
    <2> DEFINE all == Append(seqs, s)
               M == N + 1
               step == FlatStep(T, seqs)
    <2>1. /\ all \in Seq(Seq(T)) /\ Len(all) = M /\ all[M] = s
          /\ \A n \in 1 .. N : all[n] = seqs[n]
        OBVIOUS
    <2>2. PICK w \in [0 .. M -> Seq(T)] : FlattenSeq(all) = w[M] /\ Flattens(w, all)
        <3> HIDE DEF all, M
        <3>1. \E w \in [0 .. Len(all) -> Seq(T)] : FlattenSeq(all) = w[Len(all)] /\ Flattens(w, all)
            BY <2>1, FlattenValues
        <3> QED BY <2>1, <3>1
    <2>3. \A n \in 1 .. N : step[<<n, v[n - 1]>>] = v[n - 1] \o seqs[n]
        <3> TAKE n \in 1 .. N
        <3>0. n - 1 \in 0 .. N /\ n - 1 \in 0 .. M
            BY <1>2
        <3>1. v[n - 1] \in Seq(T)
            BY <3>0
        <3> QED BY <3>1, FlatSteps
    <2>4. \A n \in 1 .. N : step[<<n, w[n - 1]>>] = w[n - 1] \o seqs[n]
        <3> TAKE n \in 1 .. N
        <3>0. n - 1 \in 0 .. N /\ n - 1 \in 0 .. M
            BY <1>2
        <3>1. w[n - 1] \in Seq(T)
            BY <3>0
        <3> QED BY <3>1, FlatSteps
    <2> HIDE DEF all, step
    <2>5. Follows(v, N, <<>>, step)
        BY <1>1, <2>3 DEF Flattens, Follows
    <2>6. \A n \in 1 .. N : n \in 1 .. Len(all)
        BY <1>2, <2>1
    <2>7. Follows(w, N, <<>>, step)
        BY <2>1, <2>2, <2>4, <2>6 DEF Flattens, Follows
    <2>8. Agree(v, w, N)
        <3> HIDE DEF N
        <3> QED BY <1>2, <2>5, <2>7, SameRecursion
    <2>9. v[N] = w[N]
        BY <1>2, <2>8 DEF Agree
    <2>10. w[M] = w[N] \o s
        <3>1. M \in 1 .. Len(all) /\ M - 1 = N
            BY <1>2, <2>1
        <3> QED BY <2>1, <2>2, <3>1 DEF Flattens
    <2> QED BY <1>1, <2>2, <2>9, <2>10 DEF all
<1> QED BY <1>1, <1>2, <1>3, <1>4

LEMMA ConcatAppend ==
    ASSUME NEW T, NEW a \in Seq(T), NEW b \in Seq(T), NEW x \in T
    PROVE  a \o Append(b, x) = Append(a \o b, x)
<1>1. <<x>> \in Seq(T) /\ a \o b \in Seq(T)
    BY ConcatProperties
<1>2. Append(b, x) = b \o <<x>> /\ Append(a \o b, x) = (a \o b) \o <<x>>
    BY <1>1, AppendIsConcat
<1>3. a \o (b \o <<x>>) = (a \o b) \o <<x>>
    BY <1>1, ConcatAssociative
<1> QED BY <1>2, <1>3

(* When a sequence is two others one after the other. *)
LEMMA SplitAt ==
    ASSUME NEW T, NEW a \in Seq(T), NEW b \in Seq(T), NEW d \in Seq(T),
           Len(d) = Len(a) + Len(b),
           \A i \in 1 .. Len(a) : d[i] = a[i],
           \A i \in 1 .. Len(b) : d[Len(a) + i] = b[i]
    PROVE  d = a \o b
<1>1. /\ a \o b \in Seq(T) /\ Len(a \o b) = Len(a) + Len(b) /\ Len(a) \in Nat /\ Len(b) \in Nat
      /\ \A i \in 1 .. Len(a) + Len(b) : (a \o b)[i] = IF i <= Len(a) THEN a[i] ELSE b[i - Len(a)]
    BY ConcatProperties
<1>2. ASSUME NEW i \in 1 .. Len(d) PROVE d[i] = (a \o b)[i]
    <2>1. CASE i <= Len(a)
        <3>1. i \in 1 .. Len(a)
            BY <2>1
        <3> QED BY <1>1, <2>1, <3>1
    <2>2. CASE i > Len(a)
        <3> DEFINE j == i - Len(a)
        <3>1. j \in 1 .. Len(b) /\ Len(a) + j = i /\ ~(i <= Len(a)) /\ i \in 1 .. Len(a) + Len(b)
            BY <1>1, <2>2
        <3> HIDE DEF j
        <3>2. d[i] = b[j]
            BY <3>1
        <3>3. (a \o b)[i] = b[i - Len(a)]
            BY <1>1, <3>1
        <3> QED BY <3>2, <3>3 DEF j
    <2> QED BY <1>1, <2>1, <2>2
<1> QED BY <1>1, <1>2, SeqEqual

LEMMA FlattenConcat ==
    ASSUME NEW T, NEW a \in Seq(Seq(T)), NEW b \in Seq(Seq(T))
    PROVE  FlattenSeq(a \o b) = FlattenSeq(a) \o FlattenSeq(b)
<1> DEFINE Good(c) == FlattenSeq(a \o c) = FlattenSeq(a) \o FlattenSeq(c)
           P == {n \in Nat : \A c \in Seq(Seq(T)) : Len(c) = n => Good(c)}
<1>0. \A c \in Seq(Seq(T)) : FlattenSeq(c) \in Seq(T) /\ Len(c) \in Nat
    BY FlattenFacts
<1>1. ASSUME NEW n \in Nat, \A k \in 0 .. n - 1 : k \in P PROVE n \in P
    <2> SUFFICES ASSUME NEW c \in Seq(Seq(T)), Len(c) = n PROVE Good(c)
        OBVIOUS
    <2>1. CASE c = <<>>
        <3>1. FlattenSeq(c) = <<>> /\ a \o c = a
            BY <2>1, FlattenFacts, ConcatEmptySeq
        <3> QED BY <1>0, <3>1, ConcatEmptySeq
    <2>2. CASE c # <<>>
        <3>1. PICK d \in Seq(Seq(T)), x \in Seq(T) : c = Append(d, x)
            BY <2>2, SequenceEmptyOrAppend
        <3>2. Len(d) \in 0 .. n - 1
            BY <3>1, AppendProperties
        <3>3. Good(d)
            BY <1>1, <3>2
        <3>4. a \o c = Append(a \o d, x) /\ a \o d \in Seq(Seq(T))
            <4>1. a \o c = Append(a \o d, x)
                BY <3>1, ConcatAppend
            <4>2. a \o d \in Seq(Seq(T))
                BY ConcatProperties
            <4> QED BY <4>1, <4>2
        <3>5. FlattenSeq(a \o c) = FlattenSeq(a \o d) \o x
            BY <3>4, FlattenFacts
        <3>6. FlattenSeq(c) = FlattenSeq(d) \o x
            BY <3>1, FlattenFacts
        <3>7. (FlattenSeq(a) \o FlattenSeq(d)) \o x = FlattenSeq(a) \o (FlattenSeq(d) \o x)
            <4>1. FlattenSeq(a) \in Seq(T) /\ FlattenSeq(d) \in Seq(T) /\ x \in Seq(T)
                BY <1>0
            <4> QED BY <4>1, ConcatAssociative, SMTT(30)
        <3> QED BY <3>3, <3>5, <3>6, <3>7
    <2> QED BY <2>1, <2>2
<1>2. P \in SUBSET Nat
    OBVIOUS
<1> HIDE DEF P
<1>3. P = Nat
    BY <1>1, <1>2, AllNumbers
<1>4. \A c \in Seq(Seq(T)) : Good(c)
    BY <1>0, <1>3 DEF P
<1> QED BY <1>4

LEMMA TwoElements ==
    ASSUME NEW R, NEW a \in R, NEW b \in R
    PROVE  <<a, b>> \in Seq(R) /\ Append(<<a>>, b) = <<a, b>>
<1> DEFINE u == Append(<<a>>, b)
           v == <<a, b>>
<1>1. u \in Seq(R) /\ Len(u) = 2 /\ u[1] = a /\ u[2] = b
    BY AppendProperties
<1>2. v \in Seq(R) /\ Len(v) = 2 /\ v[1] = a /\ v[2] = b
    OBVIOUS
<1> HIDE DEF u, v
<1>3. \A i \in 1 .. Len(u) : u[i] = v[i]
    <2> TAKE i \in 1 .. Len(u)
    <2>1. i = 1 \/ i = 2
        BY <1>1
    <2> QED BY <1>1, <1>2, <2>1
<1>4. u = v
    BY <1>1, <1>2, <1>3, SeqEqual
<1> QED BY <1>2, <1>4 DEF u, v

LEMMA FlattenShort ==
    ASSUME NEW T, NEW a \in Seq(T), NEW b \in Seq(T)
    PROVE  /\ FlattenSeq(<<a>>) = a
           /\ FlattenSeq(<<a, b>>) = a \o b
<1> DEFINE e == <<>>
           s == <<a>>
<1>1. e \in Seq(Seq(T)) /\ s \in Seq(Seq(T)) /\ Append(e, a) = s /\ e = <<>>
    OBVIOUS
<1>2. Append(s, b) = <<a, b>>
    BY TwoElements
<1> HIDE DEF e, s
<1>3. FlattenSeq(e) = <<>> /\ FlattenSeq(Append(e, a)) = FlattenSeq(e) \o a
    BY <1>1, FlattenFacts
<1>4. FlattenSeq(Append(s, b)) = FlattenSeq(s) \o b
    BY <1>1, FlattenFacts
<1>5. FlattenSeq(s) = a
    BY <1>1, <1>3, ConcatEmptySeq
<1> QED BY <1>2, <1>4, <1>5 DEF s

-----------------------------------------------------------------------------
(* Taking escapes away. *)

(* What an escaped character, another character, the i-th of s stand for. *)
AfterBackslash(x) == IF x = "n" THEN <<"lf">> ELSE IF x = "r" THEN <<"cr">> ELSE <<x>>

AsItIs(x) == IF x = "bs" THEN <<>> ELSE <<x>>

Meant(s, i) == IF Escaping(s, i - 1) THEN AfterBackslash(s[i]) ELSE AsItIs(s[i])

LEMMA UnescapedFacts ==
    ASSUME NEW s \in Text
    PROVE  /\ Unescaped(s) = FlattenSeq([i \in DOMAIN s |-> Meant(s, i)])
           /\ [i \in DOMAIN s |-> Meant(s, i)] \in Seq(Text)
           /\ Len([i \in DOMAIN s |-> Meant(s, i)]) = Len(s)
           /\ Unescaped(s) \in Text
<1> DEFINE read == [i \in DOMAIN s |-> Meant(s, i)]
           escapes == Bare(s, "bs")
           Block_(i) == CASE i \in escapes -> <<>>
                          [] i - 1 \in escapes /\ s[i] = "n" -> <<"lf">>
                          [] i - 1 \in escapes /\ s[i] = "r" -> <<"cr">>
                          [] OTHER -> <<s[i]>>
<1>0. DOMAIN s = 1 .. Len(s) /\ Len(s) \in Nat
    BY DEF Text
<1>1. ASSUME NEW i \in DOMAIN s PROVE Block_(i) = Meant(s, i)
    <2>1. i \in escapes <=> s[i] = "bs" /\ ~Escaping(s, i - 1)
        BY DEF Bare
    <2>2. i - 1 \in escapes <=> Escaping(s, i - 1)
        <3>1. CASE i = 1
            <4>1. i - 1 \notin DOMAIN s /\ i - 1 = 0
                BY <1>0, <3>1
            <4> QED BY <4>1, EscapingFacts DEF Bare
        <3>2. CASE i # 1
            <4> DEFINE m == i - 2
            <4>1. m \in Nat /\ m + 1 = i - 1 /\ i - 1 \in DOMAIN s /\ (i - 1) - 1 = m
                BY <1>0, <3>2
            <4> HIDE DEF m
            <4>2. Escaping(s, m + 1) <=> s[m + 1] = "bs" /\ ~Escaping(s, m)
                BY <4>1, EscapingFacts
            <4> QED BY <4>1, <4>2 DEF Bare
        <3> QED BY <3>1, <3>2
    <2> HIDE DEF escapes
    <2> QED BY <2>1, <2>2 DEF Meant, AfterBackslash, AsItIs
<1>2. Unescaped(s) = FlattenSeq([i \in DOMAIN s |-> Block_(i)])
    BY DEF Unescaped
<1> HIDE DEF Block_, escapes
<1>3. [i \in DOMAIN s |-> Block_(i)] = read
    BY <1>1
<1>4. ASSUME NEW i \in DOMAIN s PROVE Meant(s, i) \in Text
    <2>1. s[i] \in Chars
        BY DEF Text
    <2> QED BY <2>1, SomeChars, ShortTexts DEF Meant, AfterBackslash, AsItIs
<1>5. read \in [1 .. Len(s) -> Text]
    BY <1>0, <1>4
<1> HIDE DEF read
<1>6. read \in Seq(Text) /\ Len(read) = Len(s)
    BY <1>0, <1>5
<1>7. FlattenSeq(read) \in Text
    BY <1>6, FlattenFacts DEF Text
<1> QED BY <1>2, <1>3, <1>6, <1>7 DEF read

(* After a closed text the escapes of what follows are taken away alone. *)
LEMMA UnescapedConcat ==
    ASSUME NEW s \in Text, NEW t \in Text, Closed(s)
    PROVE  Unescaped(s \o t) = Unescaped(s) \o Unescaped(t)
<1> DEFINE u == s \o t
           read(w) == [i \in DOMAIN w |-> Meant(w, i)]
           a == read(s)
           b == read(t)
           c == read(u)
<1>0. /\ u \in Text /\ Len(u) = Len(s) + Len(t) /\ Len(s) \in Nat /\ Len(t) \in Nat
      /\ \A i \in 1 .. Len(s) : u[i] = s[i]
      /\ \A i \in 1 .. Len(t) : u[Len(s) + i] = t[i]
    BY Concat
<1>1. DOMAIN u = 1 .. Len(u) /\ DOMAIN s = 1 .. Len(s) /\ DOMAIN t = 1 .. Len(t)
    BY <1>0 DEF Text
<1>2. \A n \in 0 .. Len(s) : Escaping(u, n) <=> Escaping(s, n)
    BY EscapingPrefix
<1>3. \A n \in 0 .. Len(t) : Escaping(u, Len(s) + n) <=> Escaping(t, n)
    BY EscapingSuffix
<1>4. /\ Unescaped(s) = FlattenSeq(a) /\ a \in Seq(Text) /\ Len(a) = Len(s)
      /\ Unescaped(t) = FlattenSeq(b) /\ b \in Seq(Text) /\ Len(b) = Len(t)
    BY UnescapedFacts
<1> HIDE DEF u
<1>5. Unescaped(u) = FlattenSeq(c) /\ c \in Seq(Text) /\ Len(c) = Len(u)
    BY <1>0, UnescapedFacts
<1>6. \A i \in 1 .. Len(s) : c[i] = a[i]
    <2> TAKE i \in 1 .. Len(s)
    <2>1. i \in DOMAIN u /\ i \in DOMAIN s /\ i - 1 \in 0 .. Len(s)
        BY <1>0, <1>1
    <2>2. Meant(u, i) = Meant(s, i)
        BY <1>0, <1>2, <2>1 DEF Meant
    <2> QED BY <2>1, <2>2
<1>7. \A i \in 1 .. Len(t) : c[Len(s) + i] = b[i]
    <2> TAKE i \in 1 .. Len(t)
    <2> DEFINE j == Len(s) + i
               m == i - 1
    <2>1. j \in DOMAIN u /\ i \in DOMAIN t /\ m \in 0 .. Len(t) /\ j - 1 = Len(s) + m
        BY <1>0, <1>1
    <2>2. u[j] = t[i] /\ (Escaping(u, j - 1) <=> Escaping(t, m))
        BY <1>0, <1>3, <2>1
    <2> HIDE DEF j
    <2>3. Meant(u, j) = Meant(t, i)
        BY <2>2 DEF Meant
    <2>4. c[j] = b[i]
        BY <2>1, <2>3
    <2> QED BY <2>4 DEF j
<1> HIDE DEF a, b, c
<1>8. \A i \in 1 .. Len(a) : c[i] = a[i]
    BY <1>4, <1>6
<1>9. \A i \in 1 .. Len(b) : c[Len(a) + i] = b[i]
    BY <1>4, <1>7
<1>10. c = a \o b
    BY <1>0, <1>4, <1>5, <1>8, <1>9, SplitAt, ZenonT(40)
<1>11. FlattenSeq(a \o b) = FlattenSeq(a) \o FlattenSeq(b)
    BY <1>4, FlattenConcat DEF Text
<1> QED BY <1>4, <1>5, <1>10, <1>11 DEF u

(* A character, and a character after a backslash. *)
LEMMA UnescapedShort ==
    ASSUME NEW x \in Chars
    PROVE  /\ x # "bs" => Unescaped(<<x>>) = <<x>>
           /\ Unescaped(<<"bs", x>>) = AfterBackslash(x)
<1>1. ASSUME x # "bs" PROVE Unescaped(<<x>>) = <<x>>
    <2> DEFINE s == <<x>>
               read == [i \in DOMAIN s |-> Meant(s, i)]
    <2>1. s \in Text /\ Len(s) = 1 /\ s[1] = x
        BY ShortTexts
    <2>2. Unescaped(s) = FlattenSeq(read) /\ read \in Seq(Text) /\ Len(read) = 1
        BY <2>1, UnescapedFacts
    <2>3. read[1] = <<x>>
        <3>1. ~Escaping(s, 1 - 1) /\ 1 \in DOMAIN s
            BY EscapingFacts
        <3> QED BY <1>1, <3>1 DEF Meant, AsItIs
    <2> HIDE DEF read, s
    <2>4. read = <<<<x>>>>
        BY <2>2, <2>3
    <2>5. <<x>> \in Seq(Chars)
        OBVIOUS
    <2>6. FlattenSeq(<<<<x>>>>) = <<x>>
        BY <2>5, FlattenShort
    <2> QED BY <2>2, <2>4, <2>6 DEF s
<1>2. Unescaped(<<"bs", x>>) = AfterBackslash(x)
    <2> DEFINE s == <<"bs", x>>
               read == [i \in DOMAIN s |-> Meant(s, i)]
    <2>1. s \in Text /\ Len(s) = 2 /\ s[1] = "bs" /\ s[2] = x
        BY SomeChars, ShortTexts
    <2>2. Unescaped(s) = FlattenSeq(read) /\ read \in Seq(Text) /\ Len(read) = 2
        BY <2>1, UnescapedFacts
    <2>3. ~Escaping(s, 0) /\ Escaping(s, 1)
        <3>1. ~Escaping(s, 0) /\ (Escaping(s, 0 + 1) <=> s[0 + 1] = "bs" /\ ~Escaping(s, 0))
            BY EscapingFacts
        <3> QED BY <2>1, <3>1
    <2>4. read[1] = <<>> /\ read[2] = AfterBackslash(x)
        <3>1. 1 \in DOMAIN s /\ 2 \in DOMAIN s /\ 1 - 1 = 0 /\ 2 - 1 = 1
            OBVIOUS
        <3>2. Meant(s, 1) = <<>>
            BY <2>1, <2>3, <3>1 DEF Meant, AsItIs
        <3>3. Meant(s, 2) = AfterBackslash(x)
            BY <2>1, <2>3, <3>1 DEF Meant
        <3> QED BY <3>1, <3>2, <3>3
    <2> HIDE DEF read, s
    <2>5. AfterBackslash(x) \in Seq(Chars) /\ <<>> \in Seq(Chars)
        BY SomeChars DEF AfterBackslash
    <2>6. read = <<<<>>, AfterBackslash(x)>>
        BY <2>2, <2>4
    <2>7. FlattenSeq(<<<<>>, AfterBackslash(x)>>) = <<>> \o AfterBackslash(x)
        BY <2>5, FlattenShort
    <2> QED BY <2>2, <2>5, <2>6, <2>7, ConcatEmptySeq DEF s
<1> QED BY <1>1, <1>2

-----------------------------------------------------------------------------
(* Escaping. *)

Blocks(text, c, by) == [i \in DOMAIN text |-> IF text[i] = c THEN by ELSE <<text[i]>>]

(* What is replaced by characters of T leaves characters of T. *)
LEMMA ReplaceFacts ==
    ASSUME NEW c, NEW T, NEW by \in Seq(T), NEW text \in Seq(T \cup {c})
    PROVE  /\ Blocks(text, c, by) \in Seq(Seq(T)) /\ Len(Blocks(text, c, by)) = Len(text)
           /\ Replace(text, c, by) \in Seq(T)
<1>1. \A i \in DOMAIN text : (IF text[i] = c THEN by ELSE <<text[i]>>) \in Seq(T)
    OBVIOUS
<1>2. DOMAIN text = 1 .. Len(text) /\ Len(text) \in Nat
    OBVIOUS
<1>3. Blocks(text, c, by) \in [1 .. Len(text) -> Seq(T)]
    BY <1>1, <1>2 DEF Blocks
<1>4. Blocks(text, c, by) \in Seq(Seq(T)) /\ Len(Blocks(text, c, by)) = Len(text)
    BY <1>2, <1>3
<1>5. Replace(text, c, by) = FlattenSeq(Blocks(text, c, by))
    BY DEF Replace, Blocks
<1> QED BY <1>4, <1>5, FlattenFacts

(* Replacing keeps a text a text. *)
LEMMA ReplaceText ==
    ASSUME NEW text \in Text, NEW c \in Chars, NEW by \in Text
    PROVE  /\ Replace(text, c, by) \in Text
           /\ Blocks(text, c, by) \in Seq(Text) /\ Len(Blocks(text, c, by)) = Len(text)
<1>1. Chars \cup {c} = Chars /\ by \in Seq(Chars)
    BY DEF Text
<1>2. text \in Seq(Chars \cup {c})
    BY <1>1 DEF Text
<1> QED BY <1>1, <1>2, ReplaceFacts DEF Text

(* Each character is replaced by itself. *)
LEMMA ReplaceConcat ==
    ASSUME NEW c \in Chars, NEW by \in Text, NEW s \in Text, NEW t \in Text
    PROVE  Replace(s \o t, c, by) = Replace(s, c, by) \o Replace(t, c, by)
<1> DEFINE u == s \o t
           a == Blocks(s, c, by)
           b == Blocks(t, c, by)
           d == Blocks(u, c, by)
<1>0. /\ u \in Text /\ Len(u) = Len(s) + Len(t) /\ Len(s) \in Nat /\ Len(t) \in Nat
      /\ \A i \in 1 .. Len(s) : u[i] = s[i]
      /\ \A i \in 1 .. Len(t) : u[Len(s) + i] = t[i]
    BY Concat
<1>1. DOMAIN u = 1 .. Len(u) /\ DOMAIN s = 1 .. Len(s) /\ DOMAIN t = 1 .. Len(t)
    BY <1>0 DEF Text
<1> HIDE DEF u
<1>2. /\ a \in Seq(Text) /\ Len(a) = Len(s)
      /\ b \in Seq(Text) /\ Len(b) = Len(t)
      /\ d \in Seq(Text) /\ Len(d) = Len(u)
    BY <1>0, ReplaceText
<1>3. \A i \in 1 .. Len(s) : d[i] = a[i]
    BY <1>0, <1>1 DEF Blocks
<1>4. \A i \in 1 .. Len(t) : d[Len(s) + i] = b[i]
    <2> TAKE i \in 1 .. Len(t)
    <2> DEFINE j == Len(s) + i
    <2>1. j \in DOMAIN u /\ i \in DOMAIN t /\ u[j] = t[i]
        BY <1>0, <1>1
    <2> HIDE DEF j
    <2>2. d[j] = b[i]
        BY <2>1 DEF Blocks
    <2> QED BY <2>2 DEF j
<1> HIDE DEF a, b, d
<1>5. d = a \o b
    <2>1. Len(d) = Len(a) + Len(b)
        BY <1>0, <1>2
    <2>2. \A i \in 1 .. Len(a) : d[i] = a[i]
        BY <1>2, <1>3
    <2>3. \A i \in 1 .. Len(b) : d[Len(a) + i] = b[i]
        BY <1>2, <1>4
    <2> QED BY <1>2, <2>1, <2>2, <2>3, SplitAt
<1>6. FlattenSeq(d) = FlattenSeq(a) \o FlattenSeq(b)
    BY <1>2, <1>5, FlattenConcat DEF Text
<1> QED BY <1>6 DEF a, b, d, u, Replace, Blocks

LEMMA ReplaceShort ==
    ASSUME NEW c \in Chars, NEW by \in Text, NEW x \in Chars
    PROVE  /\ Replace(<<>>, c, by) = <<>>
           /\ Replace(<<x>>, c, by) = IF x = c THEN by ELSE <<x>>
<1>1. Replace(<<>>, c, by) = <<>>
    <2> DEFINE e == <<>>
    <2>1. e \in Text /\ Len(e) = 0
        BY DEF Text
    <2>2. Blocks(e, c, by) \in Seq(Seq(Chars)) /\ Len(Blocks(e, c, by)) = 0
        BY <2>1, ReplaceText DEF Text
    <2>3. FlattenSeq(Blocks(e, c, by)) = <<>>
        BY <2>2, FlattenFacts
    <2> QED BY <2>3 DEF Replace, Blocks
<1>2. Replace(<<x>>, c, by) = IF x = c THEN by ELSE <<x>>
    <2> DEFINE e == <<x>>
               y == IF x = c THEN by ELSE <<x>>
    <2>1. e \in Text /\ Len(e) = 1 /\ e[1] = x /\ y \in Text
        BY ShortTexts
    <2>2. Blocks(e, c, by) \in Seq(Text) /\ Len(Blocks(e, c, by)) = 1
        BY <2>1, ReplaceText
    <2>3. Blocks(e, c, by)[1] = y
        BY <2>1 DEF Blocks
    <2>4. Replace(e, c, by) = FlattenSeq(Blocks(e, c, by))
        BY DEF Replace, Blocks
    <2> HIDE DEF e, y
    <2>5. Blocks(e, c, by) = <<y>>
        BY <2>2, <2>3
    <2>6. FlattenSeq(<<y>>) = y
        BY <2>1, FlattenShort DEF Text
    <2> QED BY <2>4, <2>5, <2>6 DEF e, y
<1> QED BY <1>1, <1>2

(* A pair of characters that are not replaced. *)
LEMMA ReplacePair ==
    ASSUME NEW c \in Chars, NEW by \in Text, NEW x \in Chars, NEW y \in Chars, x # c, y # c
    PROVE  Replace(<<x, y>>, c, by) = <<x, y>>
<1>1. <<x>> \in Text /\ <<y>> \in Text /\ <<x>> \o <<y>> = <<x, y>>
    BY ShortTexts
<1>2. Replace(<<x>> \o <<y>>, c, by) = Replace(<<x>>, c, by) \o Replace(<<y>>, c, by)
    BY <1>1, ReplaceConcat
<1>3. Replace(<<x>>, c, by) = <<x>> /\ Replace(<<y>>, c, by) = <<y>>
    BY ReplaceShort
<1> QED BY <1>1, <1>2, <1>3

(* Two characters of a text replaced at once. *)
LEMMA AppendText ==
    ASSUME NEW s \in Text, NEW a \in Chars, NEW b \in Chars
    PROVE  /\ s \o <<a>> = Append(s, a)
           /\ s \o <<a, b>> = Append(Append(s, a), b)
           /\ (s \o <<a>>) \o <<b>> = s \o <<a, b>>
           /\ <<a>> \in Text /\ <<a, b>> \in Text /\ Append(s, a) \in Text
<1>1. /\ <<a>> \in Text /\ Len(<<a>>) = 1 /\ <<a>>[1] = a
      /\ <<b>> \in Text /\ Len(<<b>>) = 1 /\ <<b>>[1] = b
      /\ <<a, b>> \in Text /\ Len(<<a, b>>) = 2 /\ <<a, b>>[1] = a /\ <<a, b>>[2] = b
      /\ <<a>> \o <<b>> = <<a, b>>
    BY ShortTexts
<1>2. s \o <<a>> = Append(s, a) /\ Append(s, a) \in Text
    BY AppendIsConcat, AppendProperties DEF Text
<1>3. Append(s, a) \o <<b>> = Append(Append(s, a), b)
    BY <1>2, AppendIsConcat DEF Text
<1>4. (s \o <<a>>) \o <<b>> = s \o (<<a>> \o <<b>>)
    BY <1>1, ConcatAssociative DEF Text
<1> QED BY <1>1, <1>2, <1>3, <1>4

(* A character that stands for itself, and one that is escaped. *)
LEMMA PlainFacts ==
    ASSUME NEW x \in Chars, x # "bs"
    PROVE  /\ <<x>> \in Text /\ Closed(<<x>>) /\ Unescaped(<<x>>) = <<x>>
           /\ \A c : c # x => Covered(<<x>>, c)
<1> DEFINE s == <<x>>
<1>1. s \in Text /\ Len(s) = 1 /\ s[1] = x
    BY ShortTexts
<1>2. Unescaped(<<x>>) = <<x>>
    BY UnescapedShort
<1> HIDE DEF s
<1>3. ~Escaping(s, 0) /\ (Escaping(s, 0 + 1) <=> s[0 + 1] = "bs" /\ ~Escaping(s, 0))
    BY EscapingFacts
<1>4. \A c : c # x => Covered(s, c)
    BY <1>1 DEF Covered
<1>5. Closed(s)
    BY <1>1, <1>3 DEF Closed
<1> QED BY <1>1, <1>2, <1>4, <1>5 DEF s

LEMMA PairFacts ==
    ASSUME NEW x \in Chars
    PROVE  /\ <<"bs", x>> \in Text /\ Closed(<<"bs", x>>) /\ Unescaped(<<"bs", x>>) = AfterBackslash(x)
           /\ \A c : c # "bs" => Covered(<<"bs", x>>, c)
<1> DEFINE s == <<"bs", x>>
<1>1. s \in Text /\ Len(s) = 2 /\ s[1] = "bs" /\ s[2] = x
    BY SomeChars, ShortTexts
<1>2. Unescaped(<<"bs", x>>) = AfterBackslash(x)
    BY UnescapedShort
<1> HIDE DEF s
<1>3. ~Escaping(s, 0) /\ Escaping(s, 1)
    <2>1. ~Escaping(s, 0) /\ (Escaping(s, 0 + 1) <=> s[0 + 1] = "bs" /\ ~Escaping(s, 0))
        BY EscapingFacts
    <2> QED BY <1>1, <2>1
<1>4. Escaping(s, 1 + 1) <=> s[1 + 1] = "bs" /\ ~Escaping(s, 1)
    BY EscapingFacts
<1>5. Closed(s)
    BY <1>1, <1>3, <1>4 DEF Closed
<1>6. ASSUME NEW c, c # "bs", NEW i \in 1 .. Len(s), s[i] = c PROVE Escaping(s, i - 1)
    <2>1. i = 2
        BY <1>1, <1>6
    <2> QED BY <1>3, <2>1
<1>7. \A c : c # "bs" => Covered(s, c)
    BY <1>6 DEF Covered
<1> QED BY <1>1, <1>2, <1>5, <1>7 DEF s

(* cef_escape_header and cef_escape_ext_value escape character by character. *)
LEMMA HeaderConcat ==
    ASSUME NEW s \in Text, NEW t \in Text
    PROVE  /\ CefEscapeHeader(s) \in Text
           /\ CefEscapeHeader(s \o t) = CefEscapeHeader(s) \o CefEscapeHeader(t)
<1> DEFINE a(w) == Replace(w, "bs", <<"bs", "bs">>)
           b(w) == Replace(w, "pipe", <<"bs", "pipe">>)
<1>0. "bs" \in Chars /\ "pipe" \in Chars /\ <<"bs", "bs">> \in Text /\ <<"bs", "pipe">> \in Text
    BY SomeChars, ShortTexts
<1>1. a(s) \in Text /\ a(t) \in Text /\ a(s \o t) = a(s) \o a(t)
    BY <1>0, ReplaceText, ReplaceConcat
<1> HIDE DEF a
<1>2. \A v \in Text : b(v) \in Text
    BY <1>0, ReplaceText
<1>3. \A v, w \in Text : b(v \o w) = b(v) \o b(w)
    BY <1>0, ReplaceConcat
<1>4. \A w : CefEscapeHeader(w) = b(a(w))
    BY DEF CefEscapeHeader, a
<1> HIDE DEF b
<1> QED BY <1>1, <1>2, <1>3, <1>4

LEMMA ExtConcat ==
    ASSUME NEW s \in Text, NEW t \in Text
    PROVE  /\ CefEscapeExt(s) \in Text
           /\ CefEscapeExt(s \o t) = CefEscapeExt(s) \o CefEscapeExt(t)
<1> DEFINE a(w) == Replace(w, "bs", <<"bs", "bs">>)
           b(w) == Replace(w, "eq", <<"bs", "eq">>)
           c(w) == Replace(w, "lf", <<"bs", "n">>)
           d(w) == Replace(w, "cr", <<"bs", "r">>)
<1>0. /\ "bs" \in Chars /\ "eq" \in Chars /\ "lf" \in Chars /\ "cr" \in Chars
      /\ <<"bs", "bs">> \in Text /\ <<"bs", "eq">> \in Text /\ <<"bs", "n">> \in Text /\ <<"bs", "r">> \in Text
    BY SomeChars, ShortTexts DEF Chars, Words
<1>1. /\ \A v \in Text : a(v) \in Text
      /\ \A v \in Text : b(v) \in Text
      /\ \A v \in Text : c(v) \in Text
      /\ \A v \in Text : d(v) \in Text
    BY <1>0, ReplaceText
<1>2. \A v, w \in Text : a(v \o w) = a(v) \o a(w)
    BY <1>0, ReplaceConcat
<1>3. \A v, w \in Text : b(v \o w) = b(v) \o b(w)
    BY <1>0, ReplaceConcat
<1>4. \A v, w \in Text : c(v \o w) = c(v) \o c(w)
    BY <1>0, ReplaceConcat
<1>5. \A v, w \in Text : d(v \o w) = d(v) \o d(w)
    BY <1>0, ReplaceConcat
<1>6. \A w : CefEscapeExt(w) = d(c(b(a(w))))
    BY DEF CefEscapeExt
<1> HIDE DEF a, b, c, d
<1>7. b(a(s \o t)) = b(a(s)) \o b(a(t))
    BY <1>1, <1>2, <1>3
<1>8. c(b(a(s \o t))) = c(b(a(s))) \o c(b(a(t)))
    BY <1>1, <1>4, <1>7
<1>9. d(c(b(a(s \o t)))) = d(c(b(a(s)))) \o d(c(b(a(t))))
    BY <1>1, <1>5, <1>8
<1> QED BY <1>1, <1>6, <1>9

ExtBlock(x) ==
    IF x \in {"bs", "eq"} THEN <<"bs", x>>
    ELSE IF x = "lf" THEN <<"bs", "n">>
    ELSE IF x = "cr" THEN <<"bs", "r">> ELSE <<x>>

(* What becomes of one character. *)
LEMMA OneEscaped ==
    ASSUME NEW x \in Chars
    PROVE  /\ CefEscapeHeader(<<x>>) = IF x \in {"bs", "pipe"} THEN <<"bs", x>> ELSE <<x>>
           /\ CefEscapeExt(<<x>>) = ExtBlock(x)
<1>0. /\ "bs" \in Chars /\ "eq" \in Chars /\ "pipe" \in Chars /\ "lf" \in Chars /\ "cr" \in Chars
      /\ "n" \in Chars /\ "r" \in Chars
    BY SomeChars DEF Chars, Words
<1>1. /\ <<"bs", "bs">> \in Text /\ <<"bs", "pipe">> \in Text /\ <<"bs", "eq">> \in Text
      /\ <<"bs", "n">> \in Text /\ <<"bs", "r">> \in Text
    BY <1>0, ShortTexts
<1> DEFINE a(w) == Replace(w, "bs", <<"bs", "bs">>)
           b(w) == Replace(w, "eq", <<"bs", "eq">>)
           c(w) == Replace(w, "lf", <<"bs", "n">>)
           d(w) == Replace(w, "cr", <<"bs", "r">>)
           h(w) == Replace(w, "pipe", <<"bs", "pipe">>)
<1>2. /\ a(<<x>>) = IF x = "bs" THEN <<"bs", x>> ELSE <<x>>
      /\ b(<<x>>) = IF x = "eq" THEN <<"bs", x>> ELSE <<x>>
      /\ c(<<x>>) = IF x = "lf" THEN <<"bs", "n">> ELSE <<x>>
      /\ d(<<x>>) = IF x = "cr" THEN <<"bs", "r">> ELSE <<x>>
      /\ h(<<x>>) = IF x = "pipe" THEN <<"bs", x>> ELSE <<x>>
    BY <1>0, <1>1, ReplaceShort
<1>3. /\ h(<<"bs", "bs">>) = <<"bs", "bs">> /\ b(<<"bs", "bs">>) = <<"bs", "bs">>
      /\ c(<<"bs", "bs">>) = <<"bs", "bs">> /\ c(<<"bs", "eq">>) = <<"bs", "eq">>
      /\ d(<<"bs", "bs">>) = <<"bs", "bs">> /\ d(<<"bs", "eq">>) = <<"bs", "eq">>
      /\ d(<<"bs", "n">>) = <<"bs", "n">>
    <2>1. \A y, z \in Chars : y # "pipe" /\ z # "pipe" => h(<<y, z>>) = <<y, z>>
        BY <1>0, <1>1, ReplacePair
    <2>2. \A y, z \in Chars : y # "eq" /\ z # "eq" => b(<<y, z>>) = <<y, z>>
        BY <1>0, <1>1, ReplacePair
    <2>3. \A y, z \in Chars : y # "lf" /\ z # "lf" => c(<<y, z>>) = <<y, z>>
        BY <1>0, <1>1, ReplacePair
    <2>4. \A y, z \in Chars : y # "cr" /\ z # "cr" => d(<<y, z>>) = <<y, z>>
        BY <1>0, <1>1, ReplacePair
    <2> HIDE DEF b, c, d, h
    <2> QED BY <1>0, <2>1, <2>2, <2>3, <2>4
<1>4. \A w : CefEscapeHeader(w) = h(a(w)) /\ CefEscapeExt(w) = d(c(b(a(w))))
    BY DEF CefEscapeHeader, CefEscapeExt
<1> HIDE DEF a, b, c, d, h
<1>5. CefEscapeHeader(<<x>>) = IF x \in {"bs", "pipe"} THEN <<"bs", x>> ELSE <<x>>
    BY <1>2, <1>3, <1>4
<1>6. CefEscapeExt(<<x>>) = ExtBlock(x)
    <2>1. CASE x = "bs"
        BY <1>2, <1>3, <1>4, <2>1 DEF ExtBlock
    <2>2. CASE x = "eq"
        BY <1>2, <1>3, <1>4, <2>2 DEF ExtBlock
    <2>3. CASE x = "lf"
        BY <1>2, <1>3, <1>4, <2>3 DEF ExtBlock
    <2>4. CASE x \notin {"bs", "eq", "lf"}
        BY <1>2, <1>3, <1>4, <2>4 DEF ExtBlock
    <2> QED BY <2>1, <2>2, <2>3, <2>4
<1> QED BY <1>5, <1>6

(* It ends nothing, escapes nothing after it and is read as it was. *)
Escaped(s, c, text) == s \in Text /\ Closed(s) /\ Covered(s, c) /\ Unescaped(s) = text

LEMMA BlockFacts ==
    ASSUME NEW x \in Chars
    PROVE  /\ Escaped(CefEscapeHeader(<<x>>), "pipe", <<x>>)
           /\ Escaped(CefEscapeExt(<<x>>), "eq", <<x>>)
<1>0. "n" \in Chars /\ "r" \in Chars /\ "bs" # "pipe" /\ "bs" # "eq"
    BY DEF Chars, Words
<1>1. Escaped(CefEscapeHeader(<<x>>), "pipe", <<x>>)
    <2>1. CASE x \in {"bs", "pipe"}
        BY <1>0, <2>1, OneEscaped, PairFacts DEF AfterBackslash, Escaped
    <2>2. CASE x \notin {"bs", "pipe"}
        BY <2>2, OneEscaped, PlainFacts DEF Escaped
    <2> QED BY <2>1, <2>2
<1>2. CefEscapeExt(<<x>>) = ExtBlock(x)
    BY OneEscaped
<1>3. Escaped(ExtBlock(x), "eq", <<x>>)
    <2>1. CASE x \in {"bs", "eq"}
        <3>1. ExtBlock(x) = <<"bs", x>> /\ AfterBackslash(x) = <<x>>
            BY <2>1 DEF ExtBlock, AfterBackslash
        <3> QED BY <1>0, <3>1, PairFacts DEF Escaped
    <2>2. CASE x = "lf"
        <3>1. ExtBlock(x) = <<"bs", "n">> /\ AfterBackslash("n") = <<x>>
            BY <2>2 DEF ExtBlock, AfterBackslash
        <3> QED BY <1>0, <3>1, PairFacts DEF Escaped
    <2>3. CASE x = "cr"
        <3>1. ExtBlock(x) = <<"bs", "r">> /\ AfterBackslash("r") = <<x>>
            BY <2>3 DEF ExtBlock, AfterBackslash
        <3> QED BY <1>0, <3>1, PairFacts DEF Escaped
    <2>4. CASE x \notin {"bs", "eq", "lf", "cr"}
        <3>1. ExtBlock(x) = <<x>>
            BY <2>4 DEF ExtBlock
        <3> QED BY <2>4, <3>1, PlainFacts DEF Escaped
    <2> QED BY <2>1, <2>2, <2>3, <2>4
<1> QED BY <1>1, <1>2, <1>3

LEMMA EscapedConcat ==
    ASSUME NEW c, NEW s, NEW t, NEW a \in Text, NEW b \in Text, Escaped(s, c, a), Escaped(t, c, b)
    PROVE  Escaped(s \o t, c, a \o b)
BY Concat, ClosedConcat, CoveredConcat, UnescapedConcat DEF Escaped

EmptyFacts ==
    /\ Closed(<<>>) /\ Covered(<<>>, "pipe") /\ Covered(<<>>, "eq") /\ <<>> \in Text
    /\ Unescaped(<<>>) = <<>> /\ CefEscapeHeader(<<>>) = <<>> /\ CefEscapeExt(<<>>) = <<>>

LEMMA EmptyText == EmptyFacts
<1>1. Len(<<>>) = 0 /\ <<>> \in Text
    BY DEF Text
<1>2. ~Escaping(<<>>, 0)
    BY EscapingFacts
<1>3. Unescaped(<<>>) = <<>>
    <2> DEFINE e == <<>>
               read == [i \in DOMAIN e |-> Meant(e, i)]
    <2>1. e \in Text /\ Len(e) = 0
        BY <1>1
    <2>2. Unescaped(e) = FlattenSeq(read) /\ read \in Seq(Text) /\ Len(read) = Len(e)
        BY <2>1, UnescapedFacts
    <2> HIDE DEF read, e
    <2>3. read = <<>>
        BY <2>1, <2>2
    <2>4. FlattenSeq(read) = <<>>
        BY <2>2, <2>3, FlattenFacts DEF Text
    <2> QED BY <2>2, <2>4 DEF e
<1>4. CefEscapeHeader(<<>>) = <<>> /\ CefEscapeExt(<<>>) = <<>>
    <2>1. /\ "bs" \in Chars /\ "eq" \in Chars /\ "pipe" \in Chars /\ "lf" \in Chars /\ "cr" \in Chars
          /\ "n" \in Chars /\ "r" \in Chars
        BY SomeChars DEF Chars, Words
    <2>2. /\ <<"bs", "bs">> \in Text /\ <<"bs", "pipe">> \in Text /\ <<"bs", "eq">> \in Text
          /\ <<"bs", "n">> \in Text /\ <<"bs", "r">> \in Text
        BY <2>1, ShortTexts
    <2>3. /\ Replace(<<>>, "bs", <<"bs", "bs">>) = <<>> /\ Replace(<<>>, "pipe", <<"bs", "pipe">>) = <<>>
          /\ Replace(<<>>, "eq", <<"bs", "eq">>) = <<>> /\ Replace(<<>>, "lf", <<"bs", "n">>) = <<>>
          /\ Replace(<<>>, "cr", <<"bs", "r">>) = <<>>
        BY <2>1, <2>2, ReplaceShort
    <2> QED BY <2>3 DEF CefEscapeHeader, CefEscapeExt
<1> QED BY <1>1, <1>2, <1>3, <1>4 DEF EmptyFacts, Closed, Covered

(* Neither a header's text nor a value ends its part of the line, escapes what
   follows or is read otherwise than it was. *)
LEMMA EscapeFacts ==
    ASSUME NEW text \in Text
    PROVE  Escaped(CefEscapeHeader(text), "pipe", text) /\ Escaped(CefEscapeExt(text), "eq", text)
<1> DEFINE Good(t) == Escaped(CefEscapeHeader(t), "pipe", t) /\ Escaped(CefEscapeExt(t), "eq", t)
           P == {n \in Nat : \A t \in Text : Len(t) = n => Good(t)}
<1>1. ASSUME NEW n \in Nat, \A k \in 0 .. n - 1 : k \in P PROVE n \in P
    <2> SUFFICES ASSUME NEW t \in Text, Len(t) = n PROVE Good(t)
        OBVIOUS
    <2>1. CASE t = <<>>
        BY <2>1, EmptyText DEF EmptyFacts, Escaped
    <2>2. CASE t # <<>>
        <3>1. PICK s \in Text, x \in Chars : t = Append(s, x)
            BY <2>2, SequenceEmptyOrAppend DEF Text
        <3>2. Len(s) \in 0 .. n - 1
            BY <3>1 DEF Text
        <3>3. Good(s)
            BY <1>1, <3>2
        <3>4. t = s \o <<x>> /\ <<x>> \in Text
            BY <3>1, AppendText
        <3>5. /\ CefEscapeHeader(t) = CefEscapeHeader(s) \o CefEscapeHeader(<<x>>)
              /\ CefEscapeExt(t) = CefEscapeExt(s) \o CefEscapeExt(<<x>>)
            BY <3>4, HeaderConcat, ExtConcat
        <3> QED BY <3>3, <3>4, <3>5, BlockFacts, EscapedConcat
    <2> QED BY <2>1, <2>2
<1>2. P \in SUBSET Nat
    OBVIOUS
<1> HIDE DEF P
<1>3. P = Nat
    BY <1>1, <1>2, AllNumbers
<1>4. Len(text) \in Nat
    BY DEF Text
<1> QED BY <1>3, <1>4 DEF P

LEMMA Beginning ==
    ASSUME NEW T, NEW a \in Seq(T), NEW b \in Seq(T), NEW k \in 0 .. Len(a)
    PROVE  /\ SubSeq(a \o b, 1, k) = SubSeq(a, 1, k)
           /\ SubSeq(a \o b, 1, Len(a)) = a
           /\ SubSeq(a, 1, k) \in Seq(T) /\ Len(SubSeq(a, 1, k)) = k
<1>0. Len(a) \in Nat
    OBVIOUS
<1>1. \A n \in 0 .. Len(a) : SubSeq(a \o b, 1, n) = SubSeq(a, 1, n)
    <2> TAKE n \in 0 .. Len(a)
    <2>1. CASE n = 0
        BY <2>1, SubSeqEmpty
    <2>2. CASE n # 0
        <3>1. n \in 1 .. Len(a) /\ 1 \in 1 .. Len(a)
            BY <1>0, <2>2
        <3> QED BY <3>1, SubSeqOfConcat1
    <2> QED BY <2>1, <2>2
<1>2. Len(a) \in 0 .. Len(a)
    BY <1>0
<1>3. SubSeq(a, 1, k) \in Seq(T) /\ Len(SubSeq(a, 1, k)) = k
    <2>1. \A i \in 1 .. k : a[i] \in T
        BY <1>0
    <2> QED BY <1>0, <2>1, SubSeqProperties
<1> QED BY <1>1, <1>2, <1>3, SubSeqFull

(* The first k characters of an escaped text are some of the text's first
   characters escaped, or these and a backslash. *)
Cuts(text) ==
    \A k \in 0 .. Len(CefEscapeExt(text)) :
        \E m \in 0 .. Len(text) :
            LET whole == CefEscapeExt(SubSeq(text, 1, m))
            IN  SubSeq(CefEscapeExt(text), 1, k) \in {whole, Append(whole, "bs")}

LEMMA CutsFacts == ASSUME NEW text \in Text PROVE Cuts(text)
<1> DEFINE P == {n \in Nat : \A t \in Text : Len(t) = n => Cuts(t)}
<1>1. ASSUME NEW n \in Nat, \A k \in 0 .. n - 1 : k \in P PROVE n \in P
    <2> SUFFICES ASSUME NEW t \in Text, Len(t) = n PROVE Cuts(t)
        OBVIOUS
    <2>1. CASE t = <<>>
        <3>1. CefEscapeExt(t) = <<>> /\ Len(t) = 0 /\ Len(<<>>) = 0 /\ SubSeq(t, 1, 0) = <<>> /\ SubSeq(<<>>, 1, 0) = <<>>
            BY <2>1, EmptyText, SubSeqEmpty DEF EmptyFacts
        <3>2. \A k \in 0 .. Len(CefEscapeExt(t)) : SubSeq(CefEscapeExt(t), 1, k) = CefEscapeExt(SubSeq(t, 1, 0))
            <4> TAKE k \in 0 .. Len(CefEscapeExt(t))
            <4>1. k = 0
                BY <3>1
            <4> QED BY <2>1, <3>1, <4>1
        <3> QED BY <3>1, <3>2 DEF Cuts
    <2>2. CASE t # <<>>
        <3>1. PICK s \in Text, x \in Chars : t = Append(s, x)
            BY <2>2, SequenceEmptyOrAppend DEF Text
        <3>2. Len(s) \in 0 .. n - 1 /\ Len(t) = Len(s) + 1 /\ Len(s) \in Nat
            BY <3>1 DEF Text
        <3>3. Cuts(s)
            BY <1>1, <3>2
        <3> DEFINE a == CefEscapeExt(s)
                   b == CefEscapeExt(<<x>>)
                   e == CefEscapeExt(t)
        <3>4. t = s \o <<x>> /\ <<x>> \in Text
            BY <3>1, AppendText
        <3>5. e = a \o b /\ a \in Text /\ b \in Text /\ e \in Text
            BY <3>4, ExtConcat
        <3>6. b = <<x>> \/ \E y \in Chars : b = <<"bs", y>>
            <4>1. b = ExtBlock(x) /\ "n" \in Chars /\ "r" \in Chars
                BY OneEscaped DEF Chars, Words
            <4> QED BY <4>1 DEF ExtBlock
        <3>7. SubSeq(t, 1, Len(s)) = s /\ SubSeq(t, 1, Len(t)) = t
              /\ \A m \in 0 .. Len(s) : SubSeq(t, 1, m) = SubSeq(s, 1, m)
            BY <3>2, <3>4, Beginning, SubSeqFull DEF Text
        <3> SUFFICES ASSUME NEW k \in 0 .. Len(e)
                     PROVE  \E m \in 0 .. Len(t) :
                                LET whole == CefEscapeExt(SubSeq(t, 1, m))
                                IN  SubSeq(e, 1, k) \in {whole, Append(whole, "bs")}
            BY DEF Cuts
        <3> HIDE DEF a, b, e
        <3>8. CASE k \in 0 .. Len(a)
            <4>1. SubSeq(e, 1, k) = SubSeq(a, 1, k)
                BY <3>5, <3>8, Beginning DEF Text
            <4>2. PICK m \in 0 .. Len(s) :
                      LET whole == CefEscapeExt(SubSeq(s, 1, m))
                      IN  SubSeq(a, 1, k) \in {whole, Append(whole, "bs")}
                BY <3>3, <3>8 DEF Cuts, a
            <4>3. m \in 0 .. Len(t) /\ SubSeq(t, 1, m) = SubSeq(s, 1, m)
                BY <3>2, <3>7
            <4> QED BY <4>1, <4>2, <4>3
        <3>9. CASE k = Len(e)
            <4>1. SubSeq(e, 1, k) = e
                BY <3>5, <3>9, SubSeqFull DEF Text
            <4>2. Len(t) \in 0 .. Len(t)
                BY <3>2
            <4>3. e = CefEscapeExt(SubSeq(t, 1, Len(t)))
                BY <3>7 DEF e
            <4> QED BY <4>1, <4>2, <4>3
        <3>10. CASE k \notin 0 .. Len(a) /\ k # Len(e)
            <4>1. Len(e) = Len(a) + Len(b) /\ Len(a) \in Nat /\ Len(b) \in Nat
                BY <3>5, Concat
            <4>2. PICK y \in Chars : b = <<"bs", y>>
                <5>1. ASSUME b = <<x>> PROVE FALSE
                    <6>1. Len(b) = 1
                        BY <5>1
                    <6> QED BY <3>10, <4>1, <6>1
                <5> QED BY <3>6, <5>1
            <4> DEFINE c == Append(a, "bs")
            <4>3. c \in Text /\ <<y>> \in Text /\ e = c \o <<y>> /\ Len(c) = Len(a) + 1 /\ Len(b) = 2
                <5>0. "bs" \in Chars
                    BY SomeChars
                <5>1. c \in Text /\ c = a \o <<"bs">> /\ (a \o <<"bs">>) \o <<y>> = a \o <<"bs", y>>
                    BY <3>5, <5>0, AppendText
                <5>2. Len(c) = Len(a) + 1
                    BY <3>5, <5>0, AppendProperties DEF Text
                <5>3. Len(<<"bs", y>>) = 2 /\ <<y>> \in Text
                    BY ShortTexts
                <5> QED BY <3>5, <4>2, <5>1, <5>2, <5>3
            <4>4. k = Len(c)
                BY <3>10, <4>1, <4>3
            <4> HIDE DEF c
            <4>5. SubSeq(e, 1, k) = c
                <5>1. Len(c) \in 0 .. Len(c)
                    BY <4>3 DEF Text
                <5> QED BY <4>3, <4>4, <5>1, Beginning DEF Text
            <4>6. Len(s) \in 0 .. Len(t)
                BY <3>2
            <4>7. c = Append(CefEscapeExt(SubSeq(t, 1, Len(s))), "bs")
                BY <3>7 DEF c, a
            <4> QED BY <4>5, <4>6, <4>7
        <3> QED BY <3>8, <3>9, <3>10
    <2> QED BY <2>1, <2>2
<1>2. P \in SUBSET Nat
    OBVIOUS
<1> HIDE DEF P
<1>3. P = Nat
    BY <1>1, <1>2, AllNumbers
<1>4. Len(text) \in Nat
    BY DEF Text
<1> QED BY <1>3, <1>4 DEF P

(* A value that is cut, in the middle of an escape perhaps, is read as the
   first characters of the text and the mark. *)
LEMMA CutFacts ==
    ASSUME NEW text \in Text, NEW k \in 0 .. Len(CefEscapeExt(text))
    PROVE  \E m \in 0 .. Len(text) :
               Escaped(Append(SubSeq(CefEscapeExt(text), 1, k), "[TRUNC]"), "eq", SubSeq(text, 1, m) \o <<"[TRUNC]">>)
<1> DEFINE e == SubSeq(CefEscapeExt(text), 1, k)
           mark == "[TRUNC]"
<1>0. mark \in Chars /\ "bs" \in Chars /\ mark # "bs" /\ mark # "eq" /\ "bs" # "eq"
    BY DEF Chars, Words, Special
<1>1. PICK m \in 0 .. Len(text) :
          LET whole == CefEscapeExt(SubSeq(text, 1, m)) IN e \in {whole, Append(whole, "bs")}
    BY CutsFacts DEF Cuts
<1> DEFINE t == SubSeq(text, 1, m)
           a == CefEscapeExt(t)
<1>2. t \in Text
    BY Beginning, EmptyText DEF Text, EmptyFacts
<1> HIDE DEF t, e
<1>3. Escaped(a, "eq", t) /\ a \in Text
    BY <1>2, EscapeFacts, ExtConcat
<1>4. Escaped(<<mark>>, "eq", <<mark>>) /\ Escaped(<<"bs", mark>>, "eq", <<mark>>) /\ <<mark>> \in Text
    <2>1. AfterBackslash(mark) = <<mark>>
        BY DEF AfterBackslash
    <2> HIDE DEF mark
    <2> QED BY <1>0, <2>1, PlainFacts, PairFacts DEF Escaped
<1>5. Escaped(a \o <<mark>>, "eq", t \o <<mark>>) /\ Escaped(a \o <<"bs", mark>>, "eq", t \o <<mark>>)
    <2> HIDE DEF mark, a
    <2> QED BY <1>2, <1>3, <1>4, EscapedConcat
<1>6. Append(a, mark) = a \o <<mark>> /\ Append(Append(a, "bs"), mark) = a \o <<"bs", mark>>
    <2> HIDE DEF mark, a
    <2> QED BY <1>0, <1>3, AppendText
<1>7. e = a \/ e = Append(a, "bs")
    BY <1>1 DEF e, t
<1>8. Escaped(Append(e, mark), "eq", t \o <<mark>>)
    <2> HIDE DEF mark, a
    <2> QED BY <1>5, <1>6, <1>7
<1> QED BY <1>8 DEF e, t

-----------------------------------------------------------------------------
(* The characters that fields bring into a line, and those of the keys. *)

(* What is not a line break. *)
Printed == Chars \ {"lf", "cr"}

Names == (Letters \cup Keys) \ Special

IsTuple(keys) == \E n \in 0 .. 4 : DOMAIN keys = 1 .. n

LEMMA NamesPrinted == Names \subseteq Printed
BY DEF Names, Printed, Chars, Special

LEMMA TableKeys == ASSUME NEW s \in Streams PROVE KeysOf(s) \subseteq Keys
BY DEF Keys

LEMMA OwnNames == OwnKeys \subseteq Names
<1>1. OwnKeys \subseteq Keys
    BY DEF Keys
<1>2. \A k \in OwnKeys : k \notin Special
    BY DEF OwnKeys, Special
<1> QED BY <1>1, <1>2 DEF Names

(* The tables have finitely many rows and keys that no format treats specially. *)
LEMMA LeefTable ==
    ASSUME NEW s \in Streams
    PROVE  DOMAIN LeefMap[s] \subseteq 1 .. 13 /\ \A i \in DOMAIN LeefMap[s] : LeefMap[s][i][2] \in Names
<1>1. DOMAIN LeefMap[s] \subseteq 1 .. 13
    BY DEF LeefMap, Streams
<1>2. \A i \in DOMAIN LeefMap[s] : LeefMap[s][i][2] \in Keys
    BY TableKeys DEF KeysOf
<1>3. ASSUME NEW i \in DOMAIN LeefMap[s] PROVE LeefMap[s][i][2] \notin Special
    <2>1. CASE s = "alerts"
        BY <2>1 DEF LeefMap, Special
    <2>2. CASE s = "incidents"
        BY <2>2 DEF LeefMap, Special
    <2>3. CASE s = "mgmt_audits"
        BY <2>3 DEF LeefMap, Special
    <2>4. CASE s = "agent_audits"
        BY <2>4 DEF LeefMap, Special
    <2> QED BY <2>1, <2>2, <2>3, <2>4 DEF Streams
<1> QED BY <1>1, <1>2, <1>3 DEF Names

LEMMA CefTable ==
    ASSUME NEW s \in Streams
    PROVE  DOMAIN CefMap[s] \subseteq 1 .. 18 /\ \A i \in DOMAIN CefMap[s] : CefMap[s][i][2] \in Names
<1>1. DOMAIN CefMap[s] \subseteq 1 .. 18
    BY DEF CefMap, Streams
<1>2. \A i \in DOMAIN CefMap[s] : CefMap[s][i][2] \in Keys
    BY TableKeys DEF KeysOf
<1>3. ASSUME NEW i \in DOMAIN CefMap[s] PROVE CefMap[s][i][2] \notin Special
    <2>1. CASE s = "alerts"
        BY <2>1 DEF CefMap, Special
    <2>2. CASE s = "incidents"
        BY <2>2 DEF CefMap, Special
    <2>3. CASE s = "mgmt_audits"
        BY <2>3 DEF CefMap, Special
    <2>4. CASE s = "agent_audits"
        BY <2>4 DEF CefMap, Special
    <2> QED BY <2>1, <2>2, <2>3, <2>4 DEF Streams
<1> QED BY <1>1, <1>2, <1>3 DEF Names

LEMMA ChoiceTable ==
    ASSUME NEW s \in Streams
    PROVE  /\ DOMAIN QradarChoices[s] \subseteq 1 .. 12
           /\ \A i \in DOMAIN QradarChoices[s] :
                 QradarChoices[s][i][1] \in Names /\ IsTuple(QradarChoices[s][i][2])
<1>1. DOMAIN QradarChoices[s] \subseteq 1 .. 12
    BY DEF QradarChoices, Streams
<1>2. \A i \in DOMAIN QradarChoices[s] : QradarChoices[s][i][1] \in Keys
    BY TableKeys DEF KeysOf
<1>3. ASSUME NEW i \in DOMAIN QradarChoices[s]
      PROVE  QradarChoices[s][i][1] \notin Special /\ IsTuple(QradarChoices[s][i][2])
    <2>1. CASE s = "alerts"
        BY <2>1 DEF QradarChoices, IsTuple, Special
    <2>2. CASE s = "incidents"
        BY <2>2 DEF QradarChoices, IsTuple, Special
    <2>3. CASE s = "mgmt_audits"
        BY <2>3 DEF QradarChoices, IsTuple, Special
    <2>4. CASE s = "agent_audits"
        BY <2>4 DEF QradarChoices, IsTuple, Special
    <2> QED BY <2>1, <2>2, <2>3, <2>4 DEF Streams
<1> QED BY <1>1, <1>2, <1>3 DEF Names

LEMMA NameTables ==
    ASSUME NEW s \in Streams
    PROVE  IsTuple(EventName[s]) /\ IsTuple(PrimaryTime[s]) /\ IsTuple(EndTime[s])
<1>1. IsTuple(EventName[s])
    BY DEF EventName, Streams, IsTuple
<1>2. IsTuple(PrimaryTime[s])
    BY DEF PrimaryTime, Streams, IsTuple
<1>3. IsTuple(EndTime[s])
    BY DEF EndTime, Streams, IsTuple
<1> QED BY <1>1, <1>2, <1>3

(* The first of the keys that has a value is one that has. *)
LEMMA FirstValued ==
    ASSUME NEW keys, IsTuple(keys), HasFirst(keys)
    PROVE  First(keys) \in Valued
<1> DEFINE S == {i \in DOMAIN keys : keys[i] \in Valued}
<1>0. PICK n \in 0 .. 4 : DOMAIN keys = 1 .. n
    BY DEF IsTuple
<1>1. S \in SUBSET Nat /\ S # {}
    BY <1>0 DEF HasFirst
<1>2. PICK i \in S : \A j \in S : i <= j
    <2> HIDE DEF S
    <2> QED BY <1>1, LeastElement
<1>3. i \in DOMAIN keys /\ keys[i] \in Valued /\ \A j \in 1 .. (i - 1) : keys[j] \notin Valued
    BY <1>0, <1>2
<1> HIDE DEF S
<1> QED BY <1>3 DEF First

LEMMA SanitiseFacts ==
    ASSUME NEW text \in Text
    PROVE  Sanitise(text) \in Seq(Printed) /\ Sanitise(text) \in Text
<1>1. \A i \in DOMAIN text :
          (IF text[i] \in {"tab", "lf", "cr", "pipe"} THEN "sp" ELSE text[i]) \in Printed
    BY SomeChars DEF Text, Printed
<1>2. Sanitise(text) \in [1 .. Len(text) -> Printed] /\ Len(text) \in Nat
    BY <1>1 DEF Sanitise, Text
<1>3. Sanitise(text) \in Seq(Printed)
    BY <1>2
<1> QED BY <1>3, SeqMonotonic DEF Printed, Text

(* The names and the texts of a record's fields. *)
LEMMA RecordTexts ==
    ASSUME IsRecord(record), NEW k \in DOMAIN record
    PROVE  k \in Names /\ k \in Letters /\ record[k].text \in Text
<1>1. k \in Letters /\ record[k] \in Value
    BY DEF IsRecord
<1>2. record[k].text \in Seq(Letters \cup Special)
    BY <1>1 DEF Value
<1>3. Letters \cup Special \subseteq Chars
    BY DEF Chars
<1>4. record[k].text \in Text
    BY <1>2, <1>3, SeqMonotonic DEF Text
<1> QED BY <1>1, <1>4, EventLineAssumption DEF Names

LEMMA OwnTexts ==
    /\ <<"default">> \in Text /\ <<"product">> \in Text /\ <<"severity">> \in Text /\ <<"1.0">> \in Text
    /\ <<"date">> \in Text /\ <<"stream">> \in Text /\ <<"qradarCategory">> \in Text /\ <<>> \in Text
    /\ <<"_stream">> \in Text /\ <<"_ingested">> \in Text
    /\ \A s \in Streams : <<s>> \in Text
<1>1. \A c \in {"default", "product", "severity", "1.0", "date"} : c \in Chars
    BY DEF Chars, Words
<1>2. \A c \in {"stream", "qradarCategory", "_stream", "_ingested"} : c \in Chars
    BY OwnNames, NamesPrinted DEF OwnKeys, Printed
<1>3. \A s \in Streams : s \in Chars
    BY DEF Chars
<1>4. \A c \in Chars : <<c>> \in Text /\ <<>> \in Text
    BY ShortTexts
<1> QED BY <1>1, <1>2, <1>3, <1>4

(* A field of a line that is from one of the record's that has a value. *)
IsFrom(x, k) == \E text \in Text : x = As(k, text)

LEMMA FieldTexts ==
    ASSUME IsRecord(record), NEW k \in DOMAIN record, NEW dates
    PROVE  IsFrom(Raw(k), k) /\ IsFrom(Shown(k, dates), k) /\ IsFrom(Iso(k), k)
<1>1. record[k].text \in Text
    BY RecordTexts
<1>2. IsFrom(Raw(k), k)
    BY <1>1 DEF Raw, As, IsFrom
<1>3. IsFrom(Iso(k), k)
    BY <1>1, SanitiseFacts, OwnTexts DEF Iso, As, IsFrom
<1> QED BY <1>2, <1>3 DEF Shown

(* A field of a line, the format's or that of a field with a value. *)
IsField(x) == x \in Field /\ (x.from # Own => x.from \in Valued)

LEMMA FromIsField ==
    ASSUME IsRecord(record), NEW k \in Valued
    PROVE  /\ \A x : IsFrom(x, k) => IsField(x)
           /\ \A text \in Text : IsField([from |-> k, text |-> text, cut |-> TRUE])
<1>1. k \in Letters
    BY RecordTexts DEF Valued
<1>2. ASSUME NEW x, IsFrom(x, k) PROVE IsField(x)
    <2>1. PICK text \in Text : x = As(k, text)
        BY <1>2 DEF IsFrom
    <2> QED BY <1>1, <2>1 DEF IsField, Field, As
<1>3. ASSUME NEW text \in Text PROVE IsField([from |-> k, text |-> text, cut |-> TRUE])
    BY <1>1 DEF IsField, Field
<1> QED BY <1>2, <1>3

(* Finitely many fields under keys without a special meaning. *)
Printable(f) ==
    /\ IsFiniteSet(DOMAIN f)
    /\ DOMAIN f \subseteq Names
    /\ \A k \in DOMAIN f : IsField(f[k])

(* The fields of every format are printable. *)
LEMMA PrintableUnion ==
    ASSUME NEW f, NEW g, Printable(f), Printable(g)
    PROVE  Printable(f ++ g)
<1>1. DOMAIN (f ++ g) = DOMAIN f \cup DOMAIN g
    BY Union
<1>2. IsFiniteSet(DOMAIN f \cup DOMAIN g)
    BY FS_Union DEF Printable
<1>3. \A k \in DOMAIN f \cup DOMAIN g : (f ++ g)[k] = IF k \in DOMAIN f THEN f[k] ELSE g[k]
    BY DEF ++
<1> QED BY <1>1, <1>2, <1>3 DEF Printable

LEMMA OwnField == ASSUME NEW text \in Text PROVE IsField(As(Own, text))
BY DEF IsField, Field, As

(* A field of the format's own. *)
LEMMA PrintableOwn ==
    ASSUME NEW key \in Names, NEW text \in Text
    PROVE  Printable([k \in {key} |-> As(Own, text)])
<1>1. IsFiniteSet({key})
    BY FS_Singleton
<1>2. IsField(As(Own, text))
    BY OwnField
<1> QED BY <1>1, <1>2 DEF Printable

LEMMA PrintableCustom ==
    ASSUME IsRecord(record), NEW keys \in SUBSET Valued, NEW dates
    PROVE  Printable(CustomFields(keys, dates))
<1>0. keys \subseteq DOMAIN record
    BY DEF Valued
<1>1. IsFiniteSet(keys)
    BY <1>0, FS_Subset DEF IsRecord
<1>2. keys \subseteq Names
    BY <1>0, RecordTexts
<1>3. ASSUME NEW k \in keys PROVE IsField(CustomFields(keys, dates)[k])
    <2>1. record[k].text \in Text /\ IsFrom(Shown(k, dates), k)
        BY <1>0, RecordTexts, FieldTexts
    <2>2. IsField([from |-> k, text |-> record[k].text, cut |-> TRUE]) /\ IsField(Shown(k, dates))
        BY <2>1, FromIsField
    <2> QED BY <2>2 DEF CustomFields
<1> QED BY <1>1, <1>2, <1>3, CustomKeys DEF Printable

LEMMA PrintableMapped ==
    ASSUME IsRecord(record), NEW n \in Nat, NEW map, DOMAIN map \subseteq 1 .. n,
           \A i \in DOMAIN map : map[i][2] \in Names, NEW dates
    PROVE  Printable(MappedFields(map, dates))
<1> DEFINE used == {i \in DOMAIN map : map[i][1] \in Valued}
           keys == {map[i][2] : i \in used}
           last(key) == Max({i \in used : map[i][2] = key})
<1>0. MappedFields(map, dates) = [key \in keys |-> Shown(map[last(key)][1], dates)]
    BY DEF MappedFields
<1>1. IsFiniteSet(keys)
    <2>1. IsFiniteSet(1 .. n) /\ used \subseteq 1 .. n
        BY FS_Interval
    <2>2. IsFiniteSet(used)
        BY <2>1, FS_Subset
    <2> DEFINE f == [i \in used |-> map[i][2]]
    <2>3. f \in Surjection(used, keys)
        BY DEF Surjection
    <2> HIDE DEF f, used, keys
    <2> QED BY <2>2, <2>3, FS_Surjection
<1>2. keys \subseteq Names
    OBVIOUS
<1>3. ASSUME NEW key \in keys PROVE IsField(Shown(map[last(key)][1], dates))
    <2> DEFINE rows == {i \in used : map[i][2] = key}
    <2>1. rows # {} /\ rows \in SUBSET (0 .. n)
        OBVIOUS
    <2>2. Max(rows) \in rows
        <3> HIDE DEF rows
        <3> QED BY <2>1, MaxElement
    <2>3. last(key) \in used
        BY <2>2
    <2>4. map[last(key)][1] \in Valued
        BY <2>3
    <2>5. map[last(key)][1] \in DOMAIN record
        BY <2>4 DEF Valued
    <2>6. IsFrom(Shown(map[last(key)][1], dates), map[last(key)][1])
        BY <2>5, FieldTexts
    <2> QED BY <2>4, <2>6, FromIsField
<1> HIDE DEF keys, last
<1> QED BY <1>0, <1>1, <1>2, <1>3 DEF Printable

LEMMA PrintableTimes ==
    ASSUME IsRecord(record), NEW key \in Names, NEW keys, IsTuple(keys), NEW dates
    PROVE  Printable(TimeFields(key, keys, dates))
<1>1. IsFiniteSet({key}) /\ IsFiniteSet({})
    BY FS_Singleton, FS_EmptySet
<1>2. ASSUME HasFirst(keys) PROVE IsField(Shown(First(keys), dates))
    <2>1. First(keys) \in Valued /\ First(keys) \in DOMAIN record
        BY <1>2, FirstValued DEF Valued
    <2> QED BY <2>1, FieldTexts, FromIsField
<1> QED BY <1>1, <1>2 DEF Printable, TimeFields

LEMMA PrintableChosen ==
    ASSUME IsRecord(record), NEW n \in Nat, NEW choices, DOMAIN choices \subseteq 1 .. n,
           \A i \in DOMAIN choices : choices[i][1] \in Names /\ IsTuple(choices[i][2])
    PROVE  Printable(ChosenFields(choices))
<1> DEFINE has == {i \in DOMAIN choices : HasFirst(choices[i][2])}
           keys == {choices[i][1] : i \in has}
           row(o) == CHOOSE i \in has : choices[i][1] = o
<1>0. ChosenFields(choices) = [o \in keys |-> Raw(First(choices[row(o)][2]))]
    BY DEF ChosenFields
<1>1. IsFiniteSet(keys)
    <2>1. IsFiniteSet(1 .. n) /\ has \subseteq 1 .. n
        BY FS_Interval
    <2>2. IsFiniteSet(has)
        BY <2>1, FS_Subset
    <2> DEFINE f == [i \in has |-> choices[i][1]]
    <2>3. f \in Surjection(has, keys)
        BY DEF Surjection
    <2> HIDE DEF f, has, keys
    <2> QED BY <2>2, <2>3, FS_Surjection
<1>2. keys \subseteq Names
    OBVIOUS
<1>3. ASSUME NEW o \in keys PROVE IsField(Raw(First(choices[row(o)][2])))
    <2>1. row(o) \in has
        OBVIOUS
    <2>2. IsTuple(choices[row(o)][2]) /\ HasFirst(choices[row(o)][2])
        BY <2>1
    <2>3. First(choices[row(o)][2]) \in Valued /\ First(choices[row(o)][2]) \in DOMAIN record
        BY <2>2, FirstValued DEF Valued
    <2> QED BY <2>3, FieldTexts, FromIsField
<1> HIDE DEF keys, row
<1> QED BY <1>0, <1>1, <1>2, <1>3 DEF Printable

LEMMA PrintableLeef == ASSUME IsRecord(record), stream \in Streams PROVE Printable(LeefFields)
<1> DEFINE map == LeefMap[stream]
           times == {map[i][1] : i \in {j \in DOMAIN map : map[j][2] \in {"devTime", "devTimeEnd"}}}
           custom == CustomFields(Valued \ MapKeys(map), EpochFields[stream])
           mapped == MappedFields(map, times)
           cat == Get(map[1][1], <<"default">>)
           own == [k \in {"cat"} |-> As(Own, cat)]
<1>1. LeefFields = (custom ++ mapped) ++ own
    BY DEF LeefFields
<1>2. Printable(custom)
    BY PrintableCustom
<1>3. Printable(mapped)
    <2>1. DOMAIN map \subseteq 1 .. 13 /\ \A i \in DOMAIN map : map[i][2] \in Names
        BY LeefTable
    <2> HIDE DEF map, times
    <2> QED BY <2>1, PrintableMapped
<1>4. Printable(own)
    <2>1. cat \in Text
        BY RecordTexts, OwnTexts DEF Get
    <2>2. "cat" \in Names
        BY OwnNames DEF OwnKeys
    <2> HIDE DEF cat
    <2> QED BY <2>1, <2>2, PrintableOwn
<1> HIDE DEF custom, mapped, own
<1> QED BY <1>1, <1>2, <1>3, <1>4, PrintableUnion

LEMMA PrintableCef == ASSUME IsRecord(record), stream \in Streams PROVE Printable(CefFields)
<1> DEFINE map == CefMap[stream]
           custom == CustomFields(Valued \ MapKeys(map), {})
           mapped == MappedFields(map, {})
           own == [k \in {"stream"} |-> As(Own, <<stream>>)]
<1>1. CefFields = (custom ++ mapped) ++ own
    BY DEF CefFields
<1>2. Printable(custom)
    BY PrintableCustom
<1>3. Printable(mapped)
    <2>1. DOMAIN map \subseteq 1 .. 18 /\ \A i \in DOMAIN map : map[i][2] \in Names
        BY CefTable
    <2> HIDE DEF map
    <2> QED BY <2>1, PrintableMapped
<1>4. Printable(own)
    <2>1. <<stream>> \in Text
        BY OwnTexts
    <2>2. "stream" \in Names
        BY OwnNames DEF OwnKeys
    <2> QED BY <2>1, <2>2, PrintableOwn
<1> HIDE DEF custom, mapped, own
<1> QED BY <1>1, <1>2, <1>3, <1>4, PrintableUnion

LEMMA NameField ==
    ASSUME IsRecord(record), stream \in Streams
    PROVE  IsField(QradarName) /\ QradarName.text \in Text
<1>1. ASSUME HasFirst(EventName[stream]) PROVE IsField(Raw(First(EventName[stream])))
    <2>1. First(EventName[stream]) \in Valued /\ First(EventName[stream]) \in DOMAIN record
        BY <1>1, NameTables, FirstValued DEF Valued
    <2> QED BY <2>1, FieldTexts, FromIsField
<1>2. IsField(QradarName)
    BY <1>1, OwnField, OwnTexts DEF QradarName
<1> QED BY <1>2 DEF IsField, Field

LEMMA PrintableQradar == ASSUME IsRecord(record), stream \in Streams PROVE Printable(QradarFields)
<1> DEFINE chosen == ChosenFields(QradarChoices[stream])
           known == [k \in Identifiers \cap Valued |-> Raw(k)]
           start == TimeFields("start", PrimaryTime[stream], Valued)
           rt == TimeFields("rt", PrimaryTime[stream], {})
           end == TimeFields("end", EndTime[stream], {})
           name == [k \in {"cat"} |-> QradarName]
           own == [k \in {"stream", "qradarCategory"} |-> As(Own, <<k>>)]
           custom == CustomFields(Valued \ DOMAIN QradarBase, {})
<1>1. QradarBase = (((((chosen ++ known) ++ start) ++ rt) ++ end) ++ name) ++ own
    BY DEF QradarBase
<1>2. QradarFields = QradarBase ++ custom
    BY DEF QradarFields
<1>3. "start" \in Names /\ "rt" \in Names /\ "end" \in Names /\ "cat" \in Names
      /\ "stream" \in Names /\ "qradarCategory" \in Names
    BY OwnNames DEF OwnKeys
<1>4. Printable(chosen)
    <2> DEFINE choices == QradarChoices[stream]
    <2>1. /\ DOMAIN choices \subseteq 1 .. 12
          /\ \A i \in DOMAIN choices : choices[i][1] \in Names /\ IsTuple(choices[i][2])
        BY ChoiceTable
    <2> HIDE DEF choices
    <2>2. Printable(ChosenFields(choices))
        BY <2>1, PrintableChosen
    <2> QED BY <2>2 DEF choices
<1>5. Printable(known)
    <2>1. DOMAIN known \subseteq DOMAIN record
        BY DEF Valued
    <2>2. IsFiniteSet(DOMAIN known)
        BY <2>1, FS_Subset DEF IsRecord
    <2>3. \A k \in DOMAIN known : k \in Names /\ IsField(known[k])
        BY <2>1, RecordTexts, FieldTexts, FromIsField
    <2> QED BY <2>2, <2>3 DEF Printable
<1>6. Printable(start) /\ Printable(rt) /\ Printable(end)
    BY <1>3, NameTables, PrintableTimes
<1>7. Printable(name)
    <2>1. IsFiniteSet({"cat"})
        BY FS_Singleton
    <2> QED BY <1>3, <2>1, NameField DEF Printable
<1>8. Printable(own)
    <2>1. IsFiniteSet({"stream"} \cup {"qradarCategory"})
        BY FS_Singleton, FS_Union
    <2>2. {"stream"} \cup {"qradarCategory"} = {"stream", "qradarCategory"}
        OBVIOUS
    <2>3. \A k \in {"stream", "qradarCategory"} : IsField(As(Own, <<k>>))
        BY OwnTexts, OwnField
    <2> QED BY <1>3, <2>1, <2>2, <2>3 DEF Printable
<1>9. Printable(custom)
    BY PrintableCustom
<1> HIDE DEF chosen, known, start, rt, end, name, own, custom
<1>10. Printable(((chosen ++ known) ++ start) ++ rt)
    BY <1>4, <1>5, <1>6, PrintableUnion
<1>11. Printable(QradarBase)
    BY <1>1, <1>6, <1>7, <1>8, <1>10, PrintableUnion
<1> QED BY <1>2, <1>9, <1>11, PrintableUnion

LEMMA PrintableJson == ASSUME IsRecord(record) PROVE Printable(JsonFields)
<1> DEFINE times == EpochFields[stream] \cup PrimaryTimes[stream]
           own == [k \in {"_stream", "_ingested"} |-> As(Own, <<k>>)]
           dated == [k \in Valued \cap times |-> Iso(k)]
           rest == CustomFields(Valued \ times, {})
<1>1. JsonFields = (own ++ dated) ++ rest
    BY DEF JsonFields
<1>2. Printable(own)
    <2>1. IsFiniteSet({"_stream"} \cup {"_ingested"})
        BY FS_Singleton, FS_Union
    <2>2. {"_stream"} \cup {"_ingested"} = {"_stream", "_ingested"}
        OBVIOUS
    <2>3. \A k \in {"_stream", "_ingested"} : k \in Names /\ IsField(As(Own, <<k>>))
        BY OwnNames, OwnTexts, OwnField DEF OwnKeys
    <2> QED BY <2>1, <2>2, <2>3 DEF Printable
<1>3. Printable(dated)
    <2> HIDE DEF times
    <2>1. DOMAIN dated \subseteq DOMAIN record
        BY DEF Valued
    <2>2. IsFiniteSet(DOMAIN dated)
        BY <2>1, FS_Subset DEF IsRecord
    <2>3. \A k \in DOMAIN dated : k \in Names /\ IsField(dated[k])
        BY <2>1, RecordTexts, FieldTexts, FromIsField
    <2> QED BY <2>2, <2>3 DEF Printable
<1>4. Printable(rest)
    BY PrintableCustom
<1> HIDE DEF own, dated, rest
<1> QED BY <1>1, <1>2, <1>3, <1>4, PrintableUnion

-----------------------------------------------------------------------------
(* No field brings a line feed or a carriage return into the line. *)

SomeOf(x) == CHOOSE k \in x : TRUE

TakeStep(S, n) == [p \in (1 .. n) \X (SUBSET S) |-> p[2] \ {SomeOf(p[2])}]

(* Listed gives every element of a finite set, once. *)
LEMMA ListedFacts ==
    ASSUME NEW S, IsFiniteSet(S)
    PROVE  Listed(S) \in Seq(S) /\ \A k \in S : \E n \in 1 .. Len(Listed(S)) : Listed(S)[n] = k
<1> DEFINE N == Cardinality(S)
           step == TakeStep(S, N)
           rest[n \in 0 .. N] == IF n = 0 THEN S ELSE rest[n - 1] \ {CHOOSE k \in rest[n - 1] : TRUE}
<1>0. N \in Nat
    BY FS_CardinalityType
<1>1. Listed(S) = [n \in 1 .. N |-> SomeOf(rest[n - 1])]
    BY DEF Listed, SomeOf
<1> HIDE DEF N
<1>2. \A n \in 1 .. N, x \in SUBSET S : step[<<n, x>>] = x \ {SomeOf(x)}
    <2> TAKE n \in 1 .. N, x \in SUBSET S
    <2>1. <<n, x>> \in (1 .. N) \X (SUBSET S)
        OBVIOUS
    <2> QED BY <2>1 DEF TakeStep
<1>3. PICK h \in [0 .. N -> SUBSET S] : Follows(h, N, S, step)
    <2>1. \A n \in 1 .. N, x \in SUBSET S : step[<<n, x>>] \in SUBSET S
        <3> TAKE n \in 1 .. N, x \in SUBSET S
        <3>1. step[<<n, x>>] = x \ {SomeOf(x)}
            BY <1>2
        <3> HIDE DEF step
        <3> QED BY <3>1
    <2>2. S \in SUBSET S
        OBVIOUS
    <2> HIDE DEF step
    <2>3. IsStep(N, SUBSET S, S, step)
        BY <1>0, <2>1, <2>2 DEF IsStep
    <2> QED BY <2>3, Recursion
<1>4. h[0] = S /\ \A n \in 1 .. N : h[n] = h[n - 1] \ {SomeOf(h[n - 1])}
    <2>1. h[0] = S
        BY <1>3 DEF Follows
    <2>2. ASSUME NEW n \in 1 .. N PROVE h[n] = h[n - 1] \ {SomeOf(h[n - 1])}
        <3>0. n - 1 \in 0 .. N
            BY <1>0
        <3>1. h[n - 1] \in SUBSET S
            BY <3>0
        <3>2. step[<<n, h[n - 1]>>] = h[n - 1] \ {SomeOf(h[n - 1])}
            BY <1>2, <3>1
        <3> HIDE DEF step
        <3> QED BY <1>3, <3>2 DEF Follows
    <2> QED BY <2>1, <2>2
<1>5. h = [n \in 0 .. N |-> IF n = 0 THEN S ELSE h[n - 1] \ {CHOOSE k \in h[n - 1] : TRUE}]
    <2>1. ASSUME NEW n \in 0 .. N
          PROVE  h[n] = IF n = 0 THEN S ELSE h[n - 1] \ {CHOOSE k \in h[n - 1] : TRUE}
        <3>1. CASE n = 0
            BY <1>4, <3>1
        <3>2. CASE n # 0
            <4>1. n \in 1 .. N
                BY <1>0, <3>2
            <4> QED BY <1>4, <3>2, <4>1 DEF SomeOf
        <3> QED BY <3>1, <3>2
    <2> QED BY <2>1
<1>6. rest = [n \in 0 .. N |-> IF n = 0 THEN S ELSE rest[n - 1] \ {CHOOSE k \in rest[n - 1] : TRUE}]
    BY <1>5
<1> HIDE DEF rest, step
<1>7. ASSUME NEW n \in 1 .. N PROVE n - 1 \in 0 .. N /\ n - 1 \in Nat /\ n # 0 /\ n \in 0 .. N
    BY <1>0
<1>8. rest[0] = S /\ \A n \in 1 .. N : rest[n] = rest[n - 1] \ {SomeOf(rest[n - 1])}
    BY <1>0, <1>6, <1>7 DEF SomeOf
<1> DEFINE P == {n \in Nat : n <= N => /\ rest[n] \subseteq S /\ IsFiniteSet(rest[n])
                                       /\ Cardinality(rest[n]) = N - n}
<1>9. ASSUME NEW n \in Nat, \A k \in 0 .. n - 1 : k \in P PROVE n \in P
    <2>1. CASE n = 0
        BY <1>0, <1>8, <2>1 DEF N
    <2>2. CASE n > 0 /\ n <= N
        <3> DEFINE m == n - 1
                   r == rest[m]
        <3>1. m \in 0 .. n - 1 /\ m <= N /\ n \in 1 .. N
            BY <1>0, <2>2
        <3>2. r \subseteq S /\ IsFiniteSet(r) /\ Cardinality(r) = N - m
            BY <1>9, <3>1
        <3>3. rest[n] = r \ {SomeOf(r)}
            BY <1>8, <3>1
        <3> HIDE DEF r
        <3>4. r # {}
            BY <1>0, <3>1, <3>2, FS_EmptySet
        <3>5. SomeOf(r) \in r
            BY <3>4 DEF SomeOf
        <3>6. IsFiniteSet(r \ {SomeOf(r)}) /\ Cardinality(r \ {SomeOf(r)}) = Cardinality(r) - 1
            BY <3>2, <3>5, FS_RemoveElement
        <3>7. rest[n] \subseteq S /\ IsFiniteSet(rest[n]) /\ Cardinality(rest[n]) = N - m - 1
            BY <3>2, <3>3, <3>6
        <3>8. N - m - 1 = N - n
            BY <1>0
        <3> QED BY <3>7, <3>8
    <2> QED BY <1>0, <2>1, <2>2
<1>10. P = Nat
    <2>1. P \in SUBSET Nat
        OBVIOUS
    <2> HIDE DEF P
    <2> QED BY <1>9, <2>1, AllNumbers
<1>11. ASSUME NEW n \in 1 .. N PROVE SomeOf(rest[n - 1]) \in S
    <2> DEFINE m == n - 1
    <2>1. m \in Nat /\ m <= N /\ N - m > 0
        BY <1>0
    <2>2. rest[m] \subseteq S /\ IsFiniteSet(rest[m]) /\ Cardinality(rest[m]) = N - m
        BY <1>10, <2>1
    <2> HIDE DEF m
    <2>3. rest[m] # {}
        BY <2>1, <2>2, FS_EmptySet
    <2>4. SomeOf(rest[m]) \in rest[m]
        BY <2>3 DEF SomeOf
    <2> QED BY <2>2, <2>4 DEF m
<1>12. [n \in 1 .. N |-> SomeOf(rest[n - 1])] \in [1 .. N -> S]
    BY <1>11
<1>13. ASSUME NEW k \in S PROVE \E n \in 1 .. N : k = SomeOf(rest[n - 1])
    <2> DEFINE gone == {n \in 0 .. N : k \notin rest[n]}
    <2>1. rest[N] = {}
        <3>1. IsFiniteSet(rest[N]) /\ Cardinality(rest[N]) = 0
            BY <1>0, <1>10
        <3> QED BY <3>1, FS_EmptySet
    <2>2. N \in gone /\ gone \in SUBSET Nat
        BY <1>0, <2>1
    <2>3. PICK n \in gone : \A m \in gone : n <= m
        <3> HIDE DEF gone
        <3> QED BY <2>2, LeastElement
    <2>4. n # 0
        BY <1>8, <2>3
    <2>5. n \in 1 .. N /\ n - 1 \in 0 .. N /\ n - 1 \notin gone
        BY <1>0, <2>3, <2>4
    <2>6. k \in rest[n - 1] /\ k \notin rest[n]
        BY <2>3, <2>5
    <2>7. k = SomeOf(rest[n - 1])
        BY <1>8, <2>5, <2>6
    <2> QED BY <2>5, <2>7
<1>14. Listed(S) \in Seq(S) /\ Len(Listed(S)) = N
    BY <1>0, <1>1, <1>12
<1>15. ASSUME NEW k \in S PROVE \E n \in 1 .. N : Listed(S)[n] = k
    <2>1. PICK n \in 1 .. N : k = SomeOf(rest[n - 1])
        BY <1>13
    <2>2. Listed(S)[n] = SomeOf(rest[n - 1])
        BY <1>1
    <2> QED BY <2>1, <2>2
<1> QED BY <1>14, <1>15

LEMMA WordsPrinted == \A c \in Words \cup {"bs", "eq", "pipe", "sp"} : c \in Printed
BY DEF Printed, Chars, Words, Special

LEMMA EscapeExtFacts == ASSUME NEW text \in Text PROVE CefEscapeExt(text) \in Seq(Printed)
<1> DEFINE one == Replace(text, "bs", <<"bs", "bs">>)
           two == Replace(one, "eq", <<"bs", "eq">>)
           three == Replace(two, "lf", <<"bs", "n">>)
           NoFeed == Chars \ {"lf"}
<1>0. "n" \in Printed /\ "r" \in Printed /\ "bs" \in Printed
    BY WordsPrinted DEF Words
<1>1. one \in Text
    BY SomeChars, ShortTexts, ReplaceText
<1> HIDE DEF one
<1>2. two \in Text
    BY <1>1, SomeChars, ShortTexts, ReplaceText
<1> HIDE DEF two
<1>3. three \in Seq(NoFeed)
    <2>1. NoFeed \cup {"lf"} = Chars
        BY SomeChars
    <2>2. two \in Seq(NoFeed \cup {"lf"})
        BY <1>2, <2>1 DEF Text
    <2>3. <<"bs", "n">> \in Seq(NoFeed)
        BY <1>0 DEF Printed
    <2> HIDE DEF NoFeed
    <2> QED BY <2>2, <2>3, ReplaceFacts
<1>4. three \in Seq(Printed \cup {"cr"})
    <2>1. NoFeed = Printed \cup {"cr"}
        BY SomeChars DEF Printed
    <2> QED BY <1>3, <2>1
<1> HIDE DEF three
<1>5. <<"bs", "r">> \in Seq(Printed)
    BY <1>0
<1>6. Replace(three, "cr", <<"bs", "r">>) \in Seq(Printed)
    BY <1>4, <1>5, ReplaceFacts
<1> QED BY <1>6 DEF CefEscapeExt, one, two, three

LEMMA TruncateFacts == ASSUME NEW text \in Seq(Printed) PROVE Truncate(text) \in Seq(Printed)
<1>1. CASE Len(text) > MaxLen
    <2>1. MaxLen \in 0 .. Len(text) /\ Len(text) \in Nat
        BY <1>1, EventLineAssumption
    <2>2. SubSeq(text, 1, MaxLen) \in Seq(Printed)
        BY <2>1, SubSeqProperties
    <2>3. "[TRUNC]" \in Printed
        BY WordsPrinted DEF Words
    <2>4. Append(SubSeq(text, 1, MaxLen), "[TRUNC]") \in Seq(Printed)
        BY <2>2, <2>3, AppendProperties
    <2> QED BY <1>1, <2>4 DEF Truncate
<1>2. CASE ~(Len(text) > MaxLen)
    BY <1>2 DEF Truncate
<1> QED BY <1>1, <1>2

LEMMA EncodeFacts == ASSUME NEW field, field.text \in Text PROVE Encode(field) \in Seq(Printed)
<1> DEFINE escaped == IF format = "leef" THEN Sanitise(field.text) ELSE CefEscapeExt(field.text)
<1>1. escaped \in Seq(Printed)
    BY SanitiseFacts, EscapeExtFacts
<1>2. Encode(field) = IF field.cut THEN Truncate(escaped) ELSE escaped
    BY DEF Encode
<1> HIDE DEF escaped
<1> QED BY <1>1, <1>2, TruncateFacts

LEMMA MarkLast ==
    ASSUME NEW s \in Text
    PROVE  LET cut == s \o <<"[TRUNC]">>
           IN  /\ cut = Append(s, "[TRUNC]") /\ cut # <<>> /\ cut \in Text
               /\ Last(cut) = "[TRUNC]" /\ Front(cut) = s /\ Len(cut) - 1 = Len(s)
<1> DEFINE t == <<"[TRUNC]">>
           cut == s \o t
<1>1. "[TRUNC]" \in Chars /\ t \in Text /\ Len(t) = 1 /\ t[1] = "[TRUNC]"
    BY WordsPrinted, ShortTexts DEF Words, Printed
<1>2. cut = Append(s, "[TRUNC]")
    BY <1>1, AppendText
<1> HIDE DEF t
<1>3. cut \in Text /\ Len(cut) = Len(s) + 1 /\ Len(s) \in Nat /\ cut[Len(s) + 1] = "[TRUNC]"
    <2>1. /\ cut \in Text /\ Len(cut) = Len(s) + Len(t) /\ Len(s) \in Nat
          /\ \A i \in 1 .. Len(t) : cut[Len(s) + i] = t[i]
        BY <1>1, Concat
    <2>2. cut[Len(s) + 1] = t[1]
        BY <1>1, <2>1
    <2> QED BY <1>1, <2>1, <2>2
<1>4. SubSeq(cut, 1, Len(s)) = s
    <2>1. Len(s) \in 0 .. Len(s)
        BY <1>3
    <2> QED BY <1>1, <2>1, Beginning DEF Text
<1> HIDE DEF cut
<1>5. cut # <<>> /\ Len(cut) - 1 = Len(s)
    <2>1. Len(<<>>) = 0
        OBVIOUS
    <2> QED BY <1>3, <2>1
<1>6. Last(cut) = "[TRUNC]" /\ Front(cut) = s
    BY <1>3, <1>4, <1>5 DEF Last, Front
<1> QED BY <1>2, <1>3, <1>5, <1>6 DEF cut, t

LEMMA SameCut ==
    ASSUME NEW field, NEW s \in Text, NEW t \in Text, field.cut, Len(s) \in 0 .. Len(field.text),
           t = SubSeq(field.text, 1, Len(s)), Same(s, t)
    PROVE  SameOrCut(s \o <<"[TRUNC]">>, field)
<1> DEFINE read == s \o <<"[TRUNC]">>
<1>1. read # <<>> /\ Last(read) = "[TRUNC]" /\ Front(read) = s /\ Len(read) - 1 = Len(s)
    BY MarkLast
<1> HIDE DEF read
<1>2. SameOrCut(read, field)
    BY <1>1 DEF SameOrCut
<1> QED BY <1>2 DEF read

LEMMA TruncateCases ==
    ASSUME NEW s \in Text
    PROVE  \/ Truncate(s) = s
           \/ MaxLen \in 0 .. Len(s) /\ Truncate(s) = Append(SubSeq(s, 1, MaxLen), "[TRUNC]")
<1>1. Len(s) \in Nat
    BY DEF Text
<1> QED BY <1>1, EventLineAssumption DEF Truncate

(* A value of a CEF line. *)
LEMMA CefValue ==
    ASSUME NEW field \in Field, format # "leef"
    PROVE  \E t \in Text : Escaped(Encode(field), "eq", t) /\ SameOrCut(t, field)
<1> DEFINE e == CefEscapeExt(field.text)
<1>0. field.text \in Text
    BY DEF Field
<1>1. e \in Text /\ Escaped(e, "eq", field.text) /\ Cuts(field.text)
    BY <1>0, ExtConcat, EscapeFacts, CutsFacts
<1>2. Encode(field) = IF field.cut THEN Truncate(e) ELSE e
    BY DEF Encode
<1> HIDE DEF e
<1>3. CASE Encode(field) = e
    <2>1. SameOrCut(field.text, field)
        BY DEF SameOrCut, Same
    <2> QED BY <1>0, <1>1, <1>3, <2>1
<1>4. CASE Encode(field) # e
    <2>1. field.cut /\ MaxLen \in 0 .. Len(e) /\ Encode(field) = Append(SubSeq(e, 1, MaxLen), "[TRUNC]")
        BY <1>1, <1>2, <1>4, TruncateCases
    <2>2. PICK m \in 0 .. Len(field.text) : Escaped(Encode(field), "eq", SubSeq(field.text, 1, m) \o <<"[TRUNC]">>)
        BY <1>0, <2>1, CutFacts DEF e
    <2> DEFINE s == SubSeq(field.text, 1, m)
    <2>3. s \in Text /\ Len(s) = m
        BY <1>0, EmptyText, Beginning DEF Text, EmptyFacts
    <2>4. s = SubSeq(field.text, 1, Len(s))
        BY <2>3
    <2> HIDE DEF s
    <2>5. Same(s, s)
        BY DEF Same
    <2>6. SameOrCut(s \o <<"[TRUNC]">>, field)
        BY <2>1, <2>3, <2>4, <2>5, SameCut
    <2>7. s \o <<"[TRUNC]">> \in Text
        BY <2>3, MarkLast
    <2> QED BY <2>2, <2>6, <2>7 DEF s
<1> QED BY <1>3, <1>4

(* What sanitise does to a character. *)
Blank(x, y) == x = y \/ (x = "sp" /\ y \in {"tab", "lf", "cr", "pipe"})

(* A value of a LEEF line. *)
LEMMA LeefValue ==
    ASSUME NEW field \in Field, format = "leef"
    PROVE  /\ Encode(field) \in Text /\ \A i \in 1 .. Len(Encode(field)) : Encode(field)[i] # "pipe"
           /\ SameOrCut(Encode(field), field)
<1> DEFINE text == field.text
           e == Sanitise(text)
<1>0. text \in Text /\ DOMAIN text = 1 .. Len(text) /\ Len(text) \in Nat
    BY DEF Field, Text
<1>1. e \in Text /\ Len(e) = Len(text) /\ \A i \in 1 .. Len(e) : e[i] # "pipe" /\ Blank(e[i], text[i])
    <2>1. e \in [1 .. Len(text) -> Chars]
        BY <1>0, SomeChars DEF Sanitise, Text
    <2>2. e \in Text /\ Len(e) = Len(text)
        BY <1>0, <2>1 DEF Text
    <2>3. \A i \in 1 .. Len(text) : e[i] # "pipe" /\ Blank(e[i], text[i])
        <3> TAKE i \in 1 .. Len(text)
        <3>1. e[i] = IF text[i] \in {"tab", "lf", "cr", "pipe"} THEN "sp" ELSE text[i]
            BY <1>0 DEF Sanitise
        <3> HIDE DEF e, text
        <3> QED BY <3>1 DEF Blank
    <2> QED BY <2>2, <2>3
<1>2. Encode(field) = IF field.cut THEN Truncate(e) ELSE e
    BY DEF Encode
<1> HIDE DEF e
<1>3. CASE Encode(field) = e
    <2>1. Same(e, text)
        BY <1>0, <1>1 DEF Same, Blank
    <2> QED BY <1>1, <1>3, <2>1 DEF SameOrCut
<1>4. CASE Encode(field) # e
    <2>1. field.cut /\ MaxLen \in 0 .. Len(e) /\ Encode(field) = Append(SubSeq(e, 1, MaxLen), "[TRUNC]")
        BY <1>1, <1>2, <1>4, TruncateCases
    <2> DEFINE s == SubSeq(e, 1, MaxLen)
               t == SubSeq(text, 1, MaxLen)
    <2>2. /\ s \in Text /\ Len(s) = MaxLen /\ \A i \in 1 .. Len(s) : s[i] = e[i]
          /\ t \in Text /\ Len(t) = MaxLen /\ \A i \in 1 .. Len(s) : t[i] = text[i]
        <3>1. \A i \in 1 .. MaxLen : e[i] \in Chars /\ text[i] \in Chars
            BY <1>0, <1>1, <2>1 DEF Text
        <3>2. /\ s \in Text /\ Len(s) = MaxLen
              /\ t \in Text /\ Len(t) = MaxLen
            BY <1>0, <1>1, <2>1, EmptyText, Beginning DEF Text, EmptyFacts
        <3>3. \A i \in 1 .. MaxLen : s[i] = e[i] /\ t[i] = text[i]
            BY <2>1, <3>1, SubSeqProperties
        <3> QED BY <3>2, <3>3
    <2>3. Same(s, t)
        <3>1. DOMAIN t = 1 .. Len(s)
            BY <2>2 DEF Text
        <3>2. \A i \in 1 .. Len(s) : Blank(s[i], t[i])
            BY <1>1, <2>1, <2>2
        <3> HIDE DEF s, t
        <3> QED BY <2>2, <3>1, <3>2 DEF Same, Blank
    <2>4. \A i \in 1 .. Len(s) : s[i] # "pipe"
        BY <1>1, <2>1, <2>2
    <2>5. Len(s) \in 0 .. Len(field.text) /\ t = SubSeq(field.text, 1, Len(s))
        BY <1>1, <2>1, <2>2
    <2> HIDE DEF s, t
    <2>6. SameOrCut(s \o <<"[TRUNC]">>, field)
        BY <2>1, <2>2, <2>3, <2>5, SameCut
    <2>7. /\ Append(s, "[TRUNC]") = s \o <<"[TRUNC]">> /\ Append(s, "[TRUNC]") \in Text
          /\ Len(Append(s, "[TRUNC]")) = Len(s) + 1
          /\ \A i \in 1 .. Len(s) : Append(s, "[TRUNC]")[i] = s[i]
          /\ Append(s, "[TRUNC]")[Len(s) + 1] = "[TRUNC]"
        <3>1. "[TRUNC]" \in Chars
            BY WordsPrinted DEF Words, Printed
        <3> QED BY <2>2, <3>1, AppendProperties, MarkLast, SMTT(30) DEF Text
    <2>8. Encode(field) = Append(s, "[TRUNC]")
        BY <2>1 DEF s
    <2>9. \A i \in 1 .. Len(Encode(field)) : Encode(field)[i] # "pipe"
        <3> TAKE i \in 1 .. Len(Encode(field))
        <3>1. i \in 1 .. Len(s) \/ i = Len(s) + 1
            BY <2>2, <2>7, <2>8 DEF Text
        <3> QED BY <2>4, <2>7, <2>8, <3>1
    <2> QED BY <2>6, <2>7, <2>8, <2>9
<1> QED BY <1>3, <1>4

LEMMA PairsFacts == ASSUME NEW f, Printable(f) PROVE Pairs(f) \in Seq(Seq(Printed))
<1> DEFINE keys == Listed(DOMAIN f)
<1>1. keys \in Seq(DOMAIN f)
    BY ListedFacts DEF Printable
<1>2. Pairs(f) = [n \in DOMAIN keys |-> <<keys[n], "eq">> \o Encode(f[keys[n]])]
    BY DEF Pairs
<1> HIDE DEF keys
<1>3. ASSUME NEW n \in DOMAIN keys PROVE <<keys[n], "eq">> \o Encode(f[keys[n]]) \in Seq(Printed)
    <2>1. keys[n] \in DOMAIN f
        BY <1>1
    <2>2. keys[n] \in Printed /\ "eq" \in Printed
        BY <2>1, WordsPrinted, NamesPrinted DEF Printable
    <2>3. <<keys[n], "eq">> \in Seq(Printed)
        BY <2>2
    <2>4. Encode(f[keys[n]]) \in Seq(Printed)
        BY <2>1, EncodeFacts DEF Printable, IsField, Field
    <2> QED BY <2>3, <2>4, ConcatProperties
<1>4. DOMAIN keys = 1 .. Len(keys) /\ Len(keys) \in Nat
    BY <1>1
<1>5. Pairs(f) \in [1 .. Len(keys) -> Seq(Printed)]
    BY <1>2, <1>3, <1>4
<1> QED BY <1>4, <1>5

LEMMA JoinedFacts ==
    ASSUME NEW texts \in Seq(Seq(Printed)), NEW separator \in Printed
    PROVE  Joined(texts, separator) \in Seq(Printed)
<1> DEFINE parts == [i \in DOMAIN texts |-> IF i = 1 THEN texts[i] ELSE <<separator>> \o texts[i]]
<1>1. ASSUME NEW i \in DOMAIN texts
      PROVE  (IF i = 1 THEN texts[i] ELSE <<separator>> \o texts[i]) \in Seq(Printed)
    <2>1. texts[i] \in Seq(Printed) /\ <<separator>> \in Seq(Printed)
        OBVIOUS
    <2> QED BY <2>1, ConcatProperties
<1>2. DOMAIN texts = 1 .. Len(texts) /\ Len(texts) \in Nat
    OBVIOUS
<1>3. parts \in [1 .. Len(texts) -> Seq(Printed)]
    BY <1>1, <1>2
<1>4. Joined(texts, separator) = FlattenSeq(parts)
    BY DEF Joined
<1> DEFINE l == Len(texts)
<1> HIDE DEF parts
<1>5. parts \in Seq(Seq(Printed))
    <2>1. parts \in [1 .. l -> Seq(Printed)] /\ l \in Nat
        BY <1>2, <1>3
    <2> HIDE DEF l
    <2> QED BY <2>1
<1> QED BY <1>4, <1>5, FlattenFacts

-----------------------------------------------------------------------------
(* A beginning and parts that follow it. *)

(* B and the first n parts of Q, and where it ends. *)
Upto(B, Q, n) == B \o FlattenSeq(SubSeq(Q, 1, n))

(* Where each part ends. *)
Ends(B, Q) == [n \in 0 .. Len(Q) |-> Len(Upto(B, Q, n))]

LEMMA Associative ==
    ASSUME NEW a \in Text, NEW b \in Text, NEW c \in Text
    PROVE  (a \o b) \o c = a \o (b \o c)
BY ConcatAssociative DEF Text

(* A beginning with one part more. *)
LEMMA UptoFacts ==
    ASSUME NEW B \in Text, NEW Q \in Seq(Text)
    PROVE  /\ \A n \in 0 .. Len(Q) : Upto(B, Q, n) \in Text
           /\ Upto(B, Q, 0) = B /\ Upto(B, Q, Len(Q)) = B \o FlattenSeq(Q)
           /\ \A n \in 1 .. Len(Q) : Upto(B, Q, n) = Upto(B, Q, n - 1) \o Q[n]
           /\ \A n \in 0 .. Len(Q) : \E t \in Text : B \o FlattenSeq(Q) = Upto(B, Q, n) \o t
<1>0. Len(Q) \in Nat /\ \A n \in 1 .. Len(Q) : Q[n] \in Text
    OBVIOUS
<1>1. \A n \in 0 .. Len(Q) : SubSeq(Q, 1, n) \in Seq(Text)
    <2> TAKE n \in 0 .. Len(Q)
    <2>1. <<>> \in Seq(Text)
        OBVIOUS
    <2> QED BY <2>1, Beginning
<1>2. \A q \in Seq(Text) : FlattenSeq(q) \in Text
    BY FlattenFacts DEF Text
<1>3. \A n \in 0 .. Len(Q) : Upto(B, Q, n) \in Text
    BY <1>1, <1>2, Concat DEF Upto
<1>4. Upto(B, Q, 0) = B
    <2>1. SubSeq(Q, 1, 0) = <<>>
        BY SubSeqEmpty
    <2>2. <<>> \in Seq(Seq(Chars))
        OBVIOUS
    <2>3. FlattenSeq(<<>>) = <<>>
        BY <2>2, FlattenFacts
    <2>4. B \o <<>> = B
        BY ConcatEmptySeq DEF Text
    <2> QED BY <2>1, <2>3, <2>4 DEF Upto
<1>5. Upto(B, Q, Len(Q)) = B \o FlattenSeq(Q)
    BY SubSeqFull DEF Upto
<1>6. ASSUME NEW n \in 1 .. Len(Q) PROVE Upto(B, Q, n) = Upto(B, Q, n - 1) \o Q[n]
    <2> DEFINE a == SubSeq(Q, 1, n - 1)
    <2>1. SubSeq(Q, 1, n) = a \o <<Q[n]>>
        <3>1. 1 \in 1 .. Len(Q) /\ n \in 1 .. Len(Q)
            BY <1>0
        <3> QED BY <3>1, SubSeqRecursiveSecond
    <2>2. a \in Seq(Text)
        <3>1. n - 1 \in 0 .. Len(Q)
            BY <1>0
        <3> QED BY <1>1, <3>1
    <2> HIDE DEF a
    <2>3. <<Q[n]>> \in Seq(Text) /\ Q[n] \in Text
        BY <1>0
    <2>4. FlattenSeq(a \o <<Q[n]>>) = FlattenSeq(a) \o FlattenSeq(<<Q[n]>>)
        BY <2>2, <2>3, FlattenConcat DEF Text
    <2>5. FlattenSeq(<<Q[n]>>) = Q[n]
        BY <2>3, FlattenShort DEF Text
    <2>6. FlattenSeq(a) \in Text
        BY <1>2, <2>2
    <2>7. B \o (FlattenSeq(a) \o Q[n]) = (B \o FlattenSeq(a)) \o Q[n]
        BY <2>3, <2>6, Associative
    <2> QED BY <2>1, <2>4, <2>5, <2>7 DEF Upto, a
<1>7. ASSUME NEW n \in 0 .. Len(Q) PROVE \E t \in Text : B \o FlattenSeq(Q) = Upto(B, Q, n) \o t
    <2> DEFINE a == SubSeq(Q, 1, n)
               c == SubSeq(Q, n + 1, Len(Q))
    <2>1. a \o c = Q
        <3>1. 1 \in 1 .. Len(Q) + 1 /\ n \in 1 - 1 .. Len(Q) /\ Len(Q) \in n .. Len(Q)
            BY <1>0
        <3>2. a \o c = SubSeq(Q, 1, Len(Q))
            BY <3>1, ConcatAdjacentSubSeq
        <3> QED BY <3>2, SubSeqFull
    <2>2. a \in Seq(Text)
        BY <1>1
    <2>3. c \in Seq(Text)
        <3>1. n + 1 \in Int /\ Len(Q) \in Int /\ \A i \in n + 1 .. Len(Q) : Q[i] \in Text
            BY <1>0
        <3> QED BY <3>1, SubSeqProperties
    <2> HIDE DEF a, c
    <2>4. FlattenSeq(Q) = FlattenSeq(a) \o FlattenSeq(c)
        BY <2>1, <2>2, <2>3, FlattenConcat DEF Text
    <2>5. FlattenSeq(a) \in Text /\ FlattenSeq(c) \in Text
        BY <1>2, <2>2, <2>3
    <2>6. B \o (FlattenSeq(a) \o FlattenSeq(c)) = (B \o FlattenSeq(a)) \o FlattenSeq(c)
        BY <2>5, ConcatAssociative, SMTT(30) DEF Text
    <2> QED BY <2>4, <2>5, <2>6 DEF Upto, a
<1> QED BY <1>3, <1>4, <1>5, <1>6, <1>7

AllClosed(B, Q) == Closed(B) /\ \A n \in 1 .. Len(Q) : Closed(Q[n])

LEMMA UptoClosed ==
    ASSUME NEW B \in Text, NEW Q \in Seq(Text), AllClosed(B, Q), NEW n \in 0 .. Len(Q)
    PROVE  Closed(Upto(B, Q, n))
<1> DEFINE P == {m \in Nat : m <= Len(Q) => Closed(Upto(B, Q, m))}
<1>0. Len(Q) \in Nat
    OBVIOUS
<1>1. ASSUME NEW m \in Nat, \A k \in 0 .. m - 1 : k \in P PROVE m \in P
    <2>1. CASE m = 0
        <3>1. Closed(Upto(B, Q, 0))
            BY UptoFacts DEF AllClosed
        <3> QED BY <2>1, <3>1
    <2>2. CASE m > 0 /\ m <= Len(Q)
        <3>1. m - 1 \in 0 .. m - 1 /\ m - 1 \in 0 .. Len(Q) /\ m - 1 <= Len(Q) /\ m \in 1 .. Len(Q)
            BY <1>0, <2>2
        <3>2. Closed(Upto(B, Q, m - 1))
            BY <1>1, <3>1
        <3>3. Upto(B, Q, m - 1) \in Text /\ Q[m] \in Text /\ Closed(Q[m])
            <4>1. Q[m] \in Text /\ Closed(Q[m])
                BY <3>1 DEF AllClosed
            <4> QED BY <3>1, <4>1, UptoFacts
        <3>4. Closed(Upto(B, Q, m - 1) \o Q[m])
            BY <3>2, <3>3, ClosedConcat
        <3>5. Closed(Upto(B, Q, m))
            BY <3>1, <3>4, UptoFacts
        <3> QED BY <3>5
    <2> QED BY <1>0, <2>1, <2>2
<1>2. P \in SUBSET Nat
    OBVIOUS
<1> HIDE DEF P
<1>3. P = Nat
    BY <1>1, <1>2, AllNumbers
<1> QED BY <1>0, <1>3 DEF P

(* The n-th part stands between the ends of the one before it and its own,
   whatever follows. *)
LEMMA PartFacts ==
    ASSUME NEW B \in Text, NEW Q \in Seq(Text), NEW tail \in Text, NEW n \in 1 .. Len(Q)
    PROVE  LET s == (B \o FlattenSeq(Q)) \o tail
               o == Ends(B, Q)[n - 1]
           IN  /\ o \in Nat /\ Ends(B, Q)[n] = o + Len(Q[n]) /\ Ends(B, Q)[n] <= Len(s)
               /\ \A i \in 1 .. Len(Q[n]) : s[o + i] = Q[n][i]
               /\ AllClosed(B, Q) => \A c : \A i \in 1 .. Len(Q[n]) : o + i \in Bare(s, c) <=> i \in Bare(Q[n], c)
<1> DEFINE s == (B \o FlattenSeq(Q)) \o tail
           a == Upto(B, Q, n - 1)
           q == Q[n]
<1>0. Len(Q) \in Nat /\ n - 1 \in 0 .. Len(Q) /\ n \in 0 .. Len(Q) /\ q \in Text
    OBVIOUS
<1>1. a \in Text /\ Upto(B, Q, n) = a \o q /\ Upto(B, Q, n) \in Text
    BY <1>0, UptoFacts
<1>2. PICK t \in Text : B \o FlattenSeq(Q) = (a \o q) \o t
    <2>1. \E t \in Text : B \o FlattenSeq(Q) = Upto(B, Q, n) \o t
        BY <1>0, UptoFacts
    <2> QED BY <1>1, <2>1
<1>3. Ends(B, Q)[n - 1] = Len(a) /\ Ends(B, Q)[n] = Len(a \o q)
    BY <1>0, <1>1 DEF Ends
<1> HIDE DEF a, q
<1> DEFINE w == t \o tail
           v == q \o w
<1>4. w \in Text
    BY Concat
<1>5. v \in Text /\ s = a \o v
    <2>0. a \o q \in Text
        BY <1>1
    <2>1. s = (a \o q) \o w
        <3>1. s = ((a \o q) \o t) \o tail
            BY <1>2
        <3> QED BY <2>0, <3>1, Associative
    <2> HIDE DEF w, s
    <2>2. (a \o q) \o w = a \o v
        <3>1. a \in Text /\ q \in Text /\ w \in Text
            BY <1>0, <1>1, <1>4
        <3>2. (a \o q) \o w = a \o (q \o w)
            <4> HIDE DEF v
            <4> QED BY <3>1, Associative, ZenonT(30)
        <3> QED BY <3>2
    <2>3. v \in Text
        BY <1>0, <1>4, Concat
    <2> QED BY <2>1, <2>2, <2>3
<1>6. /\ Len(v) = Len(q) + Len(w) /\ Len(q) \in Nat /\ Len(w) \in Nat
      /\ \A i \in 1 .. Len(q) : v[i] = q[i]
    BY <1>0, <1>4, Concat
<1> HIDE DEF w, v, s
<1>7. /\ Len(s) = Len(a) + Len(v) /\ Len(a) \in Nat /\ Len(v) \in Nat
      /\ \A i \in 1 .. Len(v) : s[Len(a) + i] = v[i]
    BY <1>1, <1>5, Concat
<1>8. Len(a \o q) = Len(a) + Len(q)
    BY <1>0, <1>1, Concat
<1>9. ASSUME NEW i \in 1 .. Len(q) PROVE i \in 1 .. Len(v) /\ s[Len(a) + i] = q[i]
    BY <1>6, <1>7
<1>10. ASSUME AllClosed(B, Q), NEW c, NEW i \in 1 .. Len(q)
       PROVE  Len(a) + i \in Bare(s, c) <=> i \in Bare(q, c)
    <2>1. Closed(a) /\ Closed(q)
        BY <1>0, <1>10, UptoClosed DEF AllClosed, a, q
    <2>2. \A j \in 1 .. Len(v) : Len(a) + j \in Bare(s, c) <=> j \in Bare(v, c)
        BY <1>1, <1>5, <2>1, BareConcat
    <2>3. \A j \in 1 .. Len(q) : j \in Bare(v, c) <=> j \in Bare(q, c)
        BY <1>0, <1>4, <2>1, BareConcat DEF v
    <2> QED BY <1>9, <2>2, <2>3
<1>11. Len(a) \in Nat /\ Len(a \o q) <= Len(s)
    BY <1>6, <1>7, <1>8
<1>12. \A i \in 1 .. Len(q) : s[Len(a) + i] = q[i]
    BY <1>9
<1>13. AllClosed(B, Q) => \A c : \A i \in 1 .. Len(q) : Len(a) + i \in Bare(s, c) <=> i \in Bare(q, c)
    BY <1>10
<1>14. Ends(B, Q)[n - 1] \in Nat /\ Ends(B, Q)[n] = Ends(B, Q)[n - 1] + Len(q) /\ Ends(B, Q)[n] <= Len(s)
    BY <1>3, <1>8, <1>11
<1>15. \A i \in 1 .. Len(q) : s[Ends(B, Q)[n - 1] + i] = q[i]
    BY <1>3, <1>12
<1>16. AllClosed(B, Q) =>
           \A c : \A i \in 1 .. Len(q) : Ends(B, Q)[n - 1] + i \in Bare(s, c) <=> i \in Bare(q, c)
    BY <1>3, <1>13
<1> QED BY <1>14, <1>15, <1>16 DEF s, q

LEMMA EndsFacts ==
    ASSUME NEW B \in Text, NEW Q \in Seq(Text)
    PROVE  /\ Ends(B, Q) \in [0 .. Len(Q) -> Nat] /\ Len(Q) \in Nat
           /\ Ends(B, Q)[0] = Len(B) /\ Ends(B, Q)[Len(Q)] = Len(B \o FlattenSeq(Q))
           /\ \A n \in 1 .. Len(Q) : Ends(B, Q)[n] = Ends(B, Q)[n - 1] + Len(Q[n])
<1>0. Len(Q) \in Nat /\ 0 \in 0 .. Len(Q) /\ Len(Q) \in 0 .. Len(Q)
    OBVIOUS
<1>1. \A n \in 0 .. Len(Q) : Upto(B, Q, n) \in Text
    BY UptoFacts
<1>2. \A n \in 0 .. Len(Q) : Len(Upto(B, Q, n)) \in Nat
    BY <1>1 DEF Text
<1>3. Ends(B, Q)[0] = Len(B) /\ Ends(B, Q)[Len(Q)] = Len(B \o FlattenSeq(Q))
    <2>1. Upto(B, Q, 0) = B /\ Upto(B, Q, Len(Q)) = B \o FlattenSeq(Q)
        BY UptoFacts
    <2> QED BY <1>0, <2>1 DEF Ends
<1>4. ASSUME NEW n \in 1 .. Len(Q) PROVE Ends(B, Q)[n] = Ends(B, Q)[n - 1] + Len(Q[n])
    <2>1. <<>> \in Text
        BY DEF Text
    <2> QED BY <2>1, PartFacts
<1> QED BY <1>0, <1>2, <1>3, <1>4 DEF Ends

(* A position is in the beginning, in one of the parts or behind them. *)
LEMMA WherePart ==
    ASSUME NEW B \in Text, NEW Q \in Seq(Text), NEW p \in Nat, p > Len(B), p <= Len(B \o FlattenSeq(Q))
    PROVE  \E n \in 1 .. Len(Q) : \E i \in 1 .. Len(Q[n]) : p = Ends(B, Q)[n - 1] + i
<1> DEFINE e == Ends(B, Q)
           N == Len(Q)
           S == {n \in 0 .. N : p <= e[n]}
<1>0. /\ e \in [0 .. N -> Nat] /\ N \in Nat /\ e[0] = Len(B) /\ e[N] = Len(B \o FlattenSeq(Q))
      /\ \A n \in 1 .. N : e[n] = e[n - 1] + Len(Q[n])
    BY EndsFacts
<1> HIDE DEF e
<1>1. N \in S /\ S \in SUBSET Nat
    BY <1>0
<1>2. PICK n \in S : \A m \in S : n <= m
    <2> HIDE DEF S
    <2> QED BY <1>1, LeastElement
<1>3. n # 0
    BY <1>0, <1>2
<1>4. n \in 1 .. N /\ n - 1 \in 0 .. N /\ n - 1 \notin S
    BY <1>0, <1>2, <1>3
<1>5. e[n - 1] < p /\ e[n - 1] \in Nat /\ Len(Q[n]) \in Nat
    <2>1. Q[n] \in Text
        BY <1>4
    <2>2. Len(Q[n]) \in Nat
        BY <2>1 DEF Text
    <2> QED BY <1>0, <1>4, <2>2
<1>6. p - e[n - 1] \in 1 .. Len(Q[n]) /\ p = e[n - 1] + (p - e[n - 1])
    <2>1. p <= e[n - 1] + Len(Q[n])
        BY <1>0, <1>2, <1>4
    <2> QED BY <1>5, <2>1
<1> QED BY <1>4, <1>6 DEF e

(* A sequence that grows at every step is increasing. *)
LEMMA Increasing ==
    ASSUME NEW N \in Nat, NEW e \in [0 .. N -> Nat], \A n \in 1 .. N : e[n - 1] < e[n]
    PROVE  \A n \in 0 .. N : \A m \in 0 .. n : e[m] <= e[n] /\ (m < n => e[m] < e[n])
<1> DEFINE P == {n \in Nat : n <= N => \A m \in 0 .. n : e[m] <= e[n] /\ (m < n => e[m] < e[n])}
<1>1. ASSUME NEW n \in Nat, \A k \in 0 .. n - 1 : k \in P PROVE n \in P
    <2> SUFFICES ASSUME n <= N, NEW m \in 0 .. n PROVE e[m] <= e[n] /\ (m < n => e[m] < e[n])
        OBVIOUS
    <2>1. CASE m = n
        BY <2>1
    <2>2. CASE m # n
        <3>1. n \in 1 .. N /\ n - 1 \in 0 .. n - 1 /\ m \in 0 .. n - 1 /\ n - 1 <= N /\ n - 1 \in 0 .. N
            BY <2>2
        <3>2. e[m] <= e[n - 1]
            BY <1>1, <3>1
        <3>3. e[n - 1] < e[n] /\ e[n] \in Nat /\ e[n - 1] \in Nat /\ e[m] \in Nat
            BY <3>1
        <3> QED BY <3>2, <3>3
    <2> QED BY <2>1, <2>2
<1>2. P \in SUBSET Nat
    OBVIOUS
<1> HIDE DEF P
<1>3. P = Nat
    BY <1>1, <1>2, AllNumbers
<1> TAKE n \in 0 .. N
<1>4. n \in P /\ n \in Nat /\ n <= N
    BY <1>3
<1> QED BY <1>4 DEF P

(* An element of a set is the one its rank says. *)
LEMMA NthElement ==
    ASSUME NEW S \in SUBSET Nat, IsFiniteSet(S), NEW n, NEW p \in S,
           Cardinality({q \in S : q <= p}) = n
    PROVE  Nth(S, n) = p
<1> DEFINE Below(x) == {q \in S : q <= x}
<1>1. ASSUME NEW x \in S, NEW y \in S, x < y PROVE Cardinality(Below(x)) # Cardinality(Below(y))
    <2>0. x \in Nat /\ y \in Nat /\ \A q \in S : q \in Nat
        OBVIOUS
    <2>1. Below(x) \subseteq Below(y) /\ Below(y) \subseteq S /\ y \in Below(y) /\ y \notin Below(x)
        <3>1. \A q \in S : q <= x => q <= y
            BY <1>1, <2>0
        <3>2. y <= y /\ ~(y <= x)
            BY <1>1, <2>0
        <3> QED BY <3>1, <3>2
    <2>2. IsFiniteSet(Below(y))
        BY <2>1, FS_Subset
    <2> HIDE DEF Below
    <2>3. Below(x) # Below(y)
        BY <2>1
    <2> QED BY <2>1, <2>2, <2>3, FS_Subset
<1>2. ASSUME NEW x \in S, Cardinality(Below(x)) = n PROVE x = p
    <2>1. x \in Nat /\ p \in Nat /\ (x < p \/ x = p \/ p < x)
        OBVIOUS
    <2>2. Cardinality(Below(p)) = n
        OBVIOUS
    <2> HIDE DEF Below
    <2> QED BY <1>1, <1>2, <2>1, <2>2
<1>3. Nth(S, n) = CHOOSE x \in S : Cardinality(Below(x)) = n
    BY DEF Nth
<1>4. Cardinality(Below(p)) = n
    OBVIOUS
<1> HIDE DEF Below
<1> QED BY <1>2, <1>3, <1>4

(* If one position of each part is marked, its last, and b before the parts,
   then the (b+n)-th mark is the end of the n-th part. *)
Marks(S, e, N, b) ==
    /\ N \in Nat /\ e \in [0 .. N -> Nat] /\ \A n \in 1 .. N : e[n - 1] < e[n]
    /\ b \in Nat
    /\ IsFiniteSet(S)
    /\ S \in SUBSET Nat
    /\ e[0] \in S
    /\ Cardinality({q \in S : q <= e[0]}) = b
    /\ \A n \in 1 .. N : \A q \in (e[n - 1] + 1) .. e[n] : q \in S <=> q = e[n]

(* The marks of a line after the first b are the ends of its parts. *)
LEMMA MarksFacts ==
    ASSUME NEW S, NEW e, NEW N, NEW b, Marks(S, e, N, b), NEW n \in 0 .. N
    PROVE  /\ Nth(S, b + n) = e[n] /\ e[n] \in S
           /\ (\A q \in S : q <= e[n]) => Cardinality(S) = b + n
<1> DEFINE Below(m) == {q \in S : q <= e[m]}
           P == {m \in Nat : m <= N => Cardinality(Below(m)) = b + m}
<1>0. /\ IsFiniteSet(S) /\ S \in SUBSET Nat
      /\ N \in Nat /\ e \in [0 .. N -> Nat] /\ b \in Nat /\ \A m \in 1 .. N : e[m - 1] < e[m]
    BY DEF Marks
<1>1. \A m \in 0 .. N : IsFiniteSet(Below(m)) /\ e[m] \in Nat
    <2> TAKE m \in 0 .. N
    <2>1. Below(m) \subseteq S
        OBVIOUS
    <2> HIDE DEF Below
    <2> QED BY <1>0, <2>1, FS_Subset
<1>2. \A m \in 0 .. N : e[m] \in S
    <2> TAKE m \in 0 .. N
    <2>1. CASE m = 0
        BY <2>1 DEF Marks
    <2>2. CASE m # 0
        <3>1. m \in 1 .. N /\ e[m] \in (e[m - 1] + 1) .. e[m]
            <4>1. m \in 1 .. N /\ m - 1 \in 0 .. N
                BY <1>0, <2>2
            <4> QED BY <1>0, <4>1
        <3> QED BY <3>1 DEF Marks
    <2> QED BY <2>1, <2>2
<1>3. ASSUME NEW m \in Nat, \A k \in 0 .. m - 1 : k \in P PROVE m \in P
    <2>1. CASE m = 0
        BY <1>0, <2>1 DEF Marks
    <2>2. CASE m > 0 /\ m <= N
        <3>1. m - 1 \in 0 .. m - 1 /\ m - 1 \in 0 .. N /\ m - 1 <= N /\ m \in 1 .. N /\ m \in 0 .. N
            BY <1>0, <2>2
        <3>2. Cardinality(Below(m - 1)) = b + (m - 1)
            BY <1>3, <3>1
        <3>3. e[m - 1] < e[m] /\ e[m - 1] \in Nat /\ e[m] \in Nat
            BY <1>0, <3>1
        <3>4. ASSUME NEW q PROVE q \in Below(m) <=> q \in Below(m - 1) \cup {e[m]}
            <4>1. CASE q \in S /\ q <= e[m - 1]
                <5>1. q \in Nat
                    BY <1>0, <4>1
                <5> QED BY <3>3, <4>1, <5>1
            <4>2. CASE q \in S /\ ~(q <= e[m - 1])
                <5>1. q \in Nat
                    BY <1>0, <4>2
                <5>2. q <= e[m] => q \in (e[m - 1] + 1) .. e[m]
                    BY <3>3, <4>2, <5>1
                <5>3. q <= e[m] => q = e[m]
                    BY <3>1, <4>2, <5>2 DEF Marks
                <5> QED BY <3>3, <4>2, <5>1, <5>3
            <4>3. CASE q \notin S
                BY <1>2, <3>1, <4>3
            <4> QED BY <4>1, <4>2, <4>3
        <3>5. Below(m) = Below(m - 1) \cup {e[m]} /\ e[m] \notin Below(m - 1)
            BY <3>3, <3>4
        <3>6. IsFiniteSet(Below(m - 1))
            BY <1>1, <3>1
        <3> HIDE DEF Below
        <3>7. Cardinality(Below(m - 1) \cup {e[m]}) = Cardinality(Below(m - 1)) + 1
            BY <3>5, <3>6, FS_AddElement
        <3>8. Cardinality(Below(m)) = b + m
            <4>1. b + (m - 1) + 1 = b + m
                BY <1>0
            <4> QED BY <3>2, <3>5, <3>7, <4>1
        <3> QED BY <3>8
    <2> QED BY <1>0, <2>1, <2>2
<1>4. P \in SUBSET Nat
    OBVIOUS
<1>5. P = Nat
    <2> HIDE DEF P
    <2> QED BY <1>3, <1>4, AllNumbers
<1>6. Cardinality(Below(n)) = b + n
    <2>1. n \in P /\ n <= N
        <3> HIDE DEF P
        <3> QED BY <1>0, <1>5
    <2> HIDE DEF Below
    <2> QED BY <2>1
<1>7. e[n] \in S
    BY <1>2
<1>8. Nth(S, b + n) = e[n]
    <2> DEFINE x == e[n]
               c == b + n
    <2>1. x \in S /\ Cardinality({q \in S : q <= x}) = c
        BY <1>6, <1>7
    <2> HIDE DEF x, c
    <2>2. Nth(S, c) = x
        <3>1. \A k : \A p \in S : Cardinality({q \in S : q <= p}) = k => Nth(S, k) = p
            BY <1>0, NthElement
        <3> QED BY <2>1, <3>1
    <2> QED BY <2>2 DEF x, c
<1>9. ASSUME \A q \in S : q <= e[n] PROVE Cardinality(S) = b + n
    <2>1. Below(n) = S
        BY <1>9
    <2> HIDE DEF Below
    <2> QED BY <1>6, <2>1
<1> QED BY <1>7, <1>8, <1>9

(* The characters between two positions. *)
LEMMA BetweenFacts ==
    ASSUME NEW s \in Text, NEW i \in Nat, NEW j \in Nat, i < j, j <= Len(s) + 1
    PROVE  /\ Between(s, i, j) \in Text /\ Len(Between(s, i, j)) = j - 1 - i
           /\ \A k \in 1 .. j - 1 - i : Between(s, i, j)[k] = s[i + k]
<1>1. \A k \in i + 1 .. j - 1 : s[k] \in Chars
    BY DEF Text
<1>2. i + 1 \in Int /\ j - 1 \in Int
    OBVIOUS
<1>3. /\ SubSeq(s, i + 1, j - 1) \in Seq(Chars)
      /\ Len(SubSeq(s, i + 1, j - 1)) = IF i + 1 <= j - 1 THEN j - 1 - (i + 1) + 1 ELSE 0
      /\ \A k \in 1 .. j - 1 - (i + 1) + 1 : SubSeq(s, i + 1, j - 1)[k] = s[i + 1 + k - 1]
    BY <1>1, <1>2, SubSeqProperties
<1>4. j - 1 - (i + 1) + 1 = j - 1 - i
    OBVIOUS
<1>5. Len(SubSeq(s, i + 1, j - 1)) = j - 1 - i
    BY <1>3
<1>6. ASSUME NEW k \in 1 .. j - 1 - i PROVE SubSeq(s, i + 1, j - 1)[k] = s[i + k]
    <2>1. i + 1 + k - 1 = i + k
        OBVIOUS
    <2> QED BY <1>3, <1>4, <2>1
<1> QED BY <1>3, <1>5, <1>6 DEF Between, Text

(* What stands between two positions of a part. *)
LEMMA BetweenPart ==
    ASSUME NEW B \in Text, NEW Q \in Seq(Text), NEW tail \in Text, NEW n \in 1 .. Len(Q),
           NEW i \in Nat, NEW j \in Nat, i < j, j <= Len(Q[n])
    PROVE  Between((B \o FlattenSeq(Q)) \o tail, Ends(B, Q)[n - 1] + i, Ends(B, Q)[n - 1] + j) = Between(Q[n], i, j)
<1> DEFINE s == (B \o FlattenSeq(Q)) \o tail
           o == Ends(B, Q)[n - 1]
           q == Q[n]
<1>1. /\ o \in Nat /\ o + Len(q) <= Len(s) /\ \A k \in 1 .. Len(q) : s[o + k] = q[k]
    BY PartFacts, ZenonT(60)
<1>2. q \in Text /\ B \o FlattenSeq(Q) \in Text
    <2>1. Q \in Seq(Seq(Chars)) /\ q \in Text
        BY DEF Text
    <2>2. FlattenSeq(Q) \in Text
        BY <2>1, FlattenFacts DEF Text
    <2> QED BY <2>1, <2>2, Concat
<1>3. s \in Text
    BY <1>2, Concat
<1> HIDE DEF s, o, q
<1>4. Len(q) \in Nat /\ Len(s) \in Nat
    BY <1>2, <1>3 DEF Text
<1> DEFINE x == o + i
           y == o + j
<1>5. x \in Nat /\ y \in Nat /\ x < y /\ y <= Len(s) + 1 /\ y - 1 - x = j - 1 - i /\ j <= Len(q) + 1
    BY <1>1, <1>4 DEF q
<1>6. /\ Between(s, x, y) \in Text /\ Len(Between(s, x, y)) = y - 1 - x
      /\ \A k \in 1 .. y - 1 - x : Between(s, x, y)[k] = s[x + k]
    <2> HIDE DEF x, y
    <2> QED BY <1>3, <1>5, BetweenFacts
<1>7. /\ Between(q, i, j) \in Text /\ Len(Between(q, i, j)) = j - 1 - i
      /\ \A k \in 1 .. j - 1 - i : Between(q, i, j)[k] = q[i + k]
    BY <1>2, <1>5, BetweenFacts
<1>8. ASSUME NEW k \in 1 .. j - 1 - i PROVE s[x + k] = q[i + k]
    <2>1. i + k \in 1 .. Len(q) /\ x + k = o + (i + k)
        BY <1>1, <1>4 DEF q
    <2> QED BY <1>1, <2>1
<1> HIDE DEF x, y
<1>9. Between(s, x, y) = Between(q, i, j)
    <2> DEFINE u == Between(s, x, y)
               v == Between(q, i, j)
               l == j - 1 - i
    <2>1. /\ u \in Seq(Chars) /\ v \in Seq(Chars) /\ Len(u) = l /\ Len(v) = l
          /\ \A k \in 1 .. l : u[k] = v[k]
        BY <1>5, <1>6, <1>7, <1>8 DEF Text
    <2> HIDE DEF u, v, l
    <2>2. u = v
        BY <2>1, SeqEqual
    <2> QED BY <2>2 DEF u, v
<1> QED BY <1>9 DEF s, o, q, x, y

-----------------------------------------------------------------------------
(* The seven parts of a CEF header end with the seven bare pipes of the line. *)

(* A header's text with its pipe: no other pipe of it is bare. *)
LEMMA OnePipe ==
    ASSUME NEW p \in Text, Closed(p), Covered(p, "pipe")
    PROVE  /\ Append(p, "pipe") \in Text /\ Closed(Append(p, "pipe"))
           /\ Bare(Append(p, "pipe"), "pipe") = {Len(Append(p, "pipe"))}
<1> DEFINE t == <<"pipe">>
           u == p \o t
<1>0. t \in Text /\ Len(t) = 1 /\ t[1] = "pipe"
    BY SomeChars, ShortTexts
<1>1. t \in Text /\ Len(t) = 1 /\ t[1] = "pipe" /\ DOMAIN t = 1 .. 1
    BY <1>0 DEF Text
<1>2. Append(p, "pipe") = u
    BY SomeChars, AppendText
<1> HIDE DEF t
<1>3. ~Escaping(t, 0) /\ (Escaping(t, 0 + 1) <=> t[0 + 1] = "bs" /\ ~Escaping(t, 0))
    BY EscapingFacts
<1>4. Closed(t)
    BY <1>1, <1>3 DEF Closed
<1>5. 1 \in Bare(t, "pipe")
    BY <1>1, <1>3 DEF Bare
<1>6. u \in Text /\ Len(u) = Len(p) + 1 /\ Len(p) \in Nat
    <2>1. u \in Text /\ Len(u) = Len(p) + Len(t) /\ Len(p) \in Nat
        BY <1>1, Concat
    <2> QED BY <1>1, <2>1
<1>7. Closed(u)
    BY <1>1, <1>4, ClosedConcat
<1>8. Bare(p, "pipe") = {}
    BY CoveredBare
<1>9. /\ \A i \in 1 .. Len(p) : i \in Bare(u, "pipe") <=> i \in Bare(p, "pipe")
      /\ \A i \in 1 .. Len(t) : Len(p) + i \in Bare(u, "pipe") <=> i \in Bare(t, "pipe")
    BY <1>1, BareConcat
<1> HIDE DEF u
<1>10. Len(u) \in Bare(u, "pipe")
    BY <1>1, <1>5, <1>6, <1>9
<1>11. ASSUME NEW i \in Bare(u, "pipe") PROVE i = Len(u)
    <2>1. i \in 1 .. Len(u)
        BY <1>6 DEF Bare, Text
    <2>2. i \notin 1 .. Len(p)
        BY <1>8, <1>9
    <2> QED BY <1>6, <2>1, <2>2
<1>12. Bare(u, "pipe") = {Len(u)}
    BY <1>10, <1>11
<1> QED BY <1>2, <1>6, <1>7, <1>12

(* If a text has the last characters of its parts bare, they are marks. *)
LEMMA BareMarks ==
    ASSUME NEW B \in Text, NEW Q \in Seq(Text), NEW tail \in Text, NEW c, AllClosed(B, Q),
           Len(B) \in Bare(B, c), \A n \in 1 .. Len(Q) : Bare(Q[n], c) = {Len(Q[n])}
    PROVE  LET s == (B \o FlattenSeq(Q)) \o tail
           IN  s \in Text /\ Marks(Bare(s, c), Ends(B, Q), Len(Q), Cardinality(Bare(B, c)))
<1> DEFINE s == (B \o FlattenSeq(Q)) \o tail
           S == Bare(s, c)
           e == Ends(B, Q)
           N == Len(Q)
           w == FlattenSeq(Q) \o tail
<1>1. FlattenSeq(Q) \in Text /\ w \in Text /\ B \o FlattenSeq(Q) \in Text
    <2>1. Q \in Seq(Seq(Chars))
        BY DEF Text
    <2>2. FlattenSeq(Q) \in Text
        BY <2>1, FlattenFacts DEF Text
    <2> QED BY <2>2, Concat
<1>2. s \in Text /\ s = B \o w
    <2>1. s \in Text
        BY <1>1, Concat
    <2>2. FlattenSeq(Q) \in Text /\ B \in Text /\ tail \in Text
        BY <1>1
    <2> QED BY <2>1, <2>2, Associative
<1>3. /\ e \in [0 .. N -> Nat] /\ N \in Nat /\ e[0] = Len(B)
      /\ \A n \in 1 .. N : e[n] = e[n - 1] + Len(Q[n])
    BY EndsFacts
<1>4. \A i \in 1 .. Len(B) : i \in S <=> i \in Bare(B, c)
    <2>1. Closed(B)
        BY DEF AllClosed
    <2> HIDE DEF w
    <2> QED BY <1>1, <1>2, <2>1, BareConcat DEF S
<1>5. ASSUME NEW n \in 1 .. N
      PROVE  /\ Len(Q[n]) \in 1 .. Len(Q[n])
             /\ \A i \in 1 .. Len(Q[n]) : e[n - 1] + i \in S <=> i = Len(Q[n])
    <2>1. \A i \in 1 .. Len(Q[n]) : e[n - 1] + i \in S <=> i \in Bare(Q[n], c)
        BY PartFacts
    <2>2. Len(Q[n]) \in Bare(Q[n], c) /\ Q[n] \in Text
        OBVIOUS
    <2>3. Len(Q[n]) \in 1 .. Len(Q[n])
        BY <2>2 DEF Bare, Text
    <2> HIDE DEF S, e
    <2> QED BY <2>1, <2>3
<1> HIDE DEF s, e
<1>6. DOMAIN s = 1 .. Len(s) /\ Len(s) \in Nat /\ Len(B) \in Nat /\ DOMAIN B = 1 .. Len(B)
    BY <1>2 DEF Text
<1>7. S \subseteq 1 .. Len(s) /\ Bare(B, c) \subseteq 1 .. Len(B)
    BY <1>6 DEF Bare
<1>8. IsFiniteSet(S) /\ S \in SUBSET Nat
    <2>1. IsFiniteSet(1 .. Len(s))
        BY <1>6, FS_Interval
    <2>2. IsFiniteSet(S)
        BY <1>7, <2>1, FS_Subset
    <2>3. 1 .. Len(s) \subseteq Nat
        BY <1>6
    <2> QED BY <1>7, <2>2, <2>3
<1> HIDE DEF S
<1>9. e[0] \in S
    BY <1>3, <1>4, <1>7
<1>10. {q \in S : q <= e[0]} = Bare(B, c)
    <2>1. ASSUME NEW q \in S, q <= e[0] PROVE q \in Bare(B, c)
        <3>1. q \in 1 .. Len(B)
            BY <1>3, <1>6, <1>7, <2>1
        <3> QED BY <1>4, <3>1
    <2>2. ASSUME NEW q \in Bare(B, c) PROVE q \in S /\ q <= e[0]
        BY <1>3, <1>4, <1>6, <1>7
    <2> QED BY <2>1, <2>2
<1>11. ASSUME NEW n \in 1 .. N, NEW q \in (e[n - 1] + 1) .. e[n] PROVE q \in S <=> q = e[n]
    <2> DEFINE o == e[n - 1]
               l == Len(Q[n])
               i == q - o
    <2>1. o \in Nat /\ l \in Nat /\ e[n] = o + l
        <3>1. n - 1 \in 0 .. N /\ l \in 1 .. l
            BY <1>3, <1>5
        <3> QED BY <1>3, <3>1
    <2> HIDE DEF o, l
    <2>2. i \in 1 .. l /\ o + i = q /\ (i = l <=> q = e[n])
        BY <1>11, <2>1 DEF o
    <2> HIDE DEF i
    <2>3. o + i \in S <=> i = l
        BY <1>5, <2>2 DEF o, l
    <2> QED BY <2>2, <2>3
<1>12. \A n \in 1 .. N : e[n - 1] < e[n]
    <2> TAKE n \in 1 .. N
    <2>1. e[n - 1] \in Nat /\ Len(Q[n]) \in 1 .. Len(Q[n]) /\ e[n] = e[n - 1] + Len(Q[n])
        BY <1>3, <1>5
    <2> QED BY <2>1
<1>13. Cardinality(Bare(B, c)) \in Nat
    <2>1. IsFiniteSet(1 .. Len(B))
        BY <1>6, FS_Interval
    <2> QED BY <1>7, <2>1, FS_Subset, FS_CardinalityType
<1>14. Marks(S, e, N, Cardinality(Bare(B, c)))
    BY <1>3, <1>8, <1>9, <1>10, <1>11, <1>12, <1>13 DEF Marks
<1> QED BY <1>2, <1>14 DEF s, e, S

(* The beginning of every CEF header. *)
Vendor == <<"CEF:0", "pipe", "PaloAlto", "pipe">>

LEMMA VendorFacts ==
    /\ Vendor \in Text /\ Closed(Vendor)
    /\ Len(Vendor) \in Bare(Vendor, "pipe") /\ Cardinality(Bare(Vendor, "pipe")) = 2
<1> DEFINE s == Vendor
<1>0. "CEF:0" \in Chars /\ "PaloAlto" \in Chars /\ "pipe" \in Chars
    BY WordsPrinted DEF Words, Printed
<1>1. s \in Text /\ Len(s) = 4 /\ s[1] = "CEF:0" /\ s[2] = "pipe" /\ s[3] = "PaloAlto" /\ s[4] = "pipe"
    BY <1>0 DEF Text, Vendor
<1> HIDE DEF s
<1>2. DOMAIN s = 1 .. 4
    BY <1>1 DEF Text
<1>3. \A n \in 0 .. 3 : s[n + 1] # "bs"
    BY <1>1
<1>4. \A n \in 0 .. 4 : ~Escaping(s, n)
    <2>1. ~Escaping(s, 0)
        BY EscapingFacts
    <2>2. ASSUME NEW n \in 0 .. 3 PROVE ~Escaping(s, n + 1)
        BY <1>3, EscapingFacts
    <2>3. \A n \in 0 .. 4 : n = 0 \/ (n - 1 \in 0 .. 3 /\ (n - 1) + 1 = n)
        OBVIOUS
    <2> QED BY <2>1, <2>2, <2>3
<1>5. Bare(s, "pipe") = {2} \cup {4}
    <2>1. ASSUME NEW i \in 1 .. 4 PROVE i \in Bare(s, "pipe") <=> i \in {2, 4}
        <3>1. ~Escaping(s, i - 1)
            BY <1>4
        <3>2. s[i] = "pipe" <=> i \in {2, 4}
            BY <1>1
        <3> QED BY <1>2, <3>1, <3>2 DEF Bare
    <2>2. Bare(s, "pipe") \subseteq 1 .. 4
        BY <1>2 DEF Bare
    <2> QED BY <2>1, <2>2
<1>6. IsFiniteSet({2} \cup {4}) /\ Cardinality({2} \cup {4}) = 2
    <2>1. IsFiniteSet({2}) /\ Cardinality({2}) = 1 /\ 4 \notin {2}
        BY FS_Singleton
    <2> QED BY <2>1, FS_AddElement
<1>7. Closed(s)
    BY <1>1, <1>4 DEF Closed
<1> QED BY <1>1, <1>5, <1>6, <1>7 DEF s

LEMMA BetweenWhole ==
    ASSUME NEW p \in Text, NEW x \in Chars
    PROVE  Between(Append(p, x), 0, Len(Append(p, x))) = p
<1> DEFINE q == Append(p, x)
           m == Len(q)
           u == Between(q, 0, m)
<1>1. q \in Text /\ m = Len(p) + 1 /\ Len(p) \in Nat /\ \A i \in 1 .. Len(p) : q[i] = p[i]
    BY AppendProperties DEF Text
<1> HIDE DEF q
<1>2. 0 < m /\ m <= Len(q) + 1 /\ m \in Nat /\ m - 1 - 0 = Len(p)
    BY <1>1
<1>3. u \in Text /\ Len(u) = m - 1 - 0 /\ \A k \in 1 .. m - 1 - 0 : u[k] = q[0 + k]
    <2> DEFINE z == 0
    <2>1. z < m /\ m <= Len(q) + 1 /\ m \in Nat /\ z \in Nat
        BY <1>2
    <2> HIDE DEF m, z
    <2>2. /\ Between(q, z, m) \in Text /\ Len(Between(q, z, m)) = m - 1 - z
          /\ \A k \in 1 .. m - 1 - z : Between(q, z, m)[k] = q[z + k]
        BY <1>1, <2>1, BetweenFacts
    <2> QED BY <2>2 DEF z
<1> HIDE DEF u, m
<1>4. \A k \in 1 .. Len(p) : u[k] = p[k]
    <2> TAKE k \in 1 .. Len(p)
    <2>1. u[k] = q[0 + k] /\ 0 + k = k
        BY <1>2, <1>3
    <2> QED BY <1>1, <2>1
<1>5. u = p
    <2>1. u \in Seq(Chars) /\ p \in Seq(Chars) /\ Len(u) = Len(p)
        BY <1>2, <1>3 DEF Text
    <2> QED BY <1>4, <2>1, SeqEqual
<1> QED BY <1>5 DEF q, m, u

(* The header's texts as they are written. *)
HeaderTexts(texts) == [i \in DOMAIN texts |-> Append(CefEscapeHeader(texts[i]), "pipe")]

(* Every text of the header is one part of it, whatever its characters. *)
LEMMA HeaderPart ==
    ASSUME NEW texts \in Seq(Text)
    PROVE  /\ HeaderTexts(texts) \in Seq(Text) /\ Len(HeaderTexts(texts)) = Len(texts)
           /\ \A i \in 1 .. Len(texts) :
                 LET p == HeaderTexts(texts)[i]
                 IN  /\ Closed(p) /\ Bare(p, "pipe") = {Len(p)}
                     /\ Unescaped(Between(p, 0, Len(p))) = texts[i]
<1> DEFINE N == Len(texts)
           parts == HeaderTexts(texts)
<1>1. ASSUME NEW i \in 1 .. N
      PROVE  /\ parts[i] \in Text /\ Closed(parts[i]) /\ Bare(parts[i], "pipe") = {Len(parts[i])}
             /\ Unescaped(Between(parts[i], 0, Len(parts[i]))) = texts[i]
    <2> DEFINE p == CefEscapeHeader(texts[i])
    <2>1. texts[i] \in Text /\ i \in DOMAIN texts
        OBVIOUS
    <2>2. parts[i] = Append(p, "pipe")
        BY <2>1 DEF HeaderTexts
    <2>3. p \in Text /\ Closed(p) /\ Covered(p, "pipe") /\ Unescaped(p) = texts[i]
        BY <2>1, EscapeFacts DEF Escaped
    <2> HIDE DEF p, parts
    <2>4. "pipe" \in Chars
        BY SomeChars
    <2>5. Between(parts[i], 0, Len(parts[i])) = p
        BY <2>2, <2>3, <2>4, BetweenWhole
    <2> QED BY <2>2, <2>3, <2>5, OnePipe
<1>2. N \in Nat /\ DOMAIN parts = 1 .. N
    BY DEF HeaderTexts
<1>3. parts = [i \in 1 .. N |-> parts[i]]
    BY DEF HeaderTexts
<1> HIDE DEF parts
<1>4. parts \in [1 .. N -> Text]
    BY <1>1, <1>3
<1>5. parts \in Seq(Text) /\ Len(parts) = N
    <2> HIDE DEF N
    <2> QED BY <1>2, <1>4
<1> QED BY <1>1, <1>5 DEF parts

HeaderOf(texts) == Vendor \o FlattenSeq(HeaderTexts(texts))

(* The texts of the header stand between its bare pipes. *)
HeaderReads(header, texts, ext) ==
    LET pipes == Bare(header \o ext, "pipe")
    IN  /\ header \in Text
        /\ Nth(pipes, 2 + Len(texts)) = Len(header) /\ Len(header) \in pipes
        /\ \A n \in 1 .. Len(texts) :
              Unescaped(Between(header \o ext, Nth(pipes, n + 1), Nth(pipes, n + 2))) = texts[n]

LEMMA HeaderFacts ==
    ASSUME NEW texts \in Seq(Text), NEW ext \in Text
    PROVE  HeaderReads(HeaderOf(texts), texts, ext)
<1> DEFINE header == HeaderOf(texts)
           Q == HeaderTexts(texts)
           e == Ends(Vendor, Q)
           s == header \o ext
           pipes == Bare(s, "pipe")
           N == Len(texts)
<1>0. header = Vendor \o FlattenSeq(HeaderTexts(texts))
    BY DEF HeaderOf
<1> HIDE DEF header
<1>1. /\ Q \in Seq(Text) /\ Len(Q) = N /\ N \in Nat
      /\ \A i \in 1 .. N : /\ Closed(Q[i]) /\ Bare(Q[i], "pipe") = {Len(Q[i])}
                           /\ Unescaped(Between(Q[i], 0, Len(Q[i]))) = texts[i]
    BY HeaderPart
<1> HIDE DEF Q, N
<1>2. AllClosed(Vendor, Q)
    BY <1>1, VendorFacts DEF AllClosed
<1>3. s \in Text /\ Marks(pipes, e, N, 2)
    <2>1. /\ (Vendor \o FlattenSeq(Q)) \o ext \in Text
          /\ Marks(Bare((Vendor \o FlattenSeq(Q)) \o ext, "pipe"), e, Len(Q), Cardinality(Bare(Vendor, "pipe")))
        BY <1>1, <1>2, VendorFacts, BareMarks
    <2> QED BY <1>0, <1>1, <2>1, VendorFacts DEF Q
<1>4. /\ e \in [0 .. N -> Nat] /\ e[N] = Len(header) /\ \A n \in 1 .. N : e[n] = e[n - 1] + Len(Q[n])
    <2>1. header = Vendor \o FlattenSeq(Q)
        BY <1>0 DEF Q
    <2>2. /\ e \in [0 .. Len(Q) -> Nat] /\ e[Len(Q)] = Len(Vendor \o FlattenSeq(Q))
          /\ \A n \in 1 .. Len(Q) : e[n] = e[n - 1] + Len(Q[n])
        BY <1>1, VendorFacts, EndsFacts
    <2> QED BY <1>1, <2>1, <2>2
<1>5. header \in Text
    <2>0. header = Vendor \o FlattenSeq(Q)
        BY <1>0 DEF Q
    <2>1. N \in 0 .. Len(Q) /\ Upto(Vendor, Q, N) = header
        <3>1. Upto(Vendor, Q, Len(Q)) = Vendor \o FlattenSeq(Q)
            BY <1>1, VendorFacts, UptoFacts
        <3> QED BY <1>1, <2>0, <3>1
    <2>2. Upto(Vendor, Q, N) \in Text
        BY <1>1, <2>1, VendorFacts, UptoFacts
    <2> QED BY <2>1, <2>2
<1> HIDE DEF e, pipes
<1>6. \A n \in 0 .. N : Nth(pipes, 2 + n) = e[n]
    BY <1>3, MarksFacts
<1>7. Len(header) \in pipes
    <2>1. N \in 0 .. N
        BY <1>1
    <2> QED BY <1>3, <1>4, <2>1, MarksFacts
<1>8. ASSUME NEW n \in 1 .. N
      PROVE  Unescaped(Between(s, Nth(pipes, n + 1), Nth(pipes, n + 2))) = texts[n]
    <2>1. n - 1 \in 0 .. N /\ n \in 0 .. N /\ 2 + (n - 1) = n + 1 /\ 2 + n = n + 2
        BY <1>1
    <2>2. Nth(pipes, n + 1) = e[n - 1] /\ Nth(pipes, n + 2) = e[n]
        BY <1>6, <2>1
    <2> DEFINE j == Len(Q[n])
    <2>3. e[n] = e[n - 1] + j /\ e[n - 1] + 0 = e[n - 1] /\ j \in Nat /\ 0 < j /\ n \in 1 .. Len(Q)
        <3>1. Q[n] \in Text
            BY <1>1
        <3>2. j \in Nat
            BY <3>1 DEF Text
        <3>3. e[n - 1] < e[n]
            BY <1>3 DEF Marks
        <3>4. e[n] = e[n - 1] + j
            BY <1>4
        <3>5. e[n - 1] \in Nat /\ n \in 1 .. Len(Q)
            BY <1>1, <1>4, <2>1
        <3> HIDE DEF j
        <3> QED BY <3>2, <3>3, <3>4, <3>5
    <2>4. Between(s, e[n - 1] + 0, e[n - 1] + j) = Between(Q[n], 0, j)
        <3> HIDE DEF j, s
        <3>1. j <= Len(Q[n])
            BY <2>3 DEF j
        <3>2. s = (Vendor \o FlattenSeq(Q)) \o ext
            BY <1>0 DEF s, Q
        <3> DEFINE z == 0
        <3>3. z \in Nat /\ z < j /\ j \in Nat
            BY <2>3
        <3> HIDE DEF z
        <3>4. Between((Vendor \o FlattenSeq(Q)) \o ext, e[n - 1] + z, e[n - 1] + j) = Between(Q[n], z, j)
            <4>1. Between((Vendor \o FlattenSeq(Q)) \o ext, Ends(Vendor, Q)[n - 1] + z, Ends(Vendor, Q)[n - 1] + j)
                      = Between(Q[n], z, j)
                <5>1. n \in 1 .. Len(Q) /\ Vendor \in Text /\ Q \in Seq(Text) /\ ext \in Text
                    BY <1>1, <2>3, VendorFacts
                <5>2. z \in Nat /\ j \in Nat /\ z < j /\ j <= Len(Q[n])
                    BY <3>1, <3>3
                <5> QED BY <5>1, <5>2, BetweenPart
            <4> QED BY <4>1 DEF e
        <3> QED BY <3>2, <3>4 DEF z
    <2> QED BY <1>1, <2>2, <2>3, <2>4
<1> QED BY <1>1, <1>3, <1>4, <1>5, <1>6, <1>7, <1>8 DEF header, pipes, N, HeaderReads

(* A line of a header of seven parts and an extension without line feeds. *)
LEMMA HeaderFirst ==
    ASSUME NEW header \in Text, NEW ext \in Seq(Printed), Len(header) \in Bare(header \o ext, "pipe")
    PROVE  \A i \in DOMAIN (header \o ext) : (header \o ext)[i] \in {"lf", "cr"} => i < Len(header)
<1> DEFINE u == header \o ext
<1>1. ext \in Text
    BY SeqMonotonic DEF Printed, Text
<1>2. /\ u \in Text /\ Len(u) = Len(header) + Len(ext) /\ Len(header) \in Nat /\ Len(ext) \in Nat
      /\ \A i \in 1 .. Len(ext) : u[Len(header) + i] = ext[i]
    BY <1>1, Concat
<1> HIDE DEF u
<1>3. DOMAIN u = 1 .. Len(u)
    BY <1>2 DEF Text
<1>4. ASSUME NEW i \in DOMAIN u, u[i] \in {"lf", "cr"} PROVE i < Len(header)
    <2>1. CASE i > Len(header)
        <3> DEFINE j == i - Len(header)
        <3>1. j \in 1 .. Len(ext) /\ Len(header) + j = i
            BY <1>2, <1>3, <2>1
        <3> HIDE DEF j
        <3>2. u[i] = ext[j]
            BY <1>2, <3>1
        <3>3. ext[j] \in Printed
            BY <3>1
        <3> QED BY <1>4, <3>2, <3>3 DEF Printed
    <2>2. CASE i = Len(header)
        <3>1. u[i] = "pipe"
            BY <2>2 DEF u, Bare
        <3> QED BY <1>4, <3>1
    <2>3. i \in Nat
        BY <1>3
    <2> QED BY <1>2, <2>1, <2>2, <2>3
<1> QED BY <1>4 DEF u

-----------------------------------------------------------------------------
(* With a separator after the last of some texts there is one after each. *)
LEMMA JoinedEnd ==
    ASSUME NEW texts \in Seq(Text), texts # <<>>, NEW separator \in Chars, NEW parts \in Seq(Text),
           Len(parts) = Len(texts), \A n \in 1 .. Len(texts) : parts[n] = Append(texts[n], separator)
    PROVE  Joined(texts, separator) \in Text /\ Joined(texts, separator) \o <<separator>> = FlattenSeq(parts)
<1> DEFINE N == Len(texts)
           t == <<separator>>
           joined == [i \in DOMAIN texts |-> IF i = 1 THEN texts[i] ELSE t \o texts[i]]
<1>0. N \in Nat /\ N > 0 /\ DOMAIN texts = 1 .. N /\ t \in Text
    BY DEF Text
<1>1. ASSUME NEW n \in 1 .. N
      PROVE  texts[n] \in Text /\ t \o texts[n] \in Text /\ parts[n] = texts[n] \o t
    <2>1. texts[n] \in Text
        OBVIOUS
    <2>2. parts[n] = texts[n] \o t
        BY <2>1, AppendIsConcat DEF Text
    <2> QED BY <1>0, <2>1, <2>2, Concat
<1>2. Joined(texts, separator) = FlattenSeq(joined)
    BY DEF Joined
<1> HIDE DEF t, N
<1>3. /\ joined \in Seq(Seq(Chars)) /\ Len(joined) = N
      /\ \A n \in 1 .. N : joined[n] = IF n = 1 THEN texts[n] ELSE t \o texts[n]
    <2>1. joined \in [1 .. N -> Text] /\ DOMAIN joined = 1 .. N
        BY <1>0, <1>1
    <2>2. \A n \in 1 .. N : joined[n] = IF n = 1 THEN texts[n] ELSE t \o texts[n]
        BY <1>0
    <2> HIDE DEF joined
    <2>3. joined \in Seq(Text) /\ Len(joined) = N
        BY <1>0, <2>1
    <2>4. joined \in Seq(Seq(Chars))
        BY <2>3 DEF Text
    <2> QED BY <2>2, <2>3, <2>4
<1>4. parts \in Seq(Seq(Chars)) /\ Len(parts) = N
    BY DEF Text, N
<1> HIDE DEF joined
<1>5. PICK v \in [0 .. N -> Seq(Chars)] : FlattenSeq(joined) = v[N] /\ Flattens(v, joined)
    <2>1. \E v \in [0 .. Len(joined) -> Seq(Chars)] : FlattenSeq(joined) = v[Len(joined)] /\ Flattens(v, joined)
        BY <1>3, FlattenValues
    <2> QED BY <1>3, <2>1
<1>6. PICK w \in [0 .. N -> Seq(Chars)] : FlattenSeq(parts) = w[N] /\ Flattens(w, parts)
    <2>1. \E w \in [0 .. Len(parts) -> Seq(Chars)] : FlattenSeq(parts) = w[Len(parts)] /\ Flattens(w, parts)
        BY <1>4, FlattenValues
    <2> QED BY <1>4, <2>1
<1>7. /\ v[0] = <<>> /\ \A n \in 1 .. N : v[n] = v[n - 1] \o joined[n]
      /\ w[0] = <<>> /\ \A n \in 1 .. N : w[n] = w[n - 1] \o parts[n]
    BY <1>3, <1>4, <1>5, <1>6 DEF Flattens
<1>8. \A n \in 0 .. N : v[n] \in Text /\ w[n] \in Text
    BY <1>5, <1>6 DEF Text
<1> DEFINE P == {n \in Nat : n > 0 /\ n <= N => w[n] = v[n] \o t}
<1>9. ASSUME NEW n \in Nat, \A k \in 0 .. n - 1 : k \in P PROVE n \in P
    <2>1. CASE n = 1
        <3>1. n \in 1 .. N /\ n - 1 = 0
            BY <1>0, <2>1
        <3>2. v[n] = <<>> \o texts[n] /\ w[n] = <<>> \o (texts[n] \o t)
            <4>1. v[n] = v[n - 1] \o joined[n] /\ w[n] = w[n - 1] \o parts[n]
                BY <1>7, <3>1
            <4>2. v[n - 1] = <<>> /\ w[n - 1] = <<>>
                BY <1>7, <3>1
            <4>3. joined[n] = texts[n] /\ parts[n] = texts[n] \o t
                BY <1>1, <1>3, <2>1, <3>1
            <4> QED BY <4>1, <4>2, <4>3
        <3>3. texts[n] \in Text /\ texts[n] \o t \in Text
            BY <1>0, <1>1, <3>1, Concat
        <3>4. v[n] = texts[n] /\ w[n] = texts[n] \o t
            BY <3>2, <3>3, ConcatEmptySeq DEF Text
        <3> QED BY <3>4
    <2>2. CASE n > 1 /\ n <= N
        <3> DEFINE m == n - 1
                   a == v[m]
                   b == texts[n]
        <3>1. n \in 1 .. N /\ n # 1 /\ m \in 0 .. n - 1 /\ m > 0 /\ m <= N /\ m \in 0 .. N
            BY <1>0, <2>2
        <3>2. w[m] = a \o t
            BY <1>9, <3>1
        <3>3. a \in Text /\ b \in Text
            BY <1>1, <1>8, <3>1
        <3>4. v[n] = a \o (t \o b) /\ w[n] = (a \o t) \o (b \o t)
            BY <1>1, <1>3, <1>7, <3>1, <3>2
        <3> HIDE DEF a, b, m
        <3>5. a \o t \in Text /\ t \o b \in Text
            BY <1>0, <3>3, Concat
        <3>6. (a \o t) \o (b \o t) = ((a \o t) \o b) \o t
            BY <1>0, <3>3, <3>5, Associative
        <3>7. (a \o t) \o b = a \o (t \o b)
            BY <1>0, <3>3, Associative
        <3>8. w[n] = v[n] \o t
            BY <3>4, <3>6, <3>7
        <3> QED BY <3>8
    <2>3. CASE ~(n > 0 /\ n <= N)
        BY <2>3
    <2> QED BY <1>0, <2>1, <2>2, <2>3
<1>10. P \in SUBSET Nat
    OBVIOUS
<1>11. P = Nat
    <2> HIDE DEF P
    <2> QED BY <1>9, <1>10, AllNumbers
<1>12. w[N] = v[N] \o t
    <2>1. N \in P
        <3> HIDE DEF P
        <3> QED BY <1>0, <1>11
    <2> QED BY <1>0, <2>1
<1>13. N \in 0 .. N
    BY <1>0
<1> QED BY <1>2, <1>5, <1>6, <1>8, <1>12, <1>13 DEF t

-----------------------------------------------------------------------------
(* The pairs of a line, each with a separator after it. *)

(* A key, its value and the separator after it. *)
Bit(k, v, c) == Append(<<k, "eq">> \o v, c)

LEMMA BitFacts ==
    ASSUME NEW k \in Names, NEW v \in Text, NEW c \in Chars
    PROVE  /\ Bit(k, v, c) \in Text /\ Len(Bit(k, v, c)) = Len(v) + 3 /\ Len(v) \in Nat
           /\ Bit(k, v, c)[1] = k /\ Bit(k, v, c)[2] = "eq" /\ Bit(k, v, c)[Len(v) + 3] = c
           /\ \A i \in 1 .. Len(v) : Bit(k, v, c)[2 + i] = v[i]
           /\ Between(Bit(k, v, c), 0, 2) = <<k>> /\ Between(Bit(k, v, c), 2, Len(v) + 3) = v
<1> DEFINE p == <<k, "eq">>
           w == p \o v
           q == Append(w, c)
           l == Len(v)
<1>0. k \in Chars /\ "eq" \in Chars
    BY NamesPrinted, SomeChars DEF Printed
<1>1. p \in Text /\ Len(p) = 2 /\ p[1] = k /\ p[2] = "eq"
    BY <1>0 DEF Text
<1> HIDE DEF p
<1>2. /\ w \in Text /\ Len(w) = 2 + l /\ l \in Nat /\ w[1] = k /\ w[2] = "eq"
      /\ \A i \in 1 .. l : w[2 + i] = v[i]
    <2>1. /\ w \in Text /\ Len(w) = Len(p) + Len(v) /\ Len(v) \in Nat
          /\ \A i \in 1 .. Len(p) : w[i] = p[i]
          /\ \A i \in 1 .. Len(v) : w[Len(p) + i] = v[i]
        BY <1>1, Concat
    <2>2. 1 \in 1 .. Len(p) /\ 2 \in 1 .. Len(p)
        BY <1>1
    <2> HIDE DEF w
    <2> QED BY <1>1, <2>1, <2>2
<1> HIDE DEF w
<1>3. q \in Text /\ Len(q) = l + 3 /\ q[l + 3] = c /\ \A i \in 1 .. 2 + l : q[i] = w[i]
    <2>1. /\ q \in Text /\ Len(q) = Len(w) + 1 /\ q[Len(w) + 1] = c
          /\ \A i \in 1 .. Len(w) : q[i] = w[i]
        BY <1>2, AppendProperties DEF Text
    <2>2. Len(w) + 1 = l + 3
        BY <1>2
    <2> HIDE DEF q
    <2> QED BY <1>2, <2>1, <2>2
<1> HIDE DEF q
<1>4. q[1] = k /\ q[2] = "eq" /\ \A i \in 1 .. l : q[2 + i] = v[i]
    <2>1. q[1] = w[1] /\ q[2] = w[2]
        BY <1>2, <1>3
    <2>2. ASSUME NEW i \in 1 .. l PROVE q[2 + i] = w[2 + i]
        BY <1>2, <1>3
    <2> QED BY <1>2, <2>1, <2>2
<1>5. Between(q, 0, 2) = <<k>>
    <2> DEFINE i == 0
               j == 2
               u == Between(q, i, j)
    <2>1. i \in Nat /\ j \in Nat /\ i < j /\ j <= Len(q) + 1 /\ j - 1 - i = 1 /\ i + 1 = 1
        BY <1>2, <1>3
    <2> HIDE DEF i, j
    <2>2. u \in Text /\ Len(u) = j - 1 - i /\ \A m \in 1 .. j - 1 - i : u[m] = q[i + m]
        BY <1>3, <2>1, BetweenFacts
    <2> HIDE DEF u
    <2>3. u[1] = k
        <3>1. u[1] = q[i + 1]
            BY <2>1, <2>2
        <3> QED BY <1>4, <2>1, <3>1
    <2>4. u = <<k>>
        <3> DEFINE x == <<k>>
        <3>1. x \in Seq(Chars) /\ Len(x) = 1 /\ x[1] = k
            BY <1>0
        <3> HIDE DEF x
        <3>2. u \in Seq(Chars) /\ Len(u) = Len(x)
            BY <2>1, <2>2, <3>1 DEF Text
        <3>3. \A m \in 1 .. Len(u) : u[m] = x[m]
            <4> TAKE m \in 1 .. Len(u)
            <4>1. m = 1
                BY <2>1, <2>2
            <4> QED BY <2>3, <3>1, <4>1
        <3>4. u = x
            BY <3>1, <3>2, <3>3, SeqEqual
        <3> QED BY <3>4 DEF x
    <2> QED BY <2>4 DEF i, j, u
<1>6. Between(q, 2, l + 3) = v
    <2> DEFINE i == 2
               j == l + 3
               u == Between(q, i, j)
    <2>1. i \in Nat /\ j \in Nat /\ i < j /\ j <= Len(q) + 1 /\ j - 1 - i = l
        BY <1>2, <1>3
    <2> HIDE DEF i, j
    <2>2. u \in Text /\ Len(u) = j - 1 - i /\ \A m \in 1 .. j - 1 - i : u[m] = q[i + m]
        BY <1>3, <2>1, BetweenFacts
    <2> HIDE DEF u
    <2>3. \A m \in 1 .. l : u[m] = v[m]
        <3> TAKE m \in 1 .. l
        <3>1. u[m] = q[i + m]
            BY <2>1, <2>2
        <3> QED BY <1>4, <3>1 DEF i
    <2>4. u \in Seq(Chars) /\ v \in Seq(Chars) /\ Len(u) = Len(v)
        BY <2>1, <2>2 DEF Text
    <2>5. u = v
        BY <2>3, <2>4, SeqEqual
    <2> QED BY <2>5 DEF i, j, u
<1>7. Bit(k, v, c) = q
    BY DEF Bit, q, w, p
<1> QED BY <1>2, <1>3, <1>4, <1>5, <1>6, <1>7

(* The only bare equals sign of a pair is the one after its key. *)
LEMMA BitBare ==
    ASSUME NEW k \in Names, NEW v \in Text, Closed(v), Covered(v, "eq")
    PROVE  Closed(Bit(k, v, "sp")) /\ Bare(Bit(k, v, "sp"), "eq") = {2}
<1> DEFINE p == <<k, "eq">>
           t == <<"sp">>
           w == v \o t
           q == Bit(k, v, "sp")
<1>0. k \in Chars /\ k # "bs" /\ k # "eq" /\ "eq" \in Chars /\ "sp" \in Chars
    BY NamesPrinted, SomeChars DEF Printed, Names, Special
<1>1. p \in Text /\ Len(p) = 2 /\ p[1] = k /\ p[2] = "eq" /\ t \in Text /\ Len(t) = 1 /\ t[1] = "sp"
    BY <1>0 DEF Text
<1>2. q = p \o w
    <2>1. p \o v \in Text
        BY <1>1, Concat
    <2>2. q = (p \o v) \o t
        BY <2>1, <1>0, AppendIsConcat DEF Text, Bit
    <2> HIDE DEF p, t
    <2> QED BY <1>1, <2>2, Associative
<1> HIDE DEF p, t
<1>3. ~Escaping(p, 0) /\ ~Escaping(p, 1) /\ ~Escaping(p, 2) /\ ~Escaping(t, 0) /\ ~Escaping(t, 1)
    <2>1. \A s : ~Escaping(s, 0) /\ \A n \in Nat : Escaping(s, n + 1) => s[n + 1] = "bs"
        BY EscapingFacts
    <2>2. ~Escaping(p, 0) /\ ~Escaping(t, 0)
        BY <2>1
    <2>3. Escaping(p, 0 + 1) => p[0 + 1] = "bs"
        BY <2>1
    <2>4. Escaping(p, 1 + 1) => p[1 + 1] = "bs"
        BY <2>1
    <2>5. Escaping(t, 0 + 1) => t[0 + 1] = "bs"
        BY <2>1
    <2> QED BY <1>0, <1>1, <2>2, <2>3, <2>4, <2>5
<1>4. Closed(p) /\ Closed(t)
    BY <1>1, <1>3 DEF Closed
<1>5. Covered(t, "eq")
    BY <1>1 DEF Covered
<1>6. w \in Text /\ Closed(w) /\ Covered(w, "eq")
    BY <1>1, <1>4, <1>5, Concat, ClosedConcat, CoveredConcat
<1> HIDE DEF w
<1>7. Closed(q)
    BY <1>1, <1>2, <1>4, <1>6, ClosedConcat
<1>8. 2 \in Bare(p, "eq") /\ 1 \notin Bare(p, "eq")
    <2>1. DOMAIN p = 1 .. 2
        BY <1>1 DEF Text
    <2> QED BY <1>0, <1>1, <1>3, <2>1 DEF Bare
<1>9. /\ q \in Text /\ Len(q) = 2 + Len(w) /\ Len(w) \in Nat
      /\ \A i \in 1 .. 2 : i \in Bare(q, "eq") <=> i \in Bare(p, "eq")
      /\ \A i \in 1 .. Len(w) : 2 + i \notin Bare(q, "eq")
    <2>1. Bare(w, "eq") = {}
        BY <1>6, CoveredBare
    <2>2. /\ \A i \in 1 .. Len(p) : i \in Bare(p \o w, "eq") <=> i \in Bare(p, "eq")
          /\ \A i \in 1 .. Len(w) : Len(p) + i \in Bare(p \o w, "eq") <=> i \in Bare(w, "eq")
        BY <1>1, <1>4, <1>6, BareConcat
    <2>3. p \o w \in Text /\ Len(p \o w) = Len(p) + Len(w) /\ Len(w) \in Nat
        BY <1>1, <1>6, Concat
    <2> HIDE DEF q
    <2> QED BY <1>1, <1>2, <2>1, <2>2, <2>3
<1> HIDE DEF q
<1>10. ASSUME NEW i \in Bare(q, "eq") PROVE i = 2
    <2>1. i \in 1 .. Len(q)
        BY <1>9 DEF Bare, Text
    <2>2. CASE i > 2
        <3> DEFINE j == i - 2
        <3>1. j \in 1 .. Len(w) /\ 2 + j = i
            BY <1>9, <2>1, <2>2
        <3> HIDE DEF j
        <3> QED BY <1>9, <1>10, <3>1
    <2>3. CASE i <= 2
        <3>1. i = 1 \/ i = 2
            BY <1>9, <2>1, <2>3
        <3> QED BY <1>8, <1>9, <1>10, <3>1
    <2> QED BY <1>9, <2>1, <2>2, <2>3
<1>11. 2 \in Bare(q, "eq")
    BY <1>8, <1>9
<1>12. Bare(q, "eq") = {2}
    BY <1>10, <1>11
<1> QED BY <1>7, <1>12 DEF q

(* Between o and z of s a key stands, "=", its value and the separator. *)
StandsAt(s, o, z, k, v, c) ==
    /\ o \in Nat /\ Len(v) \in Nat /\ z = o + Len(v) + 3 /\ z <= Len(s)
    /\ s[o + 1] = k /\ s[o + 2] = "eq" /\ s[z] = c
    /\ \A i \in 1 .. Len(v) : s[o + 2 + i] = v[i]
    /\ Between(s, o, o + 2) = <<k>> /\ Between(s, o + 2, z) = v

(* A pair in a line keeps its key, equals sign, value and separator. *)
LEMMA BitAt ==
    ASSUME NEW B \in Text, NEW Q \in Seq(Text), NEW n \in 1 .. Len(Q),
           NEW k \in Names, NEW v \in Text, NEW c \in Chars, Q[n] = Bit(k, v, c)
    PROVE  StandsAt(B \o FlattenSeq(Q), Ends(B, Q)[n - 1], Ends(B, Q)[n], k, v, c)
<1> DEFINE q == Q[n]
           s == B \o FlattenSeq(Q)
           o == Ends(B, Q)[n - 1]
           z == Ends(B, Q)[n]
           l == Len(v)
           tail == <<>>
<1>1. /\ q \in Text /\ Len(q) = l + 3 /\ l \in Nat
      /\ q[1] = k /\ q[2] = "eq" /\ q[l + 3] = c
      /\ \A i \in 1 .. l : q[2 + i] = v[i]
      /\ Between(q, 0, 2) = <<k>> /\ Between(q, 2, l + 3) = v
    BY BitFacts
<1>2. tail \in Text /\ s = (B \o FlattenSeq(Q)) \o tail
    <2>1. Q \in Seq(Seq(Chars))
        BY DEF Text
    <2>2. FlattenSeq(Q) \in Text
        BY <2>1, FlattenFacts DEF Text
    <2>3. B \o FlattenSeq(Q) \in Text
        BY <2>2, Concat
    <2> QED BY <2>3, ConcatEmptySeq DEF Text
<1> HIDE DEF tail, s, o, z
<1>3. o \in Nat /\ z = o + Len(q) /\ z <= Len(s) /\ \A i \in 1 .. Len(q) : s[o + i] = q[i]
    <2>1. /\ Ends(B, Q)[n - 1] \in Nat /\ Ends(B, Q)[n] = Ends(B, Q)[n - 1] + Len(Q[n])
          /\ Ends(B, Q)[n] <= Len((B \o FlattenSeq(Q)) \o tail)
          /\ \A i \in 1 .. Len(Q[n]) : ((B \o FlattenSeq(Q)) \o tail)[Ends(B, Q)[n - 1] + i] = Q[n][i]
        BY <1>2, PartFacts
    <2> QED BY <1>2, <2>1 DEF o, z
<1>4. \A i, j \in Nat : i < j /\ j <= Len(q) => Between(s, o + i, o + j) = Between(q, i, j)
    <2> SUFFICES ASSUME NEW i \in Nat, NEW j \in Nat, i < j, j <= Len(Q[n])
                 PROVE  Between(s, o + i, o + j) = Between(Q[n], i, j)
        OBVIOUS
    <2>1. Between((B \o FlattenSeq(Q)) \o tail, Ends(B, Q)[n - 1] + i, Ends(B, Q)[n - 1] + j) = Between(Q[n], i, j)
        BY <1>2, BetweenPart
    <2> QED BY <1>2, <2>1 DEF o
<1> HIDE DEF q, l
<1>5. z = o + l + 3 /\ s[o + 1] = k /\ s[o + 2] = "eq" /\ s[z] = c
    <2>1. 1 \in 1 .. Len(q) /\ 2 \in 1 .. Len(q) /\ l + 3 \in 1 .. Len(q)
        BY <1>1
    <2>2. z = o + (l + 3)
        BY <1>1, <1>3
    <2> DEFINE m == l + 3
    <2>3. z = o + m /\ m \in 1 .. Len(q) /\ q[m] = c
        BY <1>1, <2>1, <2>2
    <2> HIDE DEF m
    <2>4. s[o + 1] = q[1] /\ s[o + 2] = q[2] /\ s[o + m] = q[m]
        BY <1>3, <2>1, <2>3
    <2>5. z = o + l + 3
        <3>1. o \in Nat /\ l \in Nat
            BY <1>1, <1>3
        <3> QED BY <2>2, <3>1
    <2>6. s[o + 1] = k /\ s[o + 2] = "eq"
        BY <1>1, <2>4
    <2>7. s[z] = c
        BY <2>3, <2>4
    <2> QED BY <2>5, <2>6, <2>7
<1>6. ASSUME NEW i \in 1 .. l PROVE s[o + 2 + i] = v[i]
    <2>1. 2 + i \in 1 .. Len(q)
        BY <1>1
    <2>2. o + 2 + i = o + (2 + i)
        <3>1. o \in Nat /\ l \in Nat
            BY <1>1, <1>3
        <3> QED BY <3>1
    <2> DEFINE m == 2 + i
    <2> HIDE DEF m
    <2>3. s[o + m] = q[m]
        BY <1>3, <2>1 DEF m
    <2> QED BY <1>1, <2>2, <2>3 DEF m
<1>7. Between(s, o, o + 2) = <<k>> /\ Between(s, o + 2, z) = v
    <2>1. 0 \in Nat /\ 2 \in Nat /\ l + 3 \in Nat /\ 0 < 2 /\ 2 < l + 3 /\ 2 <= Len(q) /\ l + 3 <= Len(q)
        BY <1>1
    <2>2. Between(s, o + 0, o + 2) = Between(q, 0, 2)
        BY <1>4, <2>1
    <2>3. Between(s, o + 2, o + (l + 3)) = Between(q, 2, l + 3)
        BY <1>4, <2>1
    <2>4. o + 0 = o /\ o + (l + 3) = z
        BY <1>1, <1>3
    <2> QED BY <1>1, <2>2, <2>3, <2>4
<1>8. StandsAt(s, o, z, k, v, c)
    BY <1>1, <1>3, <1>5, <1>6, <1>7 DEF l, StandsAt
<1> QED BY <1>8 DEF s, o, z

(* The parts of a line's fields: the n-th has the key k[n] and the value v[n]. *)
IsBits(Q, k, v, c) ==
    /\ Q \in Seq(Text)
    /\ \A n \in 1 .. Len(Q) : k[n] \in Names /\ v[n] \in Text /\ Q[n] = Bit(k[n], v[n], c)

(* N keys with their values *)
Found(read, N, k, u) == \A r : r \in read <=> \E n \in 1 .. N : r = <<<<k[n]>>, u[n]>>

(* A CEF reader's view of an extension s, which begins with the header's last
   pipe: its bare "=" are those after the keys, ... *)
CefBits(s, Q, k, v, o) ==
    /\ IsBits(Q, k, v, "sp")
    /\ \A n \in 1 .. Len(Q) : Closed(v[n]) /\ Covered(v[n], "eq")
    /\ s = <<"pipe">> \o FlattenSeq(Q)
    /\ o = Ends(<<"pipe">>, Q)

LEMMA CefBit ==
    ASSUME NEW s, NEW Q, NEW k, NEW v, NEW o, CefBits(s, Q, k, v, o), NEW n \in 1 .. Len(Q)
    PROVE  /\ o[n - 1] \in Nat /\ o[n - 1] >= 1 /\ Len(v[n]) \in Nat
           /\ o[n] = o[n - 1] + Len(v[n]) + 3 /\ o[n] <= Len(s)
           /\ s[o[n - 1] + 1] \in Names /\ s[o[n - 1] + 2] = "eq" /\ s[o[n]] = "sp"
           /\ Between(s, o[n - 1], o[n - 1] + 2) = <<k[n]>> /\ Between(s, o[n - 1] + 2, o[n]) = v[n]
<1> DEFINE B == <<"pipe">>
           x == o[n - 1]
           z == o[n]
           w == v[n]
           y == k[n]
<1>0. /\ Q \in Seq(Text) /\ y \in Names /\ w \in Text /\ Q[n] = Bit(y, w, "sp")
      /\ s = B \o FlattenSeq(Q) /\ x = Ends(B, Q)[n - 1] /\ z = Ends(B, Q)[n]
    BY DEF CefBits, IsBits
<1>1. B \in Text /\ Len(B) = 1 /\ "sp" \in Chars
    BY SomeChars DEF Text
<1> HIDE DEF B
<1>2. x >= 1
    <2>1. /\ Ends(B, Q) \in [0 .. Len(Q) -> Nat] /\ Len(Q) \in Nat /\ Ends(B, Q)[0] = Len(B)
          /\ \A m \in 1 .. Len(Q) : Ends(B, Q)[m] = Ends(B, Q)[m - 1] + Len(Q[m])
        BY <1>0, <1>1, EndsFacts
    <2>2. CASE n = 1
        BY <1>0, <1>1, <2>1, <2>2
    <2>3. CASE n # 1
        <3> DEFINE m == n - 1
        <3>1. m \in 1 .. Len(Q) /\ m - 1 \in 0 .. Len(Q)
            BY <2>1, <2>3
        <3> HIDE DEF m
        <3>2. Q[m] = Bit(k[m], v[m], "sp") /\ k[m] \in Names /\ v[m] \in Text
            BY <3>1 DEF CefBits, IsBits
        <3>3. Len(Q[m]) = Len(v[m]) + 3 /\ Len(v[m]) \in Nat
            BY <1>1, <3>2, BitFacts
        <3>4. Ends(B, Q)[m] = Ends(B, Q)[m - 1] + Len(Q[m]) /\ Ends(B, Q)[m - 1] \in Nat
            BY <2>1, <3>1
        <3>5. Ends(B, Q)[m] >= 1
            BY <3>3, <3>4
        <3> QED BY <1>0, <3>5 DEF m
    <2> QED BY <2>2, <2>3
<1> HIDE DEF x, y, z, w
<1>3. /\ x \in Nat /\ Len(w) \in Nat /\ z = x + Len(w) + 3 /\ z <= Len(s)
      /\ s[x + 1] = y /\ s[x + 2] = "eq" /\ s[z] = "sp"
      /\ Between(s, x, x + 2) = <<y>> /\ Between(s, x + 2, z) = w
    <2>1. StandsAt(B \o FlattenSeq(Q), Ends(B, Q)[n - 1], Ends(B, Q)[n], y, w, "sp")
        BY <1>0, <1>1, BitAt
    <2>2. StandsAt(s, x, z, y, w, "sp")
        BY <1>0, <2>1
    <2> QED BY <2>2 DEF StandsAt
<1> QED BY <1>0, <1>2, <1>3 DEF x, y, z, w

(* The bare equals signs of an extension are those of its pairs. *)
LEMMA CefEquals ==
    ASSUME NEW s, NEW Q, NEW k, NEW v, NEW o, CefBits(s, Q, k, v, o)
    PROVE  \A e : e \in Bare(s, "eq") <=> \E n \in 1 .. Len(Q) : e = o[n - 1] + 2
<1> DEFINE B == <<"pipe">>
           tail == <<>>
<1>0. Q \in Seq(Text) /\ s = B \o FlattenSeq(Q) /\ o = Ends(B, Q)
    BY DEF CefBits, IsBits
<1>1. B \in Text /\ Len(B) = 1 /\ B[1] = "pipe" /\ "sp" \in Chars /\ tail \in Text
    BY SomeChars DEF Text
<1> HIDE DEF B
<1>2. s \in Text /\ s = (B \o FlattenSeq(Q)) \o tail /\ Len(s) \in Nat /\ DOMAIN s = 1 .. Len(s)
    <2>1. Q \in Seq(Seq(Chars))
        BY <1>0 DEF Text
    <2>2. FlattenSeq(Q) \in Text
        BY <2>1, FlattenFacts DEF Text
    <2>3. s \in Text
        BY <1>0, <1>1, <2>2, Concat
    <2>4. s \o tail = s
        BY <2>3, ConcatEmptySeq DEF Text
    <2> QED BY <1>0, <2>3, <2>4 DEF Text
<1> HIDE DEF tail
<1>3. ASSUME NEW n \in 1 .. Len(Q)
      PROVE  Closed(Q[n]) /\ Bare(Q[n], "eq") = {2} /\ Len(Q[n]) = Len(v[n]) + 3 /\ Len(v[n]) \in Nat
    <2>1. /\ k[n] \in Names /\ v[n] \in Text /\ Q[n] = Bit(k[n], v[n], "sp")
          /\ Closed(v[n]) /\ Covered(v[n], "eq")
        BY DEF CefBits, IsBits
    <2>2. Len(Q[n]) = Len(v[n]) + 3 /\ Len(v[n]) \in Nat
        BY <1>1, <2>1, BitFacts, SMTT(30)
    <2>3. Closed(Q[n]) /\ Bare(Q[n], "eq") = {2}
        BY <1>1, <2>1, BitBare
    <2> QED BY <2>2, <2>3
<1>4. Closed(B)
    <2>1. Escaping(B, 0 + 1) <=> B[0 + 1] = "bs" /\ ~Escaping(B, 0)
        BY EscapingFacts
    <2> QED BY <1>1, <2>1 DEF Closed
<1>5. AllClosed(B, Q)
    BY <1>3, <1>4 DEF AllClosed
<1>6. ASSUME NEW n \in 1 .. Len(Q), NEW i \in 1 .. Len(Q[n])
      PROVE  o[n - 1] + i \in Bare(s, "eq") <=> i = 2
    <2>1. /\ o[n - 1] \in Nat
          /\ \A j \in 1 .. Len(Q[n]) : o[n - 1] + j \in Bare(s, "eq") <=> j \in Bare(Q[n], "eq")
        <3>1. /\ Ends(B, Q)[n - 1] \in Nat
              /\ \A j \in 1 .. Len(Q[n]) : Ends(B, Q)[n - 1] + j \in Bare((B \o FlattenSeq(Q)) \o tail, "eq")
                                               <=> j \in Bare(Q[n], "eq")
            BY <1>0, <1>1, <1>5, PartFacts
        <3> QED BY <1>0, <1>2, <3>1
    <2> QED BY <1>3, <2>1
<1>7. ASSUME NEW e \in Bare(s, "eq") PROVE \E n \in 1 .. Len(Q) : e = o[n - 1] + 2
    <2>1. e \in 1 .. Len(s) /\ s[e] = "eq"
        BY <1>2 DEF Bare
    <2>2. e # 1
        <3>1. s[1] = B[1]
            <4>1. FlattenSeq(Q) \in Text
                <5>1. Q \in Seq(Seq(Chars))
                    BY <1>0 DEF Text
                <5> QED BY <5>1, FlattenFacts DEF Text
            <4>2. 1 \in 1 .. Len(B)
                BY <1>1
            <4> QED BY <1>0, <1>1, <4>1, <4>2, Concat
        <3> QED BY <1>1, <2>1, <3>1
    <2>3. e > Len(B) /\ e \in Nat /\ e <= Len(B \o FlattenSeq(Q))
        BY <1>0, <1>1, <1>2, <2>1, <2>2
    <2>4. PICK n \in 1 .. Len(Q) : \E i \in 1 .. Len(Q[n]) : e = Ends(B, Q)[n - 1] + i
        BY <1>0, <1>1, <2>3, WherePart
    <2>5. PICK i \in 1 .. Len(Q[n]) : e = o[n - 1] + i
        BY <1>0, <2>4
    <2>6. i = 2
        BY <1>6, <1>7, <2>5
    <2> QED BY <2>5, <2>6
<1>8. ASSUME NEW n \in 1 .. Len(Q) PROVE o[n - 1] + 2 \in Bare(s, "eq")
    <2>1. 2 \in 1 .. Len(Q[n])
        BY <1>3
    <2> QED BY <1>6, <2>1
<1> QED BY <1>7, <1>8

(* They stand in the order of the pairs. *)
LEMMA CefRising ==
    ASSUME NEW s, NEW Q, NEW k, NEW v, NEW o, CefBits(s, Q, k, v, o),
           NEW n \in 1 .. Len(Q), NEW m \in 1 .. Len(Q), n < m
    PROVE  o[n - 1] < o[m - 1] /\ o[n] <= o[m - 1]
<1> DEFINE B == <<"pipe">>
           N == Len(Q)
<1>0. o \in [0 .. N -> Nat] /\ N \in Nat
    <2>1. Q \in Seq(Text) /\ o = Ends(B, Q)
        BY DEF CefBits, IsBits
    <2>2. B \in Text
        BY SomeChars DEF Text
    <2> QED BY <2>1, <2>2, EndsFacts
<1>1. \A i \in 1 .. N : o[i - 1] < o[i]
    <2> TAKE i \in 1 .. N
    <2>1. o[i - 1] \in Nat /\ Len(v[i]) \in Nat /\ o[i] = o[i - 1] + Len(v[i]) + 3
        BY CefBit
    <2> QED BY <2>1
<1> HIDE DEF N
<1>2. \A i \in 0 .. N : \A j \in 0 .. i : o[j] <= o[i] /\ (j < i => o[j] < o[i])
    BY <1>0, <1>1, Increasing
<1>3. m - 1 \in 0 .. N /\ n \in 0 .. m - 1 /\ n - 1 \in 0 .. m - 1 /\ n - 1 < m - 1
    BY <1>0 DEF N
<1> QED BY <1>2, <1>3

-----------------------------------------------------------------------------
(* How the CEF reader takes an extension apart. *)

(* ... the last blank before such a "=" is the one before its key ... *)
Space(s, e) == Max({j \in 1 .. e : j = 1 \/ s[j] = "sp"})

(* The last separator before a pair's equals sign is the one before its key. *)
LEMMA CefSpace ==
    ASSUME NEW s, NEW Q, NEW k, NEW v, NEW o, CefBits(s, Q, k, v, o), NEW n \in 1 .. Len(Q)
    PROVE  Space(s, o[n - 1] + 2) = o[n - 1]
<1> DEFINE x == o[n - 1]
           e == x + 2
           S == {j \in 1 .. e : j = 1 \/ s[j] = "sp"}
<1>1. x \in Nat /\ x >= 1 /\ s[x + 1] \in Names /\ s[x + 2] = "eq"
    BY CefBit
<1>2. x = 1 \/ s[x] = "sp"
    <2>1. CASE n = 1
        <3> DEFINE B == <<"pipe">>
        <3>1. Q \in Seq(Text) /\ o = Ends(B, Q) /\ B \in Text /\ Len(B) = 1
            BY SomeChars DEF CefBits, IsBits, Text
        <3> HIDE DEF B
        <3>2. o[0] = 1
            BY <3>1, EndsFacts
        <3> QED BY <2>1, <3>2
    <2>2. CASE n # 1
        <3>1. n - 1 \in 1 .. Len(Q)
            BY <2>2
        <3> QED BY <3>1, CefBit
    <2> QED BY <2>1, <2>2
<1>3. s[x + 1] # "sp" /\ s[x + 2] # "sp"
    BY <1>1 DEF Names, Special
<1> HIDE DEF x
<1>4. x \in S /\ S \in SUBSET Nat
    BY <1>1, <1>2
<1>5. ASSUME NEW j \in S PROVE j <= x
    <2>1. j \in 1 .. e /\ (j = 1 \/ s[j] = "sp")
        OBVIOUS
    <2>2. j # x + 1 /\ j # x + 2
        BY <1>1, <1>3, <2>1
    <2> QED BY <1>1, <2>1, <2>2
<1> HIDE DEF S
<1>6. Max(S) = x
    BY <1>4, <1>5, MaxIs
<1> QED BY <1>6 DEF Space, S, x

(* ... and the value ends with the blank before the next key, or the text. *)
Later(s, e) == {d \in Bare(s, "eq") : d > e}

ValueEnd(s, e) == IF Later(s, e) = {} THEN Len(s) ELSE Space(s, Min(Later(s, e)))

(* A value ends where the next pair's key begins. *)
LEMMA CefNext ==
    ASSUME NEW s, NEW Q, NEW k, NEW v, NEW o, CefBits(s, Q, k, v, o), NEW n \in 1 .. Len(Q)
    PROVE  ValueEnd(s, o[n - 1] + 2) = o[n]
<1> DEFINE N == Len(Q)
           e == o[n - 1] + 2
           later == Later(s, e)
<1>0. N \in Nat /\ Q \in Seq(Text)
    BY DEF CefBits, IsBits
<1>1. \A i \in 1 .. N : o[i - 1] \in Nat
    BY CefBit
<1>2. \A d : d \in later <=> \E m \in 1 .. N : d = o[m - 1] + 2 /\ d > e
    BY CefEquals DEF Later
<1> HIDE DEF later
<1>3. CASE n = N
    <2>1. ASSUME NEW d \in later PROVE FALSE
        <3>1. PICK m \in 1 .. N : d = o[m - 1] + 2 /\ d > e
            BY <1>2
        <3>2. m = N \/ m < n
            BY <1>0, <1>3
        <3>3. m < n => o[m - 1] < o[n - 1]
            BY CefRising
        <3> QED BY <1>1, <1>3, <3>1, <3>2, <3>3
    <2>2. later = {}
        BY <2>1
    <2>3. o[N] = Len(s)
        <3> DEFINE B == <<"pipe">>
        <3>1. s = B \o FlattenSeq(Q) /\ o = Ends(B, Q) /\ B \in Text
            BY SomeChars DEF CefBits, Text
        <3> HIDE DEF B
        <3> QED BY <1>0, <3>1, EndsFacts
    <2> QED BY <1>3, <2>2, <2>3 DEF ValueEnd, later
<1>4. CASE n # N
    <2> DEFINE m == n + 1
               x == o[n]
               d == x + 2
    <2>1. m \in 1 .. N /\ m - 1 = n /\ n < m /\ n \in 0 .. N
        BY <1>0, <1>4
    <2>2. o[n - 1] < x /\ x \in Nat /\ o[n - 1] \in Nat
        <3>1. o[m - 1] = x
            BY <2>1
        <3>2. o[n - 1] < o[m - 1]
            <4> HIDE DEF m
            <4> QED BY <2>1, CefRising
        <3> QED BY <1>1, <2>1, <3>1, <3>2
    <2>3. d \in later
        <3>1. d = o[m - 1] + 2 /\ d > e
            BY <2>1, <2>2
        <3> QED BY <1>2, <2>1, <3>1
    <2>4. ASSUME NEW c \in later PROVE d <= c
        <3>1. PICK i \in 1 .. N : c = o[i - 1] + 2 /\ c > e
            BY <1>2
        <3>2. i < n => o[i - 1] < o[n - 1]
            BY CefRising
        <3>3. n < i => x <= o[i - 1]
            BY CefRising
        <3>4. i < n \/ i = n \/ n < i
            OBVIOUS
        <3>5. o[i - 1] \in Nat
            BY <1>0, <1>1
        <3>6. CASE i < n \/ i = n
            <4>1. o[i - 1] <= o[n - 1]
                BY <2>2, <3>2, <3>5, <3>6
            <4> QED BY <2>2, <3>1, <3>5, <4>1
        <3>7. CASE n < i
            BY <2>2, <3>1, <3>3, <3>5, <3>7
        <3> QED BY <3>4, <3>6, <3>7
    <2>5. later \in SUBSET Nat
        <3>1. ASSUME NEW c \in later PROVE c \in Nat
            <4>1. PICK i \in 1 .. N : c = o[i - 1] + 2 /\ c > e
                BY <1>2
            <4> QED BY <1>1, <4>1
        <3> QED BY <3>1
    <2> HIDE DEF d
    <2>6. Min(later) = d /\ later # {}
        BY <2>3, <2>4, <2>5, MinIs
    <2>7. Space(s, d) = x
        <3>1. Space(s, o[m - 1] + 2) = o[m - 1]
            <4> HIDE DEF m
            <4> QED BY <2>1, CefSpace
        <3> QED BY <2>1, <3>1 DEF d
    <2> QED BY <2>6, <2>7 DEF ValueEnd, later
<1> QED BY <1>3, <1>4

(* So the reader finds the keys, and the values without their escapes. *)
Extension == Append(SubSeq(line, HeaderEnd, Len(line)), "sp")

(* The CEF reader finds every pair's key and value, and nothing else. *)
LEMMA CefReader ==
    ASSUME NEW Q, NEW k, NEW v, NEW o, CefBits(Extension, Q, k, v, o)
    PROVE  Found(CefRead, Len(Q), k, [n \in 1 .. Len(Q) |-> Unescaped(v[n])])
<1> DEFINE s == Extension
           One(e) == <<Between(s, Space(s, e), e), Unescaped(Between(s, e, ValueEnd(s, e)))>>
<1>1. CefRead = {One(e) : e \in Bare(s, "eq")}
    BY DEF CefRead, Space, ValueEnd, Later, Extension
<1> HIDE DEF s
<1>2. ASSUME NEW n \in 1 .. Len(Q) PROVE One(o[n - 1] + 2) = <<<<k[n]>>, Unescaped(v[n])>>
    <2>1. Space(s, o[n - 1] + 2) = o[n - 1]
        BY CefSpace DEF s
    <2>2. ValueEnd(s, o[n - 1] + 2) = o[n]
        BY CefNext DEF s
    <2>3. Between(s, o[n - 1], o[n - 1] + 2) = <<k[n]>> /\ Between(s, o[n - 1] + 2, o[n]) = v[n]
        BY CefBit DEF s
    <2> QED BY <2>1, <2>2, <2>3
<1> HIDE DEF One
<1>3. \A e : e \in Bare(s, "eq") <=> \E n \in 1 .. Len(Q) : e = o[n - 1] + 2
    BY CefEquals DEF s
<1>4. ASSUME NEW r PROVE r \in CefRead <=> \E n \in 1 .. Len(Q) : r = <<<<k[n]>>, Unescaped(v[n])>>
    <2>1. r \in CefRead <=> \E e \in Bare(s, "eq") : r = One(e)
        BY <1>1
    <2>2. ASSUME NEW e \in Bare(s, "eq"), r = One(e)
          PROVE  \E n \in 1 .. Len(Q) : r = <<<<k[n]>>, Unescaped(v[n])>>
        <3>1. PICK n \in 1 .. Len(Q) : e = o[n - 1] + 2
            BY <1>3
        <3> QED BY <1>2, <2>2, <3>1
    <2>3. ASSUME NEW n \in 1 .. Len(Q), r = <<<<k[n]>>, Unescaped(v[n])>>
          PROVE  \E e \in Bare(s, "eq") : r = One(e)
        <3>1. o[n - 1] + 2 \in Bare(s, "eq") /\ r = One(o[n - 1] + 2)
            BY <1>2, <1>3, <2>3
        <3> QED BY <3>1
    <2> QED BY <2>1, <2>2, <2>3
<1> QED BY <1>4 DEF Found

-----------------------------------------------------------------------------
(* How the LEEF reader takes a line apart. *)

(* A LEEF reader goes by the pipes of a text, whose first five end the header. *)
Pipes(s) == {i \in DOMAIN s : s[i] = "pipe"}

(* The beginning of every LEEF line. *)
LeefPrefix == <<"LEEF:1.0", "pipe", "PaloAlto", "pipe", "product", "pipe", "1.0", "pipe", stream, "pipe">>

LEMMA FiveElements == Cardinality(((({2} \cup {4}) \cup {6}) \cup {8}) \cup {10}) = 5
<1> DEFINE a == {2}
           b == a \cup {4}
           c == b \cup {6}
           d == c \cup {8}
           e == d \cup {10}
<1>1. IsFiniteSet(a) /\ Cardinality(a) = 1
    BY FS_Singleton
<1>2. 4 \notin a /\ 6 \notin b /\ 8 \notin c /\ 10 \notin d
    OBVIOUS
<1> HIDE DEF a
<1>3. IsFiniteSet(b) /\ Cardinality(b) = 2
    BY <1>1, <1>2, FS_AddElement
<1> HIDE DEF b
<1>4. IsFiniteSet(c) /\ Cardinality(c) = 3
    BY <1>2, <1>3, FS_AddElement
<1> HIDE DEF c
<1>5. IsFiniteSet(d) /\ Cardinality(d) = 4
    BY <1>2, <1>4, FS_AddElement
<1> HIDE DEF d
<1>6. IsFiniteSet(e) /\ Cardinality(e) = 5
    BY <1>2, <1>5, FS_AddElement
<1> QED BY <1>6 DEF a, b, c, d, e

(* Five pipes stand in the beginning of a LEEF line. *)
LEMMA PrefixFacts ==
    ASSUME stream \in Streams
    PROVE  LeefPrefix \in Text /\ Len(LeefPrefix) = 10 /\ LeefPrefix[10] = "pipe" /\ Cardinality(Pipes(LeefPrefix)) = 5
<1> DEFINE s == LeefPrefix
<1>1. /\ "LEEF:1.0" \in Chars /\ "PaloAlto" \in Chars /\ "product" \in Chars /\ "1.0" \in Chars
      /\ "pipe" \in Chars /\ stream \in Chars /\ stream # "pipe"
    BY WordsPrinted DEF Words, Printed, Chars, Streams
<1>2. /\ s \in Text /\ Len(s) = 10
      /\ s[1] = "LEEF:1.0" /\ s[2] = "pipe" /\ s[3] = "PaloAlto" /\ s[4] = "pipe" /\ s[5] = "product"
      /\ s[6] = "pipe" /\ s[7] = "1.0" /\ s[8] = "pipe" /\ s[9] = stream /\ s[10] = "pipe"
    BY <1>1 DEF LeefPrefix, Text
<1> HIDE DEF s
<1>3. DOMAIN s = 1 .. 10
    BY <1>2 DEF Text
<1>4. Pipes(s) = ((({2} \cup {4}) \cup {6}) \cup {8}) \cup {10}
    <2>1. ASSUME NEW i \in 1 .. 10 PROVE s[i] = "pipe" <=> i \in {2, 4, 6, 8, 10}
        <3>1. i \in {1, 2, 3, 4, 5, 6, 7, 8, 9, 10}
            OBVIOUS
        <3> QED BY <1>1, <1>2, <3>1
    <2>2. ASSUME NEW i PROVE i \in Pipes(s) <=> i \in {2, 4, 6, 8, 10}
        BY <1>3, <2>1 DEF Pipes
    <2> QED BY <2>2
<1> QED BY <1>2, <1>4, FiveElements DEF s

LeefBits(s, Q, k, v, o) ==
    /\ IsBits(Q, k, v, "pipe")
    /\ \A n \in 1 .. Len(Q) : \A i \in 1 .. Len(v[n]) : v[n][i] # "pipe"
    /\ s = LeefPrefix \o FlattenSeq(Q)
    /\ o = Ends(LeefPrefix, Q)

LEMMA LeefBit ==
    ASSUME stream \in Streams, NEW s, NEW Q, NEW k, NEW v, NEW o, LeefBits(s, Q, k, v, o), NEW n \in 1 .. Len(Q)
    PROVE  StandsAt(s, o[n - 1], o[n], k[n], v[n], "pipe") /\ k[n] # "pipe" /\ k[n] # "eq"
<1> DEFINE w == v[n]
           y == k[n]
<1>1. /\ Q \in Seq(Text) /\ y \in Names /\ w \in Text /\ Q[n] = Bit(y, w, "pipe")
      /\ s = LeefPrefix \o FlattenSeq(Q) /\ o = Ends(LeefPrefix, Q)
    BY DEF LeefBits, IsBits
<1>2. LeefPrefix \in Text /\ "pipe" \in Chars
    BY PrefixFacts, SomeChars
<1> HIDE DEF w, y
<1>3. StandsAt(LeefPrefix \o FlattenSeq(Q), Ends(LeefPrefix, Q)[n - 1], Ends(LeefPrefix, Q)[n], y, w, "pipe")
    BY <1>1, <1>2, BitAt
<1>4. y # "pipe" /\ y # "eq"
    BY <1>1 DEF Names, Special
<1>5. StandsAt(s, o[n - 1], o[n], y, w, "pipe")
    BY <1>1, <1>3
<1> QED BY <1>4, <1>5 DEF w, y

(* The others end its pairs. *)
LEMMA LeefMarks ==
    ASSUME stream \in Streams, NEW s, NEW Q, NEW k, NEW v, NEW o, LeefBits(s, Q, k, v, o)
    PROVE  /\ Marks(Pipes(s), o, Len(Q), 5) /\ o[Len(Q)] = Len(s)
           /\ \A q \in Pipes(s) : q <= Len(s)
<1> DEFINE N == Len(Q)
           P == LeefPrefix
           S == Pipes(s)
<1>0. Q \in Seq(Text) /\ s = P \o FlattenSeq(Q) /\ o = Ends(P, Q)
    BY DEF LeefBits, IsBits
<1>1. P \in Text /\ Len(P) = 10 /\ P[10] = "pipe" /\ Cardinality(Pipes(P)) = 5
    BY PrefixFacts
<1> HIDE DEF P
<1>2. o \in [0 .. N -> Nat] /\ N \in Nat /\ o[0] = 10 /\ o[N] = Len(s)
    BY <1>0, <1>1, EndsFacts
<1>3. s \in Text /\ Len(s) \in Nat /\ 10 <= Len(s) /\ \A i \in 1 .. 10 : s[i] = P[i]
    <2>1. Q \in Seq(Seq(Chars))
        BY <1>0 DEF Text
    <2>2. FlattenSeq(Q) \in Text
        BY <2>1, FlattenFacts DEF Text
    <2> DEFINE w == FlattenSeq(Q)
    <2> HIDE DEF w
    <2>3. /\ P \o w \in Text /\ Len(P \o w) = Len(P) + Len(w) /\ Len(w) \in Nat
          /\ \A i \in 1 .. Len(P) : (P \o w)[i] = P[i]
        BY <1>1, <2>2, Concat DEF w
    <2>4. s = P \o w
        BY <1>0 DEF w
    <2> QED BY <1>1, <2>3, <2>4
<1>4. DOMAIN s = 1 .. Len(s) /\ DOMAIN P = 1 .. 10
    BY <1>1, <1>3 DEF Text
<1>5. S \subseteq 1 .. Len(s)
    BY <1>4 DEF Pipes
<1>6. IsFiniteSet(S) /\ S \in SUBSET Nat
    <2>1. IsFiniteSet(1 .. Len(s))
        BY <1>3, FS_Interval
    <2>2. IsFiniteSet(S)
        BY <1>5, <2>1, FS_Subset
    <2> QED BY <1>5, <2>2
<1>7. \A i : i \in S <=> i \in 1 .. Len(s) /\ s[i] = "pipe"
    BY <1>4 DEF Pipes
<1> HIDE DEF S, N
<1>8. {q \in S : q <= o[0]} = Pipes(P) /\ o[0] \in S
    <2>1. \A q : q \in Pipes(P) <=> q \in 1 .. 10 /\ P[q] = "pipe"
        BY <1>4 DEF Pipes
    <2>2. ASSUME NEW q PROVE (q \in S /\ q <= 10) <=> q \in Pipes(P)
        <3>1. CASE q \in 1 .. 10
            <4>1. q \in 1 .. Len(s) /\ q <= 10 /\ s[q] = P[q]
                BY <1>3, <3>1
            <4> QED BY <1>7, <2>1, <3>1, <4>1
        <3>2. CASE q \notin 1 .. 10
            <4>1. ~(q \in 1 .. Len(s) /\ q <= 10)
                BY <3>2
            <4> QED BY <1>7, <2>1, <3>2, <4>1
        <3> QED BY <3>1, <3>2
    <2>3. 10 \in Pipes(P)
        BY <1>1, <2>1
    <2> QED BY <1>2, <2>2, <2>3
<1>9. ASSUME NEW n \in 1 .. N, NEW q \in (o[n - 1] + 1) .. o[n] PROVE o[n - 1] < o[n] /\ (q \in S <=> q = o[n])
    <2> DEFINE x == o[n - 1]
               z == o[n]
               w == v[n]
               y == k[n]
    <2>1. StandsAt(s, x, z, y, w, "pipe") /\ y # "pipe"
        BY LeefBit DEF N
    <2>2. \A i \in 1 .. Len(w) : w[i] # "pipe"
        BY DEF LeefBits, N
    <2> HIDE DEF x, z, w, y
    <2>3. /\ x \in Nat /\ Len(w) \in Nat /\ z = x + Len(w) + 3 /\ z <= Len(s)
          /\ s[x + 1] # "pipe" /\ s[x + 2] = "eq" /\ s[z] = "pipe"
          /\ \A i \in 1 .. Len(w) : s[x + 2 + i] # "pipe"
        BY <2>1, <2>2 DEF StandsAt
    <2>4. q \in x + 1 .. z
        BY DEF x, z
    <2>5. q \in 1 .. Len(s) /\ q \in Nat /\ z \in Nat
        <3>1. x \in Nat /\ Len(w) \in Nat /\ z = x + Len(w) + 3 /\ z <= Len(s)
            BY <2>3
        <3>2. Len(s) \in Nat
            BY <1>3
        <3> HIDE DEF N
        <3> QED BY <2>4, <3>1, <3>2
    <2>6. ASSUME q = z PROVE q \in S
        BY <1>7, <2>3, <2>5, <2>6
    <2>7. ASSUME q = x + 1 \/ q = x + 2 PROVE q \notin S
        BY <1>7, <2>3, <2>7
    <2>8. ASSUME q > x + 2 /\ q # z PROVE q \notin S
        <3> DEFINE i == q - (x + 2)
        <3>1. i \in 1 .. Len(w) /\ x + 2 + i = q
            BY <2>3, <2>4, <2>5, <2>8
        <3> HIDE DEF i
        <3>2. s[q] # "pipe"
            BY <2>3, <3>1
        <3> QED BY <1>7, <3>2
    <2>9. q = x + 1 \/ q = x + 2 \/ q = z \/ (q > x + 2 /\ q # z)
        BY <2>3, <2>4, <2>5
    <2>10. (q \in S <=> q = z) /\ x < z
        <3>1. x < z /\ x + 1 # z /\ x + 2 # z
            BY <2>3
        <3>2. q \in S <=> q = z
            BY <1>7, <2>3, <2>6, <2>7, <2>8, <2>9, <3>1
        <3> QED BY <3>1, <3>2
    <2> QED BY <2>10 DEF x, z
<1>10. \A n \in 1 .. N : o[n - 1] < o[n]
    <2> TAKE n \in 1 .. N
    <2>1. StandsAt(s, o[n - 1], o[n], k[n], v[n], "pipe")
        BY LeefBit DEF N
    <2>2. o[n - 1] \in Nat /\ Len(v[n]) \in Nat /\ o[n] = o[n - 1] + Len(v[n]) + 3
        BY <2>1 DEF StandsAt
    <2> QED BY <2>2
<1>11. Cardinality({q \in S : q <= o[0]}) = 5
    BY <1>1, <1>8
<1>12. \A n \in 1 .. N : \A q \in (o[n - 1] + 1) .. o[n] : q \in S <=> q = o[n]
    BY <1>9
<1>13. Marks(S, o, N, 5)
    BY <1>2, <1>6, <1>8, <1>10, <1>11, <1>12 DEF Marks
<1>14. \A q \in S : q <= Len(s)
    BY <1>3, <1>7
<1> QED BY <1>2, <1>13, <1>14 DEF S, N

(* A key ends with the first "=" after the pipe. *)
KeyEnd(s, from, to) == Min({i \in from .. to : s[i] = "eq" \/ i = to})

(* The first equals sign of a pair is the one after its key. *)
LEMMA LeefKeyEnd ==
    ASSUME stream \in Streams, NEW s, NEW Q, NEW k, NEW v, NEW o, LeefBits(s, Q, k, v, o), NEW n \in 1 .. Len(Q)
    PROVE  KeyEnd(s, o[n - 1], o[n]) = o[n - 1] + 2
<1> DEFINE x == o[n - 1]
           z == o[n]
           S == {i \in x .. z : s[i] = "eq" \/ i = z}
<1>1. /\ x \in Nat /\ z \in Nat /\ x + 2 < z /\ s[x + 1] # "eq" /\ s[x + 2] = "eq"
    <2>1. StandsAt(s, x, z, k[n], v[n], "pipe") /\ k[n] # "eq"
        BY LeefBit
    <2> HIDE DEF x, z
    <2>2. x \in Nat /\ Len(v[n]) \in Nat /\ z = x + Len(v[n]) + 3
        BY <2>1 DEF StandsAt
    <2> QED BY <2>1, <2>2 DEF StandsAt
<1>2. s[x] = "pipe"
    <2>1. n - 1 \in 0 .. Len(Q)
        OBVIOUS
    <2>2. x \in Pipes(s)
        BY <2>1, LeefMarks, MarksFacts
    <2> HIDE DEF x
    <2> QED BY <2>2 DEF Pipes
<1> HIDE DEF x, z
<1>3. x + 2 \in S /\ S \in SUBSET Nat
    BY <1>1
<1>4. ASSUME NEW i \in S PROVE x + 2 <= i
    <2>1. i \in x .. z /\ (s[i] = "eq" \/ i = z)
        OBVIOUS
    <2>2. i # x + 1 /\ i # x
        BY <1>1, <1>2, <2>1
    <2> QED BY <1>1, <2>1, <2>2
<1> DEFINE e == x + 2
<1> HIDE DEF S
<1>5. Min(S) = e
    <2>1. e \in S /\ \A i \in S : e <= i
        BY <1>3, <1>4
    <2> HIDE DEF e
    <2> QED BY <1>3, <2>1, MinIs
<1> QED BY <1>5 DEF KeyEnd, S, x, z

(* So the reader finds the keys and the values. *)
LEMMA LeefReader ==
    ASSUME stream \in Streams, NEW Q, NEW k, NEW v, NEW o, LeefBits(Append(line, "pipe"), Q, k, v, o)
    PROVE  Found(LeefRead, Len(Q), k, v)
<1> DEFINE s == Append(line, "pipe")
           S == Pipes(s)
           N == Len(Q)
           One(m) == <<Between(s, Nth(S, m), KeyEnd(s, Nth(S, m), Nth(S, m + 1))),
                       Between(s, KeyEnd(s, Nth(S, m), Nth(S, m + 1)), Nth(S, m + 1))>>
<1>1. LeefRead = {One(m) : m \in 5 .. (Cardinality(S) - 1)}
    BY DEF LeefRead, Pipes, KeyEnd
<1>00. LeefBits(s, Q, k, v, o)
    OBVIOUS
<1> HIDE DEF s
<1>2. Marks(S, o, N, 5) /\ o[N] = Len(s) /\ \A q \in S : q <= Len(s)
    BY <1>00, LeefMarks
<1>3. N \in Nat
    BY <1>00 DEF LeefBits, IsBits
<1>4. Cardinality(S) - 1 = 4 + N
    <2>1. N \in 0 .. N /\ \A q \in S : q <= o[N]
        BY <1>2, <1>3
    <2> HIDE DEF N, S
    <2>2. Cardinality(S) = 5 + N
        BY <1>2, <2>1, MarksFacts
    <2> QED BY <1>3, <2>2
<1>5. ASSUME NEW n \in 1 .. N PROVE One(n + 4) = <<<<k[n]>>, v[n]>>
    <2>1. Nth(S, 5 + (n - 1)) = o[n - 1] /\ Nth(S, 5 + n) = o[n]
        <3>1. n - 1 \in 0 .. N /\ n \in 0 .. N
            BY <1>3
        <3> HIDE DEF S, N
        <3> QED BY <1>2, <3>1, MarksFacts
    <2>2. 5 + (n - 1) = n + 4 /\ 5 + n = (n + 4) + 1
        OBVIOUS
    <2>3. KeyEnd(s, o[n - 1], o[n]) = o[n - 1] + 2
        BY <1>00, LeefKeyEnd
    <2>4. StandsAt(s, o[n - 1], o[n], k[n], v[n], "pipe")
        BY <1>00, LeefBit
    <2>5. Between(s, o[n - 1], o[n - 1] + 2) = <<k[n]>> /\ Between(s, o[n - 1] + 2, o[n]) = v[n]
        BY <2>4 DEF StandsAt
    <2>6. Nth(S, n + 4) = o[n - 1] /\ Nth(S, (n + 4) + 1) = o[n]
        BY <2>1, <2>2
    <2> HIDE DEF S
    <2> QED BY <2>3, <2>5, <2>6
<1> HIDE DEF One
<1>6. ASSUME NEW r PROVE r \in LeefRead <=> \E n \in 1 .. N : r = <<<<k[n]>>, v[n]>>
    <2>1. r \in LeefRead <=> \E m \in 5 .. (4 + N) : r = One(m)
        BY <1>1, <1>4
    <2>2. ASSUME NEW m \in 5 .. (4 + N), r = One(m) PROVE \E n \in 1 .. N : r = <<<<k[n]>>, v[n]>>
        <3> DEFINE n == m - 4
        <3>1. n \in 1 .. N /\ n + 4 = m
            BY <1>3
        <3> HIDE DEF n
        <3> QED BY <1>5, <2>2, <3>1
    <2>3. ASSUME NEW n \in 1 .. N, r = <<<<k[n]>>, v[n]>> PROVE \E m \in 5 .. (4 + N) : r = One(m)
        <3>1. n + 4 \in 5 .. (4 + N)
            BY <1>3
        <3> QED BY <1>5, <2>3, <3>1
    <2> QED BY <2>1, <2>2, <2>3
<1> QED BY <1>6 DEF Found

-----------------------------------------------------------------------------
(* From the pairs to the fields, and from the line to its parts. *)

(* The parts of a line with the fields f and the separator c. *)
ValuesOf(f) == [n \in 1 .. Len(Listed(DOMAIN f)) |-> Encode(f[Listed(DOMAIN f)[n]])]

Bits(f, c) == [n \in 1 .. Len(Listed(DOMAIN f)) |-> Bit(Listed(DOMAIN f)[n], ValuesOf(f)[n], c)]

(* The joined pairs and a last separator are the pairs, each with its separator. *)
LEMMA BitsFacts ==
    ASSUME NEW f, Printable(f), DOMAIN f # {}, NEW c \in Chars
    PROVE  /\ IsBits(Bits(f, c), Listed(DOMAIN f), ValuesOf(f), c)
           /\ Len(Bits(f, c)) = Len(Listed(DOMAIN f))
           /\ Joined(Pairs(f), c) \in Text
           /\ Joined(Pairs(f), c) \o <<c>> = FlattenSeq(Bits(f, c))
           /\ \A n \in 1 .. Len(Listed(DOMAIN f)) :
                 Listed(DOMAIN f)[n] \in DOMAIN f /\ ValuesOf(f)[n] = Encode(f[Listed(DOMAIN f)[n]])
           /\ \A k \in DOMAIN f : \E n \in 1 .. Len(Listed(DOMAIN f)) : Listed(DOMAIN f)[n] = k
<1> DEFINE keys == Listed(DOMAIN f)
           N == Len(keys)
           v == ValuesOf(f)
           Q == Bits(f, c)
           texts == Pairs(f)
<1>1. keys \in Seq(DOMAIN f) /\ \A k \in DOMAIN f : \E n \in 1 .. N : keys[n] = k
    BY ListedFacts DEF Printable
<1>2. texts = [n \in DOMAIN keys |-> <<keys[n], "eq">> \o Encode(f[keys[n]])]
    BY DEF Pairs
<1>3. v = [n \in 1 .. N |-> Encode(f[keys[n]])] /\ Q = [n \in 1 .. N |-> Bit(keys[n], v[n], c)]
    BY DEF ValuesOf, Bits
<1> HIDE DEF keys, v, Q, texts
<1>4. N \in Nat /\ DOMAIN keys = 1 .. N
    BY <1>1
<1>5. ASSUME NEW n \in 1 .. N
      PROVE  /\ keys[n] \in DOMAIN f /\ keys[n] \in Names /\ v[n] \in Text /\ v[n] = Encode(f[keys[n]])
             /\ Q[n] = Bit(keys[n], v[n], c) /\ Bit(keys[n], v[n], c) \in Text
             /\ texts[n] = <<keys[n], "eq">> \o v[n] /\ texts[n] \in Text
    <2>1. keys[n] \in DOMAIN f /\ keys[n] \in Names
        BY <1>1 DEF Printable
    <2>2. v[n] = Encode(f[keys[n]])
        BY <1>3
    <2>3. v[n] \in Text
        <3>1. f[keys[n]].text \in Text
            BY <2>1 DEF Printable, IsField, Field
        <3>2. Encode(f[keys[n]]) \in Seq(Printed)
            BY <3>1, EncodeFacts
        <3> QED BY <2>2, <3>2, SeqMonotonic DEF Printed, Text
    <2>4. texts[n] = <<keys[n], "eq">> \o v[n]
        BY <1>2, <1>4, <2>2
    <2>5. <<keys[n], "eq">> \in Text
        <3>1. keys[n] \in Chars /\ "eq" \in Chars
            BY <2>1, NamesPrinted, SomeChars DEF Printed
        <3> QED BY <3>1, ShortTexts
    <2>6. texts[n] \in Text
        BY <2>3, <2>4, <2>5, Concat
    <2> QED BY <1>3, <2>1, <2>2, <2>3, <2>4, <2>6, BitFacts
<1> HIDE DEF N
<1>6. Q \in Seq(Text) /\ Len(Q) = N /\ texts \in Seq(Text) /\ Len(texts) = N
    <2>1. Q \in [1 .. N -> Text]
        BY <1>3, <1>5
    <2>2. texts \in [1 .. N -> Text]
        BY <1>2, <1>4, <1>5
    <2> QED BY <1>4, <2>1, <2>2
<1>7. N # 0
    <2>1. PICK k \in DOMAIN f : TRUE
        OBVIOUS
    <2> QED BY <1>1, <2>1
<1>8. ASSUME NEW n \in 1 .. Len(texts) PROVE Q[n] = Append(texts[n], c)
    BY <1>5, <1>6 DEF Bit
<1>9. texts # <<>>
    BY <1>6, <1>7
<1>10. Joined(texts, c) \in Text /\ Joined(texts, c) \o <<c>> = FlattenSeq(Q)
    BY <1>6, <1>8, <1>9, JoinedEnd
<1>11. IsBits(Q, keys, v, c)
    BY <1>5, <1>6 DEF IsBits
<1> QED BY <1>1, <1>5, <1>6, <1>10, <1>11 DEF keys, v, Q, texts, N

(* What the reader finds is what the fields are. *)
ReadsFields(read) ==
    /\ {r[1] : r \in read} = {<<k>> : k \in DOMAIN fields}
    /\ \A r \in read : SameOrCut(r[2], fields[r[1][1]])

(* A reader who finds every pair finds the fields. *)
LEMMA ReadsPairs ==
    ASSUME NEW read, NEW N, NEW k, NEW u, Found(read, N, k, u),
           \A n \in 1 .. N : k[n] \in DOMAIN fields /\ SameOrCut(u[n], fields[k[n]]),
           \A x \in DOMAIN fields : \E n \in 1 .. N : k[n] = x
    PROVE  ReadsFields(read)
<1>0. \A r : r \in read <=> \E n \in 1 .. N : r = <<<<k[n]>>, u[n]>>
    BY DEF Found
<1>1. ASSUME NEW r \in read PROVE r[1] \in {<<x>> : x \in DOMAIN fields} /\ SameOrCut(r[2], fields[r[1][1]])
    <2>1. PICK n \in 1 .. N : r = <<<<k[n]>>, u[n]>>
        BY <1>0
    <2>2. r[1] = <<k[n]>> /\ r[2] = u[n] /\ r[1][1] = k[n]
        BY <2>1
    <2> QED BY <2>2
<1>2. ASSUME NEW x \in DOMAIN fields PROVE \E r \in read : r[1] = <<x>>
    <2>1. PICK n \in 1 .. N : k[n] = x
        OBVIOUS
    <2>2. <<<<k[n]>>, u[n]>> \in read
        BY <1>0
    <2>3. <<<<k[n]>>, u[n]>>[1] = <<x>>
        BY <2>1
    <2> QED BY <2>2, <2>3
<1>3. ASSUME NEW y PROVE y \in {r[1] : r \in read} <=> y \in {<<x>> : x \in DOMAIN fields}
    BY <1>1, <1>2
<1> QED BY <1>1, <1>3 DEF ReadsFields

(* What follows a CEF header, with the pipe that ends it. *)
LEMMA TailFrom ==
    ASSUME NEW s \in Text, NEW ext \in Text, Len(s) \in Bare(s \o ext, "pipe")
    PROVE  SubSeq(s \o ext, Len(s), Len(s \o ext)) = <<"pipe">> \o ext
<1> DEFINE u == s \o ext
           p == <<"pipe">>
           m == Len(s)
           l == Len(ext)
           d == SubSeq(u, m, Len(u))
<1>1. /\ u \in Text /\ Len(u) = m + l /\ m \in Nat /\ l \in Nat
      /\ \A i \in 1 .. l : u[m + i] = ext[i]
    BY Concat
<1>2. m \in 1 .. Len(u) /\ u[m] = "pipe"
    <2> HIDE DEF u
    <2>1. DOMAIN u = 1 .. Len(u)
        BY <1>1 DEF Text
    <2>2. m \in Bare(u, "pipe")
        BY DEF u
    <2> QED BY <2>1, <2>2 DEF Bare
<1>3. p \in Text /\ Len(p) = 1 /\ p[1] = "pipe"
    BY SomeChars DEF Text
<1> HIDE DEF u, p, m, l
<1>4. d \in Text /\ Len(d) = l + 1 /\ \A i \in 1 .. l + 1 : d[i] = u[m + i - 1]
    <2> DEFINE b == Len(u)
    <2>1. \A i \in m .. b : u[i] \in Chars
        BY <1>1, <1>2 DEF Text
    <2>2. b \in Int /\ m \in Int /\ b - m + 1 = l + 1 /\ m <= b
        BY <1>1, <1>2
    <2> HIDE DEF b
    <2>3. /\ SubSeq(u, m, b) \in Seq(Chars)
          /\ Len(SubSeq(u, m, b)) = IF m <= b THEN b - m + 1 ELSE 0
          /\ \A i \in 1 .. b - m + 1 : SubSeq(u, m, b)[i] = u[m + i - 1]
        BY <2>1, <2>2, SubSeqProperties
    <2>4. d = SubSeq(u, m, b)
        BY DEF b
    <2> HIDE DEF d
    <2> QED BY <2>2, <2>3, <2>4 DEF Text
<1> HIDE DEF d
<1>5. d[1] = "pipe"
    <2>1. 1 \in 1 .. l + 1 /\ m + 1 - 1 = m
        BY <1>1, <1>2
    <2>2. d[1] = u[m + 1 - 1]
        BY <1>4, <2>1
    <2> QED BY <1>2, <2>1, <2>2
<1>6. ASSUME NEW i \in 1 .. l PROVE d[1 + i] = ext[i]
    <2> DEFINE j == 1 + i
    <2>1. j \in 1 .. l + 1 /\ m + j - 1 = m + i
        BY <1>1
    <2> HIDE DEF j
    <2>2. d[j] = u[m + j - 1]
        BY <1>4, <2>1
    <2> QED BY <1>1, <2>1, <2>2 DEF j
<1>7. d = p \o ext
    <2>1. Len(d) = Len(p) + Len(ext)
        BY <1>1, <1>3, <1>4 DEF l
    <2>2. \A i \in 1 .. Len(p) : d[i] = p[i]
        BY <1>3, <1>5
    <2>3. \A i \in 1 .. Len(ext) : d[Len(p) + i] = ext[i]
        BY <1>3, <1>6 DEF l
    <2> QED BY <1>3, <1>4, <2>1, <2>2, <2>3, SplitAt DEF Text
<1> QED BY <1>7 DEF d, u, p, m

(* The line consists of the format's header and its fields. *)
Composed ==
    /\ Printable(fields) /\ DOMAIN fields # {}
    /\ format = "leef" => line = LeefPrefix \o Joined(Pairs(fields), "pipe")
    /\ format # "leef" => /\ head \in Seq(Text) /\ Len(head) = 5
                          /\ line = HeaderOf(head) \o Joined(Pairs(fields), "sp")

(* What the readers find in a line that is composed so. *)
LEMMA LeefReads ==
    ASSUME stream \in Streams, Composed, format = "leef"
    PROVE  ReadsFields(LeefRead)
<1> DEFINE k == Listed(DOMAIN fields)
           v == ValuesOf(fields)
           Q == Bits(fields, "pipe")
           N == Len(k)
           joined == Joined(Pairs(fields), "pipe")
           t == <<"pipe">>
           s == Append(line, "pipe")
           o == Ends(LeefPrefix, Q)
<1>0. "pipe" \in Chars /\ t \in Text
    BY SomeChars DEF Text
<1>1. /\ IsBits(Q, k, v, "pipe") /\ Len(Q) = N
      /\ joined \in Text /\ joined \o t = FlattenSeq(Q)
      /\ \A n \in 1 .. N : k[n] \in DOMAIN fields /\ v[n] = Encode(fields[k[n]])
      /\ \A x \in DOMAIN fields : \E n \in 1 .. N : k[n] = x
    BY <1>0, BitsFacts DEF Composed
<1>2. line = LeefPrefix \o joined
    BY DEF Composed
<1> HIDE DEF k, v, Q, N, joined, t
<1>3. ASSUME NEW n \in 1 .. N
      PROVE  SameOrCut(v[n], fields[k[n]]) /\ \A i \in 1 .. Len(v[n]) : v[n][i] # "pipe"
    <2>1. fields[k[n]] \in Field /\ v[n] = Encode(fields[k[n]])
        BY <1>1 DEF Composed, Printable, IsField
    <2> QED BY <2>1, LeefValue
<1>4. s = LeefPrefix \o FlattenSeq(Q)
    <2>1. LeefPrefix \in Text /\ line \in Text
        BY <1>1, <1>2, PrefixFacts, Concat
    <2>2. s = line \o t
        BY <1>0, <2>1, AppendIsConcat DEF Text, t
    <2> HIDE DEF s
    <2>3. (LeefPrefix \o joined) \o t = LeefPrefix \o (joined \o t)
        BY <1>0, <1>1, <2>1, Associative
    <2> QED BY <1>1, <1>2, <2>2, <2>3
<1>5. LeefBits(s, Q, k, v, o)
    BY <1>1, <1>3, <1>4 DEF LeefBits
<1> HIDE DEF o
<1>6. Found(LeefRead, Len(Q), k, v)
    BY <1>5, LeefReader
<1>7. Found(LeefRead, N, k, v)
    BY <1>1, <1>6
<1>8. \A n \in 1 .. N : k[n] \in DOMAIN fields /\ SameOrCut(v[n], fields[k[n]])
    BY <1>1, <1>3
<1>9. \A x \in DOMAIN fields : \E n \in 1 .. N : k[n] = x
    BY <1>1
<1> QED BY <1>7, <1>8, <1>9, ReadsPairs

LEMMA CefReads ==
    ASSUME Composed, format # "leef"
    PROVE  ReadsFields(CefRead) /\ HeadRead = head
<1> DEFINE k == Listed(DOMAIN fields)
           v == ValuesOf(fields)
           Q == Bits(fields, "sp")
           N == Len(k)
           ext == Joined(Pairs(fields), "sp")
           t == <<"sp">>
           p == <<"pipe">>
           o == Ends(p, Q)
           s == Append(SubSeq(line, HeaderEnd, Len(line)), "sp")
<1>0. "sp" \in Chars /\ t \in Text /\ p \in Text
    BY SomeChars DEF Text
<1>1. /\ IsBits(Q, k, v, "sp") /\ Len(Q) = N
      /\ ext \in Text /\ ext \o t = FlattenSeq(Q)
      /\ \A n \in 1 .. N : k[n] \in DOMAIN fields /\ v[n] = Encode(fields[k[n]])
      /\ \A x \in DOMAIN fields : \E n \in 1 .. N : k[n] = x
    BY <1>0, BitsFacts DEF Composed
<1> DEFINE header == HeaderOf(head)
<1>2. line = header \o ext /\ head \in Seq(Text) /\ Len(head) = 5
    BY DEF Composed
<1> HIDE DEF k, v, Q, N, ext, t
<1>3. HeaderReads(header, head, ext)
    BY <1>1, <1>2, HeaderFacts
<1> HIDE DEF header
<1>4. header \in Text /\ HeaderEnd = Len(header) /\ Len(header) \in Bare(header \o ext, "pipe")
    <2>1. 2 + Len(head) = 7
        BY <1>2
    <2> QED BY <1>2, <1>3, <2>1 DEF HeaderEnd, HeaderReads
<1>5. HeadRead = head
    <2>1. \A n \in 1 .. 5 : Unescaped(Between(line, Nth(Bare(line, "pipe"), n + 1), Nth(Bare(line, "pipe"), n + 2))) = head[n]
        BY <1>2, <1>3 DEF HeaderReads
    <2>2. HeadRead = [n \in 1 .. 5 |-> head[n]]
        BY <2>1 DEF HeadRead
    <2>3. head = [n \in 1 .. 5 |-> head[n]]
        BY <1>2
    <2> QED BY <2>2, <2>3
<1>6. s = p \o FlattenSeq(Q)
    <2>1. SubSeq(line, HeaderEnd, Len(line)) = p \o ext
        <3>1. SubSeq(header \o ext, Len(header), Len(header \o ext)) = <<"pipe">> \o ext
            BY <1>1, <1>4, TailFrom
        <3> QED BY <1>2, <1>4, <3>1
    <2> HIDE DEF p
    <2>2. p \o ext \in Text
        BY <1>0, <1>1, Concat
    <2>3. s = (p \o ext) \o t
        BY <1>0, <2>1, <2>2, AppendIsConcat DEF Text, t
    <2> HIDE DEF s
    <2>4. (p \o ext) \o t = p \o (ext \o t)
        BY <1>0, <1>1, Associative
    <2> QED BY <1>1, <2>3, <2>4
<1>7. ASSUME NEW n \in 1 .. N
      PROVE  Closed(v[n]) /\ Covered(v[n], "eq") /\ SameOrCut(Unescaped(v[n]), fields[k[n]])
    <2>1. fields[k[n]] \in Field /\ v[n] = Encode(fields[k[n]])
        BY <1>1 DEF Composed, Printable, IsField
    <2>2. PICK x \in Text : Escaped(v[n], "eq", x) /\ SameOrCut(x, fields[k[n]])
        BY <2>1, CefValue
    <2> QED BY <2>2 DEF Escaped
<1>8. CefBits(s, Q, k, v, o)
    BY <1>1, <1>6, <1>7 DEF CefBits
<1> HIDE DEF o
<1> DEFINE u == [n \in 1 .. N |-> Unescaped(v[n])]
<1>9. Found(CefRead, Len(Q), k, [n \in 1 .. Len(Q) |-> Unescaped(v[n])])
    BY <1>8, CefReader DEF Extension
<1>10. Found(CefRead, N, k, u)
    BY <1>1, <1>9
<1>11. \A n \in 1 .. N : k[n] \in DOMAIN fields /\ SameOrCut(u[n], fields[k[n]])
    BY <1>1, <1>7
<1>12. \A x \in DOMAIN fields : \E n \in 1 .. N : k[n] = x
    BY <1>1
<1> HIDE DEF u
<1>13. ReadsFields(CefRead)
    BY <1>10, <1>11, <1>12, ReadsPairs
<1> QED BY <1>5, <1>13

(* Every line but JSON's is composed so. *)
Written == outcome = "line" /\ format # "json" => Composed

LEMMA WrittenReads == ASSUME stream \in Streams, Written PROVE ReadsBack
<1> SUFFICES ASSUME outcome = "line", format # "json"
             PROVE  ReadsFields(Read) /\ (format # "leef" => HeadRead = head)
    BY DEF ReadsBack, ReadsFields
<1>1. Composed
    BY DEF Written
<1>2. CASE format = "leef"
    BY <1>1, <1>2, LeefReads DEF Read
<1>3. CASE format # "leef"
    BY <1>1, <1>3, CefReads DEF Read
<1> QED BY <1>2, <1>3

-----------------------------------------------------------------------------
(* The lines of the formats. *)

LEMMA LeefLine ==
    ASSUME IsRecord(record), stream \in Streams, ToLeef
    PROVE  line' \in Seq(Printed)
<1> DEFINE prefix == <<"LEEF:1.0", "pipe", "PaloAlto", "pipe", "product", "pipe", "1.0", "pipe", stream, "pipe">>
<1>1. prefix \in Seq(Printed)
    <2>1. /\ "LEEF:1.0" \in Printed /\ "PaloAlto" \in Printed /\ "product" \in Printed
          /\ "1.0" \in Printed /\ "pipe" \in Printed
        BY WordsPrinted DEF Words
    <2>2. stream \in Printed
        BY DEF Printed, Chars, Streams
    <2> QED BY <2>1, <2>2
<1>2. Joined(Pairs(LeefFields), "pipe") \in Seq(Printed)
    BY PrintableLeef, PairsFacts, JoinedFacts, WordsPrinted
<1>3. line' = prefix \o Joined(Pairs(LeefFields), "pipe")
    BY DEF ToLeef
<1> HIDE DEF prefix
<1> QED BY <1>1, <1>2, <1>3, ConcatProperties

(* In a CEF line only the header's texts have line feeds. *)
LEMMA CefLines ==
    ASSUME CefLine, Printable(fields'), head' \in Seq(Text), Len(head') = 5
    PROVE  /\ line' \in Text
           /\ \A i \in DOMAIN line' : line'[i] \in {"lf", "cr"} => i < Nth(Bare(line', "pipe"), 7)
<1> DEFINE s == HeaderOf(head')
           ext == Joined(Pairs(fields'), "sp")
<1>1. line' = s \o ext
    BY DEF CefLine, Vendor, HeaderTexts, HeaderOf
<1>2. ext \in Seq(Printed)
    BY PairsFacts, JoinedFacts, WordsPrinted
<1>3. ext \in Text
    BY <1>2, SeqMonotonic DEF Printed, Text
<1> HIDE DEF s, ext
<1>4. s \in Text /\ Nth(Bare(s \o ext, "pipe"), 7) = Len(s) /\ Len(s) \in Bare(s \o ext, "pipe")
    <2>1. HeaderReads(s, head', ext)
        BY <1>3, HeaderFacts DEF s
    <2>2. 2 + Len(head') = 7
        OBVIOUS
    <2> QED BY <2>1, <2>2 DEF HeaderReads
<1>5. s \o ext \in Text
    BY <1>3, <1>4, Concat
<1> QED BY <1>1, <1>2, <1>4, <1>5, HeaderFirst

LEMMA FiveTexts ==
    ASSUME NEW a \in Text, NEW b \in Text, NEW c \in Text, NEW d \in Text, NEW e \in Text
    PROVE  <<a, b, c, d, e>> \in Seq(Text) /\ Len(<<a, b, c, d, e>>) = 5
OBVIOUS

(* What the fields of a line are. *)
FieldsOK ==
    \A k \in DOMAIN fields :
        /\ k \in Letters \cup Keys
        /\ fields[k] \in Field
        /\ fields[k].from # Own => record[fields[k].from].kind # "empty"

(* Printable fields are of the type TypeOK states. *)
LEMMA FieldsStep ==
    ASSUME Printable(fields'), record' = record
    PROVE  FieldsOK'
<1>1. \A k \in DOMAIN fields' : k \in Letters \cup Keys
    BY DEF Printable, Names
<1>2. \A k \in DOMAIN fields' : fields'[k] \in Field /\ (fields'[k].from # Own => fields'[k].from \in Valued)
    BY DEF Printable, IsField
<1>3. \A k \in DOMAIN fields' : fields'[k].from # Own => record[fields'[k].from].kind # "empty"
    BY <1>2 DEF Valued
<1> QED BY <1>1, <1>2, <1>3 DEF FieldsOK

(* Every format writes a field at least. *)
LEMMA SomeField == DOMAIN LeefFields # {} /\ DOMAIN CefFields # {} /\ DOMAIN QradarFields # {}
<1>1. "cat" \in DOMAIN LeefFields
    BY Union, ZenonT(40) DEF LeefFields
<1>2. "stream" \in DOMAIN CefFields
    BY Union DEF CefFields
<1>3. "stream" \in DOMAIN QradarBase
    BY Union DEF QradarBase
<1>4. "stream" \in DOMAIN QradarFields
    BY <1>3, Union DEF QradarFields
<1> QED BY <1>1, <1>2, <1>4

(* The text of a pair depends on the field and the format only. *)
LEMMA WrittenStep ==
    ASSUME record' = record, stream' = stream, format' = format,
           Printable(fields'), DOMAIN fields' # {},
           format = "leef" => line' = LeefPrefix \o Joined(Pairs(fields'), "pipe"),
           format # "leef" => /\ head' \in Seq(Text) /\ Len(head') = 5
                              /\ line' = HeaderOf(head') \o Joined(Pairs(fields'), "sp")
    PROVE  Written'
<1>1. Pairs(fields)' = Pairs(fields')
    BY DEF Pairs, Encode
<1>2. Printable(fields)'
    BY DEF Printable, IsField, Valued
<1>3. LeefPrefix' = LeefPrefix
    BY DEF LeefPrefix
<1> QED BY <1>1, <1>2, <1>3 DEF Written, Composed

(* Before a record is formatted its line is empty. *)
IInv == TypeOK /\ (outcome = "none" => line = <<>>) /\ OneLine /\ Written

LEMMA IInvInit == Init => IInv
<1> SUFFICES ASSUME Init PROVE IInv
    OBVIOUS
<1>1. /\ format \in Formats /\ stream \in Streams /\ record \in RecordsOf[stream]
      /\ outcome = "none" /\ fields = <<>> /\ head = <<>> /\ line = <<>>
    BY DEF Init
<1>2. IsRecord(record)
    BY <1>1, EventLineAssumption
<1>3. DOMAIN fields = {} /\ head \in Seq(Text) /\ line \in Text
    BY <1>1 DEF Text
<1> QED BY <1>1, <1>2, <1>3 DEF IInv, TypeOK, OneLine, Written

LEMMA IInvStep == IInv /\ [Next]_vars => IInv'
<1> SUFFICES ASSUME IInv, [Next]_vars PROVE IInv'
    OBVIOUS
<1>1. IsRecord(record) /\ stream \in Streams /\ TypeOK /\ (outcome = "none" => line = <<>>) /\ OneLine /\ Written
    BY DEF IInv, TypeOK
<1>2. record' = record /\ stream' = stream /\ format' = format
    BY DEF Next, vars, ToLeef, ToCef, ToQradar, ToJson, Refuse
<1>3. ASSUME FieldsOK', head' \in Seq(Text), line' \in Text, outcome' = "line" PROVE TypeOK'
    BY <1>1, <1>2, <1>3 DEF TypeOK, FieldsOK
<1>4. CASE ToLeef
    <2>1. line' \in Seq(Printed)
        BY <1>1, <1>4, LeefLine
    <2>2. line' \in Text
        BY <2>1, SeqMonotonic DEF Printed, Text
    <2>3. \A i \in DOMAIN line' : line'[i] \notin {"lf", "cr"}
        BY <2>1 DEF Printed
    <2>4. outcome' = "line" /\ fields' = LeefFields /\ head' = head
        BY <1>4 DEF ToLeef, Formatting
    <2>5. Printable(fields')
        BY <1>1, <2>4, PrintableLeef
    <2>6. TypeOK'
        BY <1>1, <1>2, <1>3, <2>2, <2>4, <2>5, FieldsStep DEF TypeOK
    <2>7. Written'
        <3>1. line' = LeefPrefix \o Joined(Pairs(fields'), "pipe") /\ format = "leef"
            BY <1>4 DEF ToLeef, Formatting, LeefPrefix
        <3> QED BY <1>2, <2>4, <2>5, <3>1, SomeField, WrittenStep
    <2> QED BY <2>3, <2>4, <2>6, <2>7 DEF IInv, OneLine
<1>5. CASE ToCef
    <2>1. CefLine /\ Printable(fields') /\ format = "cef" /\ outcome' = "line"
        BY <1>1, <1>5, PrintableCef DEF ToCef, Formatting
    <2>2. head' \in Seq(Text) /\ Len(head') = 5
        <3> DEFINE c == Get(CefHead[stream][1], <<>>)
                   d == Get(CefHead[stream][2], <<"default">>)
        <3>1. c \in Text /\ d \in Text
            BY <1>1, RecordTexts, OwnTexts DEF Get
        <3>2. head' = <<<<"product">>, <<"1.0">>, c, d, <<"severity">>>>
            BY <1>5 DEF ToCef
        <3> HIDE DEF c, d
        <3> QED BY <3>1, <3>2, OwnTexts, FiveTexts
    <2>3. /\ line' \in Text
          /\ \A i \in DOMAIN line' : line'[i] \in {"lf", "cr"} => i < Nth(Bare(line', "pipe"), 7)
        BY <2>1, <2>2, CefLines
    <2>4. TypeOK'
        BY <1>2, <1>3, <2>1, <2>2, <2>3, FieldsStep
    <2>5. Written'
        <3>1. DOMAIN fields' # {}
            BY <1>5, SomeField DEF ToCef
        <3>2. line' = HeaderOf(head') \o Joined(Pairs(fields'), "sp")
            BY <2>1 DEF CefLine, HeaderOf, HeaderTexts, Vendor
        <3> QED BY <1>2, <2>1, <2>2, <3>1, <3>2, WrittenStep
    <2> QED BY <1>2, <2>1, <2>3, <2>4, <2>5 DEF IInv, OneLine, HeaderEnd
<1>6. CASE ToQradar
    <2>1. CefLine /\ Printable(fields') /\ format = "qradar" /\ outcome' = "line"
        BY <1>1, <1>6, PrintableQradar DEF ToQradar, Formatting
    <2>2. head' \in Seq(Text) /\ Len(head') = 5
        <3> DEFINE id == EventName[stream][Len(EventName[stream])]
                   name == QradarName.text
                   d == IF id \in Valued THEN record[id].text ELSE <<"default">>
        <3>1. name \in Text /\ d \in Text
            BY <1>1, NameField, RecordTexts, OwnTexts DEF Valued
        <3>2. head' = <<<<"product">>, name, d, name, <<"severity">>>>
            BY <1>6 DEF ToQradar
        <3> HIDE DEF name, d
        <3> QED BY <3>1, <3>2, OwnTexts, FiveTexts
    <2>3. /\ line' \in Text
          /\ \A i \in DOMAIN line' : line'[i] \in {"lf", "cr"} => i < Nth(Bare(line', "pipe"), 7)
        BY <2>1, <2>2, CefLines
    <2>4. TypeOK'
        BY <1>2, <1>3, <2>1, <2>2, <2>3, FieldsStep
    <2>5. Written'
        <3>1. DOMAIN fields' # {}
            BY <1>6, SomeField DEF ToQradar
        <3>2. line' = HeaderOf(head') \o Joined(Pairs(fields'), "sp")
            BY <2>1 DEF CefLine, HeaderOf, HeaderTexts, Vendor
        <3> QED BY <1>2, <2>1, <2>2, <3>1, <3>2, WrittenStep
    <2> QED BY <1>2, <2>1, <2>3, <2>4, <2>5 DEF IInv, OneLine, HeaderEnd
<1>7. CASE ToJson
    <2>1. outcome = "none" /\ outcome' = "line" /\ fields' = JsonFields /\ head' = head /\ line' = line
        BY <1>7 DEF ToJson, Formatting
    <2>2. line' = <<>> /\ DOMAIN <<>> = {}
        BY <1>1, <2>1
    <2>3. Printable(fields')
        BY <1>1, <2>1, PrintableJson
    <2>4. TypeOK'
        BY <1>1, <1>2, <1>3, <2>1, <2>3, FieldsStep DEF TypeOK
    <2>5. format = "json"
        BY <1>7 DEF ToJson, Formatting
    <2> QED BY <1>2, <2>1, <2>2, <2>4, <2>5 DEF IInv, OneLine, Written
<1>8. CASE Refuse
    <2>1. outcome' = "refused" /\ UNCHANGED <<fields, head, line>>
        BY <1>8 DEF Refuse
    <2>2. TypeOK'
        BY <1>1, <1>2, <2>1 DEF TypeOK
    <2> QED BY <2>1, <2>2 DEF IInv, OneLine, Written
<1>9. CASE UNCHANGED vars
    <2>1. TypeOK'
        BY <1>1, <1>9 DEF vars, TypeOK
    <2>2. Written'
        <3>1. /\ record' = record /\ format' = format /\ outcome' = outcome
              /\ fields' = fields /\ head' = head /\ line' = line
            BY <1>9 DEF vars
        <3>2. CASE outcome = "line" /\ format # "json"
            <4>1. Composed
                BY <1>1, <3>2 DEF Written
            <4> QED BY <1>2, <3>1, <4>1, WrittenStep DEF Composed
        <3>3. CASE ~(outcome = "line" /\ format # "json")
            BY <3>1, <3>3 DEF Written
        <3> QED BY <3>2, <3>3
    <2> QED BY <1>1, <1>9, <2>1, <2>2 DEF vars, IInv, OneLine, HeaderEnd
<1> QED BY <1>4, <1>5, <1>6, <1>7, <1>8, <1>9 DEF Next

(* A line's fields are the format's own or those of the record that have a
   value (_has_value), under keys without a special character, and the line
   consists of the record's characters, the tables' keys and the formats' words. *)
THEOREM TypeCorrect == Spec => []TypeOK
<1>1. IInv => TypeOK
    BY DEF IInv
<1> QED BY <1>1, IInvInit, IInvStep, PTL DEF Spec

(* A line has line feeds and carriage returns only in a CEF header, where
   cef_escape_header lets those of the record pass, whatever texts the record
   has: sanitise and cef_escape_ext_value leave none in the fields. *)
THEOREM OneLineTheorem == Spec => []OneLine
<1>1. IInv => OneLine
    BY DEF IInv
<1> QED BY <1>1, IInvInit, IInvStep, PTL DEF Spec

(* Whatever texts a record has, a reader of the line's format who does not know
   this program finds in a LEEF, CEF or QRadar line the keys of the fields that
   were written, with their texts or a beginning of those truncate cuts, and the
   five texts of a CEF header: nothing cef_escape_header, cef_escape_ext_value
   or sanitise lets pass is taken for a delimiter, and half an escape that
   truncate leaves behind is spent on its own mark. *)
THEOREM ReadsBackTheorem == Spec => []ReadsBack
<1>1. IInv => ReadsBack
    BY WrittenReads DEF IInv, TypeOK
<1> QED BY <1>1, IInvInit, IInvStep, PTL DEF Spec
=============================================================================

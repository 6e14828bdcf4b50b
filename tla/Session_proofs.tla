--------------------------- MODULE Session_proofs ---------------------------
(***************************************************************************)
(* Proofs about Srp and Session: client and server compute one key from    *)
(* the right password, in every group; and, whatever a connection goes     *)
(* through, both ends of it are in step and the right password is taken.   *)
(***************************************************************************)
EXTENDS Session, SequenceTheorems, WellFoundedInduction, TLAPS

---------------------------------------------------------------------------
(* Arithmetic modulo N                                                     *)

\* The modulus is a number above one.
LEMMA Modulus == N \in Nat /\ N > 1
BY GroupAssumption

\* What is left when multiples of the modulus are taken away.
LEMMA ModIs ==
  ASSUME NEW q \in Int, NEW r \in 0 .. N - 1
  PROVE  (q * N + r) % N = r
BY Modulus

\* What a modulus leaves of a number, and how often it is taken away.
LEMMA ModOf ==
  ASSUME NEW x \in Nat
  PROVE  x % N \in 0 .. N - 1 /\ \E q \in Nat : x = q * N + (x % N)
<1>1. x = (x \div N) * N + (x % N) /\ x % N \in 0 .. N - 1 /\ x \div N \in Nat
  BY Modulus
<1> QED BY <1>1

\* A factor may be reduced first.
LEMMA MulMod ==
  ASSUME NEW x \in Nat, NEW y \in Nat
  PROVE  ((x % N) * y) % N = (x * y) % N /\ (y * (x % N)) % N = (x * y) % N
<1>1. PICK q \in Nat : x = q * N + (x % N)
  BY ModOf
<1>2. x % N \in Nat
  BY ModOf, Modulus
<1> DEFINE r == x % N
           z == (r * y) % N
<1>3. PICK p \in Nat : r * y = p * N + z
  BY <1>2, ModOf
<1>4. z \in 0 .. N - 1
  BY <1>2, ModOf
<1>5. x * y = (q * y + p) * N + z
  <2>1. x = q * N + r
    BY <1>1
  <2> HIDE DEF r, z
  <2>2. x * y = q * N * y + r * y
    BY <1>2, <2>1, Modulus DEF r
  <2> QED BY <1>2, <1>3, <1>4, <2>2, Modulus
<1>6. (x * y) % N = z
  <2> HIDE DEF z
  <2>1. q * y + p \in Int
    OBVIOUS
  <2> QED BY <1>4, <1>5, <2>1, ModIs
<1>7. y * r = r * y
  BY <1>2
<1> QED BY <1>6, <1>7

\* A set that has zero, and with a number the next one, has them all.
LEMMA Counting ==
  ASSUME NEW n \in Nat, NEW T, 0 \in T,
         \A k \in 0 .. n : k < n /\ k \in T => k + 1 \in T
  PROVE  \A k \in 0 .. n : k \in T
<1> DEFINE Below == {ss \in Nat \X Nat : ss[1] < ss[2]}
           Missing == {k \in 0 .. n : k \notin T}
<1>1. IsWellFoundedOn(Below, Nat)
  BY NatLessThanWellFounded DEF OpToRel
<1>2. CASE Missing # {}
  <2>1. PICK x \in Missing : \A y \in Missing : ~ (<<y, x>> \in Below)
    <3> HIDE DEF Below
    <3>1. Missing \subseteq Nat
      OBVIOUS
    <3> HIDE DEF Missing
    <3> QED BY <1>1, <1>2, <3>1, WFMin
  <2>2. x \in 1 .. n /\ x - 1 \in 0 .. n /\ x - 1 < n
    <3>1. x # 0 /\ x \in 0 .. n
      OBVIOUS
    <3> QED BY <3>1
  <2>3. x - 1 \in T
    <3>1. <<x - 1, x>> \in Below
      BY <2>2
    <3> QED BY <2>1, <2>2, <3>1
  <2>4. (x - 1) + 1 \in T
    BY <2>2, <2>3
  <2> QED BY <2>2, <2>4
<1> QED BY <1>2

\* The powers of b up to the e-th, one by one.
Powers(b, e, f) ==
  /\ f \in [0 .. e -> 0 .. N - 1]
  /\ f[0] = 1
  /\ \A j \in 1 .. e : f[j] = (b * f[j - 1]) % N

\* Powers that go on to the next one.
LEMMA PowersMore ==
  ASSUME NEW b \in Nat, NEW k \in Nat, NEW f, Powers(b, k, f)
  PROVE  \E g : Powers(b, k + 1, g)
<1> DEFINE last == (b * f[k]) % N
           g == [j \in 0 .. k + 1 |-> IF j = k + 1 THEN last ELSE f[j]]
<1>1. last \in 0 .. N - 1
  <2>1. f[k] \in Nat
    BY Modulus DEF Powers
  <2>2. b * f[k] \in Nat
    BY <2>1
  <2> QED BY <2>2, ModOf
<1>2. g \in [0 .. k + 1 -> 0 .. N - 1] /\ g[0] = 1
  <2> HIDE DEF last
  <2> QED BY <1>1 DEF Powers
<1>3. ASSUME NEW j \in 1 .. k + 1 PROVE g[j] = (b * g[j - 1]) % N
  <2>1. CASE j = k + 1
    BY <2>1
  <2>2. CASE j # k + 1
    <3>1. j \in 1 .. k /\ j - 1 \in 0 .. k
      BY <2>2
    <3> QED BY <2>2, <3>1 DEF Powers
  <2> QED BY <2>1, <2>2
<1> HIDE DEF g
<1>4. Powers(b, k + 1, g)
  BY <1>2, <1>3 DEF Powers
<1> QED BY <1>4

\* There are powers up to any exponent.
LEMMA PowersExist ==
  ASSUME NEW b \in Nat, NEW e \in Nat
  PROVE  \E f : Powers(b, e, f)
<1> DEFINE T == {k \in 0 .. e : \E f : Powers(b, k, f)}
<1>1. 0 \in T
  <2> DEFINE f == [k \in 0 .. 0 |-> 1]
  <2>1. Powers(b, 0, f)
    BY Modulus DEF Powers
  <2> HIDE DEF f
  <2> QED BY <2>1
<1>2. ASSUME NEW k \in 0 .. e, k < e, k \in T PROVE k + 1 \in T
  <2>1. k + 1 \in 0 .. e
    BY <1>2
  <2>2. \E f : Powers(b, k + 1, f)
    BY <1>2, PowersMore
  <2> QED BY <2>1, <2>2
<1>3. \A k \in 0 .. e : k \in T
  <2> HIDE DEF T
  <2> QED BY <1>1, <1>2, Counting
<1>4. e \in 0 .. e
  OBVIOUS
<1> QED BY <1>3, <1>4

\* Powers are the same wherever they stop.
LEMMA PowersAgree ==
  ASSUME NEW b \in Nat, NEW e \in Nat, NEW d \in Nat, e =< d,
         NEW f, NEW g, Powers(b, e, f), Powers(b, d, g)
  PROVE  \A k \in 0 .. e : f[k] = g[k]
<1> DEFINE T == {k \in 0 .. e : f[k] = g[k]}
<1>1. 0 \in T
  BY DEF Powers
<1>2. ASSUME NEW k \in 0 .. e, k < e, k \in T PROVE k + 1 \in T
  <2>1. k + 1 \in 1 .. e /\ k + 1 \in 1 .. d /\ (k + 1) - 1 = k
    BY <1>2
  <2>2. f[k] = g[k]
    BY <1>2
  <2>3. f[k + 1] = (b * f[k]) % N
    BY <2>1 DEF Powers
  <2>4. g[k + 1] = (b * g[k]) % N
    BY <2>1 DEF Powers
  <2> QED BY <2>1, <2>2, <2>3, <2>4
<1>3. \A k \in 0 .. e : k \in T
  <2> HIDE DEF T
  <2> QED BY <1>1, <1>2, Counting
<1> QED BY <1>3

\* Power is the last of the powers.
LEMMA PowerIs ==
  ASSUME NEW b \in Nat, NEW e \in Nat, NEW f, Powers(b, e, f)
  PROVE  Power(b, e) = f[e]
<1> DEFINE Step(g) == [k \in 0 .. e |-> IF k = 0 THEN 1 ELSE (b * g[k - 1]) % N]
           h == CHOOSE g : g = Step(g)
<1>1. Power(b, e) = h[e]
  BY DEF Power
<1>2. f = Step(f)
  <2>1. ASSUME NEW k \in 0 .. e PROVE f[k] = IF k = 0 THEN 1 ELSE (b * f[k - 1]) % N
    <3>1. k = 0 \/ k \in 1 .. e
      OBVIOUS
    <3> QED BY <3>1 DEF Powers
  <2>2. f = [k \in 0 .. e |-> f[k]]
    BY DEF Powers
  <2> QED BY <2>1, <2>2
<1>3. h = Step(h)
  BY <1>2
<1> DEFINE T == {k \in 0 .. e : h[k] = f[k]}
<1> HIDE DEF h
<1>4. 0 \in T
  BY <1>3 DEF Powers
<1>5. ASSUME NEW k \in 0 .. e, k < e, k \in T PROVE k + 1 \in T
  <2>1. k + 1 \in 1 .. e /\ (k + 1) - 1 = k /\ k + 1 \in 0 .. e /\ k + 1 # 0
    BY <1>5
  <2>2. h[k] = f[k]
    BY <1>5
  <2>3. h[k + 1] = (b * h[k]) % N
    BY <1>3, <2>1
  <2>4. f[k + 1] = (b * f[k]) % N
    BY <2>1 DEF Powers
  <2> QED BY <2>1, <2>2, <2>3, <2>4
<1>6. \A k \in 0 .. e : k \in T
  <2> HIDE DEF T
  <2> QED BY <1>4, <1>5, Counting
<1>7. e \in T
  BY <1>6
<1> QED BY <1>1, <1>7

\* What a power is, by the one before.
LEMMA PowerNext ==
  ASSUME NEW b \in Nat, NEW e \in Nat
  PROVE  /\ Power(b, e) \in 0 .. N - 1
         /\ Power(b, 0) = 1
         /\ Power(b, e + 1) = (b * Power(b, e)) % N
<1>1. PICK f : Powers(b, e, f)
  BY PowersExist
<1>2. PICK g : Powers(b, e + 1, g)
  BY PowersExist
<1>3. PICK o : Powers(b, 0, o)
  BY PowersExist
<1>4. Power(b, e) = f[e] /\ Power(b, e + 1) = g[e + 1] /\ Power(b, 0) = o[0]
  BY <1>1, <1>2, <1>3, PowerIs
<1>5. f[e] = g[e]
  BY <1>1, <1>2, PowersAgree
<1>6. g[e + 1] = (b * g[e]) % N
  BY <1>2 DEF Powers
<1>7. f[e] \in 0 .. N - 1 /\ o[0] = 1
  BY <1>1, <1>3 DEF Powers
<1> QED BY <1>4, <1>5, <1>6, <1>7

---------------------------------------------------------------------------
(* The laws of powers                                                      *)

\* Exponents of a product add up.
LEMMA PowerAdd ==
  ASSUME NEW b \in Nat, NEW m \in Nat, NEW n \in Nat
  PROVE  Power(b, m + n) = (Power(b, m) * Power(b, n)) % N
<1> DEFINE T == {k \in 0 .. n : Power(b, m + k) = (Power(b, m) * Power(b, k)) % N}
           M == Power(b, m)
<1>1. M \in 0 .. N - 1 /\ M \in Nat /\ m + 0 = m
  BY PowerNext, Modulus
<1>2. 0 \in T
  <2>1. Power(b, 0) = 1 /\ M * 1 = M
    BY <1>1, PowerNext
  <2>2. M % N = M
    BY <1>1, Modulus
  <2> QED BY <1>1, <2>1, <2>2
<1>3. ASSUME NEW k \in 0 .. n, k < n, k \in T PROVE k + 1 \in T
  <2> DEFINE P == Power(b, k)
  <2>1. P \in Nat /\ Power(b, k + 1) = (b * P) % N /\ m + (k + 1) = (m + k) + 1 /\ m + k \in Nat
    BY PowerNext, Modulus
  <2>2. Power(b, (m + k) + 1) = (b * Power(b, m + k)) % N
    BY <2>1, PowerNext
  <2>3. Power(b, m + k) = (M * P) % N
    BY <1>3
  <2> HIDE DEF M, P
  <2>4. M * P \in Nat /\ b * P \in Nat /\ M * (b * P) = b * (M * P)
    BY <1>1, <2>1
  <2>5. (b * ((M * P) % N)) % N = (b * (M * P)) % N
    BY <2>4, MulMod
  <2>6. (M * ((b * P) % N)) % N = (M * (b * P)) % N
    BY <1>1, <2>4, MulMod
  <2>7. Power(b, m + (k + 1)) = (M * Power(b, k + 1)) % N
    BY <2>1, <2>2, <2>3, <2>4, <2>5, <2>6
  <2> QED BY <1>3, <2>7 DEF M
<1>4. \A k \in 0 .. n : k \in T
  <2> HIDE DEF T
  <2> QED BY <1>2, <1>3, Counting
<1>5. n \in T
  BY <1>4
<1> QED BY <1>5

\* Exponents of a power multiply.
LEMMA PowerMul ==
  ASSUME NEW b \in Nat, NEW m \in Nat, NEW n \in Nat
  PROVE  Power(b, m * n) = Power(Power(b, m), n)
<1> DEFINE M == Power(b, m)
           T == {k \in 0 .. n : Power(b, m * k) = Power(M, k)}
<1>1. M \in 0 .. N - 1 /\ M \in Nat
  BY PowerNext, Modulus
<1>2. 0 \in T
  <2>1. m * 0 = 0 /\ Power(b, 0) = 1
    BY PowerNext
  <2>2. Power(M, 0) = 1
    BY <1>1, PowerNext
  <2> HIDE DEF M
  <2>3. Power(b, m * 0) = Power(M, 0)
    BY <2>1, <2>2
  <2> QED BY <2>3
<1>3. ASSUME NEW k \in 0 .. n, k < n, k \in T PROVE k + 1 \in T
  <2>1. m * (k + 1) = m * k + m /\ m * k \in Nat
    OBVIOUS
  <2>2. Power(b, m * k + m) = (Power(b, m * k) * M) % N
    BY <2>1, PowerAdd
  <2>3. Power(b, m * k) = Power(M, k)
    BY <1>3
  <2> HIDE DEF M
  <2>4. Power(M, k + 1) = (M * Power(M, k)) % N /\ Power(M, k) \in Nat
    BY <1>1, PowerNext, Modulus
  <2>5. M * Power(M, k) = Power(M, k) * M
    BY <1>1, <2>4
  <2>6. Power(b, m * (k + 1)) = Power(M, k + 1)
    BY <2>1, <2>2, <2>3, <2>4, <2>5
  <2> QED BY <1>3, <2>6
<1>4. \A k \in 0 .. n : k \in T
  <2> HIDE DEF T
  <2> QED BY <1>2, <1>3, Counting
<1>5. n \in T
  BY <1>4
<1> QED BY <1>5

\* The base may be reduced first.
LEMMA PowerBase ==
  ASSUME NEW b \in Nat, NEW e \in Nat
  PROVE  Power(b % N, e) = Power(b, e)
<1> DEFINE r == b % N
           T == {k \in 0 .. e : Power(r, k) = Power(b, k)}
<1>1. r \in Nat
  BY ModOf, Modulus
<1>2. 0 \in T
  <2>1. Power(r, 0) = 1 /\ Power(b, 0) = 1
    BY <1>1, PowerNext
  <2> HIDE DEF r
  <2> QED BY <2>1
<1>3. ASSUME NEW k \in 0 .. e, k < e, k \in T PROVE k + 1 \in T
  <2>1. Power(r, k) = Power(b, k)
    BY <1>3
  <2>2. Power(r, k + 1) = (r * Power(r, k)) % N
    BY <1>1, PowerNext
  <2>3. Power(b, k + 1) = (b * Power(b, k)) % N /\ Power(b, k) \in Nat
    BY PowerNext, Modulus
  <2>4. (r * Power(b, k)) % N = (b * Power(b, k)) % N
    BY <2>3, MulMod
  <2>5. Power(r, k + 1) = Power(b, k + 1)
    BY <2>1, <2>2, <2>3, <2>4
  <2> HIDE DEF r
  <2> QED BY <1>3, <2>5
<1>4. \A k \in 0 .. e : k \in T
  <2> HIDE DEF T
  <2> QED BY <1>2, <1>3, Counting
<1>5. e \in T
  BY <1>4
<1> QED BY <1>5

\* Squaring the base halves the exponent.
LEMMA PowerSquare ==
  ASSUME NEW b \in Nat, NEW e \in Nat
  PROVE  Power((b * b) % N, e) = Power(b, 2 * e)
<1>1. Power(b, 2) = (b * b) % N
  <2>1. Power(b, 0) = 1 /\ Power(b, 0 + 1) = (b * 1) % N
    BY PowerNext
  <2>2. Power(b, 1 + 1) = (b * Power(b, 1)) % N
    BY PowerNext
  <2>3. (b * (b % N)) % N = (b * b) % N
    BY MulMod
  <2>4. b * 1 = b /\ 0 + 1 = 1 /\ 1 + 1 = 2
    OBVIOUS
  <2>5. Power(b, 1) = b % N /\ Power(b, 2) = (b * Power(b, 1)) % N
    BY <2>1, <2>2, <2>4
  <2> QED BY <2>3, <2>5
<1>2. Power(b, 2 * e) = Power(Power(b, 2), e)
  BY PowerMul
<1> QED BY <1>1, <1>2

---------------------------------------------------------------------------
(* The client's arithmetic                                                 *)

\* powm, squaring and multiplying from the lowest bit of the exponent (srp.rs:176-191),
\* computes the power modulo N, for every base and exponent.
THEOREM PowmIsPower ==
  ASSUME NEW base \in Nat, NEW exp \in Nat
  PROVE  powm(base, exp, N) = Power(base, exp)
<1> DEFINE D == (0 .. exp) \X (0 .. N - 1) \X (0 .. N - 1)
           Step(f) == [s \in D |->
              IF s[1] = 0 THEN s[3]
              ELSE f[<<s[1] \div 2, (s[2] * s[2]) % N,
                       IF s[1] % 2 = 1 THEN (s[3] * s[2]) % N ELSE s[3]>>]]
           Val(e, b, r) == (r * Power(b, e)) % N
           w == [s \in D |-> Val(s[1], s[2], s[3])]
           h == CHOOSE f : f = Step(f)
<1>1. powm(base, exp, N) = h[<<exp, base % N, 1>>]
  BY DEF powm
<1>2. ASSUME NEW e \in 1 .. exp, NEW b \in 0 .. N - 1, NEW r \in 0 .. N - 1
      PROVE  LET s == IF e % 2 = 1 THEN (r * b) % N ELSE r IN
             /\ e \div 2 \in 0 .. e - 1 /\ (b * b) % N \in 0 .. N - 1 /\ s \in 0 .. N - 1
             /\ Val(e \div 2, (b * b) % N, s) = Val(e, b, r)
  <2> DEFINE d == e \div 2
             P == Power(b, 2 * d)
  <2>1. b \in Nat /\ r \in Nat /\ e \in Nat /\ r * b \in Nat /\ b * b \in Nat
    BY Modulus
  <2>2. d \in Nat /\ d \in 0 .. e - 1 /\ (e = 2 * d \/ e = 2 * d + 1)
        /\ (e % 2 = 1 <=> e = 2 * d + 1)
    OBVIOUS
  <2>3. (b * b) % N \in 0 .. N - 1 /\ (r * b) % N \in 0 .. N - 1
    BY <2>1, ModOf
  <2> HIDE DEF d
  <2>4. Power((b * b) % N, d) = P
    BY <2>1, <2>2, PowerSquare
  <2>5. P \in Nat /\ Power(b, 2 * d + 1) = (b * P) % N
    BY <2>1, <2>2, PowerNext, Modulus
  <2> HIDE DEF P
  <2>6. CASE e % 2 = 1
    <3>1. (((r * b) % N) * P) % N = ((r * b) * P) % N
      BY <2>1, <2>5, MulMod
    <3>2. (r * ((b * P) % N)) % N = (r * (b * P)) % N
      BY <2>1, <2>5, MulMod
    <3>3. (r * b) * P = r * (b * P)
      BY <2>1, <2>5
    <3>4. Power(b, e) = (b * P) % N
      BY <2>2, <2>5, <2>6
    <3>5. (((r * b) % N) * Power((b * b) % N, d)) % N = (r * Power(b, e)) % N
      BY <2>4, <3>1, <3>2, <3>3, <3>4
    <3> QED BY <2>2, <2>3, <2>6, <3>5 DEF d
  <2>7. CASE e % 2 # 1
    <3>1. Power(b, e) = P
      BY <2>2, <2>7 DEF P
    <3>2. (r * Power((b * b) % N, d)) % N = (r * Power(b, e)) % N
      BY <2>4, <3>1
    <3> QED BY <2>2, <2>3, <2>7, <3>2 DEF d
  <2> QED BY <2>6, <2>7
<1>3. ASSUME NEW b \in 0 .. N - 1, NEW r \in 0 .. N - 1 PROVE Val(0, b, r) = r
  <2>1. b \in Nat /\ r \in Nat /\ r * 1 = r /\ r % N = r
    BY Modulus
  <2>2. Power(b, 0) = 1
    BY <2>1, PowerNext
  <2> QED BY <2>1, <2>2
<1> HIDE DEF Val
<1>4. w = Step(w)
  <2>1. ASSUME NEW s \in D
        PROVE  w[s] = IF s[1] = 0 THEN s[3]
                      ELSE w[<<s[1] \div 2, (s[2] * s[2]) % N,
                               IF s[1] % 2 = 1 THEN (s[3] * s[2]) % N ELSE s[3]>>]
    <3> DEFINE e == s[1]  b == s[2]  r == s[3]
               c == IF e % 2 = 1 THEN (r * b) % N ELSE r
               t == <<e \div 2, (b * b) % N, c>>
    <3>1. e \in 0 .. exp /\ b \in 0 .. N - 1 /\ r \in 0 .. N - 1
      OBVIOUS
    <3>2. w[s] = Val(e, b, r)
      OBVIOUS
    <3>3. CASE e = 0
      BY <1>3, <3>1, <3>2, <3>3
    <3>4. CASE e # 0
      <4> HIDE DEF e, b, r
      <4>1. e \in 1 .. exp
        BY <3>1, <3>4
      <4>2. /\ e \div 2 \in 0 .. e - 1 /\ (b * b) % N \in 0 .. N - 1 /\ c \in 0 .. N - 1
            /\ Val(e \div 2, (b * b) % N, c) = Val(e, b, r)
        BY <1>2, <3>1, <4>1
      <4>3. e \div 2 \in 0 .. exp
        BY <4>1, <4>2
      <4>4. t \in D /\ w[t] = Val(e \div 2, (b * b) % N, c)
        <5> HIDE DEF c
        <5> QED BY <4>2, <4>3
      <4>5. w[s] = w[t]
        <5> HIDE DEF t, w, c
        <5> QED BY <3>2, <4>2, <4>4
      <4> QED BY <3>4, <4>5 DEF e, b, r
    <3> QED BY <3>3, <3>4
  <2> HIDE DEF Val
  <2> QED BY <2>1
<1>5. h = Step(h)
  <2> HIDE DEF w
  <2> QED BY <1>4
<1> HIDE DEF h
<1>6. ASSUME NEW e \in 0 .. exp, NEW b \in 0 .. N - 1, NEW r \in 0 .. N - 1
      PROVE  h[<<e, b, r>>] = IF e = 0 THEN r
                ELSE h[<<e \div 2, (b * b) % N, IF e % 2 = 1 THEN (r * b) % N ELSE r>>]
  <2>1. <<e, b, r>> \in D
    OBVIOUS
  <2> QED BY <1>5, <2>1
<1> DEFINE Right(e) == \A b, r \in 0 .. N - 1 : h[<<e, b, r>>] = Val(e, b, r)
           T == {k \in 0 .. exp : \A e \in 0 .. k : Right(e)}
<1>7. 0 \in T
  <2>1. ASSUME NEW b \in 0 .. N - 1, NEW r \in 0 .. N - 1 PROVE h[<<0, b, r>>] = Val(0, b, r)
    <3>1. 0 \in 0 .. exp
      OBVIOUS
    <3>2. h[<<0, b, r>>] = r
      BY <1>6, <3>1
    <3> QED BY <1>3, <3>2
  <2>2. Right(0)
    BY <2>1
  <2> HIDE DEF Right
  <2> QED BY <2>2
<1>8. ASSUME NEW k \in 0 .. exp, k < exp, k \in T PROVE k + 1 \in T
  <2>1. k + 1 \in 1 .. exp /\ k + 1 \in 0 .. exp
    BY <1>8
  <2>2. ASSUME NEW b \in 0 .. N - 1, NEW r \in 0 .. N - 1
        PROVE  h[<<k + 1, b, r>>] = Val(k + 1, b, r)
    <3> DEFINE e == k + 1
               c == IF e % 2 = 1 THEN (r * b) % N ELSE r
    <3>1. h[<<e, b, r>>] = h[<<e \div 2, (b * b) % N, c>>]
      BY <1>6, <2>1
    <3> HIDE DEF e
    <3>2. /\ e \div 2 \in 0 .. e - 1 /\ (b * b) % N \in 0 .. N - 1 /\ c \in 0 .. N - 1
          /\ Val(e \div 2, (b * b) % N, c) = Val(e, b, r)
      BY <1>2, <2>1 DEF e
    <3> HIDE DEF c
    <3>3. e \div 2 \in 0 .. k
      BY <3>2 DEF e
    <3>4. Right(e \div 2)
      BY <1>8, <3>3
    <3>5. h[<<e \div 2, (b * b) % N, c>>] = Val(e \div 2, (b * b) % N, c)
      BY <3>2, <3>4
    <3> QED BY <3>1, <3>2, <3>5 DEF e
  <2>3. Right(k + 1)
    BY <2>2
  <2> HIDE DEF Right
  <2>4. \A e \in 0 .. k + 1 : Right(e)
    <3>1. \A e \in 0 .. k + 1 : e \in 0 .. k \/ e = k + 1
      OBVIOUS
    <3> QED BY <1>8, <2>3, <3>1
  <2> QED BY <2>1, <2>4
<1>9. \A k \in 0 .. exp : k \in T
  <2> HIDE DEF T
  <2> QED BY <1>7, <1>8, Counting
<1>10. Right(exp)
  BY <1>9
<1>11. base % N \in 0 .. N - 1 /\ 1 \in 0 .. N - 1
  BY ModOf, Modulus
<1>12. powm(base, exp, N) = Val(exp, base % N, 1)
  BY <1>1, <1>10, <1>11
<1>13. Val(exp, base % N, 1) = Power(base, exp)
  <2>1. Power(base % N, exp) = Power(base, exp) /\ Power(base, exp) \in 0 .. N - 1
    BY PowerBase, PowerNext
  <2>2. (1 * Power(base, exp)) % N = Power(base, exp)
    BY <2>1, Modulus
  <2> QED BY <2>1, <2>2 DEF Val
<1> QED BY <1>12, <1>13

\* A number taken from a sum modulo N, without going below zero, as calc_key does it.
LEMMA Unmasked ==
  ASSUME NEW p \in 0 .. N - 1, NEW q \in 0 .. N - 1, NEW B, B = (p + q) % N
  PROVE  (IF B > p THEN (B - p) % N ELSE (N + B - p) % N) = q
<1>1. N \in Nat /\ N > 1
  BY Modulus
<1>2. CASE p + q < N
  <2>1. B = p + q
    BY <1>1, <1>2
  <2>2. q = 0 => (N + B - p) % N = 0
    BY <1>1, <2>1
  <2> QED BY <1>1, <2>1, <2>2
<1>3. CASE p + q >= N
  <2>1. B = p + q - N
    <3>1. p + q = 1 * N + (p + q - N) /\ p + q - N \in 0 .. N - 1
      BY <1>1, <1>3
    <3> HIDE DEF Modulus
    <3>2. (1 * N + (p + q - N)) % N = p + q - N
      BY <3>1, ModIs
    <3> QED BY <3>1, <3>2
  <2>2. ~(B > p) /\ N + B - p = q /\ q % N = q
    BY <1>1, <1>3, <2>1
  <2> QED BY <2>2
<1> QED BY <1>1, <1>2, <1>3

\* Digests are small numbers.
LEMMA Digests ==
  /\ \A password : XHash(password) \in Nat /\ XHash(password) =< MaxHash - 1
  /\ \A x, y \in Nat : UHash(x, y) \in Nat /\ UHash(x, y) =< MaxHash - 1
<1>1. MaxHash \in Nat /\ MaxHash > 1
  BY HashAssumption
<1>2. ASSUME NEW x \in Nat, NEW y \in Nat
      PROVE  UHash(x, y) \in Nat /\ UHash(x, y) =< MaxHash - 1
  <2>1. x + 3 * y \in Nat /\ MaxHash - 1 \in Nat \ {0}
    BY <1>1
  <2>2. (x + 3 * y) % (MaxHash - 1) \in 0 .. MaxHash - 2
    BY <1>1, <2>1
  <2> QED BY <1>1, <2>2 DEF UHash
<1> QED BY <1>1, <1>2 DEF XHash

\* Their product is not reduced by the modulus.
LEMMA ProductIsWhole ==
  ASSUME NEW u \in Nat, NEW x \in Nat, u =< MaxHash - 1, x =< MaxHash - 1
  PROVE  (u * x) % N = u * x
<1> DEFINE h == MaxHash - 1
<1>1. h \in Nat /\ h * h < N
  BY HashAssumption
<1>2. u =< h /\ x =< h
  OBVIOUS
<1> HIDE DEF h
<1>3. u * x =< h * h /\ u * x \in Nat
  BY <1>1, <1>2
<1> QED BY <1>1, <1>3, Modulus

\* In every group, and for any secret of either side, both arrive at one key: the
\* client (calc_key of srp.rs) from the server's public key and the password, the
\* server from the client's and its verifier of the password.
THEOREM KeysAgree ==
  ASSUME NEW sa \in Nat, NEW sb \in Nat
  PROVE  LET pubA == powm(G, sa, N)
             pubB == ServerPublic(sb)
         IN calc_key(sa, pubB, XHash("right"), UHash(pubA, pubB)) = ServerKey(sb, pubA)
<1> DEFINE x == XHash("right")
           pubA == powm(G, sa, N)
           pubB == ServerPublic(sb)
           u == UHash(pubA, pubB)
           V == Power(G, x)
           W == Power(G, sb)
           interm == (K * powm(G, x, N)) % N
           v == IF pubB > interm THEN (pubB - interm) % N ELSE (N + pubB - interm) % N
           e == sa + u * x
<1>1. G \in Nat /\ K \in Nat /\ N \in Nat /\ N > 1
  BY GroupAssumption
<1>2. x \in Nat /\ x =< MaxHash - 1
  BY Digests
<1>3. V \in Nat /\ W \in 0 .. N - 1 /\ W \in Nat
  <2> HIDE DEF x
  <2>1. V \in 0 .. N - 1 /\ W \in 0 .. N - 1
    BY <1>1, <1>2, PowerNext
  <2> QED BY <1>1, <2>1
<1>4. pubA = Power(G, sa) /\ pubA \in Nat
  <2>1. Power(G, sa) \in 0 .. N - 1
    BY <1>1, PowerNext
  <2> QED BY <1>1, <2>1, PowmIsPower
<1>5. interm = (K * V) % N /\ interm \in 0 .. N - 1
  <2>1. powm(G, x, N) = V
    BY <1>1, <1>2, PowmIsPower
  <2>2. K * V \in Nat
    BY <1>1, <1>3
  <2> QED BY <2>1, <2>2, ModOf
<1>6. pubB = (K * V + W) % N
  BY DEF ServerPublic, Verifier
<1>7. pubB = (interm + W) % N /\ pubB \in Nat
  <2>1. K * V \in Nat
    BY <1>1, <1>3
  <2>2. PICK q \in Nat : K * V = q * N + interm
    BY <1>5, <2>1, ModOf
  <2>3. interm + W \in Nat
    BY <1>1, <1>3, <1>5
  <2>4. PICK p \in Nat : interm + W = p * N + ((interm + W) % N)
    BY <2>3, ModOf
  <2>5. (interm + W) % N \in 0 .. N - 1
    BY <2>3, ModOf
  <2> DEFINE r == (interm + W) % N
  <2> HIDE DEF interm, V, W, r
  <2>6. K * V + W = (q + p) * N + r
    <3>1. q * N \in Nat /\ p * N \in Nat /\ (q + p) * N = q * N + p * N /\ r \in Nat
      BY <1>1, <2>5 DEF r
    <3>2. interm + W = p * N + r
      BY <2>4 DEF r
    <3>3. interm \in Nat /\ W \in Nat
      BY <1>1, <1>3, <1>5
    <3> QED BY <2>2, <3>1, <3>2, <3>3
  <2>7. (K * V + W) % N = r
    <3>1. q + p \in Int /\ r \in 0 .. N - 1
      BY <2>5 DEF r
    <3> QED BY <2>6, <3>1, ModIs
  <2> QED BY <1>1, <1>6, <2>5, <2>7 DEF r
<1>8. v = W
  <2> HIDE DEF interm, W, pubB
  <2> QED BY <1>3, <1>5, <1>7, Unmasked
<1>9. u \in Nat /\ u =< MaxHash - 1
  BY <1>4, <1>7, Digests
<1>10. e \in Nat /\ sa + ((u * x) % N) = e
  <2> HIDE DEF u, x
  <2> QED BY <1>2, <1>9, ProductIsWhole
<1>11. calc_key(sa, pubB, x, u) = Power(G, sb * e)
  <2>1. calc_key(sa, pubB, x, u) = powm(v, sa + ((u * x) % N), N)
    BY DEF calc_key
  <2>2. powm(W, e, N) = Power(W, e)
    <3> HIDE DEF W, e
    <3> QED BY <1>3, <1>10, PowmIsPower
  <2>3. Power(G, sb * e) = Power(W, e)
    <3> HIDE DEF e
    <3> QED BY <1>1, <1>10, PowerMul
  <2> HIDE DEF v, W, e, u, x, pubB
  <2> QED BY <1>8, <1>10, <2>1, <2>2, <2>3
<1>12. ServerKey(sb, pubA) = Power(G, e * sb)
  <2> DEFINE Y == Power(V, u)
  <2>1. Verifier = V /\ ServerKey(sb, pubA) = Power(pubA * Y, sb)
    BY DEF Verifier, ServerKey
  <2>2. Y = Power(G, x * u) /\ Y \in Nat
    <3>1. Power(G, x * u) = Power(V, u)
      <4> HIDE DEF x, u
      <4> QED BY <1>1, <1>2, <1>9, PowerMul
    <3>2. Y \in 0 .. N - 1
      <4> HIDE DEF u, V
      <4> QED BY <1>3, <1>9, PowerNext
    <3> QED BY <1>1, <3>1, <3>2
  <2>3. (pubA * Y) % N = Power(G, e)
    <3>1. Power(G, sa + x * u) = (Power(G, sa) * Power(G, x * u)) % N
      <4>1. x * u \in Nat
        <5> HIDE DEF x, u
        <5> QED BY <1>2, <1>9
      <4> HIDE DEF x, u
      <4> QED BY <1>1, <4>1, PowerAdd
    <3>2. x * u = u * x
      <4> HIDE DEF x, u
      <4> QED BY <1>2, <1>9
    <3> HIDE DEF Y, x, u, pubA
    <3> QED BY <1>4, <2>2, <3>1, <3>2
  <2>4. Power((pubA * Y) % N, sb) = Power(pubA * Y, sb)
    <3>1. pubA * Y \in Nat
      <4> HIDE DEF pubA, Y
      <4> QED BY <1>4, <2>2
    <3> HIDE DEF pubA, Y
    <3> QED BY <3>1, PowerBase
  <2>5. Power(G, e * sb) = Power(Power(G, e), sb)
    <3> HIDE DEF e
    <3> QED BY <1>1, <1>10, PowerMul
  <2> HIDE DEF Y, e, pubA
  <2> QED BY <2>1, <2>3, <2>4, <2>5
<1>13. sb * e = e * sb
  <2> HIDE DEF e
  <2> QED BY <1>10
<1> HIDE DEF e
<1> QED BY <1>11, <1>12, <1>13

---------------------------------------------------------------------------
(* Numbers as hexadecimal digits                                           *)

Digit == 0 .. 15

\* The digits of every number up to n.
DigitsTo(n, d) ==
  /\ d \in [0 .. n -> Seq(Digit)]
  /\ \A k \in 0 .. n : d[k] = IF k < 16 THEN <<k>> ELSE Append(d[k \div 16], k % 16)

\* There are digits of every number.
LEMMA DigitsExist ==
  ASSUME NEW n \in Nat
  PROVE  \E d : DigitsTo(n, d)
<1> DEFINE T == {k \in 0 .. n : \E d : DigitsTo(k, d)}
<1>1. 0 \in T
  <2> DEFINE d == [k \in 0 .. 0 |-> <<0>>]
  <2>1. d \in [0 .. 0 -> Seq(Digit)]
    BY DEF Digit
  <2>2. \A k \in 0 .. 0 : k < 16 /\ k = 0 /\ d[k] = <<k>>
    OBVIOUS
  <2> HIDE DEF d
  <2>3. DigitsTo(0, d)
    BY <2>1, <2>2 DEF DigitsTo
  <2> QED BY <2>3
<1>2. ASSUME NEW k \in 0 .. n, k < n, k \in T PROVE k + 1 \in T
  <2>1. PICK d : DigitsTo(k, d)
    BY <1>2
  <2>2. k + 1 \in 0 .. n /\ k \in Nat
    BY <1>2
  <2> DEFINE last == IF k + 1 < 16 THEN <<k + 1>> ELSE Append(d[(k + 1) \div 16], (k + 1) % 16)
             c == [j \in 0 .. k + 1 |-> IF j = k + 1 THEN last ELSE d[j]]
  <2>3. (k + 1) \div 16 \in 0 .. k /\ (k + 1) % 16 \in Digit
    BY <2>2 DEF Digit
  <2>4. last \in Seq(Digit)
    <3>1. CASE k + 1 < 16
      <4>1. k + 1 \in Digit
        BY <2>2, <3>1 DEF Digit
      <4>2. <<k + 1>> \in Seq(Digit)
        BY <4>1
      <4> QED BY <3>1, <4>2
    <3>2. CASE ~(k + 1 < 16)
      <4>1. d[(k + 1) \div 16] \in Seq(Digit)
        BY <2>1, <2>3 DEF DigitsTo
      <4>2. Append(d[(k + 1) \div 16], (k + 1) % 16) \in Seq(Digit)
        BY <2>3, <4>1, AppendProperties
      <4> QED BY <3>2, <4>2
    <3> QED BY <3>1, <3>2
  <2> HIDE DEF last
  <2>5. c \in [0 .. k + 1 -> Seq(Digit)]
    BY <2>1, <2>4 DEF DigitsTo
  <2>6. ASSUME NEW j \in 0 .. k + 1
        PROVE  c[j] = IF j < 16 THEN <<j>> ELSE Append(c[j \div 16], j % 16)
    <3>1. j >= 16 => j \div 16 \in 0 .. j - 1
      BY <2>2
    <3>2. CASE j = k + 1
      <4>1. c[j] = last
        BY <3>2
      <4>2. j >= 16 => c[j \div 16] = d[j \div 16]
        BY <2>2, <3>1, <3>2
      <4> QED BY <2>2, <3>2, <4>1, <4>2 DEF last
    <3>3. CASE j # k + 1
      <4>1. j \in 0 .. k /\ c[j] = d[j]
        BY <2>2, <3>3
      <4>2. j >= 16 => c[j \div 16] = d[j \div 16]
        BY <2>2, <3>1, <3>3
      <4>3. d[j] = IF j < 16 THEN <<j>> ELSE Append(d[j \div 16], j % 16)
        BY <2>1, <4>1 DEF DigitsTo
      <4> HIDE DEF c
      <4> QED BY <4>1, <4>2, <4>3
    <3> QED BY <3>2, <3>3
  <2> HIDE DEF c
  <2>7. DigitsTo(k + 1, c)
    BY <2>5, <2>6 DEF DigitsTo
  <2> QED BY <2>2, <2>7
<1>3. \A k \in 0 .. n : k \in T
  <2> HIDE DEF T
  <2> QED BY <1>1, <1>2, Counting
<1> QED BY <1>3

\* Two lists of digits agree as far as both go.
LEMMA DigitsAgree ==
  ASSUME NEW n \in Nat, NEW m \in Nat, n =< m, NEW c, NEW d,
         \A k \in 0 .. n : c[k] = IF k < 16 THEN <<k>> ELSE Append(c[k \div 16], k % 16),
         \A k \in 0 .. m : d[k] = IF k < 16 THEN <<k>> ELSE Append(d[k \div 16], k % 16)
  PROVE  \A k \in 0 .. n : c[k] = d[k]
<1> DEFINE T == {k \in 0 .. n : \A j \in 0 .. k : c[j] = d[j]}
<1>1. 0 \in T
  <2>1. 0 \in 0 .. n /\ 0 \in 0 .. m /\ 0 < 16
    OBVIOUS
  <2>2. c[0] = <<0>>
    BY <2>1
  <2>3. d[0] = <<0>>
    BY <2>1
  <2>4. \A j \in 0 .. 0 : c[j] = d[j]
    BY <2>2, <2>3
  <2> QED BY <2>1, <2>4
<1>2. ASSUME NEW k \in 0 .. n, k < n, k \in T PROVE k + 1 \in T
  <2> DEFINE j == k + 1
  <2>1. j \in 0 .. n /\ j \in 0 .. m /\ j \div 16 \in 0 .. k
    BY <1>2
  <2>2. c[j] = IF j < 16 THEN <<j>> ELSE Append(c[j \div 16], j % 16)
    BY <2>1
  <2>3. d[j] = IF j < 16 THEN <<j>> ELSE Append(d[j \div 16], j % 16)
    BY <2>1
  <2>4. c[j \div 16] = d[j \div 16]
    BY <1>2, <2>1
  <2>5. c[j] = d[j]
    BY <2>2, <2>3, <2>4
  <2>6. \A i \in 0 .. j : i \in 0 .. k \/ i = j
    OBVIOUS
  <2> HIDE DEF j
  <2>7. \A i \in 0 .. j : c[i] = d[i]
    BY <1>2, <2>5, <2>6
  <2> QED BY <2>1, <2>7 DEF j
<1>3. \A k \in 0 .. n : k \in T
  <2> HIDE DEF T
  <2> QED BY <1>1, <1>2, Counting
<1>4. n \in T
  BY <1>3
<1> QED BY <1>4

\* The digits of a number are those of any table of them.
LEMMA HexIs ==
  ASSUME NEW n \in Nat, NEW d, DigitsTo(n, d)
  PROVE  HexOf(n) = d[n]
<1> DEFINE Step(f) == [k \in 0 .. n |-> IF k < 16 THEN <<k>> ELSE Append(f[k \div 16], k % 16)]
           h == CHOOSE f : f = Step(f)
<1>1. HexOf(n) = h[n]
  BY DEF HexOf
<1>2. d = Step(d)
  <2>1. d = [k \in 0 .. n |-> d[k]]
    BY DEF DigitsTo
  <2>2. \A k \in 0 .. n : d[k] = IF k < 16 THEN <<k>> ELSE Append(d[k \div 16], k % 16)
    BY DEF DigitsTo
  <2> QED BY <2>1, <2>2
<1>3. h = Step(h)
  BY <1>2
<1> HIDE DEF h
<1>4. \A k \in 0 .. n : h[k] = IF k < 16 THEN <<k>> ELSE Append(h[k \div 16], k % 16)
  BY <1>3
<1>5. \A k \in 0 .. n : d[k] = IF k < 16 THEN <<k>> ELSE Append(d[k \div 16], k % 16)
  BY DEF DigitsTo
<1>6. \A k \in 0 .. n : h[k] = d[k]
  BY <1>4, <1>5, DigitsAgree
<1> QED BY <1>1, <1>6

\* A number's digits, by those of the number without the last one.
LEMMA HexNext ==
  ASSUME NEW n \in Nat
  PROVE  /\ HexOf(n) \in Seq(Digit)
         /\ n < 16 => HexOf(n) = <<n>>
         /\ n >= 16 => HexOf(n) = Append(HexOf(n \div 16), n % 16)
<1>1. PICK d : DigitsTo(n, d)
  BY DigitsExist
<1>2. n \div 16 \in Nat /\ n \div 16 =< n
  OBVIOUS
<1>3. PICK c : DigitsTo(n \div 16, c)
  BY <1>2, DigitsExist
<1>4. HexOf(n) = d[n] /\ HexOf(n \div 16) = c[n \div 16]
  BY <1>1, <1>2, <1>3, HexIs
<1>5. c[n \div 16] = d[n \div 16]
  <2>1. \A k \in 0 .. n \div 16 : c[k] = d[k]
    <3> DEFINE m == n \div 16
    <3>1. \A k \in 0 .. m : c[k] = IF k < 16 THEN <<k>> ELSE Append(c[k \div 16], k % 16)
      BY <1>3 DEF DigitsTo
    <3>2. \A k \in 0 .. n : d[k] = IF k < 16 THEN <<k>> ELSE Append(d[k \div 16], k % 16)
      BY <1>1 DEF DigitsTo
    <3>3. m \in Nat /\ m =< n
      BY <1>2
    <3> HIDE DEF m
    <3>4. \A k \in 0 .. m : c[k] = d[k]
      BY <3>1, <3>2, <3>3, DigitsAgree
    <3> QED BY <3>4 DEF m
  <2> QED BY <1>2, <2>1
<1>6. d[n] \in Seq(Digit) /\ d[n] = IF n < 16 THEN <<n>> ELSE Append(d[n \div 16], n % 16)
  BY <1>1 DEF DigitsTo
<1> QED BY <1>4, <1>5, <1>6

\* The number that digits stand for, read from the left.
Reading(s, v) ==
  /\ v \in [0 .. Len(s) -> Nat]
  /\ v[0] = 0
  /\ \A i \in 1 .. Len(s) : v[i] = 16 * v[i - 1] + s[i]
Reads(s, x) == \E v : Reading(s, v) /\ v[Len(s)] = x

\* No digits are read as zero.
LEMMA ReadsNone == Reads(<< >>, 0)
<1> DEFINE v == [i \in 0 .. 0 |-> 0]
<1>1. Reading(<< >>, v) /\ v[Len(<< >>)] = 0
  BY DEF Reading
<1> HIDE DEF v
<1> QED BY <1>1 DEF Reads

\* One more digit behind.
LEMMA ReadsMore ==
  ASSUME NEW s \in Seq(Digit), NEW x, NEW d \in Digit, Reads(s, x)
  PROVE  Reads(Append(s, d), 16 * x + d)
<1>1. PICK v : Reading(s, v) /\ v[Len(s)] = x
  BY DEF Reads
<1> DEFINE n == Len(s)
           r == Append(s, d)
           w == [i \in 0 .. n + 1 |-> IF i = n + 1 THEN 16 * v[n] + d ELSE v[i]]
<1>2. n \in Nat /\ Len(r) = n + 1 /\ r[n + 1] = d /\ \A i \in 1 .. n : r[i] = s[i]
  BY AppendProperties, LenProperties
<1>3. v[n] \in Nat /\ d \in Nat
  BY <1>1, <1>2 DEF Reading, Digit
<1> HIDE DEF n, r
<1>4. w \in [0 .. n + 1 -> Nat] /\ w[0] = 0 /\ w[n + 1] = 16 * x + d
  BY <1>1, <1>2, <1>3 DEF Reading, n
<1>5. ASSUME NEW i \in 1 .. n + 1 PROVE w[i] = 16 * w[i - 1] + r[i]
  <2>1. CASE i = n + 1
    BY <1>2, <2>1
  <2>2. CASE i # n + 1
    <3>1. i \in 1 .. n /\ i - 1 \in 0 .. n /\ i - 1 # n + 1
      BY <1>2, <2>2
    <3> QED BY <1>1, <1>2, <2>2, <3>1 DEF Reading, n
  <2> QED BY <2>1, <2>2
<1> HIDE DEF w
<1>6. Reading(r, w)
  BY <1>2, <1>4, <1>5 DEF Reading
<1> QED BY <1>2, <1>4, <1>6 DEF Reads, r

\* A zero in front changes nothing.
LEMMA ReadsPadded ==
  ASSUME NEW s \in Seq(Digit), NEW x, Reads(s, x)
  PROVE  Reads(<<0>> \o s, x)
<1>1. PICK v : Reading(s, v) /\ v[Len(s)] = x
  BY DEF Reads
<1> DEFINE n == Len(s)
           r == <<0>> \o s
           w == [i \in 0 .. n + 1 |-> IF i = 0 THEN 0 ELSE v[i - 1]]
<1>2. n \in Nat /\ Len(r) = n + 1 /\ r[1] = 0 /\ \A i \in 2 .. n + 1 : r[i] = s[i - 1]
  <2>1. <<0>> \in Seq(Digit) /\ Len(<<0>>) = 1
    BY DEF Digit
  <2>2. Len(r) = 1 + n /\ \A i \in 1 .. 1 + n : r[i] = IF i =< 1 THEN <<0>>[i] ELSE s[i - 1]
    BY <2>1, ConcatProperties
  <2>3. n \in Nat
    BY LenProperties
  <2> HIDE DEF n, r
  <2>4. r[1] = <<0>>[1]
    BY <2>2, <2>3
  <2> QED BY <2>2, <2>3, <2>4
<1> HIDE DEF n, r
<1>3. w \in [0 .. n + 1 -> Nat] /\ w[0] = 0 /\ w[n + 1] = x
  BY <1>1, <1>2 DEF Reading, n
<1>4. ASSUME NEW i \in 1 .. n + 1 PROVE w[i] = 16 * w[i - 1] + r[i]
  <2>1. CASE i = 1
    BY <1>1, <1>2, <2>1 DEF Reading
  <2>2. CASE i # 1
    <3>1. i \in 2 .. n + 1 /\ i - 1 \in 1 .. n /\ i - 1 # 0
      BY <1>2, <2>2
    <3>2. v[i - 1] = 16 * v[(i - 1) - 1] + s[i - 1]
      BY <1>1, <3>1 DEF Reading, n
    <3> QED BY <1>2, <3>1, <3>2
  <2> QED BY <2>1, <2>2
<1> HIDE DEF w
<1>5. Reading(r, w)
  BY <1>2, <1>3, <1>4 DEF Reading
<1> QED BY <1>2, <1>3, <1>5 DEF Reads, r

\* The digits of a number stand for it.
LEMMA HexReads ==
  ASSUME NEW n \in Nat
  PROVE  Reads(HexOf(n), n)
<1> DEFINE T == {k \in 0 .. n : \A j \in 0 .. k : Reads(HexOf(j), j)}
<1>1. ASSUME NEW j \in 0 .. 15 PROVE Reads(HexOf(j), j)
  <2>1. HexOf(j) = <<j>> /\ << >> \in Seq(Digit) /\ j \in Digit
    BY HexNext DEF Digit
  <2>2. Reads(Append(<< >>, j), 16 * 0 + j)
    BY <2>1, ReadsNone, ReadsMore
  <2>3. Append(<< >>, j) = <<j>> /\ 16 * 0 + j = j
    OBVIOUS
  <2> QED BY <2>1, <2>2, <2>3
<1>2. 0 \in T
  <2>1. Reads(HexOf(0), 0)
    BY <1>1
  <2> QED BY <2>1
<1>3. ASSUME NEW k \in 0 .. n, k < n, k \in T PROVE k + 1 \in T
  <2> DEFINE j == k + 1
  <2>1. j \in Nat /\ j \in 0 .. n /\ j \div 16 \in 0 .. k /\ j \div 16 \in Nat
        /\ j % 16 \in Digit /\ 16 * (j \div 16) + (j % 16) = j
    BY <1>3 DEF Digit
  <2>2. Reads(HexOf(j), j)
    <3>1. CASE j < 16
      BY <1>1, <2>1, <3>1
    <3>2. CASE j >= 16
      <4>1. HexOf(j) = Append(HexOf(j \div 16), j % 16) /\ HexOf(j \div 16) \in Seq(Digit)
        BY <2>1, <3>2, HexNext
      <4>2. Reads(HexOf(j \div 16), j \div 16)
        BY <1>3, <2>1
      <4>3. Reads(HexOf(j), 16 * (j \div 16) + (j % 16))
        BY <2>1, <4>1, <4>2, ReadsMore
      <4> QED BY <2>1, <4>3
    <3> HIDE DEF j
    <3> QED BY <2>1, <3>1, <3>2
  <2>3. \A i \in 0 .. j : i \in 0 .. k \/ i = j
    OBVIOUS
  <2> HIDE DEF j
  <2>4. \A i \in 0 .. j : Reads(HexOf(i), i)
    BY <1>3, <2>2, <2>3
  <2> QED BY <2>1, <2>4 DEF j
<1>4. \A k \in 0 .. n : k \in T
  <2> HIDE DEF T
  <2> QED BY <1>2, <1>3, Counting
<1>5. n \in T
  BY <1>4
<1> QED BY <1>5

\* Of the digits that the server sends of its public key, an even or an odd number of
\* them, the client (parse_srp_auth_data of wire.rs) reads that key.
THEOREM PublicSurvives ==
  ASSUME NEW n \in Nat
  PROVE  PublicFromHex(HexOf(n)) = n
<1> DEFINE digits == HexOf(n)
           even == IF Len(digits) % 2 # 0 THEN <<0>> \o digits ELSE digits
           L == Len(even)
           Step(f) == [i \in 0 .. L |-> IF i = 0 THEN 0 ELSE 16 * f[i - 1] + even[i]]
           h == CHOOSE f : f = Step(f)
<1>1. PublicFromHex(digits) = h[L]
  BY DEF PublicFromHex
<1>2. Reads(even, n) /\ even \in Seq(Digit)
  <2>1. digits \in Seq(Digit) /\ Reads(digits, n)
    BY HexNext, HexReads
  <2> HIDE DEF digits
  <2>2. Reads(<<0>> \o digits, n)
    BY <2>1, ReadsPadded
  <2>3. <<0>> \o digits \in Seq(Digit)
    <3>1. <<0>> \in Seq(Digit)
      BY DEF Digit
    <3> QED BY <2>1, <3>1, ConcatProperties
  <2> QED BY <2>1, <2>2, <2>3
<1> HIDE DEF even
<1>3. L \in Nat
  BY <1>2, LenProperties
<1>4. PICK v : Reading(even, v) /\ v[L] = n
  BY <1>2 DEF Reads
<1> HIDE DEF L
<1>5. v = Step(v)
  <2>1. v = [i \in 0 .. L |-> v[i]]
    BY <1>4 DEF Reading, L
  <2>2. ASSUME NEW i \in 0 .. L PROVE v[i] = IF i = 0 THEN 0 ELSE 16 * v[i - 1] + even[i]
    <3>1. i = 0 \/ i \in 1 .. L
      BY <1>3
    <3> QED BY <1>4, <3>1 DEF Reading, L
  <2> QED BY <2>1, <2>2
<1>6. h = Step(h)
  BY <1>5
<1> HIDE DEF h
<1> DEFINE T == {k \in 0 .. L : h[k] = v[k]}
<1>7. 0 \in T
  <2>1. 0 \in 0 .. L
    BY <1>3
  <2> QED BY <1>4, <1>6, <2>1 DEF Reading
<1>8. ASSUME NEW k \in 0 .. L, k < L, k \in T PROVE k + 1 \in T
  <2>1. k + 1 \in 0 .. L /\ k + 1 # 0 /\ (k + 1) - 1 = k
    BY <1>3, <1>8
  <2>2. h[k + 1] = 16 * h[k] + even[k + 1]
    BY <1>6, <2>1
  <2>3. v[k + 1] = 16 * v[k] + even[k + 1]
    <3>1. v[k + 1] = IF k + 1 = 0 THEN 0 ELSE 16 * v[(k + 1) - 1] + even[k + 1]
      BY <1>5, <2>1
    <3> QED BY <2>1, <3>1
  <2>4. h[k] = v[k]
    BY <1>8
  <2> QED BY <2>1, <2>2, <2>3, <2>4
<1>9. \A k \in 0 .. L : k \in T
  <2> HIDE DEF T
  <2> QED BY <1>3, <1>7, <1>8, Counting
<1>10. L \in T
  BY <1>3, <1>9
<1> QED BY <1>1, <1>4, <1>10

---------------------------------------------------------------------------
(* Bytes on their way                                                      *)

\* A stream of either end (FbStream).
Stream == [key : 0 .. NoKey, rd : Nat, wr : Nat]

\* What a stream makes of the i-th byte that it reads next.
AsRead(s, i, x) ==
  IF x.key = s.key /\ (s.key = NoKey \/ x.at = s.rd + i - 1) THEN x.msg ELSE Garbage
\* What a stream writes of a message, the second half at once or cut.
Writes(s, m, cut) ==
  [bytes |-> <<Byte(s, m, 1, s.wr), Byte(s, m, 2, s.wr + 1 + cut)>>,
   stream |-> [s EXCEPT !.wr = s.wr + Moved(s, 2 + cut)]]

\* Nothing but a request m is on its way, at the places where the server's stream s
\* reads next; its second half is one place further on if the write was cut.
AskedOf(u, d, p, s, m, cut) ==
  /\ d = <<>> /\ p = <<>>
  /\ u = <<Byte(s, m, 1, s.rd), Byte(s, m, 2, s.rd + 1 + cut)>>

\* Nothing but an answer m is on its way, of which the client's stream c has read
\* none, one half or both, as g; once it is read c is where the server's stream s is.
AnsweredOf(u, d, p, c, s, m, g) ==
  LET first == Byte(s, m, 1, s.wr - 2)
      second == Byte(s, m, 2, s.wr - 1)
      At(n) == s.key # NoKey => c.rd + 2 = s.wr + n
  IN /\ u = <<>> /\ (s.key # NoKey => s.wr >= 2)
     /\ \/ p = <<>> /\ d = <<first, second>> /\ At(0)
        \/ p = <<g>> /\ d = <<second>> /\ At(1)
        \/ p = <<g, g>> /\ d = <<>> /\ At(2)

\* Sequences of one and of two elements, in pieces.
LEMMA Short ==
  ASSUME NEW x, NEW y
  PROVE  /\ Len(<<x>>) = 1 /\ Len(<<x, y>>) = 2
         /\ SubSeq(<<x, y>>, 1, 1) = <<x>> /\ SubSeq(<<x, y>>, 1, 2) = <<x, y>>
         /\ SubSeq(<<x, y>>, 2, 2) = <<y>> /\ SubSeq(<<x, y>>, 3, 2) = <<>>
         /\ SubSeq(<<x>>, 1, 1) = <<x>> /\ SubSeq(<<x>>, 2, 1) = <<>>
         /\ <<>> \o <<x>> = <<x>> /\ <<>> \o <<x, y>> = <<x, y>> /\ <<x>> \o <<y>> = <<x, y>>
<1> DEFINE S == {x, y}
<1>1. <<x>> \in Seq(S) /\ <<y>> \in Seq(S) /\ <<x, y>> \in Seq(S) /\ <<>> \in Seq(S)
  OBVIOUS
<1>2. ASSUME NEW s \in Seq(S)
      PROVE  /\ Len(s) = 0 => s = <<>>
             /\ Len(s) = 1 => s = <<s[1]>>
             /\ Len(s) = 2 => s = <<s[1], s[2]>>
  OBVIOUS
<1>3. Len(<<x>>) = 1 /\ Len(<<x, y>>) = 2 /\ Len(<<y>>) = 1 /\ Len(<<>>) = 0
  OBVIOUS
<1>4. ASSUME NEW s \in Seq(S), NEW m \in 1 .. Len(s) + 1, NEW n \in m - 1 .. Len(s)
      PROVE  /\ SubSeq(s, m, n) \in Seq(S) /\ Len(SubSeq(s, m, n)) = n - m + 1
             /\ \A i \in 1 .. n - m + 1 : SubSeq(s, m, n)[i] = s[m + i - 1]
  BY SubSeqProperties
<1> HIDE DEF S
<1>5. ASSUME NEW s \in Seq(S), Len(s) = 2
      PROVE  /\ SubSeq(s, 1, 1) = <<s[1]>> /\ SubSeq(s, 1, 2) = <<s[1], s[2]>>
             /\ SubSeq(s, 2, 2) = <<s[2]>> /\ SubSeq(s, 3, 2) = <<>>
  <2>1. /\ SubSeq(s, 1, 1) \in Seq(S) /\ Len(SubSeq(s, 1, 1)) = 1 /\ SubSeq(s, 1, 1)[1] = s[1]
    BY <1>4, <1>5
  <2>2. /\ SubSeq(s, 1, 2) \in Seq(S) /\ Len(SubSeq(s, 1, 2)) = 2
        /\ SubSeq(s, 1, 2)[1] = s[1] /\ SubSeq(s, 1, 2)[2] = s[2]
    <3>1. 1 \in 1 .. Len(s) + 1 /\ 2 \in 1 - 1 .. Len(s) /\ 2 - 1 + 1 = 2
      BY <1>5
    <3>2. /\ SubSeq(s, 1, 2) \in Seq(S) /\ Len(SubSeq(s, 1, 2)) = 2
          /\ \A i \in 1 .. 2 : SubSeq(s, 1, 2)[i] = s[1 + i - 1]
      BY <1>4, <3>1
    <3>3. 1 \in 1 .. 2 /\ 2 \in 1 .. 2 /\ 1 + 1 - 1 = 1 /\ 1 + 2 - 1 = 2
      OBVIOUS
    <3>4. SubSeq(s, 1, 2)[1] = s[1 + 1 - 1] /\ SubSeq(s, 1, 2)[2] = s[1 + 2 - 1]
      BY ONLY <3>2, <3>3, Zenon
    <3> QED BY <3>2, <3>3, <3>4
  <2>3. /\ SubSeq(s, 2, 2) \in Seq(S) /\ Len(SubSeq(s, 2, 2)) = 1 /\ SubSeq(s, 2, 2)[1] = s[2]
    BY <1>4, <1>5
  <2>4. /\ SubSeq(s, 3, 2) \in Seq(S) /\ Len(SubSeq(s, 3, 2)) = 0
    BY <1>4, <1>5
  <2> QED BY <1>2, <2>1, <2>2, <2>3, <2>4
<1>6. ASSUME NEW s \in Seq(S), Len(s) = 1
      PROVE  SubSeq(s, 1, 1) = <<s[1]>> /\ SubSeq(s, 2, 1) = <<>>
  <2>1. /\ SubSeq(s, 1, 1) \in Seq(S) /\ Len(SubSeq(s, 1, 1)) = 1 /\ SubSeq(s, 1, 1)[1] = s[1]
    BY <1>4, <1>6
  <2>2. /\ SubSeq(s, 2, 1) \in Seq(S) /\ Len(SubSeq(s, 2, 1)) = 0
    BY <1>4, <1>6
  <2> QED BY <1>2, <2>1, <2>2
<1>7. /\ SubSeq(<<x, y>>, 1, 1) = <<<<x, y>>[1]>>
      /\ SubSeq(<<x, y>>, 1, 2) = <<<<x, y>>[1], <<x, y>>[2]>>
      /\ SubSeq(<<x, y>>, 2, 2) = <<<<x, y>>[2]>> /\ SubSeq(<<x, y>>, 3, 2) = <<>>
  BY ONLY <1>1, <1>3, <1>5, Zenon
<1>8. SubSeq(<<x>>, 1, 1) = <<<<x>>[1]>> /\ SubSeq(<<x>>, 2, 1) = <<>>
  BY ONLY <1>1, <1>3, <1>6, Zenon
<1>9. <<x, y>>[1] = x /\ <<x, y>>[2] = y /\ <<x>>[1] = x
  OBVIOUS
<1>10. <<>> \o <<x>> = <<x>> /\ <<>> \o <<x, y>> = <<x, y>>
  OBVIOUS
<1>11. <<x>> \o <<y>> = <<x, y>>
  <2>1. <<x>> \o <<y>> \in Seq(S) /\ Len(<<x>> \o <<y>>) = 2
        /\ (<<x>> \o <<y>>)[1] = x /\ (<<x>> \o <<y>>)[2] = y
    BY <1>1, <1>3, ConcatProperties
  <2> QED BY <1>2, <2>1
<1> QED BY <1>3, <1>7, <1>8, <1>9, <1>10, <1>11, Zenon

\* One or two bytes, as a stream decrypts them.
LEMMA Places ==
  ASSUME NEW s, NEW b, NEW d
  PROVE  /\ Decrypted(s, <<b, d>>) = <<AsRead(s, 1, b), AsRead(s, 2, d)>>
         /\ Decrypted(s, <<b>>) = <<AsRead(s, 1, b)>>
BY DEF Decrypted, AsRead

\* A message is two bytes, and garbage if either is.
LEMMA Whole ==
  ASSUME NEW x, NEW y
  PROVE  /\ HasMessage(<<x, y>>) /\ ~HasMessage(<<x>>) /\ ~HasMessage(<<>>)
         /\ Message(<<x, y>>) = IF Garbage \in {x, y} THEN Garbage ELSE x
         /\ Rest(<<x, y>>) = <<>>
BY DEF HasMessage, Message, Rest

---------------------------------------------------------------------------
(* Messages on their way                                                   *)

\* What a stream writes, at the places it has come to.
LEMMA WrittenIs ==
  ASSUME NEW s, NEW m
  PROVE  Written(s, m, FALSE) = Writes(s, m, 0) /\ Written(s, m, TRUE) = Writes(s, m, 1)
BY DEF Written, Writes

\* A key stream moves by the bytes it was used for.
LEMMA MovedIs ==
  ASSUME NEW s, NEW n \in Nat
  PROVE  Moved(s, n) \in Nat /\ (s.key # NoKey => Moved(s, n) = n)
BY DEF Moved

\* A stream that has written goes on behind the message, with its key.
LEMMA WritesIs ==
  ASSUME NEW s \in Stream, NEW m, NEW cut \in {0, 1}
  PROVE  /\ Writes(s, m, cut).bytes = <<Byte(s, m, 1, s.wr), Byte(s, m, 2, s.wr + 1 + cut)>>
         /\ Writes(s, m, cut).stream \in Stream
         /\ Writes(s, m, cut).stream.key = s.key
         /\ Writes(s, m, cut).stream.rd = s.rd
         /\ s.key # NoKey => Writes(s, m, cut).stream.wr = s.wr + 2 + cut
<1>1. s.wr \in Nat
  BY DEF Stream
<1>2. PICK n : n = Moved(s, 2 + cut)
  OBVIOUS
<1>3. n \in Nat /\ (s.key # NoKey => n = 2 + cut)
  BY <1>2, MovedIs
<1>4. [s EXCEPT !.wr = s.wr + n] \in Stream
  BY <1>1, <1>3 DEF Stream
<1>5. /\ Writes(s, m, cut).stream = [s EXCEPT !.wr = s.wr + n]
      /\ Writes(s, m, cut).bytes = <<Byte(s, m, 1, s.wr), Byte(s, m, 2, s.wr + 1 + cut)>>
  BY <1>2 DEF Writes
<1>6. PICK t : t = [s EXCEPT !.wr = s.wr + n]
  OBVIOUS
<1>7. t \in Stream /\ t.key = s.key /\ t.rd = s.rd /\ t.wr = s.wr + n
  BY <1>4, <1>6 DEF Stream
<1>8. s.key # NoKey => t.wr = s.wr + 2 + cut
  BY <1>1, <1>3, <1>7
<1> QED BY <1>5, <1>6, <1>7, <1>8

\* A byte is decrypted with the key and at the place it was encrypted with.
LEMMA Deciphered ==
  ASSUME NEW s \in Stream, NEW t \in Stream, NEW m, NEW half, NEW at \in Int, NEW i \in Nat
  PROVE  /\ t.key = s.key /\ (s.key = NoKey \/ at = s.rd + i - 1) => AsRead(s, i, Byte(t, m, half, at)) = m
         /\ t.key # s.key \/ (s.key # NoKey /\ at # s.rd + i - 1)
              => AsRead(s, i, Byte(t, m, half, at)) = Garbage
BY DEF Byte, AsRead

\* A request that the client's stream writes is asked of a server in step with it.
LEMMA SendReaches ==
  ASSUME NEW c \in Stream, NEW s \in Stream, NEW m, NEW cut \in {0, 1},
         c.key = s.key, c.key # NoKey => c.wr = s.rd
  PROVE  /\ AskedOf(<<>> \o Writes(c, m, cut).bytes, <<>>, <<>>, s, m, cut)
         /\ c.key = NoKey => AskedOf(<<>> \o Writes(c, m, cut).bytes, <<>>, <<>>, s, m, 0)
<1> DEFINE x == Byte(c, m, 1, c.wr)
           y == Byte(c, m, 2, c.wr + 1 + cut)
<1>1. Writes(c, m, cut).bytes = <<x, y>>
  BY DEF Writes
<1>2. x = Byte(s, m, 1, s.rd) /\ y = Byte(s, m, 2, s.rd + 1 + cut)
  BY DEF Byte
<1>3. c.key = NoKey => y = Byte(s, m, 2, s.rd + 1 + 0)
  BY DEF Byte
<1> HIDE DEF x, y
<1>4. <<>> \o Writes(c, m, cut).bytes = <<x, y>>
  BY <1>1, Short
<1> QED BY <1>2, <1>3, <1>4 DEF AskedOf

\* What the server hears of a request.
LEMMA HeardIs ==
  ASSUME NEW u, NEW d, NEW p, NEW s \in Stream, NEW m, NEW cut \in {0, 1},
         AskedOf(u, d, p, s, m, cut)
  PROVE  /\ HasMessage(u) /\ Rest(u) = <<>>
         /\ Message(Decrypted(s, SubSeq(u, 1, 2))) = IF s.key # NoKey /\ cut = 1 THEN Garbage ELSE m
<1> DEFINE x == Byte(s, m, 1, s.rd)
           y == Byte(s, m, 2, s.rd + 1 + cut)
<1>1. u = <<x, y>>
  BY DEF AskedOf
<1>2. s.rd \in Nat /\ s.rd + 1 + cut \in Nat
  BY DEF Stream
<1>3. AsRead(s, 1, x) = m
  <2>1. s.rd = s.rd + 1 - 1
    BY <1>2
  <2> QED BY <1>2, <2>1, Deciphered
<1>4. AsRead(s, 2, y) = IF s.key # NoKey /\ cut = 1 THEN Garbage ELSE m
  <2>1. cut = 0 => s.rd + 1 + cut = s.rd + 2 - 1
    BY <1>2
  <2>2. cut = 1 => s.rd + 1 + cut # s.rd + 2 - 1
    BY <1>2
  <2> QED BY <1>2, <2>1, <2>2, Deciphered
<1> HIDE DEF x, y
<1>5. SubSeq(u, 1, 2) = <<x, y>>
  BY <1>1, Short
<1>6. HasMessage(u) /\ Rest(u) = <<>>
  BY <1>1, Whole
<1>7. Decrypted(s, SubSeq(u, 1, 2)) = <<AsRead(s, 1, x), AsRead(s, 2, y)>>
  BY <1>5, Places
<1>8. \A b, e : Message(<<b, e>>) = IF Garbage \in {b, e} THEN Garbage ELSE b
  BY Whole
<1> QED BY <1>3, <1>4, <1>6, <1>7, <1>8

\* An answer that the server's stream writes, before the client reads of it.
LEMMA AnswerReaches ==
  ASSUME NEW c \in Stream, NEW s \in Stream, NEW t \in Stream, NEW m, NEW g,
         s.key # NoKey => c.rd = s.wr, t = Writes(s, m, 0).stream
  PROVE  AnsweredOf(<<>>, <<>> \o Writes(s, m, 0).bytes, <<>>, c, t, m, g)
<1> DEFINE x == Byte(s, m, 1, s.wr)
           y == Byte(s, m, 2, s.wr + 1 + 0)
<1>1. /\ Writes(s, m, 0).bytes = <<x, y>> /\ 0 \in {0, 1}
      /\ t.key = s.key /\ (s.key # NoKey => t.wr = s.wr + 2 + 0)
  BY WritesIs
<1>2. s.wr \in Nat /\ c.rd \in Nat
  BY DEF Stream
<1>3. t.key # NoKey => t.wr - 2 = s.wr /\ t.wr - 1 = s.wr + 1 + 0 /\ t.wr >= 2
  BY <1>1, <1>2
<1>4. x = Byte(t, m, 1, t.wr - 2) /\ y = Byte(t, m, 2, t.wr - 1)
  BY <1>1, <1>3 DEF Byte
<1>5. t.key # NoKey => c.rd + 2 = t.wr + 0
  BY <1>1, <1>2
<1> HIDE DEF x, y
<1>6. <<>> \o Writes(s, m, 0).bytes = <<x, y>>
  BY <1>1, Short
<1> QED BY <1>3, <1>4, <1>5, <1>6 DEF AnsweredOf

\* Reading goes on with an answer.
LEMMA ReadGoesOn ==
  ASSUME NEW u, NEW d, NEW p, NEW c \in Stream, NEW s \in Stream, NEW m, NEW g,
         AnsweredOf(u, d, p, c, s, m, g), ~HasMessage(p), NEW n \in 1 .. Len(d),
         \/ g = m /\ c.key = s.key
         \/ g = Garbage /\ c.key # NoKey /\ s.key = NoKey
  PROVE  AnsweredOf(u, SubSeq(d, n + 1, Len(d)), p \o Decrypted(c, SubSeq(d, 1, n)),
                    [c EXCEPT !.rd = c.rd + Moved(c, n)], s, m, g)
<1> DEFINE x == Byte(s, m, 1, s.wr - 2)
           y == Byte(s, m, 2, s.wr - 1)
           e == [c EXCEPT !.rd = c.rd + Moved(c, n)]
<1>1. /\ c.rd \in Nat /\ s.wr \in Nat /\ s.wr - 2 \in Int /\ s.wr - 1 \in Int
      /\ s.key # NoKey => e.rd = c.rd + n
  <2>1. s.key # NoKey => c.key # NoKey
    OBVIOUS
  <2>2. n \in Nat /\ e.rd = c.rd + Moved(c, n)
    BY DEF Stream
  <2>3. c.key # NoKey => Moved(c, n) = n
    BY <2>2, MovedIs
  <2> QED BY <2>1, <2>2, <2>3 DEF Stream
<1>2. AnsweredOf(u, d, p, c, s, m, g) <=>
        /\ u = <<>> /\ (s.key # NoKey => s.wr >= 2)
        /\ \/ p = <<>> /\ d = <<x, y>> /\ (s.key # NoKey => c.rd + 2 = s.wr + 0)
           \/ p = <<g>> /\ d = <<y>> /\ (s.key # NoKey => c.rd + 2 = s.wr + 1)
           \/ p = <<g, g>> /\ d = <<>> /\ (s.key # NoKey => c.rd + 2 = s.wr + 2)
  BY DEF AnsweredOf
<1>3. ASSUME NEW q, NEW f
      PROVE  AnsweredOf(u, f, q, e, s, m, g) <=>
               /\ u = <<>> /\ (s.key # NoKey => s.wr >= 2)
               /\ \/ q = <<>> /\ f = <<x, y>> /\ (s.key # NoKey => e.rd + 2 = s.wr + 0)
                  \/ q = <<g>> /\ f = <<y>> /\ (s.key # NoKey => e.rd + 2 = s.wr + 1)
                  \/ q = <<g, g>> /\ f = <<>> /\ (s.key # NoKey => e.rd + 2 = s.wr + 2)
  BY DEF AnsweredOf
<1>4. ASSUME NEW i \in {1, 2}, s.key # NoKey => s.wr - 2 = c.rd + i - 1
      PROVE  AsRead(c, i, x) = g
  BY <1>1, <1>4, Deciphered
<1>5. ASSUME NEW i \in {1, 2}, s.key # NoKey => s.wr - 1 = c.rd + i - 1
      PROVE  AsRead(c, i, y) = g
  BY <1>1, <1>5, Deciphered
<1> HIDE DEF x, y, e
<1>6. CASE p = <<>> /\ d = <<x, y>> /\ (s.key # NoKey => c.rd + 2 = s.wr + 0)
  <2>1. AsRead(c, 1, x) = g
    <3>1. s.key # NoKey => s.wr - 2 = c.rd + 1 - 1
      BY <1>1, <1>6
    <3> QED BY <1>4, <3>1
  <2>2. AsRead(c, 2, y) = g
    <3>1. s.key # NoKey => s.wr - 1 = c.rd + 2 - 1
      BY <1>1, <1>6
    <3> QED BY <1>5, <3>1
  <2>3. Len(d) = 2
    BY <1>6, Short
  <2>4. n = 1 \/ n = 2
    BY <2>3
  <2>5. CASE n = 1
    <3>1. SubSeq(d, 1, n) = <<x>> /\ SubSeq(d, n + 1, Len(d)) = <<y>>
      <4>1. SubSeq(<<x, y>>, 1, 1) = <<x>> /\ SubSeq(<<x, y>>, 2, 2) = <<y>>
        BY Short
      <4>2. n + 1 = 2
        BY <2>5
      <4> QED BY <1>6, <2>3, <2>5, <4>1, <4>2
    <3>2. Decrypted(c, <<x>>) = <<g>>
      BY <2>1, Places
    <3>3. p \o Decrypted(c, SubSeq(d, 1, n)) = <<g>>
      <4>1. <<>> \o <<g>> = <<g>>
        BY Short
      <4> QED BY <1>6, <3>1, <3>2, <4>1
    <3>4. s.key # NoKey => e.rd + 2 = s.wr + 1
      BY <1>1, <1>6, <2>5
    <3> QED BY <1>2, <1>3, <3>1, <3>3, <3>4 DEF e
  <2>6. CASE n = 2
    <3>1. SubSeq(d, 1, n) = <<x, y>> /\ SubSeq(d, n + 1, Len(d)) = <<>>
      <4>1. SubSeq(<<x, y>>, 1, 2) = <<x, y>> /\ SubSeq(<<x, y>>, 3, 2) = <<>>
        BY Short
      <4>2. n + 1 = 3
        BY <2>6
      <4> QED BY <1>6, <2>3, <2>6, <4>1, <4>2
    <3>2. Decrypted(c, <<x, y>>) = <<g, g>>
      <4>1. Decrypted(c, <<x, y>>) = <<AsRead(c, 1, x), AsRead(c, 2, y)>>
        BY Places
      <4> QED BY <2>1, <2>2, <4>1
    <3>3. p \o Decrypted(c, SubSeq(d, 1, n)) = <<g, g>>
      <4>1. <<>> \o <<g, g>> = <<g, g>>
        BY Short
      <4> QED BY <1>6, <3>1, <3>2, <4>1
    <3>4. s.key # NoKey => e.rd + 2 = s.wr + 2
      BY <1>1, <1>6, <2>6
    <3> QED BY <1>2, <1>3, <3>1, <3>3, <3>4 DEF e
  <2> QED BY <2>4, <2>5, <2>6
<1>7. CASE p = <<g>> /\ d = <<y>> /\ (s.key # NoKey => c.rd + 2 = s.wr + 1)
  <2>1. AsRead(c, 1, y) = g
    <3>1. s.key # NoKey => s.wr - 1 = c.rd + 1 - 1
      BY <1>1, <1>7
    <3> QED BY <1>5, <3>1
  <2>2. Len(d) = 1
    BY <1>7, Short
  <2>3. n = 1 /\ n + 1 = 2
    BY <2>2
  <2>4. SubSeq(d, 1, n) = <<y>> /\ SubSeq(d, n + 1, Len(d)) = <<>>
    <3>1. SubSeq(<<y>>, 1, 1) = <<y>> /\ SubSeq(<<y>>, 2, 1) = <<>>
      BY Short
    <3> QED BY <1>7, <2>2, <2>3, <3>1
  <2>5. Decrypted(c, <<y>>) = <<g>>
    BY <2>1, Places
  <2>6. p \o Decrypted(c, SubSeq(d, 1, n)) = <<g, g>>
    <3>1. <<g>> \o <<g>> = <<g, g>>
      BY Short
    <3> QED BY <1>7, <2>4, <2>5, <3>1
  <2>7. s.key # NoKey => e.rd + 2 = s.wr + 2
    BY <1>1, <1>7, <2>3
  <2> QED BY <1>2, <1>3, <2>4, <2>6, <2>7 DEF e
<1>8. ~(p = <<g, g>>)
  BY Whole
<1> QED BY <1>2, <1>6, <1>7, <1>8

\* An answer that has arrived.
LEMMA TakenWhole ==
  ASSUME NEW u, NEW d, NEW p, NEW c \in Stream, NEW s \in Stream, NEW m, NEW g,
         AnsweredOf(u, d, p, c, s, m, g), HasMessage(p)
  PROVE  /\ Message(p) = g /\ Rest(p) = <<>> /\ d = <<>> /\ u = <<>>
         /\ s.key # NoKey => c.rd = s.wr
<1>1. p = <<g, g>> /\ d = <<>> /\ u = <<>> /\ (s.key # NoKey => c.rd + 2 = s.wr + 2)
  BY Whole DEF AnsweredOf
<1>2. Message(<<g, g>>) = g /\ Rest(<<g, g>>) = <<>>
  BY Whole
<1>3. c.rd \in Nat /\ s.wr \in Nat
  BY DEF Stream
<1> QED BY <1>1, <1>2, <1>3

---------------------------------------------------------------------------
(***************************************************************************)
(* The inductive invariant.  At most one message is on its way: a request  *)
(* the server has not taken, or an answer of which the client has read     *)
(* none, a half or all.  Each phase of the client goes with the phases the *)
(* server may be in and with the messages that may be on their way.        *)
(***************************************************************************)

Srv == [phase : {"new", "key", "proof", "crypt", "open"}, plugin : Plugins \cup {None},
        b : ServerSecrets, pub : 0 .. N - 1, stream : Stream,
        now : BOOLEAN, trusts : BOOLEAN]

Keyed == srv.stream.key # NoKey
InClear == stream.key = NoKey /\ srv.stream.key = NoKey /\ skew = None
Silence == up = <<>> /\ down = <<>> /\ pending = <<>>

Asked(m, cut) == AskedOf(up, down, pending, srv.stream, m, cut)
Answered(m, g) == AnsweredOf(up, down, pending, stream, srv.stream, m, g)
Refused == Answered(OK(FALSE), OK(FALSE))

\* The plugin that the server has named, with its key.
Named == [kind |-> srv.plugin, data |-> ServerKeyData]

\* What the client is told of the version, the plugin and how to go on is what
\* the server goes on with.
Fits(v, plugin, continue) ==
  \/ plugin = NoPlugin /\ srv.phase = "open" /\ (srv.trusts \/ v \in {"V10", "V12"})
  \/ /\ v = "V13" /\ srv.plugin \in Plugins /\ srv.pub = A
     /\ plugin = Named /\ srv.phase = IF continue THEN "proof" ELSE "open"
  \/ /\ v = "V13" /\ srv.plugin \in Plugins
     /\ plugin = [kind |-> srv.plugin, data |-> <<>>] /\ srv.phase = "key" /\ srv.now = continue

Accepts ==
  [op : {"accept"}, version : Versions] \cup
  [op : {"accept_data", "cond_accept"}, version : {"V13"}, plugin : Plugins,
   authenticated : BOOLEAN, data : {<<>>, ServerKeyData}]
Namings == [op : {"cont_auth"}, plugin : Plugins, data : {<<>>, ServerKeyData}]

\* The attachment can prove the password, if it is right.
Provable ==
  \/ srv.trusts
  \/ version \in {"V10", "V12"}
  \/ version = "V13" /\ srv.plugin \in Plugins /\ auth_plugin = Named /\ srv.pub = A

Joined == srv.phase = "open" /\ stream.key = srv.stream.key /\ Provable
Request == IF phase = "attach" THEN [op |-> "attach", evidence |-> Evidence] ELSE [op |-> "detach"]

New == phase = "new" /\ Silence /\ InClear /\ srv.phase = "new"

Connecting ==
  /\ phase = "connect" /\ InClear
  /\ \/ srv.phase = "new" /\ Asked([op |-> "connect", pub |-> A], 0)
     \/ \E m \in Accepts : Answered(m, m) /\ Fits(m.version, PluginOf(m), m.op = "cond_accept")
     \/ Refused

Naming ==
  /\ phase = "plugin" /\ InClear /\ version = "V13"
  /\ \/ /\ srv.phase = "key" /\ srv.now = continue_auth /\ srv.plugin \in Plugins
        /\ Asked([op |-> "cont_auth", plugin |-> auth_plugin.kind, data |-> <<A>>], 0)
     \/ \E m \in Namings :
          Answered(m, m) /\ Fits(version, [kind |-> m.plugin, data |-> m.data], continue_auth)
     \/ Refused

Proving ==
  /\ phase = "proof" /\ InClear /\ version = "V13"
  /\ srv.plugin \in Plugins /\ auth_plugin = Named /\ srv.pub = A
  /\ \/ /\ srv.phase = "proof"
        /\ Asked([op |-> "cont_auth", plugin |-> auth_plugin.kind, data |-> Verify(Named)], 0)
     \/ /\ srv.phase = "crypt" /\ srv.trusts /\ Verify(Named) = Expected
        /\ Answered(OK(TRUE), OK(TRUE))
     \/ Refused

Ciphering ==
  /\ phase = "crypt" /\ stream.key # NoKey /\ stream.wr = 0 /\ srv.trusts
  /\ \/ /\ skew = None /\ srv.phase = "crypt" /\ ~Keyed
        /\ stream = Arc4Stream(ServerKey(srv.b, srv.pub)) /\ Asked([op |-> "crypt"], 0)
     \/ /\ skew = None /\ srv.phase = "open" /\ stream.key = srv.stream.key /\ srv.stream.rd = 0
        /\ Answered(OK(TRUE), OK(TRUE))
     \/ skew = "cipher refused" /\ ~Keyed /\ Answered(OK(FALSE), Garbage)

Idle ==
  /\ phase \in {"ready", "attached"} /\ Silence /\ Joined /\ skew = None
  /\ Keyed => stream.rd = srv.stream.wr /\ stream.wr = srv.stream.rd

Requesting ==
  /\ phase \in {"attach", "detach"} /\ Joined
  /\ \/ \E cut \in {0, 1} :
          /\ Asked(Request, cut)
          /\ skew = IF Keyed /\ cut = 1 THEN "short write" ELSE None
          /\ Keyed => stream.rd = srv.stream.wr
          /\ Keyed /\ cut = 0 => stream.wr = srv.stream.rd + 2
     \/ /\ skew = None /\ (Keyed => stream.wr = srv.stream.rd)
        /\ \E ok \in BOOLEAN : Answered(OK(ok), OK(ok))

Failed ==
  /\ phase = "failed" /\ (up = <<>> \/ ~link) /\ Len(pending) =< 2
  /\ skew = None => \A i \in DOMAIN pending : pending[i] # Garbage

Typed ==
  /\ phase \in Waiting \cup {"new", "ready", "attached", "failed"}
  /\ version \in Versions \cup {None} /\ continue_auth \in BOOLEAN
  /\ auth_plugin = NoPlugin \/ auth_plugin.kind \in Plugins
  /\ pass \in Passwords /\ a \in Secrets
  /\ stream \in Stream /\ srv \in Srv
  /\ skew \in {None, "short write", "cipher refused"}

Stage == New \/ Connecting \/ Naming \/ Proving \/ Ciphering \/ Idle \/ Requesting \/ Failed
SessionInv == Typed /\ Stage /\ ~rejected

---------------------------------------------------------------------------
(* Keys                                                                    *)

\* What the two ends compute is below the modulus, and what they send each
\* other arrives as it was.
LEMMA PublicKeys ==
  ASSUME a \in Secrets, srv \in Srv
  PROVE  /\ a \in Nat /\ srv.b \in Nat /\ A \in 0 .. N - 1
         /\ ServerPublic(srv.b) \in Nat
         /\ ServerKeyData # <<>> /\ PublicFromHex(ServerKeyData) = ServerPublic(srv.b)
<1>1. a \in Nat /\ srv.b \in Nat /\ G \in Nat /\ K \in Nat /\ N \in Nat
  <2>1. srv.b \in ServerSecrets
    BY DEF Srv
  <2>2. G \in Nat /\ K \in Nat /\ N \in Nat
    BY GroupAssumption
  <2> QED BY <2>1, <2>2, SecretsAssumption
<1>2. A \in 0 .. N - 1
  <2>1. Power(G, a) \in 0 .. N - 1
    BY <1>1, PowerNext
  <2> QED BY <1>1, <2>1, PowmIsPower DEF A
<1>3. ServerPublic(srv.b) \in Nat
  <2>1. XHash("right") \in Nat
    BY Digests
  <2>2. Verifier \in Nat /\ Power(G, srv.b) \in Nat
    <3>1. Verifier \in 0 .. N - 1
      BY <1>1, <2>1, PowerNext DEF Verifier
    <3>2. Power(G, srv.b) \in 0 .. N - 1
      BY <1>1, PowerNext
    <3> QED BY <1>1, <3>1, <3>2
  <2>3. K * Verifier + Power(G, srv.b) \in Nat
    BY <1>1, <2>2
  <2> QED BY <1>1, <2>3, ModOf DEF ServerPublic
<1>4. ServerKeyData # <<>>
  <2> DEFINE n == ServerPublic(srv.b)
  <2>1. n < 16 \/ n >= 16
    BY <1>3
  <2>2. HexOf(n) # <<>>
    <3> HIDE DEF n
    <3>1. CASE n < 16
      BY <1>3, <3>1, HexNext DEF n
    <3>2. CASE n >= 16
      <4>1. HexOf(n) = Append(HexOf(n \div 16), n % 16)
        BY <1>3, <3>2, HexNext DEF n
      <4>2. n \div 16 \in Nat /\ n % 16 \in Digit
        BY <1>3 DEF n, Digit
      <4>3. HexOf(n \div 16) \in Seq(Digit)
        BY <4>2, HexNext
      <4>4. Append(HexOf(n \div 16), n % 16) # <<>>
        BY <4>2, <4>3, AppendProperties
      <4> QED BY <4>1, <4>4
    <3> QED BY <2>1, <3>1, <3>2
  <2> QED BY <2>2 DEF ServerKeyData
<1>5. PublicFromHex(ServerKeyData) = ServerPublic(srv.b)
  BY <1>3, PublicSurvives DEF ServerKeyData
<1> QED BY <1>1, <1>2, <1>3, <1>4, <1>5

\* The server's key is a key of the cipher.
LEMMA ServerKeyIsKey ==
  ASSUME a \in Secrets, srv \in Srv
  PROVE  /\ ServerKey(srv.b, srv.pub) \in 0 .. N - 1
         /\ ServerKey(srv.b, srv.pub) # NoKey /\ KeyOf(Expected) = ServerKey(srv.b, srv.pub)
<1>1. srv.b \in Nat /\ srv.pub \in Nat /\ N \in Nat /\ ServerPublic(srv.b) \in Nat
  BY PublicKeys, Modulus DEF Srv
<1> DEFINE V == Verifier
           u == UHash(srv.pub, ServerPublic(srv.b))
<1>2. V \in Nat /\ u \in Nat
  <2>1. XHash("right") \in Nat /\ u \in Nat /\ G \in Nat
    <3>1. G \in Nat
      BY GroupAssumption
    <3>2. u \in Nat
      BY <1>1, Digests
    <3> QED BY <3>1, <3>2, Digests
  <2>2. V \in 0 .. N - 1
    BY <2>1, PowerNext DEF Verifier
  <2> QED BY <1>1, <2>1, <2>2
<1> HIDE DEF u, V
<1>3. Power(V, u) \in Nat
  <2>1. Power(V, u) \in 0 .. N - 1
    BY <1>2, PowerNext
  <2> QED BY <1>1, <2>1
<1>4. srv.pub * Power(V, u) \in Nat
  BY <1>1, <1>3
<1>5. ServerKey(srv.b, srv.pub) = Power(srv.pub * Power(V, u), srv.b)
  BY DEF ServerKey, V, u
<1>6. ServerKey(srv.b, srv.pub) \in 0 .. N - 1
  <2>1. \A x, e \in Nat : Power(x, e) \in 0 .. N - 1
    BY PowerNext
  <2> QED BY <1>1, <1>4, <1>5, <2>1
<1>7. KeyOf(Expected) = ServerKey(srv.b, srv.pub)
  BY DEF KeyOf, Expected, Proof
<1> QED BY <1>1, <1>6, <1>7 DEF NoKey

\* The proof of the right password is the one that the server expects.
LEMMA ProofIsExpected ==
  ASSUME a \in Secrets, srv \in Srv, srv.pub = A, pass = "right"
  PROVE  Verify(Named) = Expected
<1> DEFINE B == ServerPublic(srv.b)
<1>1. a \in Nat /\ srv.b \in Nat /\ PublicFromHex(ServerKeyData) = B
  BY PublicKeys
<1>2. calc_key(a, B, XHash("right"), UHash(A, B)) = ServerKey(srv.b, A)
  BY <1>1, KeysAgree DEF A
<1>3. Verify(Named) = Proof(srv.plugin, A, B, calc_key(a, B, XHash("right"), UHash(A, B)))
  BY <1>1 DEF Verify, Named
<1>4. Expected = Proof(srv.plugin, A, B, ServerKey(srv.b, A))
  BY DEF Expected
<1> HIDE DEF B
<1> QED BY <1>2, <1>3, <1>4

---------------------------------------------------------------------------
(* What a phase says of the messages                                       *)

\* The client's phase names the stage.
LEMMA ByPhase ==
  ASSUME Stage
  PROVE  /\ phase = "new" => New
         /\ phase = "connect" => Connecting
         /\ phase = "plugin" => Naming
         /\ phase = "proof" => Proving
         /\ phase = "crypt" => Ciphering
         /\ phase \in {"ready", "attached"} => Idle
         /\ phase \in {"attach", "detach"} => Requesting
         /\ phase = "failed" => Failed
BY DEF Stage, New, Connecting, Naming, Proving, Ciphering, Idle, Requesting, Failed

\* An answer that is there: nothing else is on its way, and once it is consumed
\* the client has read what the server has written.
LEMMA AnswerThere ==
  ASSUME stream \in Stream, srv \in Srv, NEW m, NEW g, Answered(m, g), HasMessage(pending)
  PROVE  /\ Message(pending) = g /\ Rest(pending) = <<>> /\ up = <<>> /\ down = <<>>
         /\ Keyed => stream.rd = srv.stream.wr
<1>1. srv.stream \in Stream
  BY DEF Srv
<1> QED BY <1>1, TakenWhole DEF Answered, Keyed

\* Where there is a request there is no answer, and the other way round.
LEMMA NothingThere ==
  /\ ~HasMessage(<<>>)
  /\ \A m, cut : Asked(m, cut) => ~HasMessage(pending) /\ down = <<>>
  /\ \A m, g : Answered(m, g) => ~HasMessage(up)
<1>1. ~HasMessage(<<>>)
  BY Whole
<1> QED BY <1>1 DEF Asked, AskedOf, Answered, AnsweredOf

\* A request that is there.
LEMMA RequestThere ==
  ASSUME srv \in Srv, NEW m, NEW cut \in {0, 1}, Asked(m, cut)
  PROVE  /\ Heard = (IF Keyed /\ cut = 1 THEN Garbage ELSE m)
         /\ Rest(up) = <<>> /\ pending = <<>> /\ down = <<>>
<1>1. srv.stream \in Stream
  BY DEF Srv
<1>2. pending = <<>> /\ down = <<>>
  BY DEF Asked, AskedOf
<1> QED BY <1>1, <1>2, HeardIs DEF Asked, Keyed, Heard

\* What the server has to take, by its phase.
LEMMA ByRequest ==
  ASSUME Typed, Stage, link, HasMessage(up)
  PROVE  \/ /\ phase = "connect" /\ InClear /\ srv.phase = "new"
            /\ Asked([op |-> "connect", pub |-> A], 0)
         \/ /\ phase = "plugin" /\ InClear /\ version = "V13"
            /\ srv.phase = "key" /\ srv.now = continue_auth /\ srv.plugin \in Plugins
            /\ Asked([op |-> "cont_auth", plugin |-> auth_plugin.kind, data |-> <<A>>], 0)
         \/ /\ phase = "proof" /\ InClear /\ version = "V13"
            /\ srv.plugin \in Plugins /\ auth_plugin = Named /\ srv.pub = A /\ srv.phase = "proof"
            /\ Asked([op |-> "cont_auth", plugin |-> auth_plugin.kind, data |-> Verify(Named)], 0)
         \/ /\ phase = "crypt" /\ stream.key # NoKey /\ stream.wr = 0 /\ srv.trusts
            /\ skew = None /\ srv.phase = "crypt" /\ ~Keyed
            /\ stream = Arc4Stream(ServerKey(srv.b, srv.pub)) /\ Asked([op |-> "crypt"], 0)
         \/ /\ phase \in {"attach", "detach"} /\ Joined
            /\ \E cut \in {0, 1} :
                 /\ Asked(Request, cut)
                 /\ skew = IF Keyed /\ cut = 1 THEN "short write" ELSE None
                 /\ Keyed => stream.rd = srv.stream.wr
                 /\ Keyed /\ cut = 0 => stream.wr = srv.stream.rd + 2
<1>1. \A m, g : ~Answered(m, g)
  BY NothingThere
<1>2. up # <<>>
  BY NothingThere
<1>3. ~New /\ ~Idle /\ ~Failed
  BY <1>2 DEF New, Idle, Failed, Silence
<1>4. CASE Connecting
  BY <1>1, <1>4 DEF Connecting, Refused
<1>5. CASE Naming
  BY <1>1, <1>5 DEF Naming, Refused
<1>6. CASE Proving
  BY <1>1, <1>6 DEF Proving, Refused
<1>7. CASE Ciphering
  BY <1>1, <1>7 DEF Ciphering
<1>8. CASE Requesting
  BY <1>1, <1>8 DEF Requesting
<1> QED BY <1>3, <1>4, <1>5, <1>6, <1>7, <1>8 DEF Stage

---------------------------------------------------------------------------
(* Steps of the client                                                     *)

\* A request goes out by one write or by two.
LEMMA SendIs ==
  ASSUME NEW s, NEW m, Send(s, m)
  PROVE  \E cut \in {0, 1} :
           /\ up' = up \o Writes(s, m, cut).bytes /\ stream' = Writes(s, m, cut).stream
           /\ skew' = IF cut = 1 /\ s.key # NoKey THEN "short write" ELSE skew
<1>1. PICK short \in BOOLEAN :
        /\ up' = up \o Written(s, m, short).bytes /\ stream' = Written(s, m, short).stream
        /\ skew' = IF short /\ s.key # NoKey THEN "short write" ELSE skew
  BY DEF Send
<1>2. CASE short
  <2>1. Written(s, m, short) = Writes(s, m, 1)
    BY <1>2, WrittenIs
  <2>2. skew' = IF s.key # NoKey THEN "short write" ELSE skew
    BY <1>1, <1>2
  <2> QED BY <1>1, <2>1, <2>2
<1>3. CASE ~short
  <2>1. Written(s, m, short) = Writes(s, m, 0)
    <3>1. short = FALSE
      BY <1>3
    <3>2. Written(s, m, FALSE) = Writes(s, m, 0)
      BY WrittenIs
    <3> QED BY <3>1, <3>2
  <2>2. skew' = skew
    BY <1>1, <1>3
  <2>3. 0 # 1
    OBVIOUS
  <2> QED BY <1>1, <2>1, <2>2, <2>3
<1> QED BY <1>2, <1>3

\* A request sent over streams in step is asked of the server.
LEMMA SendAsks ==
  ASSUME NEW s \in Stream, NEW m, Send(s, m), srv \in Srv, up = <<>>,
         s.key = srv.stream.key, s.key # NoKey => s.wr = srv.stream.rd
  PROVE  \E cut \in {0, 1} :
           /\ AskedOf(up', <<>>, <<>>, srv.stream, m, cut)
           /\ s.key = NoKey => AskedOf(up', <<>>, <<>>, srv.stream, m, 0)
           /\ stream' \in Stream /\ stream'.key = s.key /\ stream'.rd = s.rd
           /\ s.key # NoKey => stream'.wr = s.wr + 2 + cut
           /\ skew' = IF cut = 1 /\ s.key # NoKey THEN "short write" ELSE skew
<1>1. PICK cut \in {0, 1} :
        /\ up' = up \o Writes(s, m, cut).bytes /\ stream' = Writes(s, m, cut).stream
        /\ skew' = IF cut = 1 /\ s.key # NoKey THEN "short write" ELSE skew
  BY SendIs
<1>2. srv.stream \in Stream
  BY DEF Srv
<1>3. /\ AskedOf(up', <<>>, <<>>, srv.stream, m, cut)
      /\ s.key = NoKey => AskedOf(up', <<>>, <<>>, srv.stream, m, 0)
  BY <1>1, <1>2, SendReaches
<1>4. /\ stream' \in Stream /\ stream'.key = s.key /\ stream'.rd = s.rd
      /\ s.key # NoKey => stream'.wr = s.wr + 2 + cut
  <2>1. stream' = Writes(s, m, cut).stream
    BY <1>1
  <2> DEFINE t == Writes(s, m, cut).stream
  <2>2. t \in Stream /\ t.key = s.key /\ t.rd = s.rd /\ (s.key # NoKey => t.wr = s.wr + 2 + cut)
    BY WritesIs
  <2> HIDE DEF t
  <2>3. stream' = t
    BY <2>1 DEF t
  <2> QED BY <2>2, <2>3
<1> QED BY <1>1, <1>3, <1>4

\* What is told of the server and of the client's secret alone is not changed by
\* a step that keeps both.
LEMMA Kept ==
  ASSUME srv' = srv, UNCHANGED <<pass, a>>
  PROVE  /\ A' = A /\ ServerKeyData' = ServerKeyData /\ Named' = Named /\ Keyed' = Keyed
         /\ Expected' = Expected /\ Verify(Named)' = Verify(Named)
         /\ Accepts' = Accepts /\ Namings' = Namings
BY DEF A, ServerKeyData, Named, Keyed, Expected, Verify, Accepts, Namings

LEMMA ConnectKeeps == SessionInv /\ Connect => SessionInv'
<1> SUFFICES ASSUME SessionInv, Connect PROVE SessionInv'
  OBVIOUS
<1> DEFINE m == [op |-> "connect", pub |-> A]
<1>1. /\ phase = "new" /\ phase' = "connect" /\ Send(Plain, m)
      /\ UNCHANGED <<version, continue_auth, auth_plugin, pending, pass, a, down, link, srv,
                     asked, rejected>>
  BY DEF Connect, server
<1>2. New /\ Typed /\ ~rejected
  BY <1>1, ByPhase DEF SessionInv
<1>3. Plain \in Stream /\ Plain.key = NoKey
  BY Modulus DEF Plain, Stream, NoKey
<1>4. up = <<>> /\ down = <<>> /\ pending = <<>> /\ InClear /\ srv.phase = "new"
  BY <1>2 DEF New, Silence
<1>5. srv \in Srv /\ srv.stream.key = NoKey
  BY <1>2, <1>4 DEF Typed, InClear
<1> HIDE DEF m
<1>6. /\ AskedOf(up', <<>>, <<>>, srv.stream, m, 0) /\ stream' \in Stream /\ stream'.key = NoKey
      /\ skew' = skew
  BY <1>1, <1>3, <1>4, <1>5, SendAsks
<1>7. m = [op |-> "connect", pub |-> A]'
  BY <1>1 DEF m, A
<1>8. Asked([op |-> "connect", pub |-> A], 0)'
  BY <1>1, <1>4, <1>6, <1>7 DEF Asked
<1>9. Connecting'
  BY <1>1, <1>4, <1>5, <1>6, <1>8 DEF Connecting, InClear
<1>10. Typed'
  BY <1>1, <1>2, <1>6 DEF Typed, Waiting
<1> QED BY <1>1, <1>2, <1>9, <1>10 DEF SessionInv, Stage

\* A read makes more of an answer arrive, and of nothing else.
LEMMA ReadAnswers ==
  ASSUME Typed, Read, NEW m, NEW g, Answered(m, g),
         \/ g = m /\ stream.key = srv.stream.key
         \/ g = Garbage /\ stream.key # NoKey /\ srv.stream.key = NoKey
  PROVE  Answered(m, g)'
<1>1. PICK n \in 1 .. Len(down) :
        /\ pending' = pending \o Decrypted(stream, SubSeq(down, 1, n))
        /\ down' = SubSeq(down, n + 1, Len(down))
        /\ stream' = [stream EXCEPT !.rd = @ + Moved(stream, n)]
  BY DEF Read
<1>2. ~HasMessage(pending) /\ up' = up /\ srv' = srv
  BY DEF Read, server
<1>3. stream \in Stream /\ srv.stream \in Stream
  BY DEF Typed, Srv
<1>4. AnsweredOf(up, SubSeq(down, n + 1, Len(down)), pending \o Decrypted(stream, SubSeq(down, 1, n)),
                 [stream EXCEPT !.rd = stream.rd + Moved(stream, n)], srv.stream, m, g)
  BY <1>2, <1>3, ReadGoesOn DEF Answered
<1>5. stream' = [stream EXCEPT !.rd = stream.rd + Moved(stream, n)]
  BY <1>1
<1> QED BY <1>1, <1>2, <1>4, <1>5 DEF Answered

LEMMA ReadKeeps == SessionInv /\ Read => SessionInv'
<1> SUFFICES ASSUME SessionInv, Read PROVE SessionInv'
  OBVIOUS
<1>1. PICK n \in 1 .. Len(down) : stream' = [stream EXCEPT !.rd = @ + Moved(stream, n)]
  BY DEF Read
<1>2. /\ phase \in Waiting /\ ~HasMessage(pending)
      /\ UNCHANGED <<phase, version, continue_auth, auth_plugin, pass, a, up, link, srv,
                     asked, skew, rejected>>
  BY DEF Read, server
<1>3. Typed /\ Stage /\ ~rejected /\ stream \in Stream /\ srv \in Srv
  BY DEF SessionInv, Typed
<1>4. n \in Nat /\ down # <<>>
  BY <1>1
<1>5. stream' \in Stream /\ stream'.key = stream.key /\ stream'.wr = stream.wr
  <2>1. Moved(stream, n) \in Nat
    BY <1>4, MovedIs
  <2> QED BY <1>1, <1>3, <2>1 DEF Stream
<1>6. Typed'
  BY <1>2, <1>3, <1>5 DEF Typed
<1>7. \A m, cut : ~Asked(m, cut)
  BY <1>4, NothingThere
<1>8. UNCHANGED <<Named, A, Keyed, Accepts, Namings, Expected>> /\ Verify(Named)' = Verify(Named)
  BY <1>2, Kept
<1>9. InClear => InClear' /\ stream.key = srv.stream.key
  BY <1>2, <1>5 DEF InClear
<1>10. Stage'
  <2>1. CASE phase = "connect"
    <3>1. Connecting
      BY <1>3, <2>1, ByPhase
    <3>2. CASE \E m \in Accepts : Answered(m, m) /\ Fits(m.version, PluginOf(m), m.op = "cond_accept")
      <4>1. PICK m \in Accepts : Answered(m, m) /\ Fits(m.version, PluginOf(m), m.op = "cond_accept")
        BY <3>2
      <4>2. Answered(m, m)'
        BY <1>3, <1>9, <3>1, <4>1, ReadAnswers DEF Connecting
      <4>3. Fits(m.version, PluginOf(m), m.op = "cond_accept")'
        BY <1>2, <1>8, <4>1 DEF Fits, PluginOf
      <4> QED BY <1>2, <1>8, <1>9, <3>1, <4>2, <4>3 DEF Connecting, Stage
    <3>3. CASE Refused
      <4>1. Refused'
        BY <1>3, <1>9, <3>1, <3>3, ReadAnswers DEF Connecting, Refused
      <4> QED BY <1>2, <1>9, <3>1, <4>1 DEF Connecting, Stage
    <3> QED BY <1>7, <3>1, <3>2, <3>3 DEF Connecting
  <2>2. CASE phase = "plugin"
    <3>1. Naming
      BY <1>3, <2>2, ByPhase
    <3>2. CASE \E m \in Namings :
             Answered(m, m) /\ Fits(version, [kind |-> m.plugin, data |-> m.data], continue_auth)
      <4>1. PICK m \in Namings :
              Answered(m, m) /\ Fits(version, [kind |-> m.plugin, data |-> m.data], continue_auth)
        BY <3>2
      <4>2. Answered(m, m)'
        BY <1>3, <1>9, <3>1, <4>1, ReadAnswers DEF Naming
      <4>3. Fits(version, [kind |-> m.plugin, data |-> m.data], continue_auth)'
        BY <1>2, <1>8, <4>1 DEF Fits
      <4> QED BY <1>2, <1>8, <1>9, <3>1, <4>2, <4>3 DEF Naming, Stage
    <3>3. CASE Refused
      <4>1. Refused'
        BY <1>3, <1>9, <3>1, <3>3, ReadAnswers DEF Naming, Refused
      <4> QED BY <1>2, <1>9, <3>1, <4>1 DEF Naming, Stage
    <3> QED BY <1>7, <3>1, <3>2, <3>3 DEF Naming
  <2>3. CASE phase = "proof"
    <3>1. Proving
      BY <1>3, <2>3, ByPhase
    <3>2. CASE srv.phase = "crypt" /\ srv.trusts /\ Verify(Named) = Expected /\ Answered(OK(TRUE), OK(TRUE))
      <4>1. Answered(OK(TRUE), OK(TRUE))'
        BY <1>3, <1>9, <3>1, <3>2, ReadAnswers DEF Proving, OK
      <4> QED BY <1>2, <1>8, <1>9, <3>1, <3>2, <4>1 DEF Proving, Stage
    <3>3. CASE Refused
      <4>1. Refused'
        BY <1>3, <1>9, <3>1, <3>3, ReadAnswers DEF Proving, Refused
      <4> QED BY <1>2, <1>8, <1>9, <3>1, <4>1 DEF Proving, Stage
    <3> QED BY <1>7, <3>1, <3>2, <3>3 DEF Proving
  <2>4. CASE phase = "crypt"
    <3>1. Ciphering
      BY <1>3, <2>4, ByPhase
    <3>2. CASE /\ skew = None /\ srv.phase = "open" /\ stream.key = srv.stream.key /\ srv.stream.rd = 0
               /\ Answered(OK(TRUE), OK(TRUE))
      <4>1. Answered(OK(TRUE), OK(TRUE))'
        BY <1>3, <3>2, ReadAnswers DEF OK
      <4> QED BY <1>2, <1>5, <3>1, <3>2, <4>1 DEF Ciphering, Stage
    <3>3. CASE skew = "cipher refused" /\ ~Keyed /\ Answered(OK(FALSE), Garbage)
      <4>1. Answered(OK(FALSE), Garbage)'
        BY <1>3, <3>1, <3>3, ReadAnswers DEF Ciphering, Keyed
      <4> QED BY <1>2, <1>5, <1>8, <3>1, <3>3, <4>1 DEF Ciphering, Stage
    <3> QED BY <1>7, <3>1, <3>2, <3>3 DEF Ciphering
  <2>5. CASE phase \in {"attach", "detach"}
    <3>1. Requesting
      BY <1>3, <2>5, ByPhase
    <3>2. PICK ok \in BOOLEAN : Answered(OK(ok), OK(ok))
      BY <1>7, <3>1 DEF Requesting
    <3>3. skew = None /\ (Keyed => stream.wr = srv.stream.rd) /\ Joined
      BY <1>7, <3>1 DEF Requesting
    <3>4. Answered(OK(ok), OK(ok))'
      BY <1>3, <3>2, <3>3, ReadAnswers DEF Joined
    <3>5. Joined'
      BY <1>2, <1>5, <1>8, <3>3 DEF Joined, Provable
    <3> QED BY <1>2, <1>5, <1>8, <2>5, <3>2, <3>3, <3>4, <3>5 DEF Requesting, Stage
  <2> QED BY <1>2, <2>1, <2>2, <2>3, <2>4, <2>5 DEF Waiting
<1> QED BY <1>2, <1>3, <1>6, <1>10 DEF SessionInv

\* What has arrived of an answer is all the same.
LEMMA AnswerArrives ==
  ASSUME NEW m, NEW g, Answered(m, g)
  PROVE  Len(pending) =< 2 /\ \A i \in DOMAIN pending : pending[i] = g
<1>1. pending = <<>> \/ pending = <<g>> \/ pending = <<g, g>>
  BY DEF Answered, AnsweredOf
<1>2. CASE pending = <<>>
  BY <1>2
<1>3. CASE pending = <<g>>
  BY <1>3
<1>4. CASE pending = <<g, g>>
  BY <1>4
<1> QED BY <1>1, <1>2, <1>3, <1>4

\* No answer of the server is garbage.
LEMMA NotGarbage ==
  /\ \A m \in Accepts \cup Namings : m # Garbage
  /\ \A ok : OK(ok) # Garbage
<1>1. ASSUME NEW m \in Accepts \cup Namings PROVE m.op # "garbage"
  BY DEF Accepts, Namings
<1>2. ASSUME NEW ok PROVE OK(ok).op # "garbage"
  BY DEF OK
<1>3. Garbage.op = "garbage"
  BY DEF Garbage
<1> QED BY <1>1, <1>2, <1>3

\* The client holds no more than a message, and nothing that it could not
\* decrypt while the streams are in step.
LEMMA Held ==
  ASSUME Stage
  PROVE  /\ Len(pending) =< 2
         /\ skew = None => \A i \in DOMAIN pending : pending[i] # Garbage
<1>1. ASSUME pending = <<>>
      PROVE  Len(pending) =< 2 /\ \A i \in DOMAIN pending : pending[i] # Garbage
  BY <1>1
<1>2. ASSUME NEW m, NEW g, Answered(m, g), skew = None => g # Garbage
      PROVE  /\ Len(pending) =< 2
             /\ skew = None => \A i \in DOMAIN pending : pending[i] # Garbage
  BY <1>2, AnswerArrives
<1>3. \A m, cut : Asked(m, cut) => pending = <<>>
  BY DEF Asked, AskedOf
<1>4. CASE New \/ Idle
  BY <1>1, <1>4 DEF New, Idle, Silence
<1>5. CASE Connecting
  BY <1>1, <1>2, <1>3, <1>5, NotGarbage DEF Connecting, Refused
<1>6. CASE Naming
  BY <1>1, <1>2, <1>3, <1>6, NotGarbage DEF Naming, Refused
<1>7. CASE Proving
  BY <1>1, <1>2, <1>3, <1>7, NotGarbage DEF Proving, Refused
<1>8. CASE Ciphering
  <2>1. CASE Answered(OK(FALSE), Garbage) /\ skew = "cipher refused"
    BY <1>2, <2>1 DEF None
  <2> QED BY <1>1, <1>2, <1>3, <1>8, <2>1, NotGarbage DEF Ciphering
<1>9. CASE Requesting
  BY <1>1, <1>2, <1>3, <1>9, NotGarbage DEF Requesting
<1>10. CASE Failed
  BY <1>10 DEF Failed
<1> QED BY <1>4, <1>5, <1>6, <1>7, <1>8, <1>9, <1>10 DEF Stage

LEMMA ReadFailsKeeps == SessionInv /\ ReadFails => SessionInv'
<1> SUFFICES ASSUME SessionInv, ReadFails PROVE SessionInv'
  OBVIOUS
<1>1. /\ phase' = "failed" /\ ~link
      /\ UNCHANGED <<version, continue_auth, auth_plugin, stream, pending, pass, a, up, down,
                     link, srv, asked, skew, rejected>>
  BY DEF ReadFails, server
<1>2. Typed /\ Stage /\ ~rejected
  BY DEF SessionInv
<1>3. Failed'
  BY <1>1, <1>2, Held DEF Failed
<1>4. Typed'
  BY <1>1, <1>2 DEF Typed
<1> QED BY <1>1, <1>2, <1>3, <1>4 DEF SessionInv, Stage

\* A call that fails on an answer keeps nothing of it.
LEMMA FailsEmpty ==
  ASSUME phase' = "failed", up' = <<>>, pending' = <<>>
  PROVE  Failed'
BY DEF Failed

\* A round of the loop of connect leads to where the server is waiting.
LEMMA RoundLeads ==
  ASSUME Typed, InClear, up = <<>>, down = <<>>, pending' = <<>>,
         NEW p, NEW c \in BOOLEAN, Fits(version', p, c), Authenticate(p, c),
         auth_plugin' = p, continue_auth' = c, UNCHANGED <<pass, a, down, link, srv>>
  PROVE  /\ Stage' /\ stream' \in Stream /\ skew' = None
         /\ phase' \in {"ready", "failed", "proof", "plugin"}
         /\ auth_plugin' = NoPlugin \/ auth_plugin'.kind \in Plugins
<1>1. /\ a \in Secrets /\ srv \in Srv /\ stream \in Stream /\ stream.key = NoKey
      /\ srv.stream.key = NoKey /\ skew = None
  BY DEF Typed, InClear
<1>2. ServerKeyData # <<>>
  BY <1>1, PublicKeys
<1>3. UNCHANGED <<A, ServerKeyData, Named, Keyed>> /\ Verify(Named)' = Verify(Named)
  BY Kept
<1>4. ~Keyed /\ ~Keyed'
  BY <1>1, <1>3 DEF Keyed
<1>5. ASSUME phase' = "ready", Nothing, srv.phase = "open", Provable'
      PROVE  Stage' /\ stream' \in Stream /\ skew' = None
  <2>1. Silence' /\ Joined' /\ skew' = None /\ stream' = stream
    BY <1>1, <1>5 DEF Silence, Joined, Nothing
  <2> QED BY <1>1, <1>4, <1>5, <2>1 DEF Idle, Stage
<1>6. ASSUME NEW m, Send(stream, m)
      PROVE  /\ AskedOf(up', down', pending', srv'.stream, m, 0)
             /\ stream' \in Stream /\ stream'.key = NoKey /\ skew' = None
  <2>1. /\ AskedOf(up', <<>>, <<>>, srv.stream, m, 0)
        /\ stream' \in Stream /\ stream'.key = NoKey /\ skew' = None
    BY <1>1, <1>6, SendAsks
  <2> QED BY <2>1
<1>7. CASE p = NoPlugin /\ srv.phase = "open" /\ (srv.trusts \/ version' \in {"V10", "V12"})
  <2>1. phase' = "ready" /\ Nothing
    BY <1>7 DEF Authenticate
  <2>2. Provable'
    BY <1>7 DEF Provable
  <2> QED BY <1>5, <1>7, <2>1, <2>2
<1>8. CASE /\ version' = "V13" /\ srv.plugin \in Plugins /\ srv.pub = A
           /\ p = Named /\ srv.phase = IF c THEN "proof" ELSE "open"
  <2>1. p.kind = srv.plugin /\ p.data = ServerKeyData /\ p # NoPlugin
    BY <1>2, <1>8 DEF Named, NoPlugin
  <2>2. CASE ~c
    <3>1. phase' = "ready" /\ Nothing
      BY <1>2, <2>1, <2>2 DEF Authenticate
    <3>2. Provable'
      BY <1>3, <1>8 DEF Provable
    <3> QED BY <1>5, <1>8, <2>1, <2>2, <3>1, <3>2
  <2>3. CASE c /\ PublicFromHex(p.data) % N = 0
    <3>1. phase' = "failed" /\ Nothing
      BY <1>2, <2>1, <2>3 DEF Authenticate
    <3>2. Failed' /\ stream' = stream /\ skew' = skew
      BY <3>1, FailsEmpty DEF Nothing
    <3> QED BY <1>1, <1>8, <2>1, <3>1, <3>2 DEF Stage
  <2>4. CASE c /\ PublicFromHex(p.data) % N # 0
    <3> DEFINE m == [op |-> "cont_auth", plugin |-> p.kind, data |-> Verify(p)]
    <3>1. phase' = "proof" /\ Send(stream, m)
      BY <1>2, <2>1, <2>4 DEF Authenticate
    <3>2. m = [op |-> "cont_auth", plugin |-> auth_plugin'.kind, data |-> Verify(Named)']
      BY <1>3, <1>8
    <3> HIDE DEF m
    <3>3. /\ AskedOf(up', down', pending', srv'.stream, m, 0)
          /\ stream' \in Stream /\ stream'.key = NoKey /\ skew' = None
      BY <1>6, <3>1
    <3>4. Asked([op |-> "cont_auth", plugin |-> auth_plugin.kind, data |-> Verify(Named)], 0)'
      BY <3>2, <3>3 DEF Asked
    <3>5. srv'.phase = "proof" /\ InClear'
      BY <1>1, <1>8, <2>4, <3>3 DEF InClear
    <3>6. Proving'
      BY <1>3, <1>8, <3>1, <3>4, <3>5 DEF Proving
    <3> QED BY <1>8, <2>1, <3>1, <3>3, <3>6 DEF Stage
  <2> QED BY <2>2, <2>3, <2>4
<1>9. CASE /\ version' = "V13" /\ srv.plugin \in Plugins
           /\ p = [kind |-> srv.plugin, data |-> <<>>] /\ srv.phase = "key" /\ srv.now = c
  <2>1. p.kind = srv.plugin /\ p.data = <<>> /\ p # NoPlugin
    BY <1>9 DEF NoPlugin, Plugins, None
  <2> DEFINE m == [op |-> "cont_auth", plugin |-> p.kind, data |-> <<A>>]
  <2>2. phase' = "plugin" /\ Send(stream, m)
    BY <2>1 DEF Authenticate
  <2>3. m = [op |-> "cont_auth", plugin |-> auth_plugin'.kind, data |-> <<A'>>]
    BY <1>3
  <2> HIDE DEF m
  <2>4. /\ AskedOf(up', down', pending', srv'.stream, m, 0)
        /\ stream' \in Stream /\ stream'.key = NoKey /\ skew' = None
    BY <1>6, <2>2
  <2>5. Asked([op |-> "cont_auth", plugin |-> auth_plugin.kind, data |-> <<A>>], 0)'
    BY <2>3, <2>4 DEF Asked
  <2>6. InClear' /\ srv'.phase = "key" /\ srv'.now = continue_auth' /\ srv'.plugin \in Plugins
    BY <1>1, <1>9, <2>4 DEF InClear
  <2>7. Naming'
    BY <1>9, <2>2, <2>5, <2>6 DEF Naming
  <2> QED BY <1>9, <2>1, <2>2, <2>4, <2>7 DEF Stage
<1> QED BY <1>7, <1>8, <1>9 DEF Fits

LEMMA HandleAcceptKeeps == SessionInv /\ HandleAccept => SessionInv'
<1> SUFFICES ASSUME SessionInv, HandleAccept PROVE SessionInv'
  OBVIOUS
<1>1. /\ phase = "connect" /\ HasMessage(pending) /\ pending' = Rest(pending)
      /\ UNCHANGED <<pass, a, down, link, srv, asked, rejected>>
  BY DEF HandleAccept, Consume, server
<1>2. Typed /\ Connecting /\ ~rejected
  BY <1>1, ByPhase DEF SessionInv
<1>3. InClear /\ stream \in Stream /\ srv \in Srv
  BY <1>2 DEF Connecting, Typed
<1>4. \A m, cut : ~Asked(m, cut)
  BY <1>1, NothingThere
<1>5. CASE \E m \in Accepts : Answered(m, m) /\ Fits(m.version, PluginOf(m), m.op = "cond_accept")
  <2>1. PICK m \in Accepts : Answered(m, m) /\ Fits(m.version, PluginOf(m), m.op = "cond_accept")
    BY <1>5
  <2>2. Message(pending) = m /\ Rest(pending) = <<>> /\ up = <<>> /\ down = <<>>
    BY <1>1, <1>3, <2>1, AnswerThere
  <2>3. m.op \in {"accept", "accept_data", "cond_accept"} /\ m.version \in Versions
    BY DEF Accepts, Versions
  <2> DEFINE p == PluginOf(m)
             c == m.op = "cond_accept"
  <2>4. /\ version' = m.version /\ continue_auth' = c /\ auth_plugin' = p /\ Authenticate(p, c)
    BY <2>2, <2>3 DEF HandleAccept
  <2>5. Fits(version', p, c) /\ c \in BOOLEAN
    BY <2>1, <2>4
  <2>6. version' \in Versions /\ continue_auth' \in BOOLEAN
    BY <2>3, <2>4
  <2> HIDE DEF p, c
  <2>7. /\ Stage' /\ stream' \in Stream /\ skew' = None
        /\ phase' \in {"ready", "failed", "proof", "plugin"}
        /\ auth_plugin' = NoPlugin \/ auth_plugin'.kind \in Plugins
    BY <1>1, <1>2, <1>3, <2>2, <2>4, <2>5, RoundLeads
  <2>8. Typed'
    BY <1>1, <1>2, <2>6, <2>7 DEF Typed, Waiting
  <2> QED BY <1>1, <1>2, <2>7, <2>8 DEF SessionInv
<1>6. CASE Refused
  <2>1. Message(pending) = OK(FALSE) /\ Rest(pending) = <<>> /\ up = <<>>
    BY <1>1, <1>3, <1>6, AnswerThere DEF Refused
  <2>2. OK(FALSE).op = "response"
    BY DEF OK
  <2>3. phase' = "failed" /\ Nothing /\ UNCHANGED <<version, continue_auth, auth_plugin>>
    BY <2>1, <2>2 DEF HandleAccept
  <2>4. Typed' /\ Failed'
    BY <1>1, <1>2, <2>1, <2>3, FailsEmpty DEF Typed, Nothing
  <2> QED BY <1>1, <1>2, <2>4 DEF SessionInv, Stage
<1> QED BY <1>2, <1>4, <1>5, <1>6 DEF Connecting

LEMMA HandleContAuthKeeps == SessionInv /\ HandleContAuth => SessionInv'
<1> SUFFICES ASSUME SessionInv, HandleContAuth PROVE SessionInv'
  OBVIOUS
<1>1. /\ phase = "plugin" /\ HasMessage(pending) /\ pending' = Rest(pending)
      /\ UNCHANGED <<version, continue_auth, pass, a, down, link, srv, asked, rejected>>
  BY DEF HandleContAuth, Consume, server
<1>2. Typed /\ Naming /\ ~rejected
  BY <1>1, ByPhase DEF SessionInv
<1>3. InClear /\ stream \in Stream /\ srv \in Srv /\ continue_auth \in BOOLEAN
  BY <1>2 DEF Naming, Typed
<1>4. \A m, cut : ~Asked(m, cut)
  BY <1>1, NothingThere
<1>5. CASE \E m \in Namings :
             Answered(m, m) /\ Fits(version, [kind |-> m.plugin, data |-> m.data], continue_auth)
  <2>1. PICK m \in Namings :
          Answered(m, m) /\ Fits(version, [kind |-> m.plugin, data |-> m.data], continue_auth)
    BY <1>5
  <2>2. Message(pending) = m /\ Rest(pending) = <<>> /\ up = <<>> /\ down = <<>>
    BY <1>1, <1>3, <2>1, AnswerThere
  <2>3. m.op = "cont_auth"
    BY DEF Namings
  <2> DEFINE p == [kind |-> m.plugin, data |-> m.data]
  <2>4. auth_plugin' = p /\ Authenticate(p, continue_auth)
    BY <2>2, <2>3 DEF HandleContAuth
  <2>5. Fits(version', p, continue_auth)
    BY <1>1, <2>1
  <2> HIDE DEF p
  <2>6. /\ Stage' /\ stream' \in Stream /\ skew' = None
        /\ phase' \in {"ready", "failed", "proof", "plugin"}
        /\ auth_plugin' = NoPlugin \/ auth_plugin'.kind \in Plugins
    BY <1>1, <1>2, <1>3, <2>2, <2>4, <2>5, RoundLeads
  <2>7. Typed'
    BY <1>1, <1>2, <2>6 DEF Typed, Waiting
  <2> QED BY <1>1, <1>2, <2>6, <2>7 DEF SessionInv
<1>6. CASE Refused
  <2>1. Message(pending) = OK(FALSE) /\ Rest(pending) = <<>> /\ up = <<>>
    BY <1>1, <1>3, <1>6, AnswerThere DEF Refused
  <2>2. OK(FALSE).op = "response"
    BY DEF OK
  <2>3. phase' = "failed" /\ Nothing /\ UNCHANGED auth_plugin
    BY <2>1, <2>2 DEF HandleContAuth
  <2>4. Typed' /\ Failed'
    BY <1>1, <1>2, <2>1, <2>3, FailsEmpty DEF Typed, Nothing
  <2> QED BY <1>1, <1>2, <2>4 DEF SessionInv, Stage
<1> QED BY <1>2, <1>4, <1>5, <1>6 DEF Naming

LEMMA HandleProofAnswerKeeps == SessionInv /\ HandleProofAnswer => SessionInv'
<1> SUFFICES ASSUME SessionInv, HandleProofAnswer PROVE SessionInv'
  OBVIOUS
<1>1. /\ phase = "proof" /\ HasMessage(pending) /\ pending' = Rest(pending)
      /\ UNCHANGED <<version, continue_auth, auth_plugin, pass, a, down, link, srv, asked, rejected>>
  BY DEF HandleProofAnswer, Consume, server
<1>2. Typed /\ Proving /\ ~rejected
  BY <1>1, ByPhase DEF SessionInv
<1>3. InClear /\ stream \in Stream /\ srv \in Srv /\ a \in Secrets /\ srv.stream \in Stream
  BY <1>2 DEF Proving, Typed, Srv
<1>4. \A m, cut : ~Asked(m, cut)
  BY <1>1, NothingThere
<1>5. CASE srv.phase = "crypt" /\ srv.trusts /\ Verify(Named) = Expected /\ Answered(OK(TRUE), OK(TRUE))
  <2>1. Message(pending) = OK(TRUE) /\ Rest(pending) = <<>> /\ up = <<>> /\ down = <<>>
    BY <1>1, <1>3, <1>5, AnswerThere
  <2>2. OK(TRUE).op = "response" /\ OK(TRUE).ok
    BY DEF OK
  <2> DEFINE m == [op |-> "crypt"]
             key == ServerKey(srv.b, srv.pub)
  <2>3. /\ phase' = "crypt" /\ up' = up \o Written(stream, m, FALSE).bytes
        /\ stream' = Arc4Stream(KeyOf(Verify(auth_plugin))) /\ skew' = skew
    BY <2>1, <2>2 DEF HandleProofAnswer
  <2>4. key \in 0 .. NoKey /\ key # NoKey /\ KeyOf(Expected) = key
    BY <1>3, ServerKeyIsKey, Modulus DEF NoKey
  <2>5. stream' = Arc4Stream(key)
    BY <1>2, <1>5, <2>3, <2>4 DEF Proving
  <2>6. up' = <<>> \o Writes(stream, m, 0).bytes
    BY <2>1, <2>3, WrittenIs
  <2> HIDE DEF m, key
  <2>7. /\ stream' \in Stream /\ stream'.key = key /\ stream'.wr = 0
    BY <2>4, <2>5 DEF Arc4Stream, Stream
  <2>8. AskedOf(up', <<>>, <<>>, srv.stream, m, 0)
    BY <1>3, <2>6, SendReaches DEF InClear
  <2>9. Asked(m, 0)'
    BY <1>1, <2>1, <2>8 DEF Asked
  <2>10. Ciphering'
    <3>1. srv'.phase = "crypt" /\ srv'.trusts /\ ~Keyed' /\ skew' = None
      BY <1>1, <1>3, <1>5, <2>3 DEF InClear, Keyed
    <3>2. stream' = Arc4Stream(ServerKey(srv'.b, srv'.pub))
      BY <1>1, <2>5 DEF key
    <3>3. Asked([op |-> "crypt"], 0)'
      BY <2>9 DEF m
    <3> QED BY <2>3, <2>4, <2>7, <3>1, <3>2, <3>3 DEF Ciphering
  <2>11. Typed'
    BY <1>1, <1>2, <2>3, <2>7 DEF Typed, Waiting
  <2> QED BY <1>1, <1>2, <2>10, <2>11 DEF SessionInv, Stage
<1>6. CASE Refused
  <2>1. Message(pending) = OK(FALSE) /\ Rest(pending) = <<>> /\ up = <<>>
    BY <1>1, <1>3, <1>6, AnswerThere DEF Refused
  <2>2. ~OK(FALSE).ok
    BY DEF OK
  <2>3. phase' = "failed" /\ Nothing
    BY <2>1, <2>2 DEF HandleProofAnswer
  <2>4. Typed' /\ Failed'
    BY <1>1, <1>2, <2>1, <2>3, FailsEmpty DEF Typed, Nothing
  <2> QED BY <1>1, <1>2, <2>4 DEF SessionInv, Stage
<1> QED BY <1>2, <1>4, <1>5, <1>6 DEF Proving

LEMMA HandleCryptAnswerKeeps == SessionInv /\ HandleCryptAnswer => SessionInv'
<1> SUFFICES ASSUME SessionInv, HandleCryptAnswer PROVE SessionInv'
  OBVIOUS
<1>1. /\ phase = "crypt" /\ HasMessage(pending) /\ pending' = Rest(pending)
      /\ UNCHANGED <<version, continue_auth, pass, a, up, down, link, srv, asked, stream, skew,
                     rejected>>
  BY DEF HandleCryptAnswer, Consume, server, Nothing
<1>2. Typed /\ Ciphering /\ ~rejected
  BY <1>1, ByPhase DEF SessionInv
<1>3. stream \in Stream /\ srv \in Srv
  BY <1>2 DEF Typed
<1>4. \A m, cut : ~Asked(m, cut)
  BY <1>1, NothingThere
<1>5. CASE /\ skew = None /\ srv.phase = "open" /\ stream.key = srv.stream.key /\ srv.stream.rd = 0
           /\ Answered(OK(TRUE), OK(TRUE))
  <2>1. /\ Message(pending) = OK(TRUE) /\ Rest(pending) = <<>> /\ up = <<>> /\ down = <<>>
        /\ Keyed => stream.rd = srv.stream.wr
    BY <1>1, <1>3, <1>5, AnswerThere
  <2>2. OK(TRUE).op = "response" /\ OK(TRUE).ok
    BY DEF OK
  <2>3. phase' = "ready" /\ auth_plugin' = NoPlugin
    BY <2>1, <2>2 DEF HandleCryptAnswer
  <2>4. Joined'
    BY <1>1, <1>2, <1>5 DEF Joined, Provable, Ciphering
  <2>5. stream'.wr = srv'.stream.rd /\ (Keyed' => stream'.rd = srv'.stream.wr)
    BY <1>1, <1>2, <1>5, <2>1 DEF Ciphering, Keyed
  <2>6. Silence'
    BY <1>1, <2>1 DEF Silence
  <2>7. Idle'
    BY <1>1, <1>5, <2>3, <2>4, <2>5, <2>6 DEF Idle
  <2>8. Typed'
    BY <1>1, <1>2, <2>3 DEF Typed
  <2> QED BY <1>1, <1>2, <2>7, <2>8 DEF SessionInv, Stage
<1>6. CASE Answered(OK(FALSE), Garbage)
  <2>1. Message(pending) = Garbage /\ Rest(pending) = <<>> /\ up = <<>>
    BY <1>1, <1>3, <1>6, AnswerThere
  <2>2. phase' = "failed" /\ UNCHANGED auth_plugin
    BY <2>1 DEF HandleCryptAnswer, Garbage
  <2>3. Typed' /\ Failed'
    BY <1>1, <1>2, <2>1, <2>2, FailsEmpty DEF Typed
  <2> QED BY <1>1, <1>2, <2>3 DEF SessionInv, Stage
<1> QED BY <1>2, <1>4, <1>5, <1>6 DEF Ciphering

\* A request of a client that is joined to the server.
LEMMA RequestLeads ==
  ASSUME Typed, Idle, NEW m, Send(stream, m), m = Request',
         phase' \in {"attach", "detach"},
         UNCHANGED <<version, auth_plugin, pending, pass, a, down, link, srv>>
  PROVE  /\ Requesting' /\ stream' \in Stream
         /\ skew' \in {None, "short write", "cipher refused"}
<1>1. /\ stream \in Stream /\ srv \in Srv /\ up = <<>> /\ down = <<>> /\ pending = <<>>
      /\ skew = None /\ stream.key = srv.stream.key /\ Joined
  BY DEF Typed, Idle, Silence, Joined
<1>2. Keyed => stream.rd = srv.stream.wr /\ stream.wr = srv.stream.rd
  BY DEF Idle
<1>3. PICK cut \in {0, 1} :
        /\ AskedOf(up', <<>>, <<>>, srv.stream, m, cut)
        /\ stream.key = NoKey => AskedOf(up', <<>>, <<>>, srv.stream, m, 0)
        /\ stream' \in Stream /\ stream'.key = stream.key /\ stream'.rd = stream.rd
        /\ stream.key # NoKey => stream'.wr = stream.wr + 2 + cut
        /\ skew' = IF cut = 1 /\ stream.key # NoKey THEN "short write" ELSE skew
  BY <1>1, <1>2, SendAsks DEF Keyed
<1>4. UNCHANGED <<Named, A, Keyed>>
  BY Kept
<1>5. Joined'
  BY <1>1, <1>3, <1>4 DEF Joined, Provable
<1>6. \A c : AskedOf(up', <<>>, <<>>, srv.stream, m, c) => Asked(Request, c)'
  BY <1>1 DEF Asked
<1>7. CASE Keyed
  <2>1. Asked(Request, cut)'
    BY <1>3, <1>6
  <2>2. skew' = IF Keyed' /\ cut = 1 THEN "short write" ELSE None
    BY <1>1, <1>3, <1>4, <1>7 DEF Keyed
  <2>3. Keyed' => stream'.rd = srv'.stream.wr
    BY <1>2, <1>3, <1>7
  <2>4. cut = 0 => stream'.wr = srv'.stream.rd + 2
    <3>1. srv.stream.rd \in Nat /\ stream.key # NoKey
      BY <1>1, <1>7 DEF Srv, Stream, Keyed
    <3> QED BY <1>2, <1>3, <1>7, <3>1
  <2>5. skew' \in {None, "short write", "cipher refused"}
    BY <2>2
  <2> QED BY <1>3, <1>5, <2>1, <2>2, <2>3, <2>4, <2>5 DEF Requesting
<1>8. CASE ~Keyed
  <2>1. Asked(Request, 0)'
    BY <1>1, <1>3, <1>6, <1>8 DEF Keyed
  <2>2. skew' = None
    BY <1>1, <1>3, <1>8 DEF Keyed
  <2> QED BY <1>3, <1>4, <1>5, <1>8, <2>1, <2>2 DEF Requesting
<1> QED BY <1>7, <1>8

LEMMA AttachKeeps == SessionInv /\ Attach => SessionInv'
<1> SUFFICES ASSUME SessionInv, Attach PROVE SessionInv'
  OBVIOUS
<1> DEFINE m == [op |-> "attach", evidence |-> Evidence]
<1>1. /\ phase = "ready" /\ phase' = "attach" /\ Send(stream, m)
      /\ UNCHANGED <<version, continue_auth, auth_plugin, pending, pass, a, down, link, srv, rejected>>
  BY DEF Attach, server
<1>2. Typed /\ Idle /\ ~rejected
  BY <1>1, ByPhase DEF SessionInv
<1>3. A' = A /\ Evidence' = Evidence
  BY <1>1 DEF A, Evidence, Verify
<1>4. m = Request'
  BY <1>1, <1>3 DEF Request
<1> HIDE DEF m
<1>5. /\ Requesting' /\ stream' \in Stream
      /\ skew' \in {None, "short write", "cipher refused"}
  BY <1>1, <1>2, <1>4, RequestLeads
<1>6. Typed'
  BY <1>1, <1>2, <1>5 DEF Typed, Waiting
<1> QED BY <1>1, <1>2, <1>5, <1>6 DEF SessionInv, Stage

LEMMA DetachKeeps == SessionInv /\ Detach => SessionInv'
<1> SUFFICES ASSUME SessionInv, Detach PROVE SessionInv'
  OBVIOUS
<1> DEFINE m == [op |-> "detach"]
<1>1. /\ phase = "attached" /\ phase' = "detach" /\ Send(stream, m)
      /\ UNCHANGED <<version, continue_auth, auth_plugin, pending, pass, a, down, link, srv, rejected>>
  BY DEF Detach, server
<1>2. Typed /\ Idle /\ ~rejected
  BY <1>1, ByPhase DEF SessionInv
<1>3. m = Request'
  BY <1>1 DEF Request
<1> HIDE DEF m
<1>4. /\ Requesting' /\ stream' \in Stream
      /\ skew' \in {None, "short write", "cipher refused"}
  BY <1>1, <1>2, <1>3, RequestLeads
<1>5. Typed'
  BY <1>1, <1>2, <1>4 DEF Typed, Waiting
<1> QED BY <1>1, <1>2, <1>4, <1>5 DEF SessionInv, Stage

LEMMA HandleResponseKeeps == SessionInv /\ HandleResponse => SessionInv'
<1> SUFFICES ASSUME SessionInv, HandleResponse PROVE SessionInv'
  OBVIOUS
<1>1. /\ phase \in {"attach", "detach"} /\ HasMessage(pending) /\ pending' = Rest(pending)
      /\ UNCHANGED <<version, continue_auth, auth_plugin, stream, pass, a, up, down, link, srv,
                     asked, skew, rejected>>
  BY DEF HandleResponse, Consume, server, Nothing
<1>2. Typed /\ Requesting /\ ~rejected
  BY <1>1, ByPhase DEF SessionInv
<1>3. stream \in Stream /\ srv \in Srv
  BY <1>2 DEF Typed
<1>4. \A m, cut : ~Asked(m, cut)
  BY <1>1, NothingThere
<1>5. PICK ok \in BOOLEAN : Answered(OK(ok), OK(ok))
  BY <1>2, <1>4 DEF Requesting
<1>6. skew = None /\ (Keyed => stream.wr = srv.stream.rd) /\ Joined
  BY <1>2, <1>4 DEF Requesting
<1>7. /\ Message(pending) = OK(ok) /\ Rest(pending) = <<>> /\ up = <<>> /\ down = <<>>
      /\ Keyed => stream.rd = srv.stream.wr
  BY <1>1, <1>3, <1>5, AnswerThere
<1>8. OK(ok).op = "response"
  BY DEF OK
<1>9. phase' \in {"attached", "ready"}
  BY <1>7, <1>8 DEF HandleResponse
<1>10. UNCHANGED <<Named, A, Keyed>>
  BY <1>1, Kept
<1>11. Joined'
  BY <1>1, <1>6, <1>10 DEF Joined, Provable
<1>12. Idle'
  BY <1>1, <1>6, <1>7, <1>9, <1>10, <1>11 DEF Idle, Silence
<1>13. Typed'
  BY <1>1, <1>2, <1>9 DEF Typed
<1> QED BY <1>1, <1>2, <1>12, <1>13 DEF SessionInv, Stage

\* Nothing the invariant tells of is changed by a call that sends nothing, nor
\* undone by the end of the link.
LEMMA UnchangedKeeps ==
  SessionInv /\ UNCHANGED <<phase, version, continue_auth, auth_plugin, stream, pending, pass, a,
                            up, down, srv, skew, rejected>> /\ (link' => link) => SessionInv'
<1> SUFFICES ASSUME SessionInv,
                    UNCHANGED <<phase, version, continue_auth, auth_plugin, stream, pending, pass, a,
                                up, down, srv, skew, rejected>>,
                    link' => link
             PROVE  SessionInv'
  OBVIOUS
<1>1. /\ UNCHANGED <<A, Named, Keyed, Accepts, Namings, Expected>> /\ Verify(Named)' = Verify(Named)
  BY Kept
<1>2. UNCHANGED <<Typed, InClear, Silence, Refused>>
  BY DEF Typed, InClear, Silence, Refused, Answered
<1>3. Request' = Request
  BY <1>1 DEF Request, Evidence, Verify
<1>4. /\ \A m, cut : Asked(m, cut)' = Asked(m, cut)
      /\ \A m, g : Answered(m, g)' = Answered(m, g)
      /\ \A v, p, c : Fits(v, p, c)' = Fits(v, p, c)
  BY <1>1 DEF Asked, Answered, Fits
<1>5. Joined' = Joined
  BY <1>1 DEF Joined, Provable
<1>6. New => New'
  BY <1>2 DEF New
<1>7. Connecting => Connecting'
  BY <1>1, <1>2, <1>4 DEF Connecting, PluginOf
<1>8. Naming => Naming'
  BY <1>1, <1>2, <1>4 DEF Naming
<1>9. Proving => Proving'
  BY <1>1, <1>2, <1>4 DEF Proving, OK
<1>10. Ciphering => Ciphering'
  BY <1>1, <1>2, <1>4 DEF Ciphering, OK
<1>11. Idle => Idle'
  BY <1>1, <1>2, <1>5 DEF Idle
<1>12. Requesting => Requesting'
  BY <1>1, <1>2, <1>3, <1>4, <1>5 DEF Requesting, OK
<1>13. Failed => Failed'
  BY DEF Failed
<1> QED BY <1>2, <1>6, <1>7, <1>8, <1>9, <1>10, <1>11, <1>12, <1>13 DEF SessionInv, Stage

---------------------------------------------------------------------------
(* Steps of the server                                                     *)

\* The server that has read a message.
LEMMA Advanced ==
  ASSUME srv \in Srv
  PROVE  /\ Advance(srv) \in Srv
         /\ \A f \in {"phase", "plugin", "b", "pub", "now", "trusts"} :
              Advance(srv)[f] = srv[f]
         /\ Advance(srv).stream.key = srv.stream.key
         /\ Keyed => Advance(srv).stream.rd = srv.stream.rd + 2
         /\ Advance(srv).stream.wr = srv.stream.wr
<1>1. srv.stream \in Stream /\ srv.stream.rd \in Nat
  BY DEF Srv, Stream
<1>2. PICK n : n = Moved(srv.stream, 2)
  OBVIOUS
<1>3. n \in Nat /\ (Keyed => n = 2)
  BY <1>2, MovedIs DEF Keyed
<1>4. Advance(srv) = [srv EXCEPT !.stream.rd = srv.stream.rd + n]
  BY <1>2 DEF Advance
<1>5. srv.stream.rd + n \in Nat
  BY <1>1, <1>3
<1> QED BY <1>1, <1>3, <1>4, <1>5 DEF Srv, Stream

\* An answer to the last request, on its way to a client that has read all before.
LEMMA AnswerIs ==
  ASSUME stream \in Stream, NEW s \in Srv, NEW m, NEW g, Answer(s, m),
         Rest(up) = <<>>, down = <<>>, pending = <<>>, UNCHANGED <<pending, stream>>,
         s.stream.key # NoKey => stream.rd = s.stream.wr
  PROVE  /\ Answered(m, g)' /\ link' = link /\ up' = <<>>
         /\ srv' \in Srv
         /\ srv'.phase = s.phase /\ srv'.plugin = s.plugin /\ srv'.b = s.b /\ srv'.pub = s.pub
         /\ srv'.now = s.now /\ srv'.trusts = s.trusts
         /\ srv'.stream.key = s.stream.key /\ srv'.stream.rd = s.stream.rd
<1> DEFINE t == Writes(s.stream, m, 0).stream
<1>1. s.stream \in Stream
  BY DEF Srv
<1>2. t \in Stream /\ t.key = s.stream.key /\ t.rd = s.stream.rd
  BY <1>1, WritesIs
<1>3. /\ up' = <<>> /\ down' = <<>> \o Writes(s.stream, m, 0).bytes
      /\ srv' = [s EXCEPT !.stream = t] /\ link' = link
  BY WrittenIs DEF Answer
<1>4. AnsweredOf(<<>>, <<>> \o Writes(s.stream, m, 0).bytes, <<>>, stream, t, m, g)
  BY <1>1, <1>2, AnswerReaches
<1> HIDE DEF t
<1>5. srv'.stream = t
  BY <1>3 DEF Srv
<1>6. Answered(m, g)'
  BY <1>3, <1>4, <1>5 DEF Answered
<1>7. srv' \in Srv
  BY <1>2, <1>3 DEF Srv
<1>8. /\ srv'.phase = s.phase /\ srv'.plugin = s.plugin /\ srv'.b = s.b /\ srv'.pub = s.pub
      /\ srv'.now = s.now /\ srv'.trusts = s.trusts
  BY <1>3 DEF Srv
<1> QED BY <1>2, <1>3, <1>5, <1>6, <1>7, <1>8

\* What the server's keys and the client's secret alone tell.
LEMMA KeysKept ==
  ASSUME UNCHANGED a, srv'.b = srv.b
  PROVE  /\ A' = A /\ ServerKeyData' = ServerKeyData /\ Accepts' = Accepts /\ Namings' = Namings
BY DEF A, ServerKeyData, Accepts, Namings

\* What a proof is made of, kept by a step that keeps the keys and the plugin.
LEMMA ProofKept ==
  ASSUME UNCHANGED <<pass, a>>, srv'.b = srv.b, srv'.plugin = srv.plugin, srv'.pub = srv.pub
  PROVE  Named' = Named /\ Expected' = Expected /\ Verify(Named)' = Verify(Named)
BY DEF A, ServerKeyData, Named, Expected, Verify

LEMMA ServerAcceptsKeeps == SessionInv /\ ServerAccepts => SessionInv'
<1> SUFFICES ASSUME SessionInv, ServerAccepts PROVE SessionInv'
  OBVIOUS
<1>1. /\ link /\ srv.phase = "new" /\ HasMessage(up)
      /\ UNCHANGED <<phase, version, continue_auth, auth_plugin, stream, pending, pass, a, asked,
                     skew, rejected>>
  BY DEF ServerAccepts, Receives, Client, NoVerdict
<1>2. Typed /\ Stage /\ ~rejected /\ stream \in Stream /\ srv \in Srv /\ a \in Secrets
  BY DEF SessionInv, Typed
<1>3. phase = "connect" /\ InClear /\ Asked([op |-> "connect", pub |-> A], 0)
  BY <1>1, <1>2, ByRequest DEF Joined
<1>4. /\ Heard = [op |-> "connect", pub |-> A] /\ Heard.pub = A
      /\ Rest(up) = <<>> /\ pending = <<>> /\ down = <<>>
  BY <1>2, <1>3, RequestThere
<1>5. A \in 0 .. N - 1
  BY <1>2, PublicKeys
<1>6. ASSUME NEW s \in Srv, NEW m, Answer(s, m), s.stream.key = NoKey, s.b = srv.b
      PROVE  /\ Answered(m, m)' /\ srv' \in Srv /\ InClear'
             /\ srv'.phase = s.phase /\ srv'.plugin = s.plugin /\ srv'.b = s.b
             /\ srv'.pub = s.pub /\ srv'.now = s.now /\ srv'.trusts = s.trusts
             /\ A' = A /\ ServerKeyData' = ServerKeyData /\ Accepts' = Accepts
  <2>1. /\ Answered(m, m)' /\ srv' \in Srv
        /\ srv'.phase = s.phase /\ srv'.plugin = s.plugin /\ srv'.b = s.b
        /\ srv'.pub = s.pub /\ srv'.now = s.now /\ srv'.trusts = s.trusts
        /\ srv'.stream.key = NoKey
    BY <1>1, <1>2, <1>4, <1>6, AnswerIs
  <2>2. InClear'
    BY <1>1, <1>3, <2>1 DEF InClear
  <2> QED BY <1>1, <1>6, <2>1, <2>2, KeysKept
<1>7. ASSUME NEW m \in Accepts', Answered(m, m)', Fits(m.version, PluginOf(m), m.op = "cond_accept")',
             InClear', srv' \in Srv
      PROVE  SessionInv'
  <2>1. Connecting'
    BY <1>1, <1>3, <1>7 DEF Connecting
  <2>2. Typed'
    BY <1>1, <1>2, <1>7 DEF Typed
  <2> QED BY <1>1, <1>2, <2>1, <2>2 DEF SessionInv, Stage
<1> DEFINE t == Advance(srv)
<1>8. t \in Srv /\ t.b = srv.b /\ t.stream.key = NoKey
  BY <1>2, <1>3, Advanced DEF InClear
<1>9. ASSUME NEW v \in Versions,
             Answer([t EXCEPT !.phase = "open", !.trusts = (v = "V13"), !.pub = Heard.pub],
                    [op |-> "accept", version |-> v])
      PROVE  SessionInv'
  <2> DEFINE s == [t EXCEPT !.phase = "open", !.trusts = (v = "V13"), !.pub = Heard.pub]
             m == [op |-> "accept", version |-> v]
  <2> HIDE DEF t
  <2>1. /\ s \in Srv /\ s.stream.key = NoKey /\ s.b = srv.b
        /\ s.phase = "open" /\ s.trusts = (v = "V13")
    BY <1>4, <1>5, <1>8 DEF Srv
  <2>2. m \in Accepts /\ m.version = v /\ PluginOf(m) = NoPlugin
    BY DEF Accepts, PluginOf
  <2>3. Answer(s, m)
    BY <1>9
  <2> HIDE DEF s, m
  <2>4. /\ Answered(m, m)' /\ srv' \in Srv /\ InClear' /\ Accepts' = Accepts
        /\ srv'.phase = "open" /\ srv'.trusts = (v = "V13")
    BY <1>6, <2>1, <2>3
  <2>5. Fits(m.version, PluginOf(m), m.op = "cond_accept")'
    BY <2>2, <2>4 DEF Fits, Versions, PluginOf
  <2> QED BY <1>7, <2>2, <2>4, <2>5
<1>10. ASSUME NEW kind \in Plugins, NEW op \in {"accept_data", "cond_accept"},
              NEW trusts \in BOOLEAN, NEW keyed \in BOOLEAN,
              Answer([t EXCEPT
                        !.phase = IF trusts \/ (keyed /\ op = "accept_data") THEN "open"
                                  ELSE IF keyed THEN "proof" ELSE "key",
                        !.trusts = trusts, !.plugin = kind, !.now = (op = "cond_accept"),
                        !.pub = Heard.pub],
                     [op |-> op, version |-> "V13", plugin |-> kind, authenticated |-> trusts,
                      data |-> IF keyed THEN ServerKeyData ELSE <<>>])
       PROVE  SessionInv'
  <2> DEFINE to == IF trusts \/ (keyed /\ op = "accept_data") THEN "open"
                   ELSE IF keyed THEN "proof" ELSE "key"
             s == [t EXCEPT !.phase = to, !.trusts = trusts, !.plugin = kind,
                            !.now = (op = "cond_accept"), !.pub = Heard.pub]
  <2>1. PICK data : data = IF keyed THEN ServerKeyData ELSE <<>>
    OBVIOUS
  <2> DEFINE m == [op |-> op, version |-> "V13", plugin |-> kind, authenticated |-> trusts,
                   data |-> data]
  <2>2. Answer(s, m)
    BY <1>10, <2>1
  <2>3. to \in {"open", "proof", "key"}
    OBVIOUS
  <2>4. data \in {<<>>, ServerKeyData}
    BY <2>1
  <2> HIDE DEF t, to
  <2>5. /\ s \in Srv /\ s.stream.key = NoKey /\ s.b = srv.b
        /\ s.phase = to /\ s.trusts = trusts /\ s.plugin = kind /\ s.now = (op = "cond_accept")
        /\ s.pub = A
    BY <1>4, <1>5, <1>8, <2>3 DEF Srv
  <2>6. m \in Accepts /\ m.version = "V13" /\ m.op = op
    BY <2>4 DEF Accepts
  <2>7. PluginOf(m) = IF trusts THEN NoPlugin ELSE [kind |-> kind, data |-> data]
    BY DEF PluginOf
  <2>8. PluginOf(m)' = PluginOf(m)
    BY DEF PluginOf
  <2> HIDE DEF s, m
  <2>9. /\ Answered(m, m)' /\ srv' \in Srv /\ InClear' /\ Accepts' = Accepts
        /\ srv'.phase = to /\ srv'.plugin = kind /\ srv'.pub = A /\ srv'.now = (op = "cond_accept")
        /\ srv'.trusts = trusts /\ A' = A /\ ServerKeyData' = ServerKeyData
    BY <1>6, <2>2, <2>5
  <2>10. CASE trusts
    <3>1. Fits(m.version, PluginOf(m), m.op = "cond_accept")'
      BY <2>7, <2>8, <2>9, <2>10 DEF Fits, to
    <3> QED BY <1>7, <2>6, <2>9, <3>1
  <2>11. CASE ~trusts /\ keyed
    <3>1. PluginOf(m) = Named'
      BY <2>7, <2>9, <2>11, <2>1 DEF Named
    <3>2. to = IF op = "cond_accept" THEN "proof" ELSE "open"
      BY <2>11 DEF to
    <3>3. Fits(m.version, PluginOf(m), m.op = "cond_accept")'
      BY <2>6, <2>8, <2>9, <3>1, <3>2 DEF Fits
    <3> QED BY <1>7, <2>6, <2>9, <3>3
  <2>12. CASE ~trusts /\ ~keyed
    <3>1. PluginOf(m) = [kind |-> srv'.plugin, data |-> <<>>]
      BY <2>7, <2>9, <2>12, <2>1
    <3>2. to = "key"
      BY <2>12 DEF to
    <3>3. Fits(m.version, PluginOf(m), m.op = "cond_accept")'
      BY <2>6, <2>8, <2>9, <3>1, <3>2 DEF Fits
    <3> QED BY <1>7, <2>6, <2>9, <3>3
  <2> QED BY <2>10, <2>11, <2>12
<1> QED BY <1>9, <1>10, ZenonT(60) DEF ServerAccepts

\* The client's key is answered with the server's, or with a plugin alone.
LEMMA KeyAnsweredKeeps == SessionInv /\ (ServerTakesKey \/ ServerSwaps) => SessionInv'
<1> SUFFICES ASSUME SessionInv, ServerTakesKey \/ ServerSwaps PROVE SessionInv'
  OBVIOUS
<1>1. /\ link /\ srv.phase = "key" /\ HasMessage(up)
      /\ UNCHANGED <<phase, version, continue_auth, auth_plugin, stream, pending, pass, a, asked,
                     skew, rejected>>
  BY DEF ServerTakesKey, ServerSwaps, Receives, Client, NoVerdict
<1>2. Typed /\ Stage /\ ~rejected /\ stream \in Stream /\ srv \in Srv /\ a \in Secrets
  BY DEF SessionInv, Typed
<1>3. /\ phase = "plugin" /\ InClear /\ version = "V13"
      /\ srv.now = continue_auth /\ srv.plugin \in Plugins
      /\ Asked([op |-> "cont_auth", plugin |-> auth_plugin.kind, data |-> <<A>>], 0)
  BY <1>1, <1>2, ByRequest DEF Joined
<1>4. /\ Heard = [op |-> "cont_auth", plugin |-> auth_plugin.kind, data |-> <<A>>]
      /\ Heard.data[1] = A
      /\ Rest(up) = <<>> /\ pending = <<>> /\ down = <<>>
  BY <1>2, <1>3, RequestThere
<1>5. A \in 0 .. N - 1
  BY <1>2, PublicKeys
<1>6. ASSUME NEW s \in Srv, NEW m, Answer(s, m), s.stream.key = NoKey, s.b = srv.b
      PROVE  /\ Answered(m, m)' /\ srv' \in Srv /\ InClear'
             /\ srv'.phase = s.phase /\ srv'.plugin = s.plugin /\ srv'.pub = s.pub
             /\ srv'.now = s.now
             /\ A' = A /\ ServerKeyData' = ServerKeyData /\ Namings' = Namings
  <2>1. /\ Answered(m, m)' /\ srv' \in Srv
        /\ srv'.phase = s.phase /\ srv'.plugin = s.plugin /\ srv'.b = s.b
        /\ srv'.pub = s.pub /\ srv'.now = s.now
        /\ srv'.stream.key = NoKey
    BY <1>1, <1>2, <1>4, <1>6, AnswerIs
  <2>2. InClear'
    BY <1>1, <1>3, <2>1 DEF InClear
  <2> QED BY <1>1, <1>6, <2>1, <2>2, KeysKept
<1>7. ASSUME NEW m \in Namings', Answered(m, m)',
             Fits(version, [kind |-> m.plugin, data |-> m.data], continue_auth)',
             InClear', srv' \in Srv
      PROVE  SessionInv'
  <2>1. Naming'
    BY <1>1, <1>3, <1>7 DEF Naming
  <2>2. Typed'
    BY <1>1, <1>2, <1>7 DEF Typed
  <2> QED BY <1>1, <1>2, <2>1, <2>2 DEF SessionInv, Stage
<1> DEFINE t == Advance(srv)
<1>8. /\ t \in Srv /\ t.b = srv.b /\ t.stream.key = NoKey
      /\ t.phase = "key" /\ t.now = continue_auth /\ t.plugin = srv.plugin
  BY <1>1, <1>2, <1>3, Advanced DEF InClear, Srv
<1>9. ASSUME Answer([t EXCEPT !.phase = IF srv.now THEN "proof" ELSE "open", !.pub = Heard.data[1]],
                    [op |-> "cont_auth", plugin |-> srv.plugin, data |-> ServerKeyData])
      PROVE  SessionInv'
  <2> DEFINE s == [t EXCEPT !.phase = IF srv.now THEN "proof" ELSE "open", !.pub = Heard.data[1]]
  <2>1. PICK m : m = [op |-> "cont_auth", plugin |-> srv.plugin, data |-> ServerKeyData]
    OBVIOUS
  <2>2. Answer(s, m)
    BY <1>9, <2>1
  <2> HIDE DEF t
  <2>3. /\ s \in Srv /\ s.stream.key = NoKey /\ s.b = srv.b /\ s.pub = A
        /\ s.phase = (IF continue_auth THEN "proof" ELSE "open") /\ s.plugin = srv.plugin
    BY <1>3, <1>4, <1>5, <1>8 DEF Srv
  <2>4. m \in Namings /\ m.plugin = srv.plugin /\ m.data = ServerKeyData
    BY <1>3, <2>1 DEF Namings
  <2> HIDE DEF s
  <2>5. /\ Answered(m, m)' /\ srv' \in Srv /\ InClear' /\ Namings' = Namings
        /\ srv'.phase = (IF continue_auth THEN "proof" ELSE "open") /\ srv'.plugin = srv.plugin
        /\ srv'.pub = A /\ A' = A /\ ServerKeyData' = ServerKeyData
    BY <1>6, <2>2, <2>3
  <2>6. [kind |-> m.plugin, data |-> m.data] = Named'
    BY <2>4, <2>5 DEF Named
  <2>7. Fits(version, [kind |-> m.plugin, data |-> m.data], continue_auth)'
    BY <1>1, <1>3, <2>5, <2>6 DEF Fits
  <2> QED BY <1>7, <2>4, <2>5, <2>7
<1>10. ASSUME NEW kind \in Plugins,
              Answer([t EXCEPT !.plugin = kind],
                     [op |-> "cont_auth", plugin |-> kind, data |-> <<>>])
       PROVE  SessionInv'
  <2> DEFINE s == [t EXCEPT !.plugin = kind]
             m == [op |-> "cont_auth", plugin |-> kind, data |-> <<>>]
  <2>1. Answer(s, m)
    BY <1>10
  <2> HIDE DEF t
  <2>2. /\ s \in Srv /\ s.stream.key = NoKey /\ s.b = srv.b
        /\ s.phase = "key" /\ s.plugin = kind /\ s.now = continue_auth
    <3>1. kind \in Plugins \cup {None}
      OBVIOUS
    <3>2. s \in Srv
      BY <1>8, <3>1 DEF Srv
    <3> QED BY <1>8, <3>2 DEF Srv
  <2>3. m \in Namings /\ m.plugin = kind /\ m.data = <<>>
    BY DEF Namings
  <2> HIDE DEF s, m
  <2>4. /\ Answered(m, m)' /\ srv' \in Srv /\ InClear' /\ Namings' = Namings
        /\ srv'.phase = "key" /\ srv'.plugin = kind /\ srv'.now = continue_auth
    BY <1>6, <2>1, <2>2
  <2>5. Fits(version, [kind |-> m.plugin, data |-> m.data], continue_auth)'
    BY <1>1, <1>3, <2>3, <2>4 DEF Fits
  <2> QED BY <1>7, <2>3, <2>4, <2>5
<1>11. CASE ServerTakesKey
  BY <1>9, <1>11 DEF ServerTakesKey
<1>12. CASE ServerSwaps
  BY <1>10, <1>12 DEF ServerSwaps
<1> QED BY <1>11, <1>12

LEMMA ServerTakesProofKeeps == SessionInv /\ ServerTakesProof => SessionInv'
<1> SUFFICES ASSUME SessionInv, ServerTakesProof PROVE SessionInv'
  OBVIOUS
<1> DEFINE right == Heard.data = Expected
           t == Advance(srv)
           s == [t EXCEPT !.phase = IF right THEN "crypt" ELSE "new", !.trusts = right]
<1>1. /\ link /\ srv.phase = "proof" /\ HasMessage(up) /\ Answer(s, OK(right)) /\ Judge(right)
      /\ UNCHANGED <<phase, version, continue_auth, auth_plugin, stream, pending, pass, a, asked,
                     skew>>
  BY DEF ServerTakesProof, Receives, Client
<1>2. Typed /\ Stage /\ ~rejected /\ stream \in Stream /\ srv \in Srv /\ a \in Secrets
  BY DEF SessionInv, Typed
<1>3. /\ phase = "proof" /\ InClear /\ version = "V13"
      /\ srv.plugin \in Plugins /\ auth_plugin = Named /\ srv.pub = A
      /\ Asked([op |-> "cont_auth", plugin |-> auth_plugin.kind, data |-> Verify(Named)], 0)
  BY <1>1, <1>2, ByRequest DEF Joined
<1>4. /\ Heard = [op |-> "cont_auth", plugin |-> auth_plugin.kind, data |-> Verify(Named)]
      /\ Heard.data = Verify(Named)
      /\ Rest(up) = <<>> /\ pending = <<>> /\ down = <<>>
  BY <1>2, <1>3, RequestThere
<1>5. /\ t \in Srv /\ t.b = srv.b /\ t.stream.key = NoKey
      /\ t.pub = srv.pub /\ t.plugin = srv.plugin
  BY <1>1, <1>2, <1>3, Advanced DEF InClear
<1>6. right <=> Verify(Named) = Expected
  BY <1>4
<1>7. right \in BOOLEAN
  OBVIOUS
<1> HIDE DEF t, right
<1>8. /\ s \in Srv /\ s.b = srv.b /\ s.stream.key = NoKey /\ s.pub = srv.pub /\ s.plugin = srv.plugin
      /\ s.phase = (IF right THEN "crypt" ELSE "new") /\ s.trusts = right
  BY <1>5, <1>7 DEF Srv
<1> HIDE DEF s
<1>9. PICK ok \in BOOLEAN : ok = right
  BY <1>7
<1>10. /\ Answered(OK(ok), OK(ok))' /\ srv' \in Srv
       /\ srv'.phase = s.phase /\ srv'.plugin = srv.plugin /\ srv'.b = srv.b
       /\ srv'.pub = srv.pub /\ srv'.trusts = s.trusts /\ srv'.stream.key = NoKey
  <2>1. Answer(s, OK(ok))
    BY <1>1, <1>9
  <2> DEFINE m == OK(ok)
  <2> HIDE DEF m
  <2>2. Answer(s, m)
    BY <2>1 DEF m
  <2> QED BY <1>1, <1>2, <1>4, <1>8, <2>2, AnswerIs DEF m
<1>11. Named' = Named /\ Expected' = Expected /\ Verify(Named)' = Verify(Named) /\ A' = A
  BY <1>1, <1>10, ProofKept, KeysKept
<1>12. InClear'
  BY <1>1, <1>3, <1>10 DEF InClear
<1>13. Proving'
  <2>1. CASE ok
    <3>1. srv'.phase = "crypt" /\ srv'.trusts /\ Verify(Named)' = Expected'
      BY <1>6, <1>8, <1>9, <1>10, <1>11, <2>1
    <3>2. ok = TRUE
      BY <2>1
    <3>3. Answered(OK(TRUE), OK(TRUE))'
      BY <1>10, <3>2
    <3> QED BY <1>1, <1>3, <1>10, <1>11, <1>12, <3>1, <3>3 DEF Proving
  <2>2. CASE ~ok
    <3>1. ok = FALSE
      BY <2>2
    <3>2. Answered(OK(FALSE), OK(FALSE))'
      BY <1>10, <3>1
    <3>3. Refused'
      BY <3>2 DEF Refused
    <3> QED BY <1>1, <1>3, <1>10, <1>11, <1>12, <3>3 DEF Proving
  <2> QED BY <2>1, <2>2
<1>14. ~rejected'
  <2>1. pass = "right" => right
    BY <1>2, <1>3, <1>6, ProofIsExpected
  <2> QED BY <1>1, <1>2, <2>1 DEF Judge
<1>15. Typed'
  BY <1>1, <1>2, <1>10 DEF Typed
<1> QED BY <1>13, <1>14, <1>15 DEF SessionInv, Stage

LEMMA ServerEncryptsKeeps == SessionInv /\ ServerEncrypts => SessionInv'
<1> SUFFICES ASSUME SessionInv, ServerEncrypts PROVE SessionInv'
  OBVIOUS
<1>1. /\ link /\ srv.phase = "crypt" /\ HasMessage(up)
      /\ UNCHANGED <<phase, version, continue_auth, auth_plugin, stream, pending, pass, a, asked,
                     rejected>>
  BY DEF ServerEncrypts, Receives, Client
<1>2. Typed /\ Stage /\ ~rejected /\ stream \in Stream /\ srv \in Srv /\ a \in Secrets
  BY DEF SessionInv, Typed
<1>3. /\ phase = "crypt" /\ stream.key # NoKey /\ stream.wr = 0 /\ srv.trusts
      /\ skew = None /\ ~Keyed
      /\ stream = Arc4Stream(ServerKey(srv.b, srv.pub)) /\ Asked([op |-> "crypt"], 0)
  BY <1>1, <1>2, ByRequest DEF Joined
<1>4. Rest(up) = <<>> /\ pending = <<>> /\ down = <<>>
  BY <1>2, <1>3, RequestThere
<1>5. ASSUME Ciphering', srv' \in Srv, skew' \in {None, "cipher refused"}
      PROVE  SessionInv'
  <2>1. Typed'
    BY <1>1, <1>2, <1>5 DEF Typed
  <2> QED BY <1>1, <1>2, <1>5, <2>1 DEF SessionInv, Stage
<1>6. CASE /\ Answer([srv EXCEPT !.phase = "open",
                            !.stream = Arc4Stream(ServerKey(srv.b, srv.pub))], OK(TRUE))
           /\ UNCHANGED skew
  <2> DEFINE s == [srv EXCEPT !.phase = "open", !.stream = stream]
             m == OK(TRUE)
  <2>1. Answer(s, m)
    BY <1>3, <1>6
  <2>2. stream.rd = 0
    BY <1>3 DEF Arc4Stream
  <2>3. s \in Srv /\ s.stream = stream /\ s.phase = "open" /\ s.trusts
    BY <1>2, <1>3 DEF Srv
  <2> HIDE DEF s, m
  <2>4. /\ Answered(m, m)' /\ srv' \in Srv /\ srv'.phase = "open" /\ srv'.trusts
        /\ srv'.stream.key = stream.key /\ srv'.stream.rd = 0
    BY <1>1, <1>2, <1>3, <1>4, <2>1, <2>2, <2>3, AnswerIs
  <2>5. Answered(OK(TRUE), OK(TRUE))'
    BY <2>4 DEF m
  <2>6. Ciphering'
    BY <1>1, <1>3, <1>6, <2>4, <2>5 DEF Ciphering
  <2> QED BY <1>3, <1>5, <1>6, <2>4, <2>6
<1>7. CASE Answer(Advance(srv), OK(FALSE)) /\ skew' = "cipher refused"
  <2> DEFINE s == Advance(srv)
             m == OK(FALSE)
  <2>1. Answer(s, m)
    BY <1>7
  <2>2. s \in Srv /\ s.stream.key = NoKey /\ s.trusts = srv.trusts
    BY <1>2, <1>3, Advanced DEF Keyed
  <2> HIDE DEF s, m
  <2>3. Answered(m, Garbage)' /\ srv' \in Srv /\ srv'.trusts = srv.trusts /\ srv'.stream.key = NoKey
    BY <1>1, <1>2, <1>4, <2>1, <2>2, AnswerIs
  <2>4. Answered(OK(FALSE), Garbage)'
    BY <2>3 DEF m
  <2>5. Ciphering'
    BY <1>1, <1>3, <1>7, <2>3, <2>4 DEF Ciphering, Keyed
  <2> QED BY <1>5, <1>7, <2>3, <2>5
<1> QED BY <1>6, <1>7 DEF ServerEncrypts

\* A request of a joined client that the server takes, and answers.
LEMMA RequestTaken ==
  ASSUME SessionInv, link, srv.phase = "open", HasMessage(up),
         NEW op \in {"attach", "detach"}, Heard.op = op, NEW ok \in BOOLEAN,
         Answer(Advance(srv), OK(ok)), Client, skew' = skew
  PROVE  Heard = Request /\ phase = op /\ Joined /\ Requesting' /\ srv' \in Srv /\ skew = None
<1>1. /\ Typed /\ Stage /\ stream \in Stream /\ srv \in Srv /\ a \in Secrets
      /\ UNCHANGED <<phase, version, continue_auth, auth_plugin, stream, pending, pass, a, asked>>
  BY DEF SessionInv, Typed, Client
<1>2. phase \in {"attach", "detach"} /\ Joined
  BY <1>1, ByRequest
<1>3. PICK cut \in {0, 1} :
        /\ Asked(Request, cut)
        /\ skew = IF Keyed /\ cut = 1 THEN "short write" ELSE None
        /\ Keyed => stream.rd = srv.stream.wr
        /\ Keyed /\ cut = 0 => stream.wr = srv.stream.rd + 2
  BY <1>1, <1>2, ByRequest
<1>4. /\ Heard = (IF Keyed /\ cut = 1 THEN Garbage ELSE Request)
      /\ Rest(up) = <<>> /\ pending = <<>> /\ down = <<>>
  BY <1>1, <1>3, RequestThere
<1>5. ~(Keyed /\ cut = 1)
  BY <1>4 DEF Garbage
<1>6. Heard = Request /\ skew = None
  BY <1>3, <1>4, <1>5
<1>7. phase = op
  BY <1>2, <1>6 DEF Request
<1>8. Keyed => stream.wr = srv.stream.rd + 2
  BY <1>3, <1>5
<1> DEFINE s == Advance(srv)
           m == OK(ok)
<1>9. /\ s \in Srv /\ s.stream.key = srv.stream.key /\ s.stream.wr = srv.stream.wr
      /\ Keyed => s.stream.rd = srv.stream.rd + 2
      /\ s.phase = "open" /\ s.plugin = srv.plugin
      /\ s.b = srv.b /\ s.pub = srv.pub /\ s.trusts = srv.trusts
  BY <1>1, Advanced
<1> HIDE DEF s, m
<1>10. /\ Answered(m, m)' /\ srv' \in Srv /\ srv'.phase = "open" /\ srv'.plugin = srv.plugin
       /\ srv'.b = srv.b /\ srv'.pub = srv.pub /\ srv'.trusts = srv.trusts
       /\ srv'.stream.key = srv.stream.key /\ (Keyed => srv'.stream.rd = srv.stream.rd + 2)
  <2>1. Answer(s, m)
    BY DEF s, m
  <2> QED BY <1>1, <1>3, <1>4, <1>9, <2>1, AnswerIs DEF Keyed
<1>11. Named' = Named /\ A' = A /\ Keyed' = Keyed
  BY <1>1, <1>10, ProofKept, KeysKept DEF Keyed
<1>12. Joined'
  BY <1>1, <1>2, <1>10, <1>11 DEF Joined, Provable
<1>13. Answered(OK(ok), OK(ok))'
  BY <1>10 DEF m
<1>14. Requesting'
  BY <1>1, <1>2, <1>6, <1>8, <1>10, <1>11, <1>12, <1>13 DEF Requesting
<1> QED BY <1>2, <1>6, <1>7, <1>10, <1>14

LEMMA ServerAttachesKeeps == SessionInv /\ ServerAttaches => SessionInv'
<1> SUFFICES ASSUME SessionInv, ServerAttaches PROVE SessionInv'
  OBVIOUS
<1> DEFINE right == Convincing(Heard.evidence)
<1>1. /\ link /\ srv.phase = "open" /\ HasMessage(up) /\ Heard.op = "attach"
      /\ Judge(right) /\ Client /\ skew' = skew
  BY DEF ServerAttaches, Receives
<1>2. PICK there \in BOOLEAN : Answer(Advance(srv), OK(right /\ there))
  BY DEF ServerAttaches
<1>3. PICK ok \in BOOLEAN : Answer(Advance(srv), OK(ok))
  <2>1. (right /\ there) \in BOOLEAN
    OBVIOUS
  <2> QED BY <1>2, <2>1
<1>4. Heard = Request /\ phase = "attach" /\ Joined /\ Requesting' /\ srv' \in Srv /\ skew = None
  BY <1>1, <1>3, RequestTaken
<1>5. Typed /\ ~rejected /\ srv \in Srv /\ a \in Secrets
  BY DEF SessionInv, Typed
<1>6. Heard.evidence = Evidence
  BY <1>4 DEF Request
<1>7. ASSUME pass = "right" PROVE right
  <2>1. CASE srv.trusts
    BY <2>1 DEF Convincing
  <2>2. CASE version \in {"V10", "V12"}
    BY <1>6, <1>7, <2>2 DEF Convincing, Evidence
  <2>3. CASE version = "V13" /\ srv.plugin \in Plugins /\ auth_plugin = Named /\ srv.pub = A
    <3>1. Verify(auth_plugin) = Expected /\ auth_plugin.kind = srv.plugin
      BY <1>5, <1>7, <2>3, ProofIsExpected DEF Named
    <3>2. auth_plugin # NoPlugin
      BY <2>3, <3>1 DEF NoPlugin, None, Plugins
    <3>3. Evidence = [kind |-> "proof", plugin |-> auth_plugin.kind, value |-> Verify(auth_plugin)]
      BY <2>3, <3>2 DEF Evidence
    <3> QED BY <1>6, <3>1, <3>3 DEF Convincing
  <2> QED BY <1>4, <2>1, <2>2, <2>3 DEF Joined, Provable
<1>8. ~rejected'
  BY <1>1, <1>5, <1>7 DEF Judge
<1>9. Typed'
  BY <1>1, <1>4, <1>5 DEF Typed, Client
<1> QED BY <1>4, <1>8, <1>9 DEF SessionInv, Stage

LEMMA ServerDetachesKeeps == SessionInv /\ ServerDetaches => SessionInv'
<1> SUFFICES ASSUME SessionInv, ServerDetaches PROVE SessionInv'
  OBVIOUS
<1>1. /\ link /\ srv.phase = "open" /\ HasMessage(up) /\ Heard.op = "detach"
      /\ Answer(Advance(srv), OK(TRUE)) /\ Client /\ UNCHANGED <<skew, rejected>>
  BY DEF ServerDetaches, Receives, NoVerdict
<1>2. Requesting' /\ srv' \in Srv
  <2>1. PICK ok \in BOOLEAN : ok = TRUE
    OBVIOUS
  <2>2. Answer(Advance(srv), OK(ok))
    BY <1>1, <2>1
  <2> QED BY <1>1, <2>2, RequestTaken
<1>3. Typed'
  BY <1>1, <1>2 DEF SessionInv, Typed, Client
<1> QED BY <1>1, <1>2, <1>3 DEF SessionInv, Stage

LEMMA ServerRejectsKeeps == SessionInv /\ ServerRejects => SessionInv'
<1> SUFFICES ASSUME SessionInv, ServerRejects PROVE SessionInv'
  OBVIOUS
<1>1. /\ link /\ srv.phase \in {"new", "key"} /\ HasMessage(up) /\ Answer(Advance(srv), OK(FALSE))
      /\ UNCHANGED <<phase, version, continue_auth, auth_plugin, stream, pending, pass, a, asked,
                     skew, rejected>>
  BY DEF ServerRejects, Receives, Client, NoVerdict
<1>2. Typed /\ Stage /\ ~rejected /\ stream \in Stream /\ srv \in Srv
  BY DEF SessionInv, Typed
<1>3. /\ InClear /\ \E m : Asked(m, 0)
      /\ phase = "connect" \/ (phase = "plugin" /\ version = "V13")
  BY <1>1, <1>2, ByRequest DEF Joined
<1>4. Rest(up) = <<>> /\ pending = <<>> /\ down = <<>>
  BY <1>2, <1>3, RequestThere
<1> DEFINE s == Advance(srv)
           m == OK(FALSE)
<1>5. s \in Srv /\ s.stream.key = NoKey
  BY <1>2, <1>3, Advanced DEF InClear
<1> HIDE DEF s, m
<1>6. Answered(m, m)' /\ srv' \in Srv /\ srv'.stream.key = NoKey
  <2>1. Answer(s, m)
    BY <1>1 DEF s, m
  <2> QED BY <1>1, <1>2, <1>4, <1>5, <2>1, AnswerIs
<1>7. Refused' /\ InClear'
  BY <1>1, <1>3, <1>6 DEF Refused, InClear, m
<1>8. Connecting' \/ Naming'
  BY <1>1, <1>3, <1>7 DEF Connecting, Naming
<1>9. Typed'
  BY <1>1, <1>2, <1>6 DEF Typed
<1> QED BY <1>1, <1>2, <1>8, <1>9 DEF SessionInv, Stage

---------------------------------------------------------------------------
(* The theorems                                                            *)

\* The invariant holds before the client has connected.
LEMMA InitHolds == Init => SessionInv
<1> SUFFICES ASSUME Init PROVE SessionInv
  OBVIOUS
<1>1. N \in Nat /\ 0 \in 0 .. N - 1 /\ NoKey \in 0 .. NoKey
  BY Modulus DEF NoKey
<1>2. Plain \in Stream /\ Plain.key = NoKey
  BY <1>1 DEF Plain, Stream
<1>3. PICK b \in ServerSecrets :
        srv = [phase |-> "new", plugin |-> None, b |-> b, pub |-> 0, stream |-> Plain,
               now |-> FALSE, trusts |-> FALSE]
  BY DEF Init
<1>4. srv \in Srv /\ srv.phase = "new" /\ srv.stream.key = NoKey
  BY <1>1, <1>2, <1>3 DEF Srv
<1>5. New
  BY <1>2, <1>4 DEF Init, New, Silence, InClear
<1>6. Typed
  BY <1>2, <1>4 DEF Init, Typed
<1> QED BY <1>5, <1>6 DEF Init, SessionInv, Stage

\* Every step keeps the invariant.
LEMMA NextKeeps == SessionInv /\ [Next]_vars => SessionInv'
<1> SUFFICES ASSUME SessionInv, [Next]_vars PROVE SessionInv'
  OBVIOUS
<1>1. CASE AttachRefused
  <2>1. UNCHANGED <<phase, version, continue_auth, auth_plugin, stream, pending, pass, a,
                    up, down, srv, skew, rejected>> /\ link' = link
    BY <1>1 DEF AttachRefused, Nothing, server
  <2> QED BY <2>1, UnchangedKeeps
<1>2. CASE ServerHangsUp
  <2>1. UNCHANGED <<phase, version, continue_auth, auth_plugin, stream, pending, pass, a,
                    up, down, srv, skew, rejected>> /\ ~link'
    BY <1>2 DEF ServerHangsUp, Client, NoVerdict
  <2> QED BY <2>1, UnchangedKeeps
<1>3. CASE UNCHANGED vars
  <2>1. UNCHANGED <<phase, version, continue_auth, auth_plugin, stream, pending, pass, a,
                    up, down, srv, skew, rejected>> /\ link' = link
    BY <1>3 DEF vars
  <2> QED BY <2>1, UnchangedKeeps
<1>4. CASE Connect \/ Attach \/ Detach
  BY <1>4, ConnectKeeps, AttachKeeps, DetachKeeps
<1>5. CASE ClientStep
  BY <1>5, ReadKeeps, ReadFailsKeeps, HandleAcceptKeeps, HandleContAuthKeeps,
     HandleProofAnswerKeeps, HandleCryptAnswerKeeps, HandleResponseKeeps DEF ClientStep
<1>6. CASE ServerStep
  BY <1>6, ServerAcceptsKeeps, KeyAnsweredKeeps, ServerTakesProofKeeps, ServerEncryptsKeeps,
     ServerAttachesKeeps, ServerDetachesKeeps, ServerRejectsKeeps DEF ServerStep
<1> QED BY <1>1, <1>2, <1>3, <1>4, <1>5, <1>6 DEF Next

\* Every phase of the client (client.rs:289-479, 1176-1246, 1382-1408) goes with
\* the phases the server may be in, with the one message that may be on its way,
\* and with the places that both key streams have come to.
THEOREM SessionInvariant == Spec => []SessionInv
<1> QED BY InitHolds, NextKeeps, PTL DEF Spec

\* In every group, with every secret of either side: the right password, proved
\* in the clear, in the connection (srp_auth) or in the attachment (build_dpb),
\* to whichever plugin was named last, is never refused.
THEOREM RightPasswordIsTaken == Spec => []RightPasswordIsAccepted
<1>1. SessionInv => RightPasswordIsAccepted
  BY DEF SessionInv, RightPasswordIsAccepted
<1> QED BY <1>1, SessionInvariant, PTL

\* What the server hears of a request is no garbage, if no write was short and
\* no cipher refused.
LEMMA HeardWhole ==
  ASSUME Typed, Stage, skew = None, link, HasMessage(up)
  PROVE  Heard # Garbage
<1>1. srv \in Srv
  BY DEF Typed
<1>2. ASSUME NEW m, Asked(m, 0) PROVE Heard = m
  BY <1>1, <1>2, RequestThere
<1>3. \A key, kind, data :
        /\ [op |-> "connect", pub |-> key] # Garbage /\ [op |-> "crypt"] # Garbage
        /\ [op |-> "cont_auth", plugin |-> kind, data |-> data] # Garbage
  <2>1. Garbage.op = "garbage"
    BY DEF Garbage
  <2> QED BY <2>1
<1>4. Request.op # Garbage.op
  BY DEF Request, Garbage
<1>5. ASSUME NEW cut \in {0, 1}, Asked(Request, cut), ~(Keyed /\ cut = 1) PROVE Heard = Request
  BY <1>1, <1>5, RequestThere
<1>6. "short write" # None
  BY DEF None
<1> QED BY <1>2, <1>3, <1>4, <1>5, <1>6, ByRequest

\* Whatever either side reads was encrypted with the key and at the place of the
\* key stream that it decrypts with (Arc4Stream, arc4.rs:80-131): from the cipher
\* that srp_auth switches on, which is of the key the server computed, until a
\* write is short or the server refuses the cipher.
THEOREM BothEndsInStep == Spec => []StreamsAreInStep
<1>1. SessionInv => StreamsAreInStep
  <2> SUFFICES ASSUME SessionInv PROVE StreamsAreInStep
    OBVIOUS
  <2>1. Typed /\ Stage
    BY DEF SessionInv
  <2>2. /\ Len(pending) =< 2
        /\ skew = None => \A i \in DOMAIN pending : pending[i] # Garbage
    BY <2>1, Held
  <2>3. TypeOK
    <3>1. /\ stream.key \in 0 .. NoKey /\ stream.rd \in Nat /\ stream.wr \in Nat
          /\ srv.phase \in {"new", "key", "proof", "crypt", "open"}
      BY <2>1 DEF Typed, Stream, Srv
    <3> QED BY <2>1, <2>2, <3>1 DEF Typed, TypeOK
  <2>4. skew = None => (link /\ HasMessage(up) => Heard # Garbage)
    BY <2>1, HeardWhole
  <2> QED BY <2>2, <2>3, <2>4 DEF StreamsAreInStep
<1> QED BY <1>1, SessionInvariant, PTL
=============================================================================

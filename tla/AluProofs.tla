------------------------------ MODULE AluProofs ------------------------------
(***************************************************************************)
(* Proofs about Alu, for registers of any width: every one-cycle            *)
(* instruction and every branch condition, of all operands.                 *)
(***************************************************************************)
EXTENDS ExecuteProofs

-----------------------------------------------------------------------------
(* Words and their bits.                                                    *)

\* Induction, from the size of a finite set: the numbers up to n below which
\* S has no gap are an interval from 0, and it has no last one before n.
LEMMA Induction ==
  ASSUME NEW S \in SUBSET Nat, 0 \in S, \A n \in S : n + 1 \in S
  PROVE  S = Nat
<1>. SUFFICES ASSUME NEW n \in Nat PROVE n \in S
  OBVIOUS
<1>. DEFINE A == {k \in 0 .. n : 0 .. k \subseteq S}
            c == Cardinality(A)
<1>1. IsFiniteSet(0 .. n) /\ A \subseteq 0 .. n
  BY FS_Interval
<1>2. IsFiniteSet(A) /\ c \in Nat
  BY <1>1, FS_Subset, FS_CardinalityType
<1>3. 0 \in A
  OBVIOUS
<1>. HIDE DEF c
<1>4. ASSUME NEW k \in A PROVE k + 1 <= c
  <2>1. 0 .. k \subseteq A
    OBVIOUS
  <2>2. IsFiniteSet(0 .. k) /\ Cardinality(0 .. k) = k + 1
    BY FS_Interval
  <2>. QED  BY <1>2, <2>1, <2>2, FS_Subset DEF c
<1>5. A = 0 .. c - 1
  <2>1. c >= 1 /\ A \subseteq 0 .. c - 1
    BY <1>2, <1>3, <1>4
  <2>2. IsFiniteSet(0 .. c - 1) /\ Cardinality(0 .. c - 1) = c
    BY <1>2, <2>1, FS_Interval
  <2>. QED  BY <2>1, <2>2, FS_Subset DEF c
<1>6. c - 1 \in A /\ c \in Nat
  BY <1>2, <1>3, <1>5
<1>7. CASE c <= n
  <2>1. c - 1 \in S /\ (c - 1) + 1 = c
    BY <1>6
  <2>2. c \in S
    BY <2>1
  <2>3. 0 .. c \subseteq S
    BY <1>6, <2>2
  <2>4. c \in A
    BY <1>6, <1>7, <2>3
  <2>. QED  BY <1>5, <2>4, <1>6
<1>8. CASE c > n
  <2>1. n \in A
    BY <1>5, <1>6, <1>8
  <2>. QED  BY <2>1
<1>. QED  BY <1>6, <1>7, <1>8

\* The lowest bit of a number, and the others.
LEMMA LowestBit ==
  ASSUME NEW x \in Nat, NEW b \in {0, 1}, NEW y \in Nat, x = 2 * y + b
  PROVE  /\ Bit(x, 0) <=> b = 1
         /\ \A i \in Nat : Bit(x, i + 1) <=> Bit(y, i)
<1>1. x \div 2 = y /\ x % 2 = b
  OBVIOUS
<1>2. 2^0 = 1 /\ 2^1 = 2 /\ x \div 1 = x
  BY Power
<1>3. Bit(x, 0) <=> b = 1
  BY <1>1, <1>2 DEF Bit, Bits
<1>4. ASSUME NEW i \in Nat PROVE Bit(x, i + 1) <=> Bit(y, i)
  <2>1. 2^i \in Nat /\ 2^i > 0 /\ 2^(i + 1) = 2 * 2^i
    BY Power
  <2>2. x \div (2 * 2^i) = (x \div 2) \div 2^i
    BY <2>1, DivDiv
  <2>3. x \div 2^(i + 1) = y \div 2^i
    BY <1>1, <2>1, <2>2
  <2>. QED  BY <2>3 DEF Bit, Bits
<1>. QED  BY <1>3, <1>4

\* Any bits are those of a word.
LEMMA WordOfBits ==
  ASSUME NEW w \in Nat, NEW f \in [0 .. w - 1 -> BOOLEAN]
  PROVE  \E x \in Word(w) : \A i \in 0 .. w - 1 : Bit(x, i) <=> f[i]
<1>. DEFINE S == {n \in Nat : \A g \in [0 .. n - 1 -> BOOLEAN] :
                    \E x \in Word(n) : \A i \in 0 .. n - 1 : Bit(x, i) <=> g[i]}
<1>1. 0 \in S
  <2>1. 0 \in Word(0)
    BY Words
  <2>. QED  BY <2>1
<1>2. ASSUME NEW n \in S PROVE n + 1 \in S
  <2>. SUFFICES ASSUME NEW g \in [0 .. n -> BOOLEAN]
                PROVE  \E x \in Word(n + 1) : \A i \in 0 .. n : Bit(x, i) <=> g[i]
    OBVIOUS
  <2>. DEFINE h == [i \in 0 .. n - 1 |-> g[i + 1]]
              b == IF g[0] THEN 1 ELSE 0
  <2>1. h \in [0 .. n - 1 -> BOOLEAN] /\ n \in Nat
    OBVIOUS
  <2>2. PICK y \in Word(n) : \A i \in 0 .. n - 1 : Bit(y, i) <=> h[i]
    BY <2>1
  <2>. DEFINE x == 2 * y + b
  <2>3. x \in Word(n + 1) /\ x \in Nat /\ y \in Nat /\ b \in {0, 1}
    <3>1. 2^n \in Nat /\ 2^(n + 1) = 2 * 2^n /\ y \in 0 .. 2^n - 1
      BY Power, <2>1 DEF Word
    <3>. QED  BY <3>1 DEF Word
  <2>4. (Bit(x, 0) <=> b = 1) /\ (\A i \in Nat : Bit(x, i + 1) <=> Bit(y, i))
    <3>. HIDE DEF b
    <3>. QED  BY <2>3, LowestBit
  <2>5. Bit(x, 0) <=> g[0]
    BY <2>4
  <2>. HIDE DEF x, b
  <2>6. ASSUME NEW i \in 0 .. n PROVE Bit(x, i) <=> g[i]
    <3>1. CASE i = 0
      BY <2>5, <3>1
    <3>2. CASE i > 0
      <4>1. i - 1 \in 0 .. n - 1 /\ i - 1 \in Nat /\ (i - 1) + 1 = i
        BY <3>2, <2>1
      <4>2. Bit(x, i) <=> Bit(y, i - 1)
        BY <2>4, <4>1
      <4>3. Bit(y, i - 1) <=> h[i - 1]
        BY <2>2, <4>1
      <4>4. h[i - 1] = g[i]
        BY <4>1
      <4>. QED  BY <4>2, <4>3, <4>4
    <3>. QED  BY <3>1, <3>2, <2>1
  <2>. QED  BY <2>3, <2>6
<1>3. S = Nat
  <2>. HIDE DEF S
  <2>1. S \subseteq Nat
    BY DEF S
  <2>. QED  BY <1>1, <1>2, <2>1, Induction
<1>. QED  BY <1>3

LEMMA BitwiseBits ==
  ASSUME NEW f \in [0 .. W - 1 -> BOOLEAN]
  PROVE  /\ Bitwise(f) \in Word(W)
         /\ \A i \in 0 .. W - 1 : Bit(Bitwise(f), i) <=> f[i]
BY Widths, WordOfBits DEF Bitwise

-----------------------------------------------------------------------------
(* Words and the numbers they stand for.                                    *)

\* Numbers with the same remainder differ by a multiple.
LEMMA Congruent ==
  ASSUME NEW M \in Nat, M > 0, NEW a \in Int, NEW c \in Int, a % M = c % M
  PROVE  \E k \in Int : a = c + M * k
<1>. DEFINE i == a \div M
            j == c \div M
            r == a % M
            s == c % M
<1>1. a = M * i + r /\ i \in Int /\ r \in 0 .. M - 1
  BY DivMod
<1>2. c = M * j + s /\ j \in Int /\ s \in 0 .. M - 1
  BY DivMod
<1>. HIDE DEF i, j
<1>3. r = s /\ r \in Int /\ M * (i - j) = M * i - M * j /\ M * i \in Int /\ M * j \in Int
  BY <1>1, <1>2
<1>. HIDE DEF r, s
<1>4. a = c + M * (i - j) /\ i - j \in Int
  BY <1>1, <1>2, <1>3
<1>. QED  BY <1>4

\* Remainders of sums, differences, products and remainders.
LEMMA SumMod ==
  ASSUME NEW M \in Nat, M > 0, NEW a \in Int, NEW b \in Int, NEW c \in Int, NEW d \in Int,
         a % M = c % M, b % M = d % M
  PROVE  (a + b) % M = (c + d) % M /\ (a - b) % M = (c - d) % M
<1>1. PICK k \in Int : a = c + M * k
  BY Congruent
<1>2. PICK l \in Int : b = d + M * l
  BY Congruent
<1>3. /\ M * (k + l) = M * k + M * l /\ M * (k - l) = M * k - M * l
      /\ M * k \in Int /\ M * l \in Int
  OBVIOUS
<1>4. a + b = (c + d) + M * (k + l) /\ a - b = (c - d) + M * (k - l)
  BY <1>1, <1>2, <1>3
<1>5. \A x \in Int, u \in Int : (x + M * u) % M = x % M
  BY SameRemainder
<1>6. c + d \in Int /\ c - d \in Int /\ k + l \in Int /\ k - l \in Int
  OBVIOUS
<1>. QED  BY <1>4, <1>5, <1>6

LEMMA TimesMod ==
  ASSUME NEW M \in Nat, M > 0, NEW a \in Int, NEW c \in Int
  PROVE  (a * c) % M = ((a % M) * c) % M
<1>. DEFINE k == a \div M
            r == a % M
            x == r * c
            u == k * c
<1>1. a = M * k + r /\ k \in Int /\ r \in Int
  BY DivMod
<1>. HIDE DEF k, r
<1>2. (M * k + r) * c = r * c + M * (k * c) /\ r * c \in Int /\ k * c \in Int
  BY <1>1
<1>3. (x + M * u) % M = x % M
  <2>1. x \in Int /\ u \in Int
    BY <1>2
  <2>. HIDE DEF x, u
  <2>. QED  BY <2>1, SameRemainder
<1>. QED  BY <1>1, <1>2, <1>3 DEF r

LEMMA ModMod ==
  ASSUME NEW M \in Nat, M > 0, NEW N \in Nat, N > 0, NEW a \in Int
  PROVE  (a % (M * N)) % M = a % M
<1>. DEFINE P == M * N
            k == a \div P
            r == a % P
            u == N * k
<1>1. P \in Nat /\ P > 0
  <2>1. M * 1 <= M * N
    BY TimesMono
  <2>. QED  BY <2>1
<1>. HIDE DEF P
<1>2. a = P * k + r /\ k \in Int /\ r \in Int
  BY <1>1, DivMod
<1>. HIDE DEF k, r
<1>3. P * k = M * (N * k) /\ u \in Int
  BY <1>2 DEF P
<1>4. (r + M * u) % M = r % M
  <2>. HIDE DEF u
  <2>. QED  BY <1>2, <1>3, SameRemainder
<1>5. a = r + M * u
  BY <1>2, <1>3
<1>. QED  BY <1>4, <1>5 DEF r, P

\* The signed value of the low w bits of a word.
LEMMA NumberIs ==
  ASSUME NEW w \in Nat \ {0}, NEW x \in Nat
  PROVE  /\ Number(x, w) \in -(2^(w - 1)) .. 2^(w - 1) - 1
         /\ Number(x, w) % 2^w = x % 2^w
         /\ Number(x, w) < 0 <=> Bit(x, w - 1)
         /\ Number(x, w) = (x % 2^w) - (IF Bit(x, w - 1) THEN 2^w ELSE 0)
<1>. DEFINE K == 2^(w - 1)
            M == 2^w
            low == x % M
            s == IF Bit(x, w - 1) THEN -1 ELSE 0
<1>1. K \in Nat /\ K > 0 /\ M = 2 * K /\ M \in Nat /\ M > 0 /\ w - 1 \in Nat
  <2>1. w - 1 \in Nat /\ (w - 1) + 1 = w
    OBVIOUS
  <2>. QED  BY <2>1, Power
<1>2. (Bit(x, w - 1) <=> Bit(low, w - 1)) /\ (Bit(x, w - 1) <=> low >= K)
  BY TopBit
<1>3. low \in 0 .. M - 1 /\ low % M = low
  <2>. HIDE DEF M
  <2>. QED  BY <1>1, DivMod
<1>4. Number(x, w) = low + M * s /\ Number(x, w) = low - (IF Bit(x, w - 1) THEN M ELSE 0)
  <2>1. Number(x, w) = IF Bit(low, w - 1) THEN low - M ELSE low
    BY DEF Number, Signed
  <2>. HIDE DEF M, low
  <2>. QED  BY <1>1, <1>2, <1>3, <2>1
<1>5. s \in Int
  OBVIOUS
<1>. HIDE DEF K, M, low, s
<1>6. (low + M * s) % M = low
  BY <1>1, <1>3, <1>5, SameRemainder
<1>7. Number(x, w) \in -K .. K - 1 /\ (Number(x, w) < 0 <=> Bit(x, w - 1))
  BY <1>1, <1>2, <1>3, <1>4
<1>. QED  BY <1>4, <1>6, <1>7 DEF K, M, low

\* A number of w bits is recovered from its word.
LEMMA NumberOf ==
  ASSUME NEW w \in Nat \ {0}, NEW v \in -(2^(w - 1)) .. 2^(w - 1) - 1
  PROVE  /\ v % 2^w \in Word(w) /\ v % 2^w \in Nat
         /\ Signed(v % 2^w, w) = v /\ Number(v % 2^w, w) = v
<1>. DEFINE K == 2^(w - 1)
            M == 2^w
            low == v % M
            q == v \div M
<1>1. K \in Nat /\ K > 0 /\ M = 2 * K /\ M \in Nat /\ M > 0 /\ w - 1 \in Nat
  <2>1. w - 1 \in Nat /\ (w - 1) + 1 = w
    OBVIOUS
  <2>. QED  BY <2>1, Power
<1>2. v \in Int /\ -K <= v /\ v < K
  BY <1>1
<1>3. low \in 0 .. M - 1 /\ v = M * q + low /\ q \in Int
  <2>. HIDE DEF M, K
  <2>. QED  BY <1>1, <1>2, DivMod
<1>4. low \in Word(w) /\ low % M = low /\ low \in Nat
  BY <1>1, <1>3 DEF Word
<1>5. Bit(low, w - 1) <=> low >= K
  BY <1>4, TopBit
<1>. HIDE DEF K, M, low, q
<1>6. q = IF v < 0 THEN -1 ELSE 0
  <2>1. q <= 0
    <3>1. CASE q >= 1
      <4>1. M * 1 <= M * q
        BY <1>1, <1>3, <3>1, TimesMono
      <4>. QED  BY <1>1, <1>2, <1>3, <4>1
    <3>. QED  BY <1>3, <3>1
  <2>2. q >= -1
    <3>1. CASE q <= -2
      <4>1. M * q <= M * (-2)
        BY <1>1, <1>3, <3>1, TimesMono
      <4>. QED  BY <1>1, <1>2, <1>3, <4>1
    <3>. QED  BY <1>3, <3>1
  <2>3. q = 0 \/ q = -1
    BY <1>3, <2>1, <2>2
  <2>. QED  BY <1>1, <1>2, <1>3, <2>3
<1>7. v = IF low >= K THEN low - M ELSE low
  BY <1>1, <1>2, <1>3, <1>6
<1>. QED  BY <1>4, <1>5, <1>7 DEF Number, Signed, low, M, K

-----------------------------------------------------------------------------
(* Shifts.                                                                  *)

LEMMA RightWord ==
  ASSUME NEW w \in Nat, NEW x \in Word(w), NEW s \in Nat
  PROVE  Right(x, s) \in Word(w)
<1>. DEFINE D == 2^s
            M == 2^w
            q == x \div D
            r == x % D
<1>1. D \in Nat /\ D > 0 /\ M \in Nat /\ x \in 0 .. M - 1
  BY Power DEF Word
<1>. HIDE DEF D, M
<1>2. x = D * q + r /\ q \in Nat /\ r \in 0 .. D - 1
  BY <1>1, DivMod
<1>. HIDE DEF q, r
<1>3. q <= D * q
  <2>1. q * 1 <= q * D
    BY <1>1, <1>2, TimesMono
  <2>. QED  BY <1>1, <1>2, <2>1
<1>4. q \in 0 .. M - 1
  <2>1. D * q \in Nat
    BY <1>1, <1>2
  <2>. QED  BY <1>1, <1>2, <1>3, <2>1
<1>. QED  BY <1>4 DEF Right, Word, M, q, D

\* An arithmetic shift rounds down.
LEMMA RightSextIs ==
  ASSUME NEW x \in Word(W), NEW s \in 0 .. W - 1
  PROVE  RightSext(x, s) = (Number(x, W) \div 2^s) % 2^W
<1>. DEFINE D == 2^s
            E == 2^(W - s)
            M == 2^W
            q == x \div D
            r == x % D
            e == IF Bit(x, W - 1) THEN E ELSE 0
            v == q - e
<1>1. /\ D \in Nat /\ D > 0 /\ E \in Nat /\ E > 0 /\ M = D * E /\ M \in Nat /\ M > 0
      /\ x \in 0 .. M - 1 /\ E <= M
  <2>1. W \in Nat /\ s \in Nat /\ W - s \in Nat /\ s + (W - s) = W /\ W - s <= W
    BY Widths
  <2>. QED  BY <2>1, Power, PowerAdd, PowerMono DEF Word
<1>2. Number(x, W) = x - (IF Bit(x, W - 1) THEN M ELSE 0)
  <2>1. x % M = x /\ x \in Nat /\ W \in Nat \ {0}
    BY Widths, Words
  <2>. QED  BY <2>1, NumberIs
<1>3. RightSext(x, s) = q + (IF Bit(x, W - 1) THEN M - E ELSE 0)
  BY DEF RightSext, Right
<1>. HIDE DEF D, E, M
<1>4. x = D * q + r /\ q \in Nat /\ r \in 0 .. D - 1
  BY <1>1, DivMod
<1>. HIDE DEF q, r
<1>5. q < E
  <2>1. CASE q >= E
    <3>1. D * E <= D * q
      BY <1>1, <1>4, <2>1, TimesMono
    <3>2. D * q \in Nat
      BY <1>1, <1>4
    <3>. QED  BY <1>1, <1>4, <3>1, <3>2
  <2>. QED  BY <1>1, <1>4, <2>1
<1>6. Number(x, W) = D * v + r /\ v \in Int
  <2>1. D * (q - E) = D * q - D * E /\ D * (q - 0) = D * q /\ D * q \in Int
    BY <1>1, <1>4
  <2>. QED  BY <1>1, <1>2, <1>4, <2>1
<1>7. Number(x, W) \div D = v
  <2>1. Number(x, W) \in Int
    BY <1>1, <1>2
  <2>. HIDE DEF v
  <2>. QED  BY <1>1, <1>4, <1>6, <2>1, DivModIs
<1>8. CASE Bit(x, W - 1)
  <2>1. v = M * (-1) + (v + M) /\ v + M \in 0 .. M - 1 /\ v + M = q + (M - E)
    BY <1>1, <1>4, <1>5, <1>8
  <2>2. v + M = v % M
    <3>. HIDE DEF v
    <3>. QED  BY <1>1, <1>6, <2>1, DivModIs
  <2>. QED  BY <1>3, <1>7, <1>8, <2>1, <2>2 DEF M, D
<1>9. CASE ~Bit(x, W - 1)
  <2>1. v = M * 0 + v /\ v \in 0 .. M - 1 /\ v = q
    BY <1>1, <1>4, <1>5, <1>9
  <2>2. v = v % M
    <3>. HIDE DEF v
    <3>. QED  BY <1>1, <1>6, <2>1, DivModIs
  <2>. QED  BY <1>3, <1>4, <1>7, <1>9, <2>1, <2>2 DEF M, D
<1>. QED  BY <1>8, <1>9

\* A signed number that is shifted right stays in its range.
LEMMA RoundedDown ==
  ASSUME NEW K \in Nat, K > 0, NEW v \in -K .. K - 1, NEW D \in Nat, D > 0
  PROVE  v \div D \in -K .. K - 1
<1>. DEFINE q == v \div D
            r == v % D
<1>1. v = D * q + r /\ q \in Int /\ r \in 0 .. D - 1
  BY DivMod
<1>. HIDE DEF q, r
<1>2. D * q \in Int /\ D * q <= v /\ v < D * q + D
  BY <1>1
<1>3. q < K
  <2>1. CASE q >= K
    <3>1. D * K <= D * q /\ K * 1 <= K * D
      BY <1>1, <2>1, TimesMono
    <3>. QED  BY <1>2, <3>1
  <2>. QED  BY <1>1, <2>1
<1>4. q >= -K
  <2>1. CASE q <= -K - 1
    <3>1. D * q <= D * (-K - 1) /\ K * 1 <= K * D
      BY <1>1, <2>1, TimesMono
    <3>2. D * (-K - 1) = -(K * D) - D /\ K * D \in Int
      OBVIOUS
    <3>. QED  BY <1>2, <3>1, <3>2
  <2>. QED  BY <1>1, <2>1
<1>. QED  BY <1>1, <1>3, <1>4 DEF q

\* The low half of a register, and its sign extension.
LEMMA Halves ==
  /\ H \in Nat \ {0} /\ W \in Nat \ {0} /\ 2^H \in Nat /\ 2^H > 0
  /\ 2^W \in Nat /\ 2^W > 0 /\ 2^W = 2^H * 2^H /\ 2^(H - 1) <= 2^(W - 1)
  /\ 2^(H - 1) \in Nat /\ 2^(H - 1) > 0 /\ 2^(W - 1) \in Nat
<1>1. H \in Nat \ {0} /\ W \in Nat \ {0} /\ W = H + H /\ H - 1 \in Nat /\ W - 1 \in Nat /\ H - 1 <= W - 1
  BY Widths
<1>. QED  BY <1>1, Power, PowerAdd, PowerMono

LEMMA LowOfNumber ==
  ASSUME NEW v \in -(2^(H - 1)) .. 2^(H - 1) - 1
  PROVE  Low(v % 2^W) = v % 2^W
<1>1. v \in Int
  BY Halves
<1>2. (v % 2^W) % 2^H = v % 2^H
  <2>1. \A M \in Nat : M > 0 => (v % (M * M)) % M = v % M
    BY <1>1, ModMod
  <2>. QED  BY <2>1, Halves
<1>3. Signed(v % 2^H, H) = v
  BY Halves, NumberOf
<1>. QED  BY <1>2, <1>3 DEF Low, Sext

\* The arithmetic shift of a half register.
LEMMA RightSext32 ==
  ASSUME NEW x \in Word(W), NEW s \in 0 .. H - 1
  PROVE  Low(RightSext(Low(x), s)) = (Number(x, H) \div 2^s) % 2^W
<1>. DEFINE n == Number(x, H)
            d == n \div 2^s
<1>1. x \in Nat /\ s \in 0 .. W - 1 /\ s \in Nat /\ 2^s \in Nat /\ 2^s > 0
  <2>1. s \in 0 .. W - 1 /\ s \in Nat
    BY Widths
  <2>2. x \in Nat
    BY Widths, Words
  <2>. QED  BY <2>1, <2>2, Power
<1>2. n \in -(2^(H - 1)) .. 2^(H - 1) - 1
  BY <1>1, Halves, NumberIs
<1>3. Low(x) = n % 2^W
  BY DEF Low, Sext, Number
<1>. HIDE DEF n
<1>4. n \in -(2^(W - 1)) .. 2^(W - 1) - 1
  BY <1>2, Halves
<1>5. n % 2^W \in Word(W) /\ Number(n % 2^W, W) = n
  BY <1>4, Halves, NumberOf
<1>6. RightSext(n % 2^W, s) = d % 2^W
  BY <1>1, <1>5, RightSextIs
<1>7. d \in -(2^(H - 1)) .. 2^(H - 1) - 1
  BY <1>1, <1>2, Halves, RoundedDown
<1>. HIDE DEF d
<1>8. Low(d % 2^W) = d % 2^W
  BY <1>7, LowOfNumber
<1>. QED  BY <1>3, <1>6, <1>8 DEF n, d

\* The other shifts of a half register.
LEMMA Left32 ==
  ASSUME NEW x \in Word(W), NEW s \in Nat
  PROVE  Low(Left(x, s)) = Sext(((x % 2^H) * 2^s) % 2^H)
<1>. DEFINE y == x * 2^s
<1>1. x \in Int /\ 2^s \in Int /\ y \in Int
  BY Words, Power, Widths
<1>2. (y % (2^H * 2^H)) % 2^H = y % 2^H
  <2>. HIDE DEF y
  <2>. QED  BY <1>1, Halves, ModMod
<1>3. y % 2^H = ((x % 2^H) * 2^s) % 2^H
  BY <1>1, Halves, TimesMod
<1>4. Low(Left(x, s)) = Sext((y % 2^W) % 2^H)
  BY DEF Low, Left
<1>. HIDE DEF y
<1>. QED  BY <1>2, <1>3, <1>4, Halves

LEMMA Right32 ==
  ASSUME NEW x \in Word(W), NEW s \in Nat
  PROVE  Low(Right(x % 2^H, s)) = Sext((x % 2^H) \div 2^s)
<1>1. x \in Int
  BY Words, Widths
<1>2. x % 2^H \in Word(H)
  BY <1>1, Words, Halves
<1>3. Right(x % 2^H, s) \in Word(H)
  BY <1>2, Halves, RightWord
<1>4. Right(x % 2^H, s) % 2^H = Right(x % 2^H, s)
  BY <1>3, Words, Halves
<1>. QED  BY <1>4 DEF Low, Right

-----------------------------------------------------------------------------
(* The instructions.                                                        *)

Fields == {"rs1", "rs2", "imm", "pc", "csrs"}

\* The second operand.
Second(BSel, o) == IF BSel THEN o.imm ELSE o.rs2

LEMMA Amounts ==
  ASSUME NEW y \in Word(W)
  PROVE  /\ y \in Nat /\ y % W \in 0 .. W - 1 /\ y % H \in 0 .. H - 1
         /\ y % W \in Nat /\ y % H \in Nat
<1>1. y \in Nat
  BY Widths, Words
<1>. QED  BY <1>1, Widths

\* Sums and differences.
LEMMA SumsRight ==
  ASSUME NEW x \in Word(W), NEW y \in Word(W)
  PROVE  /\ (Number(x, W) + Number(y, W)) % 2^W = (x + y) % 2^W
         /\ (Number(x, W) - Number(y, W)) % 2^W = (x - y) % 2^W
         /\ Sext((Number(x, H) + Number(y, H)) % 2^H) = Low(x + y)
         /\ Sext((Number(x, H) - Number(y, H)) % 2^H) = Low(x - y)
<1>1. x \in Nat /\ y \in Nat
  BY Widths, Words
<1>2. ASSUME NEW w \in Nat \ {0}
      PROVE  /\ (Number(x, w) + Number(y, w)) % 2^w = (x + y) % 2^w
             /\ (Number(x, w) - Number(y, w)) % 2^w = (x - y) % 2^w
  <2>1. 2^w \in Nat /\ 2^w > 0 /\ 2^(w - 1) \in Nat
    <3>1. w - 1 \in Nat
      OBVIOUS
    <3>. QED  BY <3>1, Power
  <2>2. Number(x, w) % 2^w = x % 2^w /\ Number(y, w) % 2^w = y % 2^w
    BY <1>1, NumberIs
  <2>3. Number(x, w) \in Int /\ Number(y, w) \in Int
    BY <1>1, <2>1, NumberIs
  <2>. DEFINE M == 2^w
              n == Number(x, w)
              m == Number(y, w)
  <2>. HIDE DEF M, n, m
  <2>4. /\ M \in Nat /\ M > 0 /\ n \in Int /\ m \in Int /\ x \in Int /\ y \in Int
        /\ n % M = x % M /\ m % M = y % M
    BY <1>1, <2>1, <2>2, <2>3 DEF M, n, m
  <2>5. (n + m) % M = (x + y) % M /\ (n - m) % M = (x - y) % M
    BY <2>4, SumMod
  <2>. QED  BY <2>5 DEF M, n, m
<1>. QED  BY <1>2, Halves DEF Low

\* The comparison of signed words is that of their numbers.
LEMMA ComparedRight ==
  ASSUME NEW x \in Word(W), NEW y \in Word(W)
  PROVE  /\ BrLT(FALSE, x, y) <=> Number(x, W) < Number(y, W)
         /\ BrLT(TRUE, x, y) <=> x < y
<1>1. x % 2^W = x /\ y % 2^W = y
  BY Widths, Words
<1>. QED  BY <1>1 DEF BrLT, Number

\* Instructions that are numbers.
LEMMA NumbersRight ==
  ASSUME NEW o \in [Fields -> Word(W)], NEW BSel \in BOOLEAN,
         NEW op \in {"add", "sub", "addw", "subw", "sll", "srl", "sra", "sllw", "srlw", "sraw"}
  PROVE  alu_result(op, BSel, o) = Meaning(op, BSel, o)
<1>. DEFINE x == o.rs1
            y == Second(BSel, o)
<1>1. x \in Word(W) /\ y \in Word(W)
  BY DEF Fields, Second
<1>2. alu_result(op, BSel, o) = alu(ALUSel[op], x, y)
  BY DEF alu_result, csra, csrb, ASel, SltEn, Second
<1>3. /\ y % W \in 0 .. W - 1 /\ y % H \in 0 .. H - 1 /\ y % W \in Nat /\ y % H \in Nat
  BY <1>1, Amounts
<1>4. CASE op = "add"
  <2>1. alu(ALUSel[op], x, y) = (x + y) % 2^W
    BY <1>4 DEF ALUSel, alu
  <2>2. Meaning(op, BSel, o) = (Number(x, W) + Number(y, W)) % 2^W
    BY <1>4 DEF Meaning, Second
  <2>. QED  BY <1>1, <1>2, <2>1, <2>2, SumsRight
<1>5. CASE op = "sub"
  <2>1. alu(ALUSel[op], x, y) = (x - y) % 2^W
    BY <1>5 DEF ALUSel, alu
  <2>2. Meaning(op, BSel, o) = (Number(x, W) - Number(y, W)) % 2^W
    BY <1>5 DEF Meaning, Second
  <2>. QED  BY <1>1, <1>2, <2>1, <2>2, SumsRight
<1>6. CASE op = "addw"
  <2>1. alu(ALUSel[op], x, y) = Low(x + y)
    BY <1>6 DEF ALUSel, alu
  <2>2. Meaning(op, BSel, o) = Sext((Number(x, H) + Number(y, H)) % 2^H)
    BY <1>6 DEF Meaning, Second
  <2>. QED  BY <1>1, <1>2, <2>1, <2>2, SumsRight
<1>7. CASE op = "subw"
  <2>1. alu(ALUSel[op], x, y) = Low(x - y)
    BY <1>7 DEF ALUSel, alu
  <2>2. Meaning(op, BSel, o) = Sext((Number(x, H) - Number(y, H)) % 2^H)
    BY <1>7 DEF Meaning, Second
  <2>. QED  BY <1>1, <1>2, <2>1, <2>2, SumsRight
<1>8. CASE op = "sll"
  <2>1. alu(ALUSel[op], x, y) = Left(x, y % W)
    BY <1>8 DEF ALUSel, alu
  <2>2. Meaning(op, BSel, o) = (x * 2^(y % W)) % 2^W
    BY <1>8 DEF Meaning, Second
  <2>. QED  BY <1>2, <2>1, <2>2 DEF Left
<1>9. CASE op = "srl"
  <2>1. alu(ALUSel[op], x, y) = Right(x, y % W)
    BY <1>9 DEF ALUSel, alu
  <2>2. Meaning(op, BSel, o) = x \div 2^(y % W)
    BY <1>9 DEF Meaning, Second
  <2>. QED  BY <1>2, <2>1, <2>2 DEF Right
<1>10. CASE op = "sra"
  <2>1. alu(ALUSel[op], x, y) = RightSext(x, y % W)
    BY <1>10 DEF ALUSel, alu
  <2>2. Meaning(op, BSel, o) = (Number(x, W) \div 2^(y % W)) % 2^W
    BY <1>10 DEF Meaning, Second
  <2>. QED  BY <1>1, <1>2, <1>3, <2>1, <2>2, RightSextIs
<1>11. CASE op = "sllw"
  <2>1. alu(ALUSel[op], x, y) = Low(Left(x, y % H))
    BY <1>11 DEF ALUSel, alu
  <2>2. Meaning(op, BSel, o) = Sext(((x % 2^H) * 2^(y % H)) % 2^H)
    BY <1>11 DEF Meaning, Second
  <2>. QED  BY <1>1, <1>2, <1>3, <2>1, <2>2, Left32
<1>12. CASE op = "srlw"
  <2>1. alu(ALUSel[op], x, y) = Low(Right(x % 2^H, y % H))
    BY <1>12 DEF ALUSel, alu
  <2>2. Meaning(op, BSel, o) = Sext((x % 2^H) \div 2^(y % H))
    BY <1>12 DEF Meaning, Second
  <2>. QED  BY <1>1, <1>2, <1>3, <2>1, <2>2, Right32
<1>13. CASE op = "sraw"
  <2>1. alu(ALUSel[op], x, y) = Low(RightSext(Low(x), y % H))
    BY <1>13 DEF ALUSel, alu
  <2>2. Meaning(op, BSel, o) = (Number(x, H) \div 2^(y % H)) % 2^W
    BY <1>13 DEF Meaning, Second
  <2>. QED  BY <1>1, <1>2, <1>3, <2>1, <2>2, RightSext32
<1>. QED  BY <1>4, <1>5, <1>6, <1>7, <1>8, <1>9, <1>10, <1>11, <1>12, <1>13

\* Instructions that choose among their operands.
LEMMA ChoicesRight ==
  ASSUME NEW o \in [Fields -> Word(W)], NEW BSel \in BOOLEAN,
         NEW op \in {"slt", "sltu", "lui", "auipc", "jal", "jalr", "csrrw", "csrrwi"}
  PROVE  alu_result(op, BSel, o) = Meaning(op, BSel, o)
<1>. DEFINE x == o.rs1
            y == Second(BSel, o)
<1>1. x \in Word(W) /\ y \in Word(W)
  BY DEF Fields, Second
<1>2. CASE op \in {"slt", "sltu"}
  <2>1. alu_result(op, BSel, o) = IF BrLT(op = "sltu", x, y) THEN 1 ELSE 0
    BY <1>2 DEF alu_result, alu, ALUSel, csra, csrb, ASel, SltEn, Second
  <2>2. op = "slt" => Meaning(op, BSel, o) = IF Number(x, W) < Number(y, W) THEN 1 ELSE 0
    BY DEF Meaning, Second
  <2>3. op = "sltu" => Meaning(op, BSel, o) = IF x < y THEN 1 ELSE 0
    BY DEF Meaning, Second
  <2>4. CASE op = "slt"
    <3>1. (op = "sltu") = FALSE
      BY <2>4
    <3>. QED  BY <1>1, <2>1, <2>2, <2>4, <3>1, ComparedRight
  <2>5. CASE op = "sltu"
    <3>1. (op = "sltu") = TRUE
      BY <2>5
    <3>. QED  BY <1>1, <2>1, <2>3, <2>5, <3>1, ComparedRight
  <2>. QED  BY <1>2, <2>4, <2>5
<1>3. CASE op \in {"lui", "csrrw", "csrrwi"}
  BY <1>3 DEF alu_result, alu, ALUSel, csra, csrb, ASel, SltEn, Meaning
<1>4. CASE op \in {"auipc", "jal", "jalr"}
  BY <1>4 DEF alu_result, alu, ALUSel, csra, csrb, ASel, SltEn, Meaning
<1>. QED  BY <1>2, <1>3, <1>4

\* Instructions that work on each bit by itself.
LEMMA BitsRight ==
  ASSUME NEW o \in [Fields -> Word(W)], NEW BSel \in BOOLEAN,
         NEW op \in {"xor", "or", "and", "csrrs", "csrrsi", "csrrc", "csrrci"}
  PROVE  Ones(alu_result(op, BSel, o)) = MeaningBits(op, BSel, o)
<1>. DEFINE P == 0 .. W - 1
<1>0. PICK y : y = Second(BSel, o)
  OBVIOUS
<1>1. ASSUME NEW f \in [P -> BOOLEAN] PROVE Ones(Bitwise(f)) = {i \in P : f[i]}
  BY BitwiseBits DEF Ones
<1>2. ASSUME NEW a, NEW b
      PROVE  /\ Ones(alu("XOR", a, b)) = (Ones(a) \cup Ones(b)) \ (Ones(a) \cap Ones(b))
             /\ Ones(alu("OR", a, b)) = Ones(a) \cup Ones(b)
             /\ Ones(alu("AND", a, b)) = Ones(a) \cap Ones(b)
             /\ Ones(alu("AND_REV", a, b)) = Ones(a) \ Ones(b)
             /\ Ones(alu("REV_AND", a, b)) = Ones(b) \ Ones(a)
  <2>. DEFINE f == [i \in P |-> Bit(a, i) # Bit(b, i)]
              g == [i \in P |-> Bit(a, i) \/ Bit(b, i)]
              h == [i \in P |-> Bit(a, i) /\ Bit(b, i)]
              k == [i \in P |-> Bit(a, i) /\ ~Bit(b, i)]
              l == [i \in P |-> ~Bit(a, i) /\ Bit(b, i)]
  <2>1. /\ alu("XOR", a, b) = Bitwise(f) /\ alu("OR", a, b) = Bitwise(g)
        /\ alu("AND", a, b) = Bitwise(h) /\ alu("AND_REV", a, b) = Bitwise(k)
        /\ alu("REV_AND", a, b) = Bitwise(l)
    BY DEF alu
  <2>2. /\ f \in [P -> BOOLEAN] /\ g \in [P -> BOOLEAN] /\ h \in [P -> BOOLEAN]
        /\ k \in [P -> BOOLEAN] /\ l \in [P -> BOOLEAN]
    BY DEF Bit
  <2>3. /\ {i \in P : f[i]} = (Ones(a) \cup Ones(b)) \ (Ones(a) \cap Ones(b))
        /\ {i \in P : g[i]} = Ones(a) \cup Ones(b) /\ {i \in P : h[i]} = Ones(a) \cap Ones(b)
        /\ {i \in P : k[i]} = Ones(a) \ Ones(b) /\ {i \in P : l[i]} = Ones(b) \ Ones(a)
    BY DEF Ones, Bit
  <2>. HIDE DEF f, g, h, k, l
  <2>. QED  BY <1>1, <2>1, <2>2, <2>3
<1>3. CASE op \in {"xor", "or", "and"}
  <2>1. alu_result(op, BSel, o) = alu(ALUSel[op], o.rs1, y)
    BY <1>0, <1>3 DEF alu_result, csra, csrb, ASel, SltEn, Second
  <2>2. /\ op = "xor" => ALUSel[op] = "XOR" /\ MeaningBits(op, BSel, o)
                            = (Ones(o.rs1) \cup Ones(y)) \ (Ones(o.rs1) \cap Ones(y))
        /\ op = "or" => ALUSel[op] = "OR" /\ MeaningBits(op, BSel, o) = Ones(o.rs1) \cup Ones(y)
        /\ op = "and" => ALUSel[op] = "AND" /\ MeaningBits(op, BSel, o) = Ones(o.rs1) \cap Ones(y)
    BY <1>0 DEF ALUSel, MeaningBits, csra, csrb, Second
  <2>3. CASE op = "xor"
    BY <1>2, <2>1, <2>2, <2>3
  <2>4. CASE op = "or"
    <3>1. alu_result(op, BSel, o) = alu("OR", o.rs1, y)
      BY <2>1, <2>2, <2>4
    <3>2. Ones(alu("OR", o.rs1, y)) = Ones(o.rs1) \cup Ones(y)
      BY <1>2
    <3>. QED  BY <2>2, <2>4, <3>1, <3>2
  <2>5. CASE op = "and"
    <3>1. alu_result(op, BSel, o) = alu("AND", o.rs1, y)
      BY <2>1, <2>2, <2>5
    <3>2. Ones(alu("AND", o.rs1, y)) = Ones(o.rs1) \cap Ones(y)
      BY <1>2
    <3>. QED  BY <2>2, <2>5, <3>1, <3>2
  <2>. QED  BY <1>3, <2>3, <2>4, <2>5
<1>4. CASE op \in {"csrrs", "csrrc"}
  <2>1. alu_result(op, BSel, o) = alu(ALUSel[op], o.rs1, o.csrs)
    BY <1>4 DEF alu_result, csra, csrb, ASel, SltEn
  <2>2. /\ op = "csrrs" => ALUSel[op] = "OR" /\ MeaningBits(op, BSel, o) = Ones(o.csrs) \cup Ones(o.rs1)
        /\ op = "csrrc" => ALUSel[op] = "REV_AND" /\ MeaningBits(op, BSel, o) = Ones(o.csrs) \ Ones(o.rs1)
    BY DEF ALUSel, MeaningBits, csra, csrb
  <2>. QED  BY <1>2, <1>4, <2>1, <2>2
<1>5. CASE op \in {"csrrsi", "csrrci"}
  <2>1. alu_result(op, BSel, o) = alu(ALUSel[op], o.csrs, y)
    BY <1>0, <1>5 DEF alu_result, csra, csrb, ASel, SltEn, Second
  <2>2. /\ op = "csrrsi" => ALUSel[op] = "OR" /\ MeaningBits(op, BSel, o) = Ones(o.csrs) \cup Ones(y)
        /\ op = "csrrci" => ALUSel[op] = "AND_REV" /\ MeaningBits(op, BSel, o) = Ones(o.csrs) \ Ones(y)
    BY <1>0 DEF ALUSel, MeaningBits, csra, csrb, Second
  <2>3. CASE op = "csrrsi"
    <3>1. alu_result(op, BSel, o) = alu("OR", o.csrs, y)
      BY <2>1, <2>2, <2>3
    <3>2. Ones(alu("OR", o.csrs, y)) = Ones(o.csrs) \cup Ones(y)
      BY <1>2
    <3>. QED  BY <2>2, <2>3, <3>1, <3>2
  <2>4. CASE op = "csrrci"
    <3>1. alu_result(op, BSel, o) = alu("AND_REV", o.csrs, y)
      BY <2>1, <2>2, <2>4
    <3>2. Ones(alu("AND_REV", o.csrs, y)) = Ones(o.csrs) \ Ones(y)
      BY <1>2
    <3>. QED  BY <2>2, <2>4, <3>1, <3>2
  <2>. QED  BY <1>5, <2>3, <2>4
<1>. QED  BY <1>3, <1>4, <1>5

LEMMA BranchesRight ==
  ASSUME NEW x \in Word(W), NEW y \in Word(W)
  PROVE  /\ Branch("beq", x, y) = (x = y) /\ Branch("bne", x, y) = (x # y)
         /\ Branch("blt", x, y) = (Number(x, W) < Number(y, W))
         /\ Branch("bge", x, y) = (Number(x, W) >= Number(y, W))
         /\ Branch("bltu", x, y) = (x < y) /\ Branch("bgeu", x, y) = (x >= y)
<1>. DEFINE a == Number(x, W)
            b == Number(y, W)
<1>1. x \in Nat /\ y \in Nat /\ a \in Int /\ b \in Int
  <2>1. x \in Nat /\ y \in Nat
    BY Widths, Words
  <2>. QED  BY <2>1, Halves, NumberIs
<1>2. Signed(x, W) = a /\ Signed(y, W) = b
  <2>1. x % 2^W = x /\ y % 2^W = y
    BY Widths, Words
  <2>. QED  BY <2>1 DEF Number
<1>. HIDE DEF a, b
<1>3. /\ Branch("beq", x, y) = ((x = y) = TRUE) /\ Branch("bne", x, y) = ((x = y) = FALSE)
      /\ Branch("blt", x, y) = ((a < b) = TRUE) /\ Branch("bge", x, y) = ((a < b) = FALSE)
      /\ Branch("bltu", x, y) = ((x < y) = TRUE) /\ Branch("bgeu", x, y) = ((x < y) = FALSE)
  BY <1>2 DEF Branch, Branches, BrLT
<1>4. (a >= b <=> ~(a < b)) /\ (x >= y <=> ~(x < y))
  BY <1>1
<1>. QED  BY <1>3, <1>4 DEF a, b

LEMMA AllRight == ComputesRight
<1>. SUFFICES ASSUME NEW o \in [Fields -> Operands]
              PROVE  /\ \A op \in Register : Agrees(op, FALSE, o)
                     /\ \A op \in Immediate : Agrees(op, TRUE, o)
                     /\ LET x == o.rs1
                            y == o.rs2
                        IN  /\ Branch("beq", x, y) = (x = y) /\ Branch("bne", x, y) = (x # y)
                            /\ Branch("blt", x, y) = (Number(x, W) < Number(y, W))
                            /\ Branch("bge", x, y) = (Number(x, W) >= Number(y, W))
                            /\ Branch("bltu", x, y) = (x < y) /\ Branch("bgeu", x, y) = (x >= y)
  BY DEF ComputesRight, Fields
<1>. DEFINE ByBits == {"xor", "or", "and", "csrrs", "csrrsi", "csrrc", "csrrci"}
            Counted == {"add", "sub", "addw", "subw", "sll", "srl", "sra", "sllw", "srlw", "sraw"}
            Chosen == {"slt", "sltu", "lui", "auipc", "jal", "jalr", "csrrw", "csrrwi"}
<1>1. o \in [Fields -> Word(W)] /\ o.rs1 \in Word(W) /\ o.rs2 \in Word(W)
  BY OperandsAssumption DEF Fields
<1>2. Register \cup Immediate \subseteq ByBits \cup Counted \cup Chosen
  BY DEF Register, Immediate, ALUSel, csra
<1>3. ASSUME NEW op \in ByBits \cup Counted \cup Chosen, NEW BSel \in BOOLEAN
      PROVE  Agrees(op, BSel, o)
  <2>1. CASE op \in ByBits
    BY <1>1, <2>1, BitsRight DEF Agrees
  <2>2. CASE op \in Counted
    BY <1>1, <2>2, NumbersRight DEF Agrees
  <2>3. CASE op \in Chosen
    BY <1>1, <2>3, ChoicesRight DEF Agrees
  <2>. QED  BY <2>1, <2>2, <2>3
<1>. HIDE DEF ByBits, Counted, Chosen
<1>4. (\A op \in Register : Agrees(op, FALSE, o)) /\ (\A op \in Immediate : Agrees(op, TRUE, o))
  BY <1>2, <1>3
<1>. QED  BY <1>1, <1>4, BranchesRight

\* Every one-cycle instruction computes what the RISC-V manual says, and every
\* branch decides so, of any operands in registers of any width.
THEOREM OneCycleRight == Spec => []AluRight
<1>1. ComputesRight => AluRight
  BY DEF AluRight
<1>. QED  BY <1>1, AllRight, PTL
=============================================================================

---------------------------- MODULE ExecuteProofs ----------------------------
(***************************************************************************)
(* Proofs about Execute, for registers of any width and any operands: what  *)
(* the divider's registers hold after each of its steps, and what follows   *)
(* for the results.                                                        *)
(***************************************************************************)
EXTENDS Execute, FiniteSetTheorems, TLAPS

-----------------------------------------------------------------------------
(* Products, quotients and powers.                                          *)

LEMMA TimesMono ==
  ASSUME NEW y \in Nat, NEW a \in Int, NEW b \in Int, a <= b
  PROVE  y * a <= y * b
<1>1. y * (b - a) >= 0 /\ y * (b - a) = y * b - y * a
  OBVIOUS
<1>2. y * a \in Int /\ y * b \in Int
  OBVIOUS
<1>. QED  BY <1>1, <1>2

\* A number has one quotient and one remainder.
LEMMA DivMod ==
  ASSUME NEW x \in Int, NEW y \in Nat, y > 0
  PROVE  /\ x = y * (x \div y) + (x % y)
         /\ x % y \in 0 .. y - 1 /\ x \div y \in Int
         /\ x >= 0 => x \div y \in Nat
OBVIOUS

LEMMA DivModIs ==
  ASSUME NEW x \in Int, NEW y \in Nat, y > 0,
         NEW q \in Int, NEW r \in 0 .. y - 1, x = y * q + r
  PROVE  q = x \div y /\ r = x % y
<1>. DEFINE d == x \div y
            m == x % y
<1>1. x = y * d + m /\ d \in Int /\ m \in 0 .. y - 1
  BY DivMod
<1>. HIDE DEF d, m
<1>2. ASSUME NEW a \in Int, NEW b \in Int, NEW s \in 0 .. y - 1, NEW t \in 0 .. y - 1,
             y * a + s = y * b + t
      PROVE  a <= b
  <2>1. CASE a >= b + 1
    <3>1. y * (b + 1) <= y * a
      BY <2>1, TimesMono
    <3>2. y * (b + 1) = y * b + y
      OBVIOUS
    <3>. QED  BY <1>2, <3>1, <3>2
  <2>. QED  BY <2>1
<1>3. q = d
  <2>1. q <= d /\ d <= q
    BY <1>1, <1>2
  <2>. QED  BY <1>1, <2>1
<1>. QED  BY <1>1, <1>3 DEF d, m

\* Subsets of disjoint sets come in pairs, so that powers of two multiply.
LEMMA PowerAdd ==
  ASSUME NEW m \in Nat, NEW n \in Nat
  PROVE  2^(m + n) = 2^m * 2^n /\ 2^m \in Nat
<1>. DEFINE A == 1 .. m
            B == m + 1 .. m + n
            f == [c \in (SUBSET A) \X (SUBSET B) |-> c[1] \cup c[2]]
<1>1. /\ IsFiniteSet(A) /\ Cardinality(A) = m /\ IsFiniteSet(B) /\ Cardinality(B) = n
  BY FS_Interval
<1>2. /\ IsFiniteSet(SUBSET A) /\ Cardinality(SUBSET A) = 2^m
      /\ IsFiniteSet(SUBSET B) /\ Cardinality(SUBSET B) = 2^n
  BY <1>1, FS_SUBSET
<1>3. /\ IsFiniteSet((SUBSET A) \X (SUBSET B))
      /\ Cardinality((SUBSET A) \X (SUBSET B)) = 2^m * 2^n
  BY <1>2, FS_Product
<1>4. IsFiniteSet(A \cup B) /\ Cardinality(A \cup B) = m + n
  <2>1. A \cup B = 1 .. m + n
    BY SMT
  <2>. DEFINE k == m + n
  <2>2. k \in Nat
    OBVIOUS
  <2>. HIDE DEF k
  <2>3. IsFiniteSet(1 .. k) /\ Cardinality(1 .. k) = k
    BY <2>2, FS_Interval
  <2>. QED  BY <2>1, <2>3 DEF k
<1>5. ExistsBijection((SUBSET A) \X (SUBSET B), SUBSET (A \cup B))
  <2>1. A \cap B = {}
    OBVIOUS
  <2>. HIDE DEF A, B
  <2>2. f \in [(SUBSET A) \X (SUBSET B) -> SUBSET (A \cup B)]
    OBVIOUS
  <2>3. ASSUME NEW c \in (SUBSET A) \X (SUBSET B), NEW d \in (SUBSET A) \X (SUBSET B),
               f[c] = f[d]
        PROVE  c = d
    <3>1. \A e \in (SUBSET A) \X (SUBSET B) :
            e[1] = (e[1] \cup e[2]) \cap A /\ e[2] = (e[1] \cup e[2]) \cap B
      BY <2>1
    <3>2. c[1] = d[1] /\ c[2] = d[2]
      BY <2>3, <3>1
    <3>. QED  BY <3>2
  <2>4. ASSUME NEW S \in SUBSET (A \cup B)
        PROVE  \E c \in (SUBSET A) \X (SUBSET B) : f[c] = S
    <3>. DEFINE c == <<S \cap A, S \cap B>>
    <3>1. c \in (SUBSET A) \X (SUBSET B)
      OBVIOUS
    <3>2. f[c] = S
      BY <3>1
    <3>. QED  BY <3>1, <3>2
  <2>. QED
    <3>1. \A c, d \in (SUBSET A) \X (SUBSET B) : f[c] = f[d] => c = d
      BY <2>3
    <3>2. \A S \in SUBSET (A \cup B) : \E c \in (SUBSET A) \X (SUBSET B) : f[c] = S
      BY <2>4
    <3>. HIDE DEF f
    <3>3. f \in Injection((SUBSET A) \X (SUBSET B), SUBSET (A \cup B))
      BY <2>2, <3>1 DEF Injection, IsInjective
    <3>4. f \in Surjection((SUBSET A) \X (SUBSET B), SUBSET (A \cup B))
      BY <2>2, <3>2 DEF Surjection
    <3>. QED  BY <3>3, <3>4 DEF ExistsBijection, Bijection
<1>6. Cardinality(SUBSET (A \cup B)) = 2^m * 2^n
  BY <1>3, <1>5, FS_Bijection
<1>7. Cardinality(SUBSET (A \cup B)) = 2^(m + n)
  BY <1>4, FS_SUBSET
<1>8. 2^m \in Nat
  BY <1>2, FS_CardinalityType
<1>. QED  BY <1>6, <1>7, <1>8

LEMMA Power ==
  ASSUME NEW n \in Nat
  PROVE  /\ 2^n \in Nat /\ 2^n > 0 /\ 2^(n + 1) = 2 * 2^n
         /\ 2^0 = 1 /\ 2^1 = 2
<1>1. 2^0 = 1 /\ 2^1 = 2
  OBVIOUS
<1>2. 2^n \in Nat /\ 2^(n + 1) = 2^n * 2^1
  BY PowerAdd
<1>3. 2^n > 0
  <2>1. IsFiniteSet(1 .. n) /\ Cardinality(1 .. n) = n
    BY FS_Interval
  <2>2. IsFiniteSet(SUBSET (1 .. n)) /\ Cardinality(SUBSET (1 .. n)) = 2^n
    BY <2>1, FS_SUBSET
  <2>3. SUBSET (1 .. n) # {}
    OBVIOUS
  <2>4. Cardinality(SUBSET (1 .. n)) # 0
    BY <2>2, <2>3, FS_EmptySet
  <2>. QED  BY <1>2, <2>2, <2>4
<1>. QED  BY <1>1, <1>2, <1>3

LEMMA PowerMono ==
  ASSUME NEW m \in Nat, NEW n \in Nat, m <= n
  PROVE  2^m <= 2^n
<1>1. n - m \in Nat /\ m + (n - m) = n
  OBVIOUS
<1>2. 2^n = 2^m * 2^(n - m)
  BY <1>1, PowerAdd
<1>3. 2^m \in Nat /\ 2^(n - m) \in Nat /\ 1 <= 2^(n - m)
  BY <1>1, Power
<1>4. 2^m * 1 <= 2^m * 2^(n - m)
  BY <1>3, TimesMono
<1>. QED  BY <1>2, <1>3, <1>4

-----------------------------------------------------------------------------
(* Words.                                                                   *)

LEMMA Widths ==
  /\ Q \in Nat \ {0} /\ H \in Nat \ {0} /\ W \in Nat \ {0}
  /\ H = 2 * Q /\ W = 2 * H /\ Q < H /\ H < W /\ DIV_DELAY = W + 1
BY WidthAssumption DEF H, W, DIV_DELAY

LEMMA Words ==
  ASSUME NEW w \in Nat
  PROVE  /\ 2^w \in Nat /\ 2^w > 0 /\ Word(w) \subseteq Nat /\ 0 \in Word(w)
         /\ \A x \in Int : x % 2^w \in Word(w)
         /\ \A x \in Word(w) : x % 2^w = x /\ x < 2^w
         /\ \A v \in Nat : v <= w => Word(v) \subseteq Word(w)
<1>1. 2^w \in Nat /\ 2^w > 0
  BY Power
<1>2. Word(w) = 0 .. 2^w - 1
  BY DEF Word
<1>3. ASSUME NEW v \in Nat, v <= w PROVE Word(v) \subseteq Word(w)
  <2>1. 2^v \in Nat /\ 2^v <= 2^w
    BY <1>3, Power, PowerMono
  <2>2. Word(v) = 0 .. 2^v - 1
    BY DEF Word
  <2>. QED  BY <1>1, <1>2, <2>1, <2>2
<1>. DEFINE M == 2^w
<1>4. M \in Nat /\ M > 0 /\ Word(w) = 0 .. M - 1
  BY <1>1, <1>2
<1>. HIDE DEF M
<1>5. /\ Word(w) \subseteq Nat /\ 0 \in Word(w)
      /\ \A x \in Int : x % M \in Word(w)
      /\ \A x \in Word(w) : x % M = x /\ x < M
  BY <1>4
<1>. QED  BY <1>3, <1>4, <1>5 DEF M

LEMMA BitsWord ==
  ASSUME NEW x \in Nat, NEW i \in Nat, NEW w \in Nat
  PROVE  Bits(x, i, w) \in Word(w)
<1>1. x \div 2^i \in Int
  BY Power, DivMod
<1>. QED  BY <1>1, Words DEF Bits

LEMMA NegateWord ==
  ASSUME NEW x \in Int, NEW w \in Nat
  PROVE  Negate(x, w) \in Word(w)
<1>1. 2^w - x \in Int
  BY Power
<1>. QED  BY <1>1, Words DEF Negate

LEMMA SextWord ==
  ASSUME NEW x \in Int
  PROVE  Sext(x) \in Word(W)
<1>1. Signed(x, H) \in Int
  BY Widths, Power DEF Signed
<1>. QED  BY <1>1, Widths, Words DEF Sext

\* One step of the division, with M for the top bit of a register.
LEMMA Shifted ==
  ASSUME NEW M \in Nat, M > 0, NEW lo \in 0 .. 2 * M - 1
  PROVE  /\ lo \div M \in {0, 1}
         /\ (2 * lo) % (2 * M) = 2 * (lo % M)
         /\ lo % M \in 0 .. M - 1 /\ lo = M * (lo \div M) + (lo % M)
<1>. DEFINE t == lo \div M
            r == lo % M
<1>1. lo = M * t + r /\ t \in Int /\ r \in 0 .. M - 1
  BY DivMod
<1>. HIDE DEF t, r
<1>2. t \in {0, 1}
  <2>1. t >= 2 => M * 2 <= M * t
    BY <1>1, TimesMono
  <2>2. t <= -1 => M * t <= M * (-1)
    BY <1>1, TimesMono
  <2>. QED  BY <1>1, <2>1, <2>2
<1>3. 2 * lo = (2 * M) * t + 2 * r /\ 2 * r \in 0 .. 2 * M - 1 /\ 2 * M > 0 /\ 2 * M \in Nat
  BY <1>1, <1>2
<1>4. 2 * r = (2 * lo) % (2 * M)
  <2>. DEFINE x == 2 * lo
              y == 2 * M
              s == 2 * r
  <2>1. x \in Int /\ y \in Nat /\ y > 0 /\ s \in 0 .. y - 1 /\ x = y * t + s /\ t \in Int
    BY <1>1, <1>3
  <2>. HIDE DEF x, y, s
  <2>2. s = x % y
    BY <2>1, DivModIs
  <2>. QED  BY <2>2 DEF x, y, s
<1>. QED  BY <1>1, <1>2, <1>4 DEF t, r

\* A step keeps the widths, and the remainder grows by one bit at most.
LEMMA ShiftWord ==
  ASSUME NEW w \in Nat \ {0}, NEW b \in Nat, NEW x \in [hi : Word(w), lo : Word(w)]
  PROVE  /\ ShiftSubtract(x, b, w) \in [hi : Word(w), lo : Word(w)]
         /\ \A n \in Nat : n < w /\ x.hi < 2^n => ShiftSubtract(x, b, w).hi < 2^(n + 1)
<1>. DEFINE M == 2^(w - 1)
            top == x.lo \div M
            hi == (2 * x.hi + top) % (2 * M)
            lo == (2 * x.lo) % (2 * M)
<1>1. M \in Nat /\ M > 0 /\ 2^w = 2 * M
  BY Power
<1>2. x.hi \in 0 .. 2 * M - 1 /\ x.lo \in 0 .. 2 * M - 1 /\ Word(w) = 0 .. 2 * M - 1
  BY <1>1 DEF Word
<1>3. ShiftSubtract(x, b, w) =
        IF hi >= b THEN [hi |-> hi - b, lo |-> lo + 1] ELSE [hi |-> hi, lo |-> lo]
  BY <1>1 DEF ShiftSubtract
<1>. HIDE DEF M
<1>4. top \in {0, 1} /\ lo = 2 * (x.lo % M) /\ x.lo % M \in 0 .. M - 1
  BY <1>1, <1>2, Shifted
<1>5. hi \in 0 .. 2 * M - 1 /\ hi <= 2 * x.hi + top
  <2>. DEFINE y == 2 * x.hi + top
              N == 2 * M
  <2>1. y \in Nat /\ N \in Nat /\ N > 0
    BY <1>1, <1>2, <1>4
  <2>. HIDE DEF y, N
  <2>2. y % N \in 0 .. N - 1 /\ y % N <= y
    BY <2>1
  <2>. QED  BY <2>2 DEF y, N
<1>. HIDE DEF hi, lo, top
<1>6. lo \in 0 .. 2 * M - 2
  BY <1>1, <1>4
<1>7. ShiftSubtract(x, b, w) \in [hi : Word(w), lo : Word(w)]
  BY <1>1, <1>2, <1>3, <1>5, <1>6
<1>8. ASSUME NEW n \in Nat, n < w, x.hi < 2^n PROVE ShiftSubtract(x, b, w).hi < 2^(n + 1)
  <2>1. 2^n \in Nat /\ 2^(n + 1) = 2 * 2^n
    BY Power
  <2>2. 2 * x.hi + top < 2^(n + 1)
    BY <1>2, <1>4, <1>8, <2>1
  <2>3. 2^(n + 1) \in Nat
    BY Power
  <2>. QED  BY <1>1, <1>2, <1>3, <1>4, <1>5, <2>2, <2>3
<1>. QED  BY <1>7, <1>8

\* The product of two words has twice their width.
LEMMA ProductWord ==
  ASSUME NEW w \in Nat, NEW x \in Word(w), NEW y \in Word(w)
  PROVE  x * y \in Word(2 * w)
<1>. DEFINE M == 2^w
<1>1. M \in Nat /\ M > 0 /\ 2^(w + w) = M * M
  BY PowerAdd, Power
<1>2. 2 * w = w + w /\ Word(w) = 0 .. M - 1 /\ Word(2 * w) = 0 .. M * M - 1
  <2>1. 2 * w = w + w
    OBVIOUS
  <2>. QED  BY <1>1, <2>1 DEF Word
<1>. HIDE DEF M
<1>3. x \in Nat /\ y \in Nat /\ x <= M - 1 /\ y <= M - 1
  BY <1>1, <1>2
<1>4. x * y <= x * (M - 1) /\ (M - 1) * x <= (M - 1) * (M - 1)
  BY <1>1, <1>3, TimesMono
<1>5. x * (M - 1) = (M - 1) * x /\ (M - 1) * (M - 1) = M * M - 2 * M + 1
  BY <1>1, <1>3
<1>6. M * M \in Nat /\ x * y \in Int /\ x * y >= 0
  BY <1>1, <1>3
<1>7. x * (M - 1) \in Int
  BY <1>1, <1>3
<1>8. x * y <= M * M - 1
  BY <1>1, <1>4, <1>5, <1>6, <1>7
<1>. QED  BY <1>2, <1>6, <1>8

DataType == [ctl : Ctl \cup {Other}, a : Word(W), b : Word(W), stalled : BOOLEAN]

LEMMA BubbleType == Bubble \in DataType
<1>1. 0 \in Word(W)
  BY Widths, Words
<1>2. Bubble = [ctl |-> Other, a |-> 0, b |-> 0, stalled |-> FALSE]
  BY DEF Bubble, Instr
<1>. QED  BY <1>1, <1>2 DEF DataType

LEMMA InstructionType == Instructions \subseteq DataType
<1>1. Factors \subseteq Word(W) /\ Dividends \subseteq Word(W) /\ Divisors \subseteq Word(W)
  BY ExecuteAssumption
<1>2. ASSUME NEW c \in Ctl, NEW x \in Word(W), NEW y \in Word(W)
      PROVE  Instr(c, x, y) \in DataType
  BY DEF Instr, DataType
<1>. QED  BY <1>1, <1>2 DEF Instructions

\* The operands of the divider are words of the width it works on.
LEMMA MagnitudeWord ==
  ASSUME NEW x \in Word(W), dataD \in DataType
  PROVE  /\ Magnitude(x) \in Word(width) /\ Magnitude(x) \in Word(W)
         /\ ctl.word \in BOOLEAN /\ width \in Nat /\ width <= W
<1>1. ctl.word \in BOOLEAN
  <2>1. ctl \in Ctl \/ ctl = Other
    BY DEF ctl, DataType
  <2>2. Other.word = FALSE
    BY DEF Other
  <2>3. \A c \in Ctl : c.word \in BOOLEAN
    BY DEF Ctl
  <2>. QED  BY <2>1, <2>2, <2>3
<1>2. width \in Nat /\ width <= W /\ W \in Nat
  BY Widths DEF width
<1>. DEFINE low == x % 2^width
<1>3. x \in Nat
  BY <1>2, Words
<1>4. low \in Word(width)
  BY <1>2, <1>3, Words
<1>5. low \in Int
  BY <1>2, <1>4, Words
<1>. HIDE DEF low
<1>6. Negate(low, width) \in Word(width)
  BY <1>2, <1>5, NegateWord
<1>7. Magnitude(x) \in Word(width)
  BY <1>4, <1>6 DEF Magnitude, low
<1>8. Word(width) \subseteq Word(W)
  BY <1>2, Words
<1>. QED  BY <1>1, <1>2, <1>7, <1>8

LEMMA MultiplierStep ==
  ASSUME MultiplierTypeOK, NEW valid, NEW a \in Nat, NEW b \in Nat,
         MultiplierEdge(valid, a, b)
  PROVE  MultiplierTypeOK'
<1>1. CASE StartMultiply(valid, a, b)
  <2>1. \A x, y \in Word(Q) : x * y \in Word(H)
    BY Widths, ProductWord
  <2>2. \A pair \in Pairs : Q * pair[1] \in Nat /\ Q * pair[2] \in Nat
    BY Widths DEF Pairs
  <2>3. \A pair \in Pairs :
          Bits(a, Q * pair[1], Q) \in Word(Q) /\ Bits(b, Q * pair[2], Q) \in Word(Q)
    BY <2>2, Widths, BitsWord
  <2>4. product_nxt(a, b) \in [Pairs -> Word(H)]
    BY <2>1, <2>3 DEF product_nxt
  <2>. QED  BY <1>1, <2>4 DEF StartMultiply, MultiplierTypeOK
<1>2. CASE EndMultiply(valid)
  BY <1>2 DEF EndMultiply, MultiplierTypeOK
<1>. QED  BY <1>1, <1>2 DEF MultiplierEdge

LEMMA DividerStep ==
  ASSUME DividerTypeOK, NEW valid, NEW wordEn, NEW a \in Word(W), NEW b \in Nat,
         DividerEdge(valid, wordEn, a, b)
  PROVE  DividerTypeOK'
<1>1. /\ 0 \in Word(W) /\ 0 \in Word(H) /\ a \in Nat /\ a % 2^H \in Word(H)
      /\ b % 2^H \in Nat
  <2>1. /\ W \in Nat /\ H \in Nat
        /\ Word(W) \subseteq Nat /\ 0 \in Word(W) /\ 0 \in Word(H) /\ Word(H) \subseteq Nat
    BY Widths, Words
  <2>2. \A x \in Int : x % 2^H \in Word(H)
    BY <2>1, Words
  <2>3. a \in Nat
    BY <2>1
  <2>4. a % 2^H \in Word(H) /\ b % 2^H \in Word(H)
    BY <2>2, <2>3
  <2>. QED  BY <2>1, <2>3, <2>4
<1>2. CASE StartDivide(valid, a)
  BY <1>1, <1>2, Widths DEF StartDivide, DividerTypeOK
<1>3. CASE StepDivide(wordEn, b)
  <2>1. p' \in [hi : Word(W), lo : Word(W)]
    BY <1>3, Widths, ShiftWord DEF StepDivide, DividerTypeOK
  <2>2. p32' \in [hi : Word(H), lo : Word(H)]
    BY <1>1, <1>3, Widths, ShiftWord DEF StepDivide, DividerTypeOK
  <2>3. count' \in 0 .. DIV_DELAY /\ count' > 0 /\ dstate' = dstate
    BY <1>3, Widths DEF StepDivide, Ends, DividerTypeOK
  <2>. QED  BY <2>1, <2>2, <2>3 DEF DividerTypeOK
<1>4. CASE EndDivide(wordEn)
  <2>1. dstate' = "INIT" /\ count' \in 0 .. DIV_DELAY
    BY <1>4, Widths DEF EndDivide, Ends, DividerTypeOK
  <2>. QED  BY <1>4, <2>1 DEF EndDivide, DividerTypeOK
<1>5. CASE NoDivision(valid)
  BY <1>5 DEF NoDivision, dividerVars, DividerTypeOK
<1>. QED  BY <1>2, <1>3, <1>4, <1>5 DEF DividerEdge

\* Every cycle is one of the units and of register D.
LEMMA Cycle ==
  ASSUME Next
  PROVE  Units /\ \/ dataD' = [dataD EXCEPT !.stalled = TRUE]
                  \/ dataD' \in Instructions \cup {Bubble}
BY DEF Next, Edge, Flush, Keep, Leave

\* Every register keeps its width, and the count its range, in every cycle
\* and through every flush, for registers of any width.
THEOREM TypeCorrect == Spec => []TypeOK
<1>1. Init => TypeOK
  <2>. SUFFICES ASSUME Init PROVE TypeOK
    OBVIOUS
  <2>1. 0 \in Word(W) /\ 0 \in Word(H)
    BY Widths, Words
  <2>2. MultiplierTypeOK
    BY <2>1 DEF Init, MultiplierInit, MultiplierTypeOK
  <2>3. DividerTypeOK
    BY <2>1, Widths DEF Init, DividerInit, DividerTypeOK
  <2>4. dataD \in DataType
    BY BubbleType DEF Init
  <2>. QED  BY <2>2, <2>3, <2>4 DEF TypeOK, DataType
<1>2. TypeOK /\ [Next]_vars => TypeOK'
  <2>. SUFFICES ASSUME TypeOK, [Next]_vars PROVE TypeOK'
    OBVIOUS
  <2>1. CASE UNCHANGED vars
    BY <2>1 DEF TypeOK, vars, multiplierVars, dividerVars, MultiplierTypeOK, DividerTypeOK
  <2>2. CASE Next
    <3>1. dataD \in DataType /\ dataD.a \in Word(W) /\ dataD.b \in Word(W)
      BY DEF TypeOK, DataType
    <3>2. /\ MultiplierEdge(multiply_valid, dataD.a, dataD.b)
          /\ DividerEdge(divide_valid, ctl.word, ca, cb)
      BY <2>2, Cycle DEF Units
    <3>3. ca \in Word(W) /\ cb \in Word(W)
      BY <3>1, MagnitudeWord DEF ca, cb
    <3>4. dataD.a \in Nat /\ dataD.b \in Nat /\ cb \in Nat
      BY <3>1, <3>3, Widths, Words
    <3>5. MultiplierTypeOK'
      BY <3>2, <3>4, MultiplierStep DEF TypeOK
    <3>6. DividerTypeOK'
      BY <3>2, <3>3, <3>4, DividerStep DEF TypeOK
    <3>7. dataD' \in DataType
      <4>1. [dataD EXCEPT !.stalled = TRUE] \in DataType
        BY <3>1 DEF DataType
      <4>. QED  BY <2>2, <4>1, Cycle, BubbleType, InstructionType
    <3>. QED  BY <3>5, <3>6, <3>7 DEF TypeOK, DataType
  <2>. QED  BY <2>1, <2>2
<1>. QED  BY <1>1, <1>2, PTL DEF Spec

-----------------------------------------------------------------------------
(* The remainder.                                                           *)

\* After n shifts the remainder is below 2^n, so that the top bit is clear
\* until the last shift has been made.
Small ==
  dstate = "DOING" =>
    /\ p.hi < 2^(DIV_DELAY - count)
    /\ count >= H + 1 => p32.hi < 2^(DIV_DELAY - count)

LEMMA SmallStep ==
  ASSUME DividerTypeOK, Small, NEW valid, NEW wordEn, NEW a \in Word(W), NEW b \in Nat,
         DividerEdge(valid, wordEn, a, b)
  PROVE  Small'
<1>1. CASE StartDivide(valid, a)
  <2>1. p'.hi = 0 /\ p32'.hi = 0 /\ DIV_DELAY - count' = 0
    BY <1>1, Widths DEF StartDivide
  <2>2. \A k \in Nat : 0 < 2^k /\ 2^k \in Nat
    BY Power
  <2>. DEFINE n == DIV_DELAY - count'
  <2>3. n \in Nat
    BY <2>1
  <2>4. 0 < 2^n
    BY <2>2, <2>3
  <2>. HIDE DEF n
  <2>5. p'.hi < 2^n /\ p32'.hi < 2^n
    BY <2>1, <2>4
  <2>. QED  BY <2>5 DEF Small, n
<1>2. CASE StepDivide(wordEn, b)
  <2>. DEFINE n == DIV_DELAY - count
              m == b % 2^H
  <2>1. /\ n \in Nat /\ n < W /\ DIV_DELAY - count' = n + 1
        /\ count' >= H + 1 => n < H /\ count >= H + 1
    BY <1>2, Widths DEF StepDivide, Ends, DividerTypeOK
  <2>2. m \in Nat
    <3>1. H \in Nat /\ b \in Int
      BY Widths
    <3>. QED  BY <3>1, Words
  <2>3. p.hi < 2^n /\ (count >= H + 1 => p32.hi < 2^n)
    BY <1>2 DEF Small, StepDivide
  <2>4. p' = ShiftSubtract(p, b, W) /\ p32' = ShiftSubtract(p32, m, H)
    BY <1>2 DEF StepDivide
  <2>5. p \in [hi : Word(W), lo : Word(W)] /\ p32 \in [hi : Word(H), lo : Word(H)]
    BY DEF DividerTypeOK
  <2>. HIDE DEF n, m
  <2>6. p'.hi < 2^(n + 1)
    BY <2>1, <2>3, <2>4, <2>5, Widths, ShiftWord
  <2>7. count' >= H + 1 => p32'.hi < 2^(n + 1)
    BY <2>1, <2>2, <2>3, <2>4, <2>5, Widths, ShiftWord
  <2>. QED  BY <2>1, <2>6, <2>7 DEF Small
<1>3. CASE EndDivide(wordEn)
  BY <1>3 DEF EndDivide, Small
<1>4. CASE NoDivision(valid)
  BY <1>4 DEF NoDivision, dividerVars, Small
<1>. QED  BY <1>1, <1>2, <1>3, <1>4 DEF DividerEdge

\* The bit above all of x is clear.
LEMMA HighBitClear ==
  ASSUME NEW i \in Nat, NEW x \in Nat, NEW n \in Nat, n <= i, x < 2^n
  PROVE  ~Bit(x, i)
<1>. DEFINE M == 2^i
<1>1. M \in Nat /\ M > 0 /\ x < M
  <2>1. 2^n <= 2^i /\ 2^n \in Nat /\ 2^i \in Nat /\ 2^i > 0
    BY Power, PowerMono
  <2>. QED  BY <2>1
<1>. HIDE DEF M
<1>2. x \div M = 0
  <2>1. x = M * 0 + x /\ x \in 0 .. M - 1
    BY <1>1
  <2>. QED  BY <1>1, <2>1, DivModIs
<1>3. 2^1 = 2
  BY Power
<1>4. Bits(x, i, 1) = 0 % 2
  BY <1>2, <1>3 DEF Bits, M
<1>. QED  BY <1>4 DEF Bit

LEMMA SmallIsEnough == TypeOK /\ Small => NoBitLost
<1>. SUFFICES ASSUME TypeOK, Small, dstate = "DOING", ~Ends(ctl.word)
              PROVE  /\ ctl.word => ~Bit(p32.hi, H - 1)
                     /\ ~ctl.word => ~Bit(p.hi, W - 1)
  BY DEF NoBitLost
<1>. DEFINE n == DIV_DELAY - count
<1>1. /\ n \in Nat /\ n <= W - 1 /\ W - 1 \in Nat /\ H - 1 \in Nat
      /\ ctl.word => n <= H - 1 /\ count >= H + 1
  BY Widths DEF TypeOK, DividerTypeOK, Ends
<1>2. p.hi < 2^n /\ (count >= H + 1 => p32.hi < 2^n)
  BY DEF Small
<1>3. p.hi \in Nat /\ p32.hi \in Nat
  <2>1. Word(W) \subseteq Nat /\ Word(H) \subseteq Nat
    BY Widths, Words
  <2>. QED  BY <2>1 DEF TypeOK, DividerTypeOK
<1>. HIDE DEF n
<1>. QED  BY <1>1, <1>2, <1>3, HighBitClear

\* The shift of divider.sv:66 and 74 drops the top bit of the remainder.  It is
\* never set, in both widths, for all operands, and whatever flush comes.
THEOREM NoRemainderBitLost == Spec => []NoBitLost
<1>1. Init => Small
  BY DEF Init, DividerInit, Small
<1>2. TypeOK /\ Small /\ [Next]_vars => Small'
  <2>. SUFFICES ASSUME TypeOK, Small, [Next]_vars PROVE Small'
    OBVIOUS
  <2>1. CASE UNCHANGED vars
    BY <2>1 DEF vars, dividerVars, Small
  <2>2. CASE Next
    <3>1. dataD \in DataType /\ dataD.a \in Word(W) /\ dataD.b \in Word(W)
      BY DEF TypeOK, DataType
    <3>2. ca \in Word(W) /\ cb \in Word(W)
      BY <3>1, MagnitudeWord DEF ca, cb
    <3>3. cb \in Nat
      BY <3>2, Widths, Words
    <3>4. DividerEdge(divide_valid, ctl.word, ca, cb) /\ DividerTypeOK
      BY <2>2, Cycle DEF Units, TypeOK
    <3>. QED  BY <3>2, <3>3, <3>4, SmallStep
  <2>. QED  BY <2>1, <2>2
<1>. QED  BY <1>1, <1>2, TypeCorrect, SmallIsEnough, PTL DEF Spec

-----------------------------------------------------------------------------
(* A held instruction.                                                      *)

\* Only an instruction that stays has stalled set.
LEMMA HeldIsKept ==
  ASSUME Next, TypeOK, dataD'.stalled
  PROVE  ctl' = ctl /\ dataD' = [dataD EXCEPT !.stalled = TRUE]
<1>1. \A d \in Instructions \cup {Bubble} : ~d.stalled
  BY DEF Instructions, Instr, Bubble
<1>2. dataD' = [dataD EXCEPT !.stalled = TRUE]
  BY <1>1, Cycle
<1>. QED  BY <1>2 DEF ctl, TypeOK

\* The registers stalled of dreg.sv: a unit that has finished is not started
\* again by an instruction that the data cache holds in E.
THEOREM HeldStaysDone == Spec => DoneStays
<1>1. TypeOK /\ [Next]_vars => (~exe_wait /\ dataD'.stalled => ~exe_wait')
  <2>. SUFFICES ASSUME TypeOK, [Next]_vars, ~exe_wait, dataD'.stalled PROVE ~exe_wait'
    OBVIOUS
  <2>1. CASE UNCHANGED vars
    BY <2>1 DEF vars, multiplierVars, dividerVars, exe_wait, isMultiply, isDivide, ctl,
                done_m, done_d, done_multiply, done_divide, Ends, multiply_valid,
                divide_valid, cb, Magnitude, Negative, width
  <2>2. CASE Next
    <3>1. ctl' = ctl
      BY <2>2, HeldIsKept
    <3>2. ~multiply_valid' /\ ~divide_valid'
      BY DEF multiply_valid, divide_valid
    <3>3. done_m'
      BY <3>2 DEF done_m, done_multiply
    <3>4. isDivide => done_d'
      <4>. SUFFICES ASSUME isDivide PROVE done_d'
        OBVIOUS
      <4>1. Ends(ctl.word) \/ (dstate = "INIT" /\ ~divide_valid)
        BY DEF exe_wait, done_d, done_divide
      <4>2. DividerEdge(divide_valid, ctl.word, ca, cb)
        BY <2>2, Cycle DEF Units
      <4>3. dstate' = "INIT"
        BY <4>1, <4>2 DEF DividerEdge, StartDivide, StepDivide, EndDivide, NoDivision,
                          dividerVars, Ends
      <4>. QED  BY <3>2, <4>3 DEF done_d, done_divide
    <3>. QED  BY <3>1, <3>3, <3>4 DEF exe_wait, isMultiply, isDivide
  <2>. QED  BY <2>1, <2>2
<1>. QED  BY <1>1, TypeCorrect, PTL DEF Spec, DoneStays

-----------------------------------------------------------------------------
(* The division.                                                            *)

\* What a pair of registers holds after n of the w shifts of a division of a
\* by b: the remainder of the n top digits, the digits not yet shifted in, and
\* below them the n digits of the quotient.
Digits(x, a, b, w, n) ==
  /\ x.hi = (a \div 2^(w - n)) % b
  /\ x.lo = (a % 2^(w - n)) * 2^n + ((a \div 2^(w - n)) \div b)

LEMMA FirstDigits ==
  ASSUME NEW w \in Nat, NEW a \in Word(w), NEW b \in Nat, b > 0
  PROVE  Digits([hi |-> 0, lo |-> a], a, b, w, 0)
<1>1. w - 0 = w /\ 2^w \in Nat /\ 2^w > 0 /\ 2^0 = 1 /\ a \in Int /\ a % 2^w = a
  BY Power, Words
<1>2. a \div 2^w = 0
  <2>1. a \in 0 .. 2^w - 1 /\ a = 2^w * 0 + a
    BY <1>1 DEF Word
  <2>. QED  BY <1>1, <2>1, DivModIs
<1>3. 0 % b = 0 /\ 0 \div b = 0
  BY DivModIs
<1>. QED  BY <1>1, <1>2, <1>3 DEF Digits

LEMMA LastDigits ==
  ASSUME NEW w \in Nat, NEW a \in Word(w), NEW b \in Nat, b > 0,
         NEW x, Digits(x, a, b, w, w)
  PROVE  x.hi = a % b /\ x.lo = a \div b
<1>1. w - w = 0 /\ 2^w \in Nat /\ 2^0 = 1 /\ a \in Nat
  BY Power, Words
<1>2. a \div 1 = a /\ a % 1 = 0
  BY <1>1, DivModIs
<1>3. a \div b \in Nat
  BY <1>1, DivMod
<1>. QED  BY <1>1, <1>2, <1>3 DEF Digits

\* A shift brings in the next digit.  K and N are the weights of the digits
\* that are left and of those that have been made.
LEMMA NextDigit ==
  ASSUME NEW w \in Nat \ {0}, NEW a \in Word(w), NEW b \in Nat, b > 0,
         NEW n \in Nat, n < w, NEW x, Digits(x, a, b, w, n)
  PROVE  Digits(ShiftSubtract(x, b, w), a, b, w, n + 1)
<1>. DEFINE K == 2^(w - (n + 1))
            N == 2^n
            M == 2^(w - 1)
<1>1. /\ K \in Nat /\ K > 0 /\ N \in Nat /\ N > 0 /\ M \in Nat /\ M > 0
      /\ 2^(w - n) = 2 * K /\ 2^(n + 1) = 2 * N /\ M = K * N /\ 2^w = 2 * M
  <2>. DEFINE k == w - (n + 1)
  <2>1. k \in Nat /\ w - n = k + 1 /\ w - 1 = k + n /\ w - 1 \in Nat /\ w = (w - 1) + 1
    OBVIOUS
  <2>. HIDE DEF k
  <2>2. 2^(k + n) = 2^k * 2^n /\ 2^(k + 1) = 2 * 2^k /\ 2^k \in Nat /\ 2^k > 0
    BY <2>1, PowerAdd, Power
  <2>3. 2^w = 2 * 2^(w - 1) /\ 2^(w - 1) \in Nat /\ 2^(w - 1) > 0
    BY <2>1, Power
  <2>4. 2^(n + 1) = 2 * 2^n /\ 2^n \in Nat /\ 2^n > 0
    BY Power
  <2>. QED  BY <2>1, <2>2, <2>3, <2>4 DEF k
<1>2. a \in Nat /\ a < 2 * M
  BY <1>1, Words
<1>3. /\ x.hi = (a \div (2 * K)) % b
      /\ x.lo = (a % (2 * K)) * N + ((a \div (2 * K)) \div b)
  BY <1>1 DEF Digits
<1>. DEFINE top == x.lo \div M
            hi == (2 * x.hi + top) % (2 * M)
            lo == (2 * x.lo) % (2 * M)
            y == ShiftSubtract(x, b, w)
<1>4. y = IF hi >= b THEN [hi |-> hi - b, lo |-> lo + 1] ELSE [hi |-> hi, lo |-> lo]
  BY <1>1 DEF ShiftSubtract
<1>5. SUFFICES /\ y.hi = (a \div K) % b
               /\ y.lo = (a % K) * (2 * N) + ((a \div K) \div b)
  BY <1>1 DEF Digits
<1>. HIDE DEF K, N, M, y
<1>. DEFINE A == a \div (2 * K)
            q == A \div b
            r == A % b
            low == a % (2 * K)
            t == low \div K
            s == low % K
<1>6. a = (2 * K) * A + low /\ A \in Nat /\ low \in 0 .. 2 * K - 1
  <2>. DEFINE D == 2 * K
  <2>1. D \in Nat /\ D > 0
    BY <1>1
  <2>. HIDE DEF D
  <2>2. a = D * (a \div D) + (a % D) /\ a \div D \in Nat /\ a % D \in 0 .. D - 1
    BY <1>2, <2>1, DivMod
  <2>. QED  BY <2>2 DEF D
<1>7. t \in {0, 1} /\ s \in 0 .. K - 1 /\ low = K * t + s
  <2>. HIDE DEF low
  <2>. QED  BY <1>1, <1>6, Shifted
<1>8. A = b * q + r /\ q \in Nat /\ r \in 0 .. b - 1
  <2>. HIDE DEF A
  <2>. QED  BY <1>6, DivMod
<1>9. x.hi = r /\ x.lo = low * N + q
  BY <1>3
<1>. HIDE DEF A, q, r, low, t, s
<1>10. a \div K = 2 * A + t /\ a % K = s
  <2>1. a = K * (2 * A + t) + s /\ 2 * A + t \in Int
    BY <1>1, <1>6, <1>7
  <2>. DEFINE e == 2 * A + t
  <2>. HIDE DEF e
  <2>2. a = K * e + s /\ e \in Int
    BY <2>1 DEF e
  <2>3. e = a \div K /\ s = a % K
    BY <1>1, <1>2, <1>7, <2>2, DivModIs
  <2>. QED  BY <2>3 DEF e
\* The digits of the quotient fit below those that are left.
<1>11. A <= N - 1 /\ q <= A /\ r <= A
  <2>1. A >= N => (2 * K) * N <= (2 * K) * A
    BY <1>1, <1>6, TimesMono
  <2>2. (2 * K) * N = 2 * M
    BY <1>1
  <2>3. (2 * K) * A <= a /\ (2 * K) * A \in Int
    BY <1>1, <1>6
  <2>4. q * 1 <= q * b /\ q * b = b * q
    BY <1>8, TimesMono
  <2>5. b * q \in Nat
    BY <1>8
  <2>. QED  BY <1>1, <1>2, <1>6, <1>8, <2>1, <2>2, <2>3, <2>4, <2>5
<1>12. /\ s * N \in Nat /\ s * N + q \in 0 .. M - 1
       /\ x.lo = M * t + (s * N + q)
  <2>1. N * s <= N * (K - 1) /\ N * s = s * N /\ N * (K - 1) = M - N
    <3>1. N * s <= N * (K - 1)
      BY <1>1, <1>7, TimesMono
    <3>2. N * s = s * N /\ N * (K - 1) = K * N - N
      BY <1>1, <1>7
    <3>. QED  BY <1>1, <3>1, <3>2
  <2>2. s * N \in Nat
    BY <1>1, <1>7
  <2>3. low * N = (K * N) * t + s * N
    <3>1. low * N = (K * t + s) * N
      BY <1>7
    <3>2. (K * t + s) * N = (K * N) * t + s * N
      BY <1>1, <1>7
    <3>. QED  BY <3>1, <3>2
  <2>4. low * N = M * t + s * N
    BY <1>1, <2>3
  <2>5. s * N <= M - N /\ M * t \in Int
    BY <1>1, <1>7, <2>1
  <2>. DEFINE e == s * N
              f == M * t
              g == low * N
  <2>. HIDE DEF e, f, g
  <2>6. e \in Nat /\ f \in Int /\ g = f + e /\ e <= M - N /\ x.lo = g + q
    BY <1>9, <2>2, <2>4, <2>5 DEF e, f, g
  <2>7. e + q \in 0 .. M - 1 /\ x.lo = f + (e + q)
    BY <1>1, <1>8, <1>11, <2>6
  <2>. QED  BY <2>2, <2>7 DEF e, f
<1>13. top = t /\ lo = 2 * (s * N + q)
  <2>. DEFINE e == s * N + q
              l == x.lo
  <2>1. e \in 0 .. M - 1 /\ l = M * t + e /\ t \in Int
    BY <1>7, <1>12
  <2>. HIDE DEF e, l
  <2>2. t = l \div M /\ e = l % M
    BY <1>1, <2>1, DivModIs
  <2>3. l \in 0 .. 2 * M - 1
    BY <1>1, <1>7, <2>1
  <2>4. (2 * l) % (2 * M) = 2 * (l % M)
    BY <1>1, <2>3, Shifted
  <2>. QED  BY <2>2, <2>4 DEF e, l
\* The remainder is smaller than the digits that have been brought in.
<1>14. hi = 2 * r + t
  <2>. DEFINE e == 2 * r + t
  <2>1. N * 1 <= N * K /\ N * K = M
    <3>1. N * 1 <= N * K
      BY <1>1, TimesMono
    <3>2. N * K = K * N
      BY <1>1
    <3>. QED  BY <1>1, <3>1, <3>2
  <2>2. e \in 0 .. 2 * M - 1 /\ 2 * M \in Nat /\ 2 * M > 0
    BY <1>1, <1>7, <1>8, <1>11, <2>1
  <2>3. hi = e % (2 * M)
    BY <1>9, <1>13
  <2>. HIDE DEF e
  <2>4. e % (2 * M) = e
    <3>. DEFINE D == 2 * M
    <3>1. e \in 0 .. D - 1 /\ D \in Nat /\ D > 0 /\ e = D * 0 + e
      BY <2>2
    <3>. HIDE DEF D
    <3>2. e = e % D
      BY <3>1, DivModIs
    <3>. QED  BY <3>2 DEF D
  <2>. QED  BY <2>3, <2>4 DEF e
<1>. HIDE DEF hi, lo, top
<1>. DEFINE d == IF hi >= b THEN 1 ELSE 0
<1>15. y.hi = hi - b * d /\ y.lo = lo + d /\ d \in {0, 1}
  <2>1. CASE hi >= b
    BY <1>4, <1>7, <1>8, <1>14, <2>1
  <2>2. CASE ~(hi >= b)
    <3>1. y.hi = hi /\ y.lo = lo /\ d = 0 /\ b * 0 = 0
      BY <1>4, <2>2
    <3>2. hi - 0 = hi /\ lo + 0 = lo
      BY <1>1, <1>7, <1>8, <1>12, <1>13, <1>14
    <3>. QED  BY <3>1, <3>2
  <2>. QED  BY <2>1, <2>2
<1>16. 2 * A + t = b * (2 * q + d) + (hi - b * d) /\ hi - b * d \in 0 .. b - 1
  <2>1. b * (2 * q + d) = 2 * (b * q) + b * d
    BY <1>8, <1>15
  <2>2. b * d = IF hi >= b THEN b ELSE 0
    OBVIOUS
  <2>3. b * q \in Nat /\ b * d \in Nat
    BY <1>8, <1>15
  <2>. HIDE DEF d
  <2>4. 2 * A + t = 2 * (b * q) + hi
    BY <1>7, <1>8, <1>14, <2>3
  <2>5. hi - b * d \in 0 .. b - 1
    BY <1>7, <1>8, <1>14, <2>2
  <2>. QED  BY <1>7, <1>8, <1>14, <2>1, <2>3, <2>4, <2>5
<1>. HIDE DEF d
<1>17. 2 * q + d = (2 * A + t) \div b /\ hi - b * d = (2 * A + t) % b
  <2>. DEFINE e == 2 * A + t
              f == 2 * q + d
              g == hi - b * d
  <2>1. e \in Int /\ f \in Int /\ g \in 0 .. b - 1 /\ e = b * f + g
    BY <1>6, <1>7, <1>8, <1>15, <1>16
  <2>. HIDE DEF e, f, g
  <2>2. f = e \div b /\ g = e % b
    BY <2>1, DivModIs
  <2>. QED  BY <2>2 DEF e, f, g
<1>18. lo + d = s * (2 * N) + (2 * q + d)
  <2>1. s * (2 * N) = 2 * (s * N)
    BY <1>1, <1>7
  <2>. QED  BY <1>8, <1>12, <1>13, <1>15, <2>1
<1>. QED  BY <1>10, <1>15, <1>17, <1>18

\* The divider works only for the division in E, on its operands; when it has
\* ended and the division is still there, the registers hold what it made.
DivisionInv ==
  (isDivide /\ cb # 0 /\ dataD.stalled) \/ dstate = "DOING" =>
    LET n == IF dstate = "DOING" THEN DIV_DELAY - count ELSE width
    IN  /\ isDivide /\ cb # 0 /\ dataD.stalled
        /\ n \in 0 .. width
        /\ ctl.word => Digits(p32, ca, cb, H, n)
        /\ ~ctl.word => Digits(p, ca, cb, W, n)

LEMMA OperandWords ==
  ASSUME TypeOK
  PROVE  /\ ca \in Word(width) /\ cb \in Word(width) /\ ca \in Nat /\ cb \in Nat
         /\ ctl.word \in BOOLEAN /\ width = IF ctl.word THEN H ELSE W
         /\ ctl.word => cb % 2^H = cb /\ ca % 2^H = ca
<1>1. dataD \in DataType /\ dataD.a \in Word(W) /\ dataD.b \in Word(W)
  BY DEF TypeOK, DataType
<1>2. /\ ca \in Word(width) /\ cb \in Word(width) /\ ctl.word \in BOOLEAN /\ width \in Nat
  BY <1>1, MagnitudeWord DEF ca, cb
<1>3. ca \in Nat /\ cb \in Nat
  BY <1>2, Words
<1>4. width = IF ctl.word THEN H ELSE W
  BY DEF width
<1>5. \A x \in Word(H) : x % 2^H = x
  BY Widths, Words
<1>. QED  BY <1>2, <1>3, <1>4, <1>5

\* An instruction that stays keeps its operands.
LEMMA OperandsHeld ==
  ASSUME Next, TypeOK, dataD'.stalled
  PROVE  /\ ctl' = ctl /\ width' = width /\ ca' = ca /\ cb' = cb
         /\ dataD'.a = dataD.a /\ dataD'.b = dataD.b
         /\ (isDivide <=> isDivide') /\ (isMultiply <=> isMultiply')
<1>1. ctl' = ctl /\ dataD' = [dataD EXCEPT !.stalled = TRUE]
  BY HeldIsKept
<1>2. dataD'.a = dataD.a /\ dataD'.b = dataD.b
  BY <1>1 DEF TypeOK
<1>3. width' = width
  BY <1>1 DEF width
<1>4. ca' = ca /\ cb' = cb
  BY <1>1, <1>2, <1>3 DEF ca, cb, Magnitude, Negative
<1>. QED  BY <1>1, <1>2, <1>3, <1>4 DEF isDivide, isMultiply

\* Without flushes a division stays until the divider has ended.
LEMMA DivisionStays ==
  ASSUME FLUSH_DIVISION = FALSE, TypeOK, Next, isDivide, ~done_d
  PROVE  dataD'.stalled
<1>1. exe_wait
  BY DEF exe_wait
<1>2. dataD' = [dataD EXCEPT !.stalled = TRUE]
  BY <1>1 DEF Next, Edge, Keep, Leave, Flush
<1>. QED  BY <1>2 DEF TypeOK

LEMMA DivisionStep ==
  ASSUME FLUSH_DIVISION = FALSE, TypeOK, DivisionInv, Next
  PROVE  DivisionInv'
<1>1. DividerEdge(divide_valid, ctl.word, ca, cb)
  BY Cycle DEF Units
<1>2. /\ ca \in Word(width) /\ cb \in Word(width) /\ ca \in Nat /\ cb \in Nat
      /\ ctl.word \in BOOLEAN /\ width = IF ctl.word THEN H ELSE W
      /\ ctl.word => cb % 2^H = cb /\ ca % 2^H = ca
  BY OperandWords
<1>3. count \in 0 .. DIV_DELAY /\ dstate \in {"INIT", "DOING"}
  BY DEF TypeOK, DividerTypeOK
<1>4. CASE StartDivide(divide_valid, ca)
  <2>1. isDivide /\ cb # 0 /\ ~done_d
    BY <1>4 DEF StartDivide, divide_valid, done_d, done_divide, Ends
  <2>2. dataD'.stalled
    BY <2>1, DivisionStays
  <2>3. /\ dstate' = "DOING" /\ DIV_DELAY - count' = 0
        /\ p' = [hi |-> 0, lo |-> ca] /\ p32' = [hi |-> 0, lo |-> ca % 2^H]
    BY <1>4, Widths DEF StartDivide
  <2>4. ctl.word => Digits(p32', ca, cb, H, 0)
    BY <1>2, <2>1, <2>3, Widths, FirstDigits
  <2>5. ~ctl.word => Digits(p', ca, cb, W, 0)
    BY <1>2, <2>1, <2>3, Widths, FirstDigits
  <2>6. 0 \in 0 .. width
    BY <1>2, Widths
  <2>. QED  BY <2>1, <2>2, <2>3, <2>4, <2>5, <2>6, OperandsHeld DEF DivisionInv
<1>5. CASE StepDivide(ctl.word, cb)
  <2>. DEFINE n == DIV_DELAY - count
  <2>1. /\ isDivide /\ cb # 0 /\ dataD.stalled /\ n \in 0 .. width
        /\ ctl.word => Digits(p32, ca, cb, H, n)
        /\ ~ctl.word => Digits(p, ca, cb, W, n)
    BY <1>5 DEF DivisionInv, StepDivide
  <2>2. ~done_d /\ dstate = "DOING" /\ dstate' = "DOING"
    BY <1>5 DEF StepDivide, done_d, done_divide
  <2>3. dataD'.stalled
    BY <2>1, <2>2, DivisionStays
  <2>4. n \in Nat /\ n < width /\ DIV_DELAY - count' = n + 1 /\ n + 1 \in 0 .. width
    BY <1>2, <1>3, <1>5, <2>1, Widths DEF StepDivide, Ends
  <2>5. p' = ShiftSubtract(p, cb, W) /\ p32' = ShiftSubtract(p32, cb % 2^H, H)
    BY <1>5 DEF StepDivide
  <2>. HIDE DEF n
  <2>6. cb > 0
    BY <1>2, <2>1
  <2>7. ctl.word => Digits(p32', ca, cb, H, n + 1)
    <3>. SUFFICES ASSUME ctl.word PROVE Digits(p32', ca, cb, H, n + 1)
      OBVIOUS
    <3>1. H \in Nat \ {0} /\ ca \in Word(H) /\ n < H /\ Digits(p32, ca, cb, H, n)
          /\ p32' = ShiftSubtract(p32, cb, H)
      BY <1>2, <2>1, <2>4, <2>5, Widths
    <3>. QED  BY <1>2, <2>4, <2>6, <3>1, NextDigit
  <2>8. ~ctl.word => Digits(p', ca, cb, W, n + 1)
    <3>. SUFFICES ASSUME ~ctl.word PROVE Digits(p', ca, cb, W, n + 1)
      OBVIOUS
    <3>1. W \in Nat \ {0} /\ ca \in Word(W) /\ n < W /\ Digits(p, ca, cb, W, n)
      BY <1>2, <2>1, <2>4, Widths
    <3>. QED  BY <1>2, <2>4, <2>5, <2>6, <3>1, NextDigit
  <2>. QED  BY <2>1, <2>2, <2>3, <2>4, <2>7, <2>8, OperandsHeld DEF DivisionInv
<1>6. CASE EndDivide(ctl.word)
  <2>1. dstate = "DOING" /\ Ends(ctl.word) /\ dstate' = "INIT" /\ UNCHANGED <<p, p32>>
    BY <1>6 DEF EndDivide, Ends
  <2>. DEFINE n == DIV_DELAY - count
  <2>2. /\ isDivide /\ cb # 0 /\ n \in 0 .. width
        /\ ctl.word => Digits(p32, ca, cb, H, n)
        /\ ~ctl.word => Digits(p, ca, cb, W, n)
    BY <2>1 DEF DivisionInv
  <2>3. n = width
    BY <1>2, <1>3, <2>1, <2>2, Widths DEF Ends
  <2>4. width \in 0 .. width
    BY <1>2, Widths
  <2>. HIDE DEF n
  <2>. QED  BY <1>2, <2>1, <2>2, <2>3, <2>4, OperandsHeld DEF DivisionInv
<1>7. CASE NoDivision(divide_valid)
  <2>1. dstate = "INIT" /\ dstate' = "INIT" /\ UNCHANGED <<p, p32>> /\ ~divide_valid
    BY <1>7 DEF NoDivision, dividerVars
  <2>2. isDivide /\ cb # 0 => dataD.stalled
    BY <2>1 DEF divide_valid
  <2>. QED  BY <2>1, <2>2, OperandsHeld DEF DivisionInv
<1>. QED  BY <1>1, <1>4, <1>5, <1>6, <1>7 DEF DividerEdge

\* At the end the registers hold remainder and quotient.
LEMMA DivisionEnds ==
  ASSUME TypeOK, DivisionInv, isDivide, cb # 0, done_d
  PROVE  /\ ctl.word => p32.hi = ca % cb /\ p32.lo = ca \div cb
         /\ ~ctl.word => p.hi = ca % cb /\ p.lo = ca \div cb
<1>1. /\ ca \in Word(width) /\ ca \in Nat /\ cb \in Nat /\ cb > 0
      /\ ctl.word \in BOOLEAN /\ width = IF ctl.word THEN H ELSE W
  BY OperandWords
<1>2. count \in 0 .. DIV_DELAY
  BY DEF TypeOK, DividerTypeOK
<1>3. /\ ctl.word => Digits(p32, ca, cb, H, H)
      /\ ~ctl.word => Digits(p, ca, cb, W, W)
  <2>1. CASE Ends(ctl.word)
    <3>1. dstate = "DOING" /\ (count = 1 \/ (ctl.word /\ count <= H + 1))
      BY <2>1 DEF Ends
    <3>. DEFINE n == DIV_DELAY - count
    <3>2. /\ n \in 0 .. width
          /\ ctl.word => Digits(p32, ca, cb, H, n)
          /\ ~ctl.word => Digits(p, ca, cb, W, n)
      BY <3>1 DEF DivisionInv
    <3>3. n = width
      BY <1>1, <1>2, <3>1, <3>2, Widths
    <3>. HIDE DEF n
    <3>. QED  BY <1>1, <3>2, <3>3
  <2>2. CASE dstate = "INIT" /\ ~divide_valid
    BY <1>1, <2>2 DEF DivisionInv, divide_valid
  <2>. QED  BY <2>1, <2>2 DEF done_d, done_divide
<1>4. ctl.word => p32.hi = ca % cb /\ p32.lo = ca \div cb
  BY <1>1, <1>3, Widths, LastDigits
<1>5. ~ctl.word => p.hi = ca % cb /\ p.lo = ca \div cb
  BY <1>1, <1>3, Widths, LastDigits
<1>. QED  BY <1>4, <1>5

\* divider.sv:15, "c = {a % b, a / b}": for registers of any width and all
\* operands, through every stall, as long as no division is flushed before it
\* has ended.
THEOREM DivisionExact ==
  ASSUME FLUSH_DIVISION = FALSE
  PROVE  Spec => []DividerContract
<1>1. Init => DivisionInv
  BY DEF Init, DividerInit, DivisionInv, Bubble, Instr, isDivide, ctl, Other
<1>2. TypeOK /\ DivisionInv /\ [Next]_vars => DivisionInv'
  <2>. SUFFICES ASSUME TypeOK, DivisionInv, [Next]_vars PROVE DivisionInv'
    OBVIOUS
  <2>1. CASE UNCHANGED vars
    BY <2>1 DEF vars, dividerVars, DivisionInv, isDivide, ctl, ca, cb, width, Magnitude,
                Negative
  <2>2. CASE Next
    BY <2>2, DivisionStep
  <2>. QED  BY <2>1, <2>2
<1>3. TypeOK /\ DivisionInv => DividerContract
  <2>. SUFFICES ASSUME TypeOK, DivisionInv, isDivide, cb # 0, done_d
                PROVE  cd_tmp(ctl.word) =
                         IF ctl.word THEN [hi |-> Sext(ca % cb), lo |-> Sext(ca \div cb)]
                         ELSE [hi |-> ca % cb, lo |-> ca \div cb]
    BY DEF DividerContract
  <2>1. p \in [hi : Word(W), lo : Word(W)] /\ ctl.word \in BOOLEAN
    BY OperandWords DEF TypeOK, DividerTypeOK
  <2>2. p = [hi |-> p.hi, lo |-> p.lo]
    BY <2>1
  <2>. QED  BY <2>1, <2>2, DivisionEnds DEF cd_tmp
<1>. QED  BY <1>1, <1>2, <1>3, TypeCorrect, PTL DEF Spec

-----------------------------------------------------------------------------
(* The multiplication.                                                      *)

LEMMA SameRemainder ==
  ASSUME NEW M \in Nat, M > 0, NEW x \in Int, NEW k \in Int
  PROVE  (x + M * k) % M = x % M
<1>. DEFINE q == x \div M
            r == x % M
            y == x + M * k
            d == q + k
<1>1. x = M * q + r /\ q \in Int /\ r \in 0 .. M - 1
  BY DivMod
<1>. HIDE DEF q, r
<1>2. y = M * d + r /\ d \in Int /\ y \in Int
  <2>1. M * (q + k) = M * q + M * k /\ M * q \in Int /\ M * k \in Int
    BY <1>1
  <2>. QED  BY <1>1, <2>1
<1>. HIDE DEF y, d
<1>3. r = y % M
  BY <1>1, <1>2, DivModIs
<1>. QED  BY <1>3 DEF y, r

LEMMA DivDiv ==
  ASSUME NEW x \in Nat, NEW m \in Nat, m > 0, NEW n \in Nat, n > 0
  PROVE  x \div (m * n) = (x \div m) \div n
<1>. DEFINE d == x \div m
            r == x % m
            e == d \div n
            s == d % n
            N == m * n
            u == m * s + r
<1>1. x = m * d + r /\ d \in Nat /\ r \in 0 .. m - 1
  BY DivMod
<1>. HIDE DEF d, r
<1>2. d = n * e + s /\ e \in Nat /\ s \in 0 .. n - 1
  BY <1>1, DivMod
<1>. HIDE DEF e, s
<1>3. N \in Nat /\ N > 0 /\ m * s <= m * (n - 1) /\ m * (n - 1) = N - m /\ m * s \in Nat
  <2>1. N \in Nat /\ m * s \in Nat /\ m * (n - 1) = m * n - m
    BY <1>2
  <2>2. m * s <= m * (n - 1)
    BY <1>2, TimesMono
  <2>3. m * 1 <= m * n
    BY TimesMono
  <2>. QED  BY <2>1, <2>2, <2>3
<1>4. x = N * e + u
  <2>1. m * (n * e + s) = (m * n) * e + m * s
    BY <1>2
  <2>. QED  BY <1>1, <1>2, <2>1
<1>5. u \in 0 .. N - 1
  <2>. HIDE DEF N
  <2>. QED  BY <1>1, <1>3
<1>. HIDE DEF N, u
<1>6. e = x \div N
  BY <1>2, <1>3, <1>4, <1>5, DivModIs
<1>. QED  BY <1>6 DEF N, e, d

\* A register is its four quarters.
LEMMA Quarters ==
  ASSUME NEW x \in Word(W)
  PROVE  /\ \A i \in 0 .. 3 : Bits(x, Q * i, Q) \in Nat
         /\ x = Bits(x, Q * 0, Q) + 2^Q * (Bits(x, Q * 1, Q)
                 + 2^Q * (Bits(x, Q * 2, Q) + 2^Q * Bits(x, Q * 3, Q)))
<1>. DEFINE X == 2^Q
            d1 == x \div X
            d2 == d1 \div X
            d3 == d2 \div X
<1>1. X \in Nat /\ X > 0 /\ 2^(Q * 0) = 1 /\ 2^(Q * 1) = X /\ 2^(Q * 2) = X * X
      /\ 2^(Q * 3) = (X * X) * X /\ 2^W = X * ((X * X) * X)
  <2>1. Q * 0 = 0 /\ Q * 1 = Q /\ Q * 2 = Q + Q /\ Q * 3 = (Q * 2) + Q /\ W = Q + (Q * 3)
    BY Widths
  <2>2. Q \in Nat /\ Q * 2 \in Nat /\ Q * 3 \in Nat
    BY Widths
  <2>3. 2^(Q * 0) = 1 /\ 2^Q \in Nat /\ 2^Q > 0
    BY <2>1, <2>2, Power
  <2>4. 2^(Q + Q) = 2^Q * 2^Q
    BY <2>2, PowerAdd
  <2>5. 2^((Q * 2) + Q) = 2^(Q * 2) * 2^Q
    BY <2>2, PowerAdd
  <2>6. 2^(Q + (Q * 3)) = 2^Q * 2^(Q * 3)
    BY <2>2, PowerAdd
  <2>. QED  BY <2>1, <2>3, <2>4, <2>5, <2>6
<1>2. x \in Nat /\ x < X * ((X * X) * X)
  BY <1>1, Widths, Words
<1>. HIDE DEF X
<1>3. x = X * d1 + (x % X) /\ d1 \in Nat /\ x % X \in 0 .. X - 1
  BY <1>1, <1>2, DivMod
<1>. HIDE DEF d1
<1>4. d1 = X * d2 + (d1 % X) /\ d2 \in Nat /\ d1 % X \in 0 .. X - 1
  BY <1>1, <1>3, DivMod
<1>. HIDE DEF d2
<1>5. d2 = X * d3 + (d2 % X) /\ d3 \in Nat /\ d2 % X \in 0 .. X - 1
  BY <1>1, <1>4, DivMod
<1>. HIDE DEF d3
<1>6. d3 % X = d3
  <2>1. d1 < (X * X) * X
    <3>. DEFINE C == (X * X) * X
    <3>1. C \in Nat
      BY <1>1
    <3>. HIDE DEF C
    <3>2. d1 >= C => X * C <= X * d1
      BY <1>1, <1>3, <3>1, TimesMono
    <3>3. X * d1 <= x /\ X * d1 \in Nat /\ X * C \in Nat /\ x < X * C
      BY <1>1, <1>2, <1>3, <3>1 DEF C
    <3>4. d1 < C
      BY <1>2, <1>3, <3>1, <3>2, <3>3
    <3>. QED  BY <3>4 DEF C
  <2>2. d2 < X * X
    <3>. DEFINE C == X * X
    <3>1. C \in Nat /\ C * X = X * C
      BY <1>1
    <3>. HIDE DEF C
    <3>2. d2 >= C => X * C <= X * d2
      BY <1>1, <1>4, <3>1, TimesMono
    <3>3. X * d2 <= d1 /\ X * d2 \in Nat /\ X * C \in Nat /\ d1 < X * C
      BY <1>1, <1>3, <1>4, <2>1, <3>1 DEF C
    <3>4. d2 < C
      BY <1>3, <1>4, <3>1, <3>2, <3>3
    <3>. QED  BY <3>4 DEF C
  <2>3. d3 < X
    <3>1. d3 >= X => X * X <= X * d3
      BY <1>1, <1>5, TimesMono
    <3>2. X * d3 <= d2 /\ X * d3 \in Nat /\ X * X \in Nat
      BY <1>1, <1>5
    <3>. QED  BY <1>1, <1>4, <1>5, <2>2, <3>1, <3>2
  <2>. QED  BY <1>1, <1>5, <2>3
<1>7. /\ Bits(x, Q * 0, Q) = x % X /\ Bits(x, Q * 1, Q) = d1 % X
      /\ Bits(x, Q * 2, Q) = d2 % X /\ Bits(x, Q * 3, Q) = d3
  <2>1. x \div 1 = x
    BY <1>2, DivModIs
  <2>2. x \div X = d1 /\ d1 \div X = d2 /\ d2 \div X = d3
    BY DEF d1, d2, d3
  <2>3. x \div (X * X) = d2
    BY <1>1, <1>2, <2>2, DivDiv
  <2>4. x \div ((X * X) * X) = d3
    <3>. DEFINE C == X * X
    <3>1. C \in Nat /\ C > 0
      <4>1. X * 1 <= X * X
        BY <1>1, TimesMono
      <4>. QED  BY <1>1, <4>1
    <3>. HIDE DEF C
    <3>2. x \div (C * X) = (x \div C) \div X
      BY <1>1, <1>2, <3>1, DivDiv
    <3>. QED  BY <2>2, <2>3, <3>2 DEF C
  <2>5. 2^Q = X
    BY DEF X
  <2>. QED  BY <1>1, <1>6, <2>1, <2>2, <2>3, <2>4, <2>5 DEF Bits
<1>8. \A i \in 0 .. 3 : Bits(x, Q * i, Q) \in Nat
  <2>1. \A i \in 0 .. 3 : Q * i \in Nat
    BY Widths
  <2>2. \A i \in 0 .. 3 : Bits(x, Q * i, Q) \in Word(Q)
    BY <1>2, <2>1, Widths, BitsWord
  <2>. QED  BY <2>2, Widths, Words
<1>9. x = (x % X) + X * ((d1 % X) + X * ((d2 % X) + X * d3))
  <2>1. d2 = (d2 % X) + X * d3
    BY <1>1, <1>5
  <2>2. d1 = (d1 % X) + X * d2
    BY <1>1, <1>4
  <2>3. x = (x % X) + X * d1
    BY <1>1, <1>3
  <2>. QED  BY <2>1, <2>2, <2>3
<1>. QED  BY <1>7, <1>8, <1>9 DEF X

\* The ten products that are added, and the six that only reach higher bits.
LEMMA TenProducts ==
  ASSUME NEW X \in Nat, NEW a0 \in Nat, NEW a1 \in Nat, NEW a2 \in Nat, NEW a3 \in Nat,
         NEW b0 \in Nat, NEW b1 \in Nat, NEW b2 \in Nat, NEW b3 \in Nat
  PROVE  (a0 + X * (a1 + X * (a2 + X * a3))) * (b0 + X * (b1 + X * (b2 + X * b3)))
         = (a0 * b0 + (a0 * b1) * X + (a0 * b2) * (X * X) + (a0 * b3) * ((X * X) * X)
              + (a1 * b0) * X + (a1 * b1) * (X * X) + (a1 * b2) * ((X * X) * X)
              + (a2 * b0) * (X * X) + (a2 * b1) * ((X * X) * X) + (a3 * b0) * ((X * X) * X))
           + (X * ((X * X) * X))
               * (a1 * b3 + a2 * b2 + a3 * b1 + X * (a2 * b3 + a3 * b2) + (X * X) * (a3 * b3))
OBVIOUS

\* The sum of the products is the low half of the whole product.
LEMMA SumIsProduct ==
  ASSUME NEW a \in Word(W), NEW b \in Word(W), product = product_nxt(a, b)
  PROVE  cm = (a * b) % 2^W
<1>. DEFINE A(i) == Bits(a, Q * i, Q)
            B(i) == Bits(b, Q * i, Q)
            X == 2^Q
            M == 2^W
            rest == A(1) * B(3) + A(2) * B(2) + A(3) * B(1)
                      + X * (A(2) * B(3) + A(3) * B(2)) + (X * X) * (A(3) * B(3))
            sum == Weighted(0, 0) + Weighted(0, 1) + Weighted(0, 2) + Weighted(0, 3)
                     + Weighted(1, 0) + Weighted(1, 1) + Weighted(1, 2)
                     + Weighted(2, 0) + Weighted(2, 1) + Weighted(3, 0)
<1>1. /\ \A i \in 0 .. 3 : A(i) \in Nat /\ B(i) \in Nat
      /\ a = A(0) + X * (A(1) + X * (A(2) + X * A(3)))
      /\ b = B(0) + X * (B(1) + X * (B(2) + X * B(3)))
  BY Quarters
<1>2. X \in Nat /\ X > 0 /\ 2^(Q * 0) = 1 /\ 2^(Q * 1) = X /\ 2^(Q * 2) = X * X
      /\ 2^(Q * 3) = (X * X) * X /\ M = X * ((X * X) * X) /\ M \in Nat /\ M > 0
  <2>1. Q * 0 = 0 /\ Q * 1 = Q /\ Q * 2 = Q + Q /\ Q * 3 = (Q * 2) + Q /\ W = Q + (Q * 3)
    BY Widths
  <2>2. Q \in Nat /\ Q * 2 \in Nat /\ Q * 3 \in Nat /\ W \in Nat
    BY Widths
  <2>3. 2^(Q * 0) = 1 /\ 2^Q \in Nat /\ 2^Q > 0 /\ 2^W \in Nat /\ 2^W > 0
    BY <2>1, <2>2, Power
  <2>4. 2^(Q + Q) = 2^Q * 2^Q
    BY <2>2, PowerAdd
  <2>5. 2^((Q * 2) + Q) = 2^(Q * 2) * 2^Q
    BY <2>2, PowerAdd
  <2>6. 2^(Q + (Q * 3)) = 2^Q * 2^(Q * 3)
    BY <2>2, PowerAdd
  <2>. QED  BY <2>1, <2>3, <2>4, <2>5, <2>6
<1>3. \A i, j \in 0 .. 3 : i + j <= 3 => product[<<i, j>>] = A(i) * B(j)
  <2>. SUFFICES ASSUME NEW i \in 0 .. 3, NEW j \in 0 .. 3, i + j <= 3
                PROVE  product[<<i, j>>] = A(i) * B(j)
    OBVIOUS
  <2>1. <<i, j>> \in Pairs
    BY DEF Pairs
  <2>. QED  BY <2>1 DEF product_nxt
<1>. HIDE DEF A, B, X
<1>4. \A i, j \in 0 .. 3 : i + j <= 3 => Weighted(i, j) = (A(i) * B(j)) * 2^(Q * (i + j))
  BY <1>3 DEF Weighted
<1>5. /\ Weighted(0, 0) = A(0) * B(0) /\ Weighted(0, 1) = (A(0) * B(1)) * X
      /\ Weighted(0, 2) = (A(0) * B(2)) * (X * X)
      /\ Weighted(0, 3) = (A(0) * B(3)) * ((X * X) * X)
      /\ Weighted(1, 0) = (A(1) * B(0)) * X /\ Weighted(1, 1) = (A(1) * B(1)) * (X * X)
      /\ Weighted(1, 2) = (A(1) * B(2)) * ((X * X) * X)
      /\ Weighted(2, 0) = (A(2) * B(0)) * (X * X)
      /\ Weighted(2, 1) = (A(2) * B(1)) * ((X * X) * X)
      /\ Weighted(3, 0) = (A(3) * B(0)) * ((X * X) * X)
  <2>1. /\ Weighted(0, 0) = (A(0) * B(0)) * 2^(Q * 0)
        /\ Weighted(0, 1) = (A(0) * B(1)) * 2^(Q * 1)
        /\ Weighted(0, 2) = (A(0) * B(2)) * 2^(Q * 2)
        /\ Weighted(0, 3) = (A(0) * B(3)) * 2^(Q * 3)
        /\ Weighted(1, 0) = (A(1) * B(0)) * 2^(Q * 1)
        /\ Weighted(1, 1) = (A(1) * B(1)) * 2^(Q * 2)
        /\ Weighted(1, 2) = (A(1) * B(2)) * 2^(Q * 3)
        /\ Weighted(2, 0) = (A(2) * B(0)) * 2^(Q * 2)
        /\ Weighted(2, 1) = (A(2) * B(1)) * 2^(Q * 3)
        /\ Weighted(3, 0) = (A(3) * B(0)) * 2^(Q * 3)
    BY <1>4
  <2>2. A(0) * B(0) \in Nat
    BY <1>1
  <2>. QED  BY <1>2, <2>1, <2>2
<1>6. a * b = sum + M * rest /\ sum \in Int /\ rest \in Int
  <2>. DEFINE a0 == A(0) a1 == A(1) a2 == A(2) a3 == A(3)
              b0 == B(0) b1 == B(1) b2 == B(2) b3 == B(3)
  <2>1. /\ a0 \in Nat /\ a1 \in Nat /\ a2 \in Nat /\ a3 \in Nat
        /\ b0 \in Nat /\ b1 \in Nat /\ b2 \in Nat /\ b3 \in Nat
    BY <1>1
  <2>2. /\ a = a0 + X * (a1 + X * (a2 + X * a3))
        /\ b = b0 + X * (b1 + X * (b2 + X * b3))
    BY <1>1
  <2>3. sum = a0 * b0 + (a0 * b1) * X + (a0 * b2) * (X * X) + (a0 * b3) * ((X * X) * X)
              + (a1 * b0) * X + (a1 * b1) * (X * X) + (a1 * b2) * ((X * X) * X)
              + (a2 * b0) * (X * X) + (a2 * b1) * ((X * X) * X) + (a3 * b0) * ((X * X) * X)
    BY <1>5
  <2>4. rest = a1 * b3 + a2 * b2 + a3 * b1 + X * (a2 * b3 + a3 * b2) + (X * X) * (a3 * b3)
    OBVIOUS
  <2>. HIDE DEF a0, a1, a2, a3, b0, b1, b2, b3, sum, rest
  <2>5. a * b = sum + (X * ((X * X) * X)) * rest
    BY <1>2, <2>1, <2>2, <2>3, <2>4, TenProducts
  <2>6. sum \in Int /\ rest \in Int
    BY <1>2, <2>1, <2>3, <2>4
  <2>. QED  BY <1>2, <2>5, <2>6
<1>7. cm = sum % M
  BY DEF cm
<1>. HIDE DEF sum, rest, M
<1>8. (sum + M * rest) % M = sum % M
  BY <1>2, <1>6, SameRemainder
<1>. QED  BY <1>6, <1>7, <1>8 DEF M

\* The products are those of the multiplication in E as soon as it has started.
ProductInv ==
  isMultiply /\ (mstate = "DOING" \/ dataD.stalled) =>
    product = product_nxt(dataD.a, dataD.b)

LEMMA ProductStep ==
  ASSUME TypeOK, ProductInv, Next
  PROVE  ProductInv'
<1>1. MultiplierEdge(multiply_valid, dataD.a, dataD.b)
  BY Cycle DEF Units
<1>2. CASE StartMultiply(multiply_valid, dataD.a, dataD.b)
  <2>1. exe_wait
    BY <1>2 DEF StartMultiply, exe_wait, done_m, done_multiply, multiply_valid
  <2>2. dataD'.stalled \/ dataD' = Bubble
    BY <2>1 DEF Next, Edge, Keep, Leave, Flush, TypeOK
  <2>3. CASE dataD'.stalled
    <3>1. product' = product_nxt(dataD'.a, dataD'.b)
      BY <1>2, <2>3, OperandsHeld DEF StartMultiply
    <3>. QED  BY <3>1 DEF ProductInv, product_nxt
  <2>4. CASE dataD' = Bubble
    BY <2>4 DEF Bubble, Instr, Other, ProductInv, isMultiply, ctl
  <2>. QED  BY <2>2, <2>3, <2>4
<1>3. CASE EndMultiply(multiply_valid)
  <2>1. mstate' = "INIT" /\ product' = product
    BY <1>3 DEF EndMultiply
  <2>2. isMultiply => product = product_nxt(dataD.a, dataD.b)
    BY <1>3 DEF EndMultiply, done_multiply, multiply_valid, ProductInv
  <2>3. dataD'.stalled /\ isMultiply' => product' = product_nxt(dataD'.a, dataD'.b)
    BY <2>1, <2>2, OperandsHeld
  <2>. QED  BY <2>1, <2>3 DEF ProductInv, product_nxt
<1>. QED  BY <1>1, <1>2, <1>3 DEF MultiplierEdge

-----------------------------------------------------------------------------
(* Signs.                                                                   *)

\* The sign of a word is its top bit, also when the word is part of another.
LEMMA TopBit ==
  ASSUME NEW w \in Nat \ {0}, NEW x \in Nat
  PROVE  /\ Bit(x, w - 1) <=> Bit(x % 2^w, w - 1)
         /\ Bit(x, w - 1) <=> x % 2^w >= 2^(w - 1)
<1>. DEFINE K == 2^(w - 1)
            D == 2 * K
            q == x \div D
            low == x % D
            t == low \div K
            s == low % K
            e == 2 * q + t
<1>1. K \in Nat /\ K > 0 /\ 2^w = 2 * K /\ D \in Nat /\ D > 0 /\ 2^1 = 2 /\ w - 1 \in Nat
  BY Power
<1>2. x = D * q + low /\ q \in Nat /\ low \in 0 .. D - 1
  <2>. HIDE DEF D
  <2>. QED  BY <1>1, DivMod
<1>. HIDE DEF K, q, low
<1>3. t \in {0, 1} /\ low = K * t + s /\ s \in 0 .. K - 1
  BY <1>1, <1>2, Shifted
<1>. HIDE DEF t, s
<1>4. x \div K = e
  <2>1. x = K * e + s /\ e \in Int
    <3>1. (2 * K) * q + K * t = K * (2 * q + t)
      BY <1>1, <1>2, <1>3
    <3>2. K * t \in Int /\ (2 * K) * q \in Int
      BY <1>1, <1>2, <1>3
    <3>. QED  BY <1>2, <1>3, <3>1, <3>2
  <2>. HIDE DEF e
  <2>. QED  BY <1>1, <1>3, <2>1, DivModIs
<1>5. e % 2 = t /\ t % 2 = t
  BY <1>2, <1>3
<1>6. Bit(x, w - 1) <=> t = 1
  BY <1>1, <1>4, <1>5 DEF Bit, Bits, K
<1>7. low \div K = t
  BY DEF t
<1>8. Bit(low, w - 1) <=> t = 1
  BY <1>1, <1>5, <1>7 DEF Bit, Bits, K
<1>9. low >= K <=> t = 1
  BY <1>1, <1>3
<1>10. x % 2^w = low /\ 2^(w - 1) = K
  BY <1>1 DEF low, K
<1>. QED  BY <1>6, <1>8, <1>9, <1>10

\* A magnitude is the absolute value of the operand as the instruction reads it.
LEMMA Magnitudes ==
  ASSUME TypeOK, NEW x \in Word(W)
  PROVE  /\ Value(x) \in Int
         /\ Negative(x) <=> Value(x) < 0
         /\ Magnitude(x) = Abs(Value(x))
         /\ x % 2^width \in Nat /\ x % 2^width < 2^width
         /\ Value(x) = (x % 2^width) - (IF Negative(x) THEN 2^width ELSE 0)
<1>. DEFINE M == 2^width
            low == x % M
            K == 2^(width - 1)
<1>1. width \in Nat \ {0} /\ x \in Nat
  BY OperandWords, Widths, Words
<1>2. M \in Nat /\ M = 2 * K /\ K \in Nat /\ K > 0
  <2>1. width - 1 \in Nat /\ (width - 1) + 1 = width
    BY <1>1
  <2>. QED  BY <2>1, Power
<1>3. low \in 0 .. M - 1
  <2>1. M > 0
    BY <1>2
  <2>. HIDE DEF M
  <2>. QED  BY <1>1, <1>2, <2>1
<1>4. (Bit(x, width - 1) <=> Bit(low, width - 1)) /\ (Bit(x, width - 1) <=> low >= K)
  BY <1>1, TopBit
<1>5. Value(x) = IF ctl.unsigned THEN low ELSE IF Bit(low, width - 1) THEN low - M ELSE low
  BY DEF Value, Signed
<1>6. Magnitude(x) = IF Negative(x) THEN (M - low) % M ELSE low
  BY DEF Magnitude, Negate
<1>7. Negative(x) <=> ~ctl.unsigned /\ low >= K
  BY <1>4 DEF Negative
<1>. HIDE DEF M, low, K
<1>8. low >= K => (M - low) % M = M - low
  <2>1. low >= K => M - low \in 0 .. M - 1 /\ M - low = M * 0 + (M - low)
    BY <1>2, <1>3
  <2>2. \A r \in 0 .. M - 1 : r % M = r
    BY <1>2
  <2>. QED  BY <2>1, <2>2
<1>9. Value(x) = low - (IF Negative(x) THEN M ELSE 0) /\ Value(x) \in Int
  BY <1>2, <1>3, <1>4, <1>5, <1>7
<1>10. Magnitude(x) = Abs(Value(x)) /\ (Negative(x) <=> Value(x) < 0)
  <2>1. CASE Negative(x)
    <3>1. Value(x) = low - M /\ Magnitude(x) = M - low /\ Value(x) < 0
      BY <1>2, <1>3, <1>6, <1>7, <1>8, <1>9, <2>1
    <3>. QED  BY <1>2, <1>3, <2>1, <3>1 DEF Abs
  <2>2. CASE ~Negative(x)
    <3>1. Value(x) = low /\ Magnitude(x) = low /\ ~(Value(x) < 0)
      BY <1>2, <1>3, <1>6, <1>9, <2>2
    <3>. QED  BY <2>2, <3>1 DEF Abs
  <2>. QED  BY <2>1, <2>2
<1>. QED  BY <1>2, <1>3, <1>9, <1>10 DEF M, low

\* The low half of a sign-extended word is the word.
LEMMA LowOfSext ==
  ASSUME NEW x \in Word(H)
  PROVE  Sext(x) % 2^H = x
<1>. DEFINE M == 2^H
            N == 2^W
            v == Signed(x, H)
            k == v \div N
            z == v % N
<1>1. M \in Nat /\ M > 0 /\ N = M * M /\ N \in Nat /\ N > 0
  <2>1. W = H + H /\ H \in Nat /\ W \in Nat
    BY Widths
  <2>2. 2^(H + H) = 2^H * 2^H
    BY <2>1, PowerAdd
  <2>. QED  BY <2>1, <2>2, Power
<1>2. x \in 0 .. M - 1
  BY DEF Word
<1>3. (v = x \/ v = x - M) /\ v \in Int
  <2>1. v = x \/ v = x - M
    BY DEF Signed
  <2>. QED  BY <1>1, <1>2, <2>1
<1>. HIDE DEF v, N
<1>4. v = N * k + z /\ k \in Int /\ z \in 0 .. N - 1
  BY <1>1, <1>3, DivMod
<1>. HIDE DEF M, k, z
<1>5. \E d \in Int : z = x + M * d
  <2>1. N * k = M * (M * k) /\ M * k \in Int
    BY <1>1, <1>4
  <2>2. CASE v = x
    <3>1. M * (-(M * k)) = -(M * (M * k)) /\ -(M * k) \in Int
      BY <1>1, <2>1
    <3>2. z = x + M * (-(M * k))
      BY <1>1, <1>2, <1>4, <2>1, <2>2, <3>1
    <3>. QED  BY <3>1, <3>2
  <2>3. CASE v = x - M
    <3>1. M * (-(M * k) - 1) = -(M * (M * k)) - M /\ -(M * k) - 1 \in Int
      BY <1>1, <2>1
    <3>2. z = x + M * (-(M * k) - 1)
      BY <1>1, <1>2, <1>4, <2>1, <2>3, <3>1
    <3>. QED  BY <3>1, <3>2
  <2>. QED  BY <1>3, <2>2, <2>3
<1>6. z % M = x % M
  BY <1>1, <1>2, <1>5, SameRemainder
<1>7. x % M = x
  BY <1>1, <1>2
<1>8. Sext(x) = z
  BY DEF Sext, z, v, N
<1>. QED  BY <1>6, <1>7, <1>8 DEF M

-----------------------------------------------------------------------------
(* The results.                                                             *)

LEMMA MultiplyRight ==
  ASSUME TypeOK, ProductInv, mul_ok
  PROVE  ans_m = Expected
<1>. DEFINE a == dataD.a
            b == dataD.b
            M == 2^width
            x == Value(a)
            y == Value(b)
<1>1. isMultiply /\ ~isDivide /\ product = product_nxt(a, b)
  BY DEF mul_ok, done_m, done_multiply, multiply_valid, ProductInv, isMultiply, isDivide
<1>2. a \in Word(W) /\ b \in Word(W) /\ a \in Nat /\ b \in Nat
  BY Widths, Words DEF TypeOK
<1>3. cm = (a * b) % 2^W
  BY <1>1, <1>2, SumIsProduct
<1>4. Expected = IF ctl.word THEN Sext((x * y) % M) ELSE (x * y) % M
  BY <1>1 DEF Expected
<1>5. M \in Nat /\ M > 0 /\ ctl.word \in BOOLEAN /\ width = IF ctl.word THEN H ELSE W
  BY OperandWords, Widths, Power
<1>6. ASSUME NEW z \in Word(W)
      PROVE  \E k \in Int : Value(z) = z + M * k
  <2>. DEFINE q == z \div M
              r == z % M
              e == IF Negative(z) THEN 1 ELSE 0
  <2>1. z = M * q + r /\ q \in Int /\ r \in Int /\ z \in Int
    <3>1. z \in Int
      BY Widths, Words
    <3>. HIDE DEF M
    <3>. QED  BY <1>5, <3>1, DivMod
  <2>2. Value(z) = r - M * e /\ e \in Int
    <3>1. Value(z) = r - (IF Negative(z) THEN M ELSE 0)
      BY Magnitudes
    <3>2. M * 1 = M /\ M * 0 = 0
      BY <1>5
    <3>. HIDE DEF r, M
    <3>. QED  BY <3>1, <3>2
  <2>. HIDE DEF M, q, r, e
  <2>3. M * (-q - e) = -(M * q) - M * e /\ -q - e \in Int /\ M * q \in Int /\ M * e \in Int
    BY <1>5, <2>1, <2>2
  <2>. QED  BY <2>1, <2>2, <2>3
<1>7. PICK k \in Int : x = a + M * k
  BY <1>2, <1>6
<1>8. PICK l \in Int : y = b + M * l
  BY <1>2, <1>6
<1>. HIDE DEF a, b, x, y, M
<1>9. (x * y) % M = (a * b) % M
  <2>. DEFINE e == a * l + k * b + M * (k * l)
  <2>1. x * y = a * b + M * e /\ a * b \in Int /\ e \in Int
    BY <1>2, <1>5, <1>7, <1>8
  <2>. HIDE DEF e
  <2>. QED  BY <1>5, <2>1, SameRemainder
<1>10. CASE ctl.word
  <2>. DEFINE N == 2^W
              ab == a * b
              q == ab \div N
              z == ab % N
              e == M * q
  <2>1. N = M * M /\ N \in Nat /\ N > 0 /\ M = 2^H
    <3>1. W = H + H /\ H \in Nat /\ W \in Nat
      BY Widths
    <3>2. 2^(H + H) = 2^H * 2^H
      BY <3>1, PowerAdd
    <3>. QED  BY <1>5, <1>10, <3>1, <3>2, Power DEF M
  <2>2. ab \in Int /\ N \in Nat /\ N > 0
    BY <1>2, <2>1
  <2>. HIDE DEF N, ab
  <2>3. ab = N * q + z /\ q \in Int /\ z \in Int
    BY <2>2, DivMod
  <2>. HIDE DEF q, z
  <2>4. ab = z + M * e /\ e \in Int
    <3>1. (M * M) * q = M * (M * q) /\ M * q \in Int /\ M * (M * q) \in Int
      BY <1>5, <2>3
    <3>. QED  BY <2>1, <2>3, <3>1
  <2>. HIDE DEF e
  <2>5. ab % M = z % M
    BY <1>5, <2>3, <2>4, SameRemainder
  <2>. QED  BY <1>3, <1>4, <1>9, <1>10, <2>1, <2>5 DEF ans_m, N, ab, z
<1>11. CASE ~ctl.word
  BY <1>3, <1>4, <1>5, <1>9, <1>11 DEF ans_m, M
<1>. QED  BY <1>5, <1>10, <1>11

LEMMA SextOnes == Sext(2^H - 1) = 2^W - 1
<1>. DEFINE K == 2^(H - 1)
            M == 2^H
            N == 2^W
            x == M - 1
<1>1. K \in Nat /\ K > 0 /\ M = 2 * K /\ N \in Nat /\ N > 0
  <2>1. H - 1 \in Nat /\ H = (H - 1) + 1 /\ W \in Nat
    BY Widths
  <2>. QED  BY <2>1, Power
<1>2. x \in Nat /\ x % M = x /\ x >= K
  <2>. HIDE DEF M, K
  <2>1. \A r \in 0 .. M - 1 : r % M = r
    BY <1>1
  <2>. QED  BY <1>1, <2>1
<1>3. Bit(x, H - 1)
  <2>. HIDE DEF x
  <2>1. Bit(x, H - 1) <=> x % M >= K
    BY <1>2, Widths, TopBit
  <2>. QED  BY <1>2, <2>1
<1>4. Signed(x, H) = -1
  <2>1. Signed(x, H) = x - M
    BY <1>3 DEF Signed
  <2>. HIDE DEF M
  <2>. QED  BY <1>1, <2>1
<1>5. (-1) % N = N - 1
  <2>. HIDE DEF N
  <2>1. -1 = N * (-1) + (N - 1) /\ N - 1 \in 0 .. N - 1
    BY <1>1
  <2>2. N - 1 = (-1) % N
    BY <1>1, <2>1, DivModIs
  <2>. QED  BY <2>2
<1>. QED  BY <1>4, <1>5 DEF Sext

\* The sign is put back into the word, and the word is sign-extended.
LEMMA Resigned ==
  ASSUME TypeOK, NEW v \in Word(width), NEW neg \in BOOLEAN
  PROVE  Resign(IF ctl.word THEN Sext(v) ELSE v, neg)
           = IF ctl.word THEN Sext((IF neg THEN -v ELSE v) % 2^width)
                         ELSE (IF neg THEN -v ELSE v) % 2^width
<1>. DEFINE M == 2^width
            c == IF ctl.word THEN Sext(v) ELSE v
<1>1. width \in Nat /\ ctl.word \in BOOLEAN /\ width = IF ctl.word THEN H ELSE W
  BY OperandWords, Widths
<1>2. M \in Nat /\ M > 0 /\ v \in Nat /\ v % M = v
  BY <1>1, Power, Words
<1>3. c % M = v
  <2>1. CASE ctl.word
    BY <1>1, <2>1, LowOfSext
  <2>2. CASE ~ctl.word
    BY <1>2, <2>2
  <2>. QED  BY <1>1, <2>1, <2>2
<1>4. Negate(v, width) = (-v) % M
  <2>1. Negate(v, width) = (M - v) % M
    BY DEF Negate
  <2>. HIDE DEF M
  <2>2. ((-v) + M * 1) % M = (-v) % M
    BY <1>2, SameRemainder
  <2>3. (-v) + M * 1 = M - v
    BY <1>2
  <2>. QED  BY <2>1, <2>2, <2>3
<1>5. Resign(c, neg) =
        LET val == IF neg THEN Negate(v, width) ELSE v
        IN  IF ctl.word THEN Sext(val) ELSE val
  BY <1>3 DEF Resign
<1>. HIDE DEF c
<1>. QED  BY <1>1, <1>2, <1>4, <1>5 DEF c

\* Quotients rounded toward zero, by magnitudes: the remainder has the sign of
\* the dividend.
LEMMA SignedDivision ==
  ASSUME NEW x \in Int, NEW y \in Int, y # 0
  PROVE  /\ Quotient(x, y) = IF (x < 0 /\ ~(y < 0)) \/ (~(x < 0) /\ y < 0)
                             THEN -(Abs(x) \div Abs(y)) ELSE Abs(x) \div Abs(y)
         /\ Remainder(x, y) = IF x < 0 THEN -(Abs(x) % Abs(y)) ELSE Abs(x) % Abs(y)
<1>. DEFINE q == Abs(x) \div Abs(y)
            r == Abs(x) % Abs(y)
<1>1. Abs(x) \in Nat /\ Abs(y) \in Nat /\ Abs(y) > 0
  BY DEF Abs
<1>2. Abs(x) = Abs(y) * q + r /\ q \in Int /\ r \in Int
  <2>. DEFINE u == Abs(x)
              v == Abs(y)
  <2>1. u \in Nat /\ v \in Nat /\ v > 0
    BY <1>1
  <2>. HIDE DEF u, v
  <2>2. u = v * (u \div v) + (u % v) /\ u \div v \in Int /\ u % v \in Int
    BY <2>1, DivMod
  <2>. QED  BY <2>2 DEF u, v
<1>3. Quotient(x, y) = IF (x < 0 /\ ~(y < 0)) \/ (~(x < 0) /\ y < 0) THEN -q ELSE q
  <2>. HIDE DEF q
  <2>1. (x < 0) = (y < 0) <=> ~((x < 0 /\ ~(y < 0)) \/ (~(x < 0) /\ y < 0))
    OBVIOUS
  <2>. QED  BY <2>1 DEF Quotient, q
<1>4. Remainder(x, y) = x - y * Quotient(x, y)
  BY DEF Remainder
<1>. HIDE DEF q, r
<1>5. y * (-q) = -(y * q) /\ (-y) * q = -(y * q) /\ y * q \in Int
  BY <1>2
<1>6. ASSUME x < 0, y < 0 PROVE Remainder(x, y) = -r
  <2>1. -x = (-y) * q + r /\ Quotient(x, y) = q
    BY <1>2, <1>3, <1>6 DEF Abs
  <2>2. Remainder(x, y) = x - y * q
    BY <1>4, <2>1
  <2>. QED  BY <1>2, <1>5, <2>1, <2>2
<1>7. ASSUME x < 0, ~(y < 0) PROVE Remainder(x, y) = -r
  <2>1. -x = y * q + r /\ Quotient(x, y) = -q
    BY <1>2, <1>3, <1>7 DEF Abs
  <2>2. Remainder(x, y) = x - y * (-q)
    BY <1>4, <2>1
  <2>. QED  BY <1>2, <1>5, <2>1, <2>2
<1>8. ASSUME ~(x < 0), y < 0 PROVE Remainder(x, y) = r
  <2>1. x = (-y) * q + r /\ Quotient(x, y) = -q
    BY <1>2, <1>3, <1>8 DEF Abs
  <2>2. Remainder(x, y) = x - y * (-q)
    BY <1>4, <2>1
  <2>. QED  BY <1>2, <1>5, <2>1, <2>2
<1>9. ASSUME ~(x < 0), ~(y < 0) PROVE Remainder(x, y) = r
  <2>1. x = y * q + r /\ Quotient(x, y) = q
    BY <1>2, <1>3, <1>9 DEF Abs
  <2>2. Remainder(x, y) = x - y * q
    BY <1>4, <2>1
  <2>. QED  BY <1>2, <1>5, <2>1, <2>2
<1>10. Remainder(x, y) = IF x < 0 THEN -r ELSE r
  BY <1>6, <1>7, <1>8, <1>9
<1>. QED  BY <1>3, <1>10 DEF q, r

LEMMA ZeroDivisor ==
  ASSUME TypeOK, isDivide, cb = 0
  PROVE  ans_d = Expected
<1>. DEFINE a == dataD.a
            M == 2^width
            x == Value(a)
            y == Value(dataD.b)
            r == IF ctl.rem THEN Remainder(x, y) ELSE Quotient(x, y)
<1>1. a \in Word(W) /\ dataD.b \in Word(W) /\ a \in Nat
  BY Widths, Words DEF TypeOK
<1>2. /\ x \in Int /\ y \in Int /\ cb = Abs(y)
      /\ a % M \in Nat /\ a % M < M
      /\ x = (a % M) - (IF Negative(a) THEN M ELSE 0)
  BY <1>1, Magnitudes DEF cb
<1>3. y = 0
  BY <1>2 DEF Abs
<1>4. M \in Nat /\ M > 0 /\ ctl.word \in BOOLEAN /\ width = IF ctl.word THEN H ELSE W
  BY OperandWords, Widths, Power
<1>5. Expected = IF ctl.word THEN Sext(r % M) ELSE r % M
  BY DEF Expected, isDivide, isMultiply
<1>6. ans_d = IF ctl.rem THEN IF ctl.word THEN Sext(a % 2^H) ELSE a ELSE 2^W - 1
  BY DEF ans_d, cd
<1>7. r = IF ctl.rem THEN x ELSE -1
  BY <1>3 DEF Remainder, Quotient
<1>. HIDE DEF r
<1>8. x % M = a % M
  <2>. DEFINE e == IF Negative(a) THEN -1 ELSE 0
              z == a % M
  <2>1. x = z + M * e /\ e \in Int /\ z \in Int /\ z % M = z
    <3>1. z \in 0 .. M - 1 /\ x = z - (IF Negative(a) THEN M ELSE 0)
      BY <1>2, <1>4
    <3>. HIDE DEF M, x, z
    <3>2. \A s \in 0 .. M - 1 : s % M = s
      BY <1>4
    <3>3. M * (-1) = -M /\ M * 0 = 0
      BY <1>4
    <3>. QED  BY <1>4, <3>1, <3>2, <3>3
  <2>. HIDE DEF M, x, z, e
  <2>2. x % M = z % M
    BY <1>4, <2>1, SameRemainder
  <2>. QED  BY <2>1, <2>2 DEF z
<1>9. (-1) % M = M - 1
  <2>. HIDE DEF M
  <2>1. -1 = M * (-1) + (M - 1) /\ M - 1 \in 0 .. M - 1
    BY <1>4
  <2>2. M - 1 = (-1) % M
    BY <1>4, <2>1, DivModIs
  <2>. QED  BY <2>2
<1>10. a % 2^W = a
  BY <1>1, Widths, Words
<1>. HIDE DEF x, a
<1>11. CASE ctl.rem
  BY <1>4, <1>5, <1>6, <1>7, <1>8, <1>10, <1>11
<1>12. CASE ~ctl.rem
  BY <1>4, <1>5, <1>6, <1>7, <1>9, <1>12, SextOnes
<1>. QED  BY <1>11, <1>12

LEMMA DivideRight ==
  ASSUME TypeOK, DivisionInv, div_ok
  PROVE  ans_d = Expected
<1>1. isDivide /\ ~isMultiply /\ done_d
  BY DEF div_ok, isDivide, isMultiply
<1>2. CASE cb = 0
  BY <1>1, <1>2, ZeroDivisor
<1>3. CASE cb # 0
  <2>. DEFINE x == Value(dataD.a)
              y == Value(dataD.b)
              q == ca \div cb
              r == ca % cb
              nq == Negative(dataD.a) # Negative(dataD.b)
              nr == Negative(dataD.a)
              M == 2^width
              res == IF ctl.rem THEN Remainder(x, y) ELSE Quotient(x, y)
  <2>1. dataD.a \in Word(W) /\ dataD.b \in Word(W)
    BY DEF TypeOK
  <2>2. /\ x \in Int /\ y \in Int /\ ca = Abs(x) /\ cb = Abs(y)
        /\ (Negative(dataD.a) <=> x < 0) /\ (Negative(dataD.b) <=> y < 0)
    BY <2>1, Magnitudes DEF ca, cb
  <2>3. /\ ca \in Word(width) /\ ca \in Nat /\ cb \in Nat /\ cb > 0 /\ cb \in Word(width)
        /\ ctl.word \in BOOLEAN /\ width \in Nat
    BY <1>3, OperandWords, Widths
  <2>4. q \in Word(width) /\ r \in Word(width)
    <3>. DEFINE a == ca
                b == cb
    <3>1. a \in Nat /\ b \in Nat /\ b > 0 /\ a <= M - 1 /\ b <= M - 1 /\ M \in Int
          /\ Word(width) = 0 .. M - 1
      BY <2>3, Power DEF Word
    <3>. HIDE DEF a, b, M
    <3>2. a = b * (a \div b) + (a % b) /\ a \div b \in Nat /\ a % b \in 0 .. b - 1
      BY <3>1, DivMod
    <3>. DEFINE d == a \div b
    <3>. HIDE DEF d
    <3>3. d * 1 <= d * b /\ d * b = b * d /\ b * d \in Nat /\ d \in Nat
      <4>1. d \in Nat
        BY <3>2 DEF d
      <4>. QED  BY <3>1, <4>1, TimesMono
    <3>4. d <= a
      BY <3>1, <3>2, <3>3 DEF d
    <3>5. d \in 0 .. M - 1 /\ a % b \in 0 .. M - 1
      BY <3>1, <3>2, <3>3, <3>4
    <3>. QED  BY <3>1, <3>5 DEF a, b, d
  <2>5. /\ cd_tmp(ctl.word).hi = IF ctl.word THEN Sext(r) ELSE r
        /\ cd_tmp(ctl.word).lo = IF ctl.word THEN Sext(q) ELSE q
    BY <1>1, <1>3, <2>3, DivisionEnds DEF cd_tmp
  <2>6. /\ cd.hi = Resign(cd_tmp(ctl.word).hi, nr)
        /\ cd.lo = Resign(cd_tmp(ctl.word).lo, nq)
    BY <1>3 DEF cd
  <2>7. nq \in BOOLEAN /\ nr \in BOOLEAN
    BY DEF Negative
  <2>8. /\ Quotient(x, y) = IF nq THEN -q ELSE q
        /\ Remainder(x, y) = IF nr THEN -r ELSE r
    <3>1. y # 0
      BY <1>3, <2>2 DEF Abs
    <3>2. /\ Quotient(x, y) = IF (x < 0 /\ ~(y < 0)) \/ (~(x < 0) /\ y < 0) THEN -q ELSE q
          /\ Remainder(x, y) = IF x < 0 THEN -r ELSE r
      BY <2>2, <3>1, SignedDivision
    <3>3. nq <=> (x < 0 /\ ~(y < 0)) \/ (~(x < 0) /\ y < 0)
      <4>1. nq <=> (nr /\ ~Negative(dataD.b)) \/ (~nr /\ Negative(dataD.b))
        BY DEF Negative
      <4>. HIDE DEF nq, nr, x, y
      <4>. QED  BY <2>2, <4>1 DEF nr
    <3>. HIDE DEF nq, x, y, q, r
    <3>. QED  BY <2>2, <3>2, <3>3
  <2>9. Expected = IF ctl.word THEN Sext(res % M) ELSE res % M
    BY <1>1 DEF Expected
  <2>. HIDE DEF x, y, q, r, nq, nr
  <2>10. Resign(IF ctl.word THEN Sext(q) ELSE q, nq)
           = IF ctl.word THEN Sext((IF nq THEN -q ELSE q) % M)
                         ELSE (IF nq THEN -q ELSE q) % M
    BY <2>4, <2>7, Resigned
  <2>11. Resign(IF ctl.word THEN Sext(r) ELSE r, nr)
           = IF ctl.word THEN Sext((IF nr THEN -r ELSE r) % M)
                         ELSE (IF nr THEN -r ELSE r) % M
    BY <2>4, <2>7, Resigned
  <2>. HIDE DEF M
  <2>12. CASE ctl.rem
    BY <2>5, <2>6, <2>8, <2>9, <2>11, <2>12 DEF ans_d
  <2>13. CASE ~ctl.rem
    BY <2>5, <2>6, <2>8, <2>9, <2>10, <2>13 DEF ans_d
  <2>. QED  BY <2>12, <2>13
<1>. QED  BY <1>2, <1>3

\* In every cycle in which a multiplication or a division may leave E, its
\* result is the one of the M extension: for registers of any width, all
\* operands, signed and unsigned, both halves, the most negative number and a
\* divisor of zero, held or not, as long as no division is flushed.
THEOREM ResultsRight ==
  ASSUME FLUSH_DIVISION = FALSE
  PROVE  Spec => []UnitsRight
<1>1. Init => DivisionInv /\ ProductInv
  BY DEF Init, DividerInit, DivisionInv, ProductInv, Bubble, Instr, isDivide, isMultiply,
         ctl, Other
<1>2. TypeOK /\ DivisionInv /\ ProductInv /\ [Next]_vars => (DivisionInv /\ ProductInv)'
  <2>. SUFFICES ASSUME TypeOK, DivisionInv, ProductInv, [Next]_vars
                PROVE  DivisionInv' /\ ProductInv'
    OBVIOUS
  <2>1. CASE UNCHANGED vars
    BY <2>1 DEF vars, multiplierVars, dividerVars, DivisionInv, ProductInv, isDivide,
                isMultiply, ctl, ca, cb, width, Magnitude, Negative, product_nxt
  <2>2. CASE Next
    BY <2>2, DivisionStep, ProductStep
  <2>. QED  BY <2>1, <2>2
<1>3. TypeOK /\ DivisionInv /\ ProductInv => UnitsRight
  <2>. SUFFICES ASSUME TypeOK, DivisionInv, ProductInv, mul_ok \/ div_ok
                PROVE  result = Expected
    BY DEF UnitsRight
  <2>1. CASE mul_ok
    BY <2>1, MultiplyRight DEF result
  <2>2. CASE ~mul_ok
    BY <2>2, DivideRight DEF result
  <2>. QED  BY <2>1, <2>2
<1>. QED  BY <1>1, <1>2, <1>3, TypeCorrect, PTL DEF Spec
=============================================================================

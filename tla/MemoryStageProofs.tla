------------------------- MODULE MemoryStageProofs -------------------------
(***************************************************************************)
(* Proofs about MemoryStage, for words of four and of eight bytes, memories *)
(* of any size, any addresses and any data.                                 *)
(***************************************************************************)
EXTENDS MemoryStage, TLAPS

\* Behind a request there is no flush: while it is out M is empty, and when it
\* is answered M holds an access that did not trap.
ValidInv == valid => ~dataM.csr

IInv == TypeOK /\ ValidInv

-----------------------------------------------------------------------------
(* Types.                                                                   *)

\* The fields of an instruction.
LEMMA InstrType ==
  ASSUME NEW e \in Instrs \cup {Bubble}
  PROVE  /\ e.op \in {"none", "csr", "load", "store"}
         /\ e.mem_unsigned \in BOOLEAN
         /\ e.rs2 \in Word
         /\ e.size \in Sizes
         /\ Accesses(e) => e.addr \in 0..(WORDS * LANES - 1)
         /\ e.addr \in Nat
<1>1. Zero \in Word
  BY MemoryStageAssumption DEF Zero, Word, Lane, Byte
<1>2. 1 \in Sizes
  BY MemoryStageAssumption DEF Sizes
<1>3. Addrs \subseteq Nat
  BY MemoryStageAssumption
<1>4. CASE e \in Loads
  BY <1>1, <1>3, <1>4, MemoryStageAssumption DEF Loads
<1>5. CASE e \in Stores
  BY <1>3, <1>5, MemoryStageAssumption DEF Stores
<1>6. CASE e = Other("csr")
  BY <1>1, <1>2, <1>6 DEF Other, Accesses
<1>7. CASE e = Bubble
  BY <1>1, <1>2, <1>7 DEF Other, Bubble, Accesses
<1> QED
  BY <1>4, <1>5, <1>6, <1>7 DEF Instrs

\* Division by the number of bytes in an access or in a word.
LEMMA Division ==
  ASSUME NEW x \in Nat, NEW y \in {1, 2, 4, 8}
  PROVE  /\ x = y * (x \div y) + (x % y)
         /\ x % y \in 0..(y - 1) /\ x \div y \in Nat
OBVIOUS

LEMMA DivisionIs ==
  ASSUME NEW y \in {1, 2, 4, 8}, NEW q \in Nat, NEW r \in 0..(y - 1)
  PROVE  (y * q + r) \div y = q /\ (y * q + r) % y = r
<1>1. CASE y = 1  BY <1>1
<1>2. CASE y = 2  BY <1>2
<1>3. CASE y = 4  BY <1>3
<1>4. CASE y = 8  BY <1>4
<1> QED  BY <1>1, <1>2, <1>3, <1>4

\* An aligned access begins at a multiple of its size in its word as well, and
\* ends in that word.
LEMMA Rounded ==
  ASSUME NEW q \in Nat, NEW L \in {4, 8}, NEW s \in {1, 2, 4, 8}, s <= L,
         NEW r \in 0..(L - 1), (L * q + r) % s = 0
  PROVE  (r \div s) * s = r /\ r + s - 1 \in 0..(L - 1)
<1>1. CASE L = 4
  <2>1. CASE s = 1  BY <1>1, <2>1
  <2>2. CASE s = 2  BY <1>1, <2>2
  <2>3. CASE s = 4  BY <1>1, <2>3
  <2> QED  BY <1>1, <2>1, <2>2, <2>3
<1>2. CASE L = 8
  <2>1. CASE s = 1  BY <1>2, <2>1
  <2>2. CASE s = 2  BY <1>2, <2>2
  <2>3. CASE s = 4  BY <1>2, <2>3
  <2>4. CASE s = 8  BY <1>2, <2>4
  <2> QED  BY <1>2, <2>1, <2>2, <2>3, <2>4
<1> QED  BY <1>1, <1>2

\* The place of a byte in memory.
LEMMA BytePlace ==
  ASSUME NEW b \in 0..(WORDS * LANES - 1)
  PROVE  /\ b \in Nat /\ b \div LANES \in 0..(WORDS - 1) /\ b % LANES \in Lane
         /\ b = LANES * (b \div LANES) + (b % LANES)
<1>1. LANES \in {4, 8} /\ LANES \in {1, 2, 4, 8} /\ WORDS \in Nat
  BY MemoryStageAssumption
<1>2. b \in Nat /\ b < WORDS * LANES
  BY <1>1
<1> DEFINE q == b \div LANES
           r == b % LANES
<1>3. b = LANES * q + r /\ r \in 0..(LANES - 1) /\ q \in Nat
  BY <1>1, <1>2, Division
<1> HIDE DEF q, r
<1>4. q < WORDS
  <2>1. CASE LANES = 4  BY <1>1, <1>2, <1>3, <2>1
  <2>2. CASE LANES = 8  BY <1>1, <1>2, <1>3, <2>2
  <2> QED  BY <1>1, <2>1, <2>2
<1>5. q \in 0..(WORDS - 1)
  BY <1>1, <1>3, <1>4
<1> QED
  BY <1>2, <1>3, <1>5 DEF Lane, q, r

LEMMA PlaceIs ==
  ASSUME NEW w \in 0..(WORDS - 1), NEW l \in Lane
  PROVE  /\ LANES * w + l \in 0..(WORDS * LANES - 1)
         /\ (LANES * w + l) \div LANES = w /\ (LANES * w + l) % LANES = l
<1>1. LANES \in {4, 8} /\ LANES \in {1, 2, 4, 8} /\ WORDS \in Nat
  BY MemoryStageAssumption
<1>2. w \in Nat /\ w < WORDS /\ l \in 0..(LANES - 1)
  BY <1>1 DEF Lane
<1>3. LANES * w + l \in 0..(WORDS * LANES - 1)
  <2>1. CASE LANES = 4  BY <1>1, <1>2, <2>1
  <2>2. CASE LANES = 8  BY <1>1, <1>2, <2>2
  <2> QED  BY <1>1, <2>1, <2>2
<1> QED
  BY <1>1, <1>2, <1>3, DivisionIs

\* The bytes of an aligned access are neighbouring lanes of one word.
LEMMA AlignedLanes ==
  ASSUME NEW e, e.addr \in 0..(WORDS * LANES - 1), e.size \in Sizes, ~memory_misalign(e)
  PROVE  /\ e.size \in Nat \ {0} /\ e.size <= LANES
         /\ word(e) \in 0..(WORDS - 1)
         /\ lane(e) \in Nat /\ lane(e) + e.size - 1 \in Lane
         /\ e.addr = LANES * word(e) + lane(e)
         /\ \A k \in 0..(e.size - 1) : lane(e) + k \in Lane
<1>1. LANES \in {4, 8} /\ LANES \in Nat
  BY MemoryStageAssumption
<1> DEFINE a == e.addr
           s == e.size
           q == a \div LANES
           r == a % LANES
<1>2. s \in {1, 2, 4, 8} /\ s <= LANES /\ a % s = 0
  BY DEF memory_misalign, Sizes
<1>3. a = LANES * q + r /\ q \in 0..(WORDS - 1) /\ r \in 0..(LANES - 1)
  BY BytePlace DEF Lane
<1>4. word(e) = q /\ lane(e) = (r \div s) * s
  BY DEF word, lane
<1> HIDE DEF a, s, q, r
<1>5. q \in Nat
  BY <1>3
<1>6. (LANES * q + r) % s = 0
  BY <1>2, <1>3
<1>7. (r \div s) * s = r /\ r + s - 1 \in 0..(LANES - 1)
  BY <1>1, <1>2, <1>3, <1>5, <1>6, Rounded
<1>8. \A k \in 0..(s - 1) : r + k \in 0..(LANES - 1)
  BY <1>1, <1>2, <1>3, <1>7
<1>9. r \in Nat /\ s \in Nat \ {0}
  BY <1>1, <1>2, <1>3
<1> QED
  BY <1>2, <1>3, <1>4, <1>7, <1>8, <1>9 DEF a, s, Lane

\* A byte belongs to an access exactly if it is in its word and its lanes.
LEMMA StrobedBytes ==
  ASSUME NEW e, e.addr \in 0..(WORDS * LANES - 1), e.size \in Sizes, ~memory_misalign(e),
         NEW b \in 0..(WORDS * LANES - 1)
  PROVE  /\ b \in e.addr..(e.addr + e.size - 1)
              <=> b \div LANES = word(e) /\ (b % LANES) \in strobe(e)
         /\ b \in e.addr..(e.addr + e.size - 1) => b - e.addr = (b % LANES) - lane(e)
<1> DEFINE a == e.addr
           s == e.size
           n == lane(e)
           w == word(e)
           q == b \div LANES
           r == b % LANES
<1>1. LANES \in Nat /\ a \in Nat
  BY MemoryStageAssumption
<1>2. /\ s \in Nat \ {0} /\ w \in 0..(WORDS - 1) /\ n \in Nat /\ a = LANES * w + n
      /\ \A k \in 0..(s - 1) : n + k \in Lane
  BY AlignedLanes
<1>3. b \in Nat /\ q \in 0..(WORDS - 1) /\ r \in Lane /\ b = LANES * q + r
  BY BytePlace
<1>4. \A l \in Lane : (LANES * w + l) \div LANES = w /\ (LANES * w + l) % LANES = l
  BY <1>2, PlaceIs
<1>5. strobe(e) = n..(n + s - 1)
  BY DEF strobe
<1>6. ASSUME b \in a..(a + s - 1)
      PROVE  q = w /\ r = n + (b - a)
  <2> DEFINE k == b - a
  <2> HIDE DEF a, s, n, w, q, r
  <2>1. k \in 0..(s - 1)
    BY <1>1, <1>2, <1>3, <1>6
  <2>2. n + k \in Lane
    BY <1>2, <2>1
  <2>3. b = a + k /\ k \in Nat
    BY <1>1, <1>3, <2>1
  <2> HIDE DEF k
  <2>4. LANES * w \in Nat
    BY <1>1, <1>2
  <2>5. b = LANES * w + (n + k)
    BY <1>2, <2>3, <2>4
  <2> QED
    BY <1>4, <2>2, <2>5 DEF k, q, r
<1>7. r \in Nat
  BY <1>1, <1>3 DEF Lane
<1> HIDE DEF a, s, n, w, q, r
<1>8. LANES * w \in Nat
  BY <1>1, <1>2
<1>9. (q = w /\ r \in n..(n + s - 1)) => b \in a..(a + s - 1)
  BY <1>1, <1>2, <1>3, <1>7, <1>8
<1>10. b \in a..(a + s - 1) => r \in n..(n + s - 1) /\ b - a = r - n
  BY <1>1, <1>2, <1>3, <1>6, <1>7
<1> QED
  BY <1>5, <1>6, <1>9, <1>10 DEF a, s, n, w, q, r

-----------------------------------------------------------------------------
(* The invariant.                                                           *)

LEMMA InitHolds == Init => IInv
<1>1. Zero \in Word
  BY MemoryStageAssumption DEF Zero, Word, Lane, Byte
<1> SUFFICES ASSUME Init PROVE IInv
  OBVIOUS
<1>2. mem \in [0..(WORDS - 1) -> Word] /\ dataE \in Instrs \cup {Bubble}
  BY MemoryStageAssumption DEF Init
<1>3. dataM \in [csr : BOOLEAN, result : Word]
  BY <1>1 DEF Init, Nothing
<1>4. valid = FALSE
  BY DEF Init
<1> QED
  BY <1>2, <1>3, <1>4 DEF IInv, TypeOK, ValidInv

\* What a load puts into a register, and what a store makes of a word.
LEMMA DataTypes ==
  ASSUME TypeOK, Accesses(dataE), ~memory_misalign(dataE)
  PROVE  /\ word(dataE) \in 0..(WORDS - 1)
         /\ rd(dataE, mem[word(dataE)]) \in Word
         /\ \A l \in strobe(dataE) : l - lane(dataE) \in 0..(dataE.size - 1) /\ l - lane(dataE) \in Lane
         /\ wd(dataE) \in Word
<1>1. dataE \in Instrs \cup {Bubble} /\ mem \in [0..(WORDS - 1) -> Word]
  BY DEF TypeOK
<1>2. dataE.addr \in 0..(WORDS * LANES - 1) /\ dataE.size \in Sizes /\ dataE.rs2 \in Word
  BY <1>1, InstrType
<1>3. /\ dataE.size \in Nat \ {0} /\ dataE.size <= LANES
      /\ word(dataE) \in 0..(WORDS - 1) /\ lane(dataE) \in Nat
      /\ \A k \in 0..(dataE.size - 1) : lane(dataE) + k \in Lane
  BY <1>2, AlignedLanes
<1>4. LANES \in Nat
  BY MemoryStageAssumption
<1>5. \A k \in Lane : k < dataE.size => k \in 0..(dataE.size - 1)
  BY <1>3, <1>4 DEF Lane
<1>6. mem[word(dataE)] \in [Lane -> Byte]
  BY <1>1, <1>3 DEF Word
<1>7. rd(dataE, mem[word(dataE)]) \in Word
  BY <1>3, <1>5, <1>6 DEF rd, Word, Byte
<1>8. \A l \in strobe(dataE) : l - lane(dataE) \in 0..(dataE.size - 1) /\ l - lane(dataE) \in Lane
  BY <1>3, <1>4 DEF strobe, Lane
<1>9. wd(dataE) \in Word
  BY <1>2, <1>8 DEF wd, Word, Byte
<1> QED
  BY <1>3, <1>7, <1>8, <1>9

LEMMA Invariant == IInv /\ [Next]_vars => IInv'
<1> SUFFICES ASSUME IInv, [Next]_vars PROVE IInv'
  OBVIOUS
<1>1. CASE UNCHANGED vars
  BY <1>1 DEF IInv, TypeOK, ValidInv, vars
<1>2. ASSUME NEW d \in BOOLEAN, Cycle(d)
      PROVE  IInv'
  <2>1. /\ mem \in [0..(WORDS - 1) -> Word] /\ valid \in BOOLEAN
        /\ dataE \in Instrs \cup {Bubble} /\ dataM \in [csr : BOOLEAN, result : Word]
    BY DEF IInv, TypeOK
  <2>2. Zero \in Word
    BY MemoryStageAssumption DEF Zero, Word, Lane, Byte
  <2>3. dataM_nxt \in [csr : BOOLEAN, result : Word]
    <3>1. CASE dataE.op = "load" /\ ~memory_misalign(dataE)
      BY <3>1, DataTypes DEF IInv, dataM_nxt, Accesses
    <3>2. CASE ~(dataE.op = "load" /\ ~memory_misalign(dataE))
      BY <2>2, <3>2 DEF dataM_nxt
    <3> QED
      BY <3>1, <3>2
  <2>4. Nothing \in [csr : BOOLEAN, result : Word]
    BY <2>2 DEF Nothing
  <2>5. dataE' \in Instrs \cup {Bubble} /\ dataM' \in [csr : BOOLEAN, result : Word]
    BY <1>2, <2>1, <2>3, <2>4 DEF Cycle, Move, Hold, Flush
  <2>6. mem' \in [0..(WORDS - 1) -> Word]
    <3>1. CASE dreq_valid /\ d /\ dataE.op = "store"
      <4>1. Accesses(dataE) /\ ~memory_misalign(dataE)
        BY <3>1 DEF dreq_valid
      <4>2. word(dataE) \in 0..(WORDS - 1) /\ wd(dataE) \in Word
        BY <4>1, DataTypes DEF IInv
      <4> DEFINE new == [l \in Lane |-> IF l \in strobe(dataE) THEN wd(dataE)[l]
                                                               ELSE mem[word(dataE)][l]]
      <4>3. new \in Word
        BY <2>1, <4>2 DEF Word
      <4>4. mem' = [mem EXCEPT ![word(dataE)] = new]
        BY <1>2, <3>1 DEF Cycle, Answered
      <4> QED
        BY <2>1, <4>3, <4>4
    <3>2. CASE ~(dreq_valid /\ d /\ dataE.op = "store")
      BY <1>2, <2>1, <3>2 DEF Cycle, Answered
    <3> QED
      BY <3>1, <3>2
  <2>7. valid' \in BOOLEAN
    BY <1>2 DEF Cycle, dreq_valid, Accesses, memory_misalign
  <2>8. ValidInv'
    <3> SUFFICES ASSUME dreq_valid
                 PROVE  ~dataM'.csr
      BY <1>2 DEF ValidInv, Cycle
    <3>1. ~csr_flush
      BY DEF IInv, ValidInv, dreq_valid, flush, csr_flush
    <3>2. ~dataM_nxt.csr
      BY DEF dreq_valid, dataM_nxt, Accesses
    <3> QED
      BY <1>2, <3>1, <3>2 DEF Cycle, Move, Hold, Flush, Nothing
  <2> QED
    BY <2>5, <2>6, <2>7, <2>8 DEF IInv, TypeOK
<1> QED
  BY <1>1, <1>2 DEF Next

\* The registers of the stage and memory keep their types: a load of any size
\* makes a register, a store of any size a word (readdata.sv, writedata.sv).
THEOREM TypeCorrect == Spec => []TypeOK
<1>1. Spec => []IInv
  BY InitHolds, Invariant, PTL DEF Spec
<1>2. IInv => TypeOK
  BY DEF IInv
<1> QED
  BY <1>1, <1>2, PTL

-----------------------------------------------------------------------------
(* The refinement.                                                          *)

\* The bytes of an aligned access, in memory and in its word.
LEMMA AccessedBytes ==
  ASSUME TypeOK, Accesses(dataE), ~memory_misalign(dataE), NEW k \in 0..(dataE.size - 1)
  PROVE  Bytes(mem)[dataE.addr + k] = mem[word(dataE)][lane(dataE) + k]
<1>1. dataE.addr \in 0..(WORDS * LANES - 1) /\ dataE.size \in Sizes
  BY InstrType DEF TypeOK
<1>2. /\ word(dataE) \in 0..(WORDS - 1) /\ lane(dataE) \in Nat /\ lane(dataE) + k \in Lane
      /\ dataE.addr = LANES * word(dataE) + lane(dataE) /\ dataE.size \in Nat
  BY <1>1, AlignedLanes
<1> DEFINE w == word(dataE)
           n == lane(dataE)
           a == dataE.addr
           b == LANES * w + (n + k)
<1>3. b \in 0..(WORDS * LANES - 1) /\ b \div LANES = w /\ b % LANES = n + k
  BY <1>2, PlaceIs
<1>4. a + k = b
  <2>1. a = LANES * w + n /\ w \in Nat /\ n \in Nat /\ LANES \in Nat /\ k \in Nat
    BY <1>2, MemoryStageAssumption
  <2> HIDE DEF a, w, n
  <2> QED
    BY <2>1
<1>5. Bytes(mem)[b] = mem[w][n + k]
  BY <1>3 DEF Bytes
<1> QED
  BY <1>4, <1>5

\* A load of any size and sign reads its bytes.
LEMMA LoadRight ==
  ASSUME TypeOK, Accesses(dataE), ~memory_misalign(dataE)
  PROVE  rd(dataE, mem[word(dataE)]) = Port!Loaded(dataE)
<1>1. dataE.addr \in 0..(WORDS * LANES - 1) /\ dataE.size \in Sizes /\ dataE.addr \in Nat
  BY InstrType DEF TypeOK
<1>2. dataE.size \in Nat \ {0} /\ dataE.size <= LANES /\ lane(dataE) \in Nat /\ LANES \in Nat
  BY <1>1, AlignedLanes, MemoryStageAssumption
<1>3. \A k \in 0..(dataE.size - 1) : Bytes(mem)[dataE.addr + k] = mem[word(dataE)][lane(dataE) + k]
  BY AccessedBytes
<1>4. \A k \in Lane : k < dataE.size => k \in 0..(dataE.size - 1)
  BY <1>2 DEF Lane
<1>5. Bytes(mem)[dataE.addr + dataE.size - 1] = mem[word(dataE)][lane(dataE) + dataE.size - 1]
  <2>1. /\ dataE.size - 1 \in 0..(dataE.size - 1)
        /\ dataE.addr + (dataE.size - 1) = dataE.addr + dataE.size - 1
        /\ lane(dataE) + (dataE.size - 1) = lane(dataE) + dataE.size - 1
    BY <1>1, <1>2
  <2> QED
    BY <1>3, <2>1
<1> QED
  BY <1>3, <1>4, <1>5 DEF rd, sign_bit, Port!Loaded, Lane

\* A store of any size writes its bytes and no others.
LEMMA StoreRight ==
  ASSUME TypeOK, Accesses(dataE), ~memory_misalign(dataE),
         mem' = [mem EXCEPT ![word(dataE)] =
                   [l \in Lane |-> IF l \in strobe(dataE) THEN wd(dataE)[l] ELSE @[l]]]
  PROVE  Bytes(mem') = Port!Stored(dataE)
<1>1. /\ dataE.addr \in 0..(WORDS * LANES - 1) /\ dataE.size \in Sizes
      /\ mem \in [0..(WORDS - 1) -> Word]
  BY InstrType DEF TypeOK
<1>2. word(dataE) \in 0..(WORDS - 1)
  BY DataTypes
<1>3. ASSUME NEW b \in 0..(WORDS * LANES - 1)
      PROVE  mem'[b \div LANES][b % LANES]
               = IF b \in dataE.addr..(dataE.addr + dataE.size - 1)
                 THEN dataE.rs2[b - dataE.addr] ELSE Bytes(mem)[b]
  <2> DEFINE q == b \div LANES
             r == b % LANES
  <2>1. q \in 0..(WORDS - 1) /\ r \in Lane /\ Bytes(mem)[b] = mem[q][r]
    BY BytePlace DEF Bytes
  <2>2. /\ b \in dataE.addr..(dataE.addr + dataE.size - 1) <=> q = word(dataE) /\ r \in strobe(dataE)
        /\ b \in dataE.addr..(dataE.addr + dataE.size - 1) => b - dataE.addr = r - lane(dataE)
    BY <1>1, StrobedBytes
  <2> HIDE DEF q, r
  <2>3. CASE q # word(dataE)
    <3>1. mem'[q] = mem[q]
      BY <1>1, <1>2, <2>1, <2>3
    <3> QED
      BY <2>1, <2>2, <2>3, <3>1 DEF q, r
  <2>4. CASE q = word(dataE)
    <3>1. mem'[q][r] = IF r \in strobe(dataE) THEN wd(dataE)[r] ELSE mem[q][r]
      BY <1>1, <1>2, <2>1, <2>4
    <3>2. r \in strobe(dataE) => wd(dataE)[r] = dataE.rs2[r - lane(dataE)]
      BY <2>1 DEF wd
    <3> QED
      BY <2>1, <2>2, <2>4, <3>1, <3>2 DEF q, r
  <2> QED
    BY <2>3, <2>4
<1>4. DOMAIN Bytes(mem) = 0..(WORDS * LANES - 1)
  BY DEF Bytes
<1> HIDE DEF Bytes
<1>5. Bytes(mem') = [b \in 0..(WORDS * LANES - 1) |-> mem'[b \div LANES][b % LANES]]
  BY DEF Bytes
<1> QED
  BY <1>3, <1>4, <1>5 DEF Port!Stored

\* A cycle is an instruction that ends, a wait, or what a flush drops.
LEMMA StepIsByteStep ==
  ASSUME IInv, NEW d \in BOOLEAN, Cycle(d)
  PROVE  Port!Next
<1> DEFINE access == Accesses(dataE) /\ ~memory_misalign(dataE)
<1>1. TypeOK
  BY DEF IInv
<1>2. Port!Misaligned(dataE) <=> Accesses(dataE) /\ memory_misalign(dataE)
  BY DEF Port!Misaligned, Port!Accesses, Accesses, memory_misalign
<1>3. CASE csr_flush
  <2>1. ~dreq_valid
    BY <1>3 DEF IInv, ValidInv, dreq_valid, flush, csr_flush
  <2>2. mem' = mem
    BY <2>1 DEF Cycle, Answered
  <2>3. dataE' = Bubble /\ dataM' \in {dataM, Nothing}
    BY <1>3, <2>1 DEF Cycle, Move, Hold, Flush, dmem_wait
  <2>4. Port!Cancel
    BY <1>3, <2>2, <2>3 DEF Port!Cancel, Port!Nothing, Nothing, csr_flush
  <2> QED
    BY <2>4 DEF Port!Next
<1>4. CASE ~csr_flush /\ dmem_wait(d)
  <2>1. access
    BY <1>4 DEF dmem_wait, dreq_valid
  <2>2. mem' = mem /\ dataE' = dataE /\ dataM' = Nothing
    BY <1>4 DEF Cycle, Move, Hold, Flush, Answered, dmem_wait
  <2>3. Port!Wait
    BY <1>2, <1>4, <2>1, <2>2 DEF Port!Wait, Port!Nothing, Nothing, csr_flush, Port!Accesses, Accesses
  <2> QED
    BY <2>3 DEF Port!Next
<1>5. CASE ~csr_flush /\ ~dmem_wait(d)
  <2>1. dataM' = dataM_nxt /\ dataE' \in Instrs \cup {Bubble} /\ Answered(d)
    BY <1>5 DEF Cycle, Move, Hold, Flush
  <2>2. dreq_valid <=> access
    BY <1>5 DEF dreq_valid, flush
  <2>3. access => d
    BY <1>5, <2>2 DEF dmem_wait
  <2>4. dataM' = [csr    |-> dataE.op = "csr" \/ Port!Misaligned(dataE),
                  result |-> IF dataE.op = "load" /\ ~Port!Misaligned(dataE)
                             THEN Port!Loaded(dataE) ELSE Zero]
    BY <1>1, <1>2, <2>1, LoadRight DEF dataM_nxt, Accesses
  <2>5. Bytes(mem') = IF dataE.op = "store" /\ ~Port!Misaligned(dataE)
                      THEN Port!Stored(dataE) ELSE Bytes(mem)
    <3>1. CASE dataE.op = "store" /\ access
      BY <1>1, <1>2, <2>1, <2>2, <2>3, <3>1, StoreRight DEF Answered
    <3>2. CASE ~(dataE.op = "store" /\ access)
      <4>1. mem' = mem
        BY <2>1, <2>2, <3>2 DEF Answered
      <4> QED
        BY <1>2, <3>2, <4>1 DEF Accesses
    <3> QED
      BY <1>2, <3>1, <3>2 DEF Accesses
  <2>6. Port!Perform
    BY <1>5, <2>1, <2>4, <2>5 DEF Port!Perform, csr_flush
  <2> QED
    BY <2>6 DEF Port!Next
<1> QED
  BY <1>3, <1>4, <1>5

\* Loads and stores of every size are those of a memory of bytes: performed
\* whole and once, on their own bytes, and never when misaligned or flushed
\* (memory.sv, readdata.sv, writedata.sv, hazard.sv).
THEOREM StageIsByteMemory == Spec => ByteAddressed
<1>1. Spec => []IInv
  BY InitHolds, Invariant, PTL DEF Spec
<1>2. Init => Port!Init
  BY DEF Init, Port!Init, Port!Nothing, Nothing
<1>3. IInv /\ [Next]_vars => [Port!Next]_(Port!byteVars)
  <2> SUFFICES ASSUME IInv, [Next]_vars PROVE [Port!Next]_(Port!byteVars)
    OBVIOUS
  <2>1. CASE UNCHANGED vars
    BY <2>1 DEF vars, Port!byteVars, Bytes
  <2>2. CASE Next
    BY <2>2, StepIsByteStep DEF Next
  <2> QED
    BY <2>1, <2>2
<1> QED
  BY <1>1, <1>2, <1>3, PTL DEF Spec, ByteAddressed, Port!Spec
=============================================================================

-------------------------- MODULE HarnessBusProofs --------------------------
(***************************************************************************)
(* Proofs about HarnessBus, for every size of memory, every set of accesses *)
(* and every number of operations.                                          *)
(***************************************************************************)
EXTENDS HarnessBus, FiniteSetTheorems, SequenceTheorems, TLAPS

Words == 0..(WORDS - 1)
Ops == {op \in [size : Width, shift : Lane] : op.shift + op.size <= 8}
Bytes == 0..(8 * WORDS - 1)
Tasks == [addr : Bytes, strobe : SUBSET Lane, data : Word, dest : 0..MAX_OPS,
          load_op : Ops, id : OpNo]
Kinds == {"none", "load", "store", "right", "wrong"}
Ports == {NoReq} \cup [valid : {TRUE}, addr : Words, strobe : SUBSET Lane, data : Word]

TypeInv ==
  /\ mem \in [Words -> Word] /\ ref \in [Words -> Word] /\ model \in [Words -> Word]
  /\ port \in Ports
  /\ mode \in {"none", "pipeline", "compare"}
  /\ ongoing \in Seq(Tasks)
  /\ caller \in [at : {"test", "fence", "load", "store"}, arg : Int, then : {"test", "end", "get"}]
  /\ dest \in [OpNo -> Word] /\ got \in Word
  /\ failed \in {"none", "alignment", "fence", "expect"}
  /\ n \in 0..MAX_OPS
  /\ want \in [OpNo -> [kind : Kinds, width : Width \cup {0}, data : Word]]

\* Byte k of word i holds v when the tasks of q before the p-th have been
\* performed on memory m: the last of them that stores the byte stores v, or
\* none does and it holds v now.
Stores(u, i, k) == Index(u.addr) = i /\ k \in u.strobe
Holds(q, m, p, i, k, v) ==
  \/ \E s \in 1..(p - 1) : /\ Stores(q[s], i, k) /\ q[s].data[k] = v
                           /\ \A r \in (s + 1)..(p - 1) : ~Stores(q[r], i, k)
  \/ (\A r \in 1..(p - 1) : ~Stores(q[r], i, k)) /\ m[i][k] = v

\* The p-th task sees what its operation wants when it comes to its turn.
LoadOK(q, m, w, p) ==
  /\ q[p].dest = q[p].id /\ w[q[p].id].kind = "load"
  /\ w[q[p].id].width = q[p].load_op.size
  /\ \A k \in 0..(q[p].load_op.size - 1) :
       Holds(q, m, p, Index(q[p].addr), q[p].load_op.shift + k, w[q[p].id].data[k])
ExpectOK(q, m, w, p) ==
  /\ w[q[p].id].kind \in {"right", "wrong"}
  /\ w[q[p].id].kind = "right" <=>
       \A k \in mask(q[p].load_op) : Holds(q, m, p, Index(q[p].addr), k, q[p].data[k])
TaskOK(q, m, w, p) ==
  /\ ~is_load(q[p]) => w[q[p].id].kind = "store" /\ q[p].dest = 0
  /\ is_load(q[p]) /\ q[p].dest # 0 => LoadOK(q, m, w, p)
  /\ is_load(q[p]) /\ q[p].dest = 0 => ExpectOK(q, m, w, p)

\* The queue holds operations in the order of the calls, and its head is on
\* the bus.
QueueInv ==
  /\ mode # "pipeline" => ongoing = <<>>
  /\ \A s \in 1..Len(ongoing) : ongoing[s].id <= n
  /\ \A s, t \in 1..Len(ongoing) : s < t => ongoing[s].id < ongoing[t].id
  /\ \A p \in 1..Len(ongoing) : TaskOK(ongoing, mem, want, p)
PipeInv ==
  mode = "pipeline" =>
    /\ port = IF ongoing = <<>> THEN NoReq ELSE Issued(ongoing[1])
    /\ caller.at \in {"test", "fence"}
    /\ caller.at = "fence" /\ caller.then = "get" => n > 0
    /\ \A i \in Words : \A k \in Lane : Holds(ongoing, mem, Len(ongoing) + 1, i, k, model[i][k])

\* A synchronous access is all that is going on.
CompareInv ==
  mode = "compare" =>
    /\ caller.at \in {"test", "load", "store"} /\ failed = "none"
    /\ ref = mem
    /\ caller.at = "test" => port = NoReq /\ model = mem
    /\ caller.at = "load" =>
         /\ n > 0 /\ model = mem
         /\ \E a \in Accesses : /\ port = LoadRequest(a.addr) /\ caller.arg = a.addr
                                /\ want[n] = [kind |-> "load", width |-> a.width, data |-> Seen(a)]
    /\ caller.at = "store" =>
         /\ n > 0 /\ want[n].kind = "store"
         /\ port.valid /\ port.addr = Index(caller.arg)
         /\ model = Masked(mem, port.addr, port.strobe, port.data)
IdleInv == mode = "none" => port = NoReq /\ caller.at = "test"

\* Nothing is written to a variable before its load returns.
DestInv == \A i \in OpNo : ~Returned(i) => dest[i] = DIRT

IInv ==
  /\ TypeInv /\ QueueInv /\ PipeInv /\ CompareInv /\ IdleInv /\ DestInv
  /\ LoadsRight /\ ExpectExact

-----------------------------------------------------------------------------
(* Where an access lies.                                                    *)

\* The bytes of an access are in one word, and parse finds them.
LEMMA Parsed ==
  ASSUME NEW a \in Accesses
  PROVE  /\ parse(a.width, a.addr) \in Ops /\ parse(a.width, a.addr).size = a.width
         /\ a.addr \in Bytes /\ a.width \in Width
         /\ Index(a.addr) \in Words
         /\ First(a) = 8 * Index(a.addr) + parse(a.width, a.addr).shift
<1>. DEFINE x == a.addr
            w == a.width
            h == (x % 8) - (x % w)
<1>1. x \in Nat /\ w \in {1, 2, 4, 8} /\ WORDS \in Nat /\ x < 8 * WORDS
  BY BusAssumption DEF Width
<1>. HIDE DEF x, w
<1>2. x \div 8 \in Nat /\ x = 8 * (x \div 8) + (x % 8) /\ x % 8 \in 0..7 /\ x \div 8 < WORDS
  BY <1>1
<1>3. h \in 0..7 /\ h + w <= 8 /\ x - (x % w) = 8 * (x \div 8) + h
  <2>1. CASE w = 1
    BY <1>1, <2>1
  <2>2. CASE w = 2
    BY <1>1, <2>2
  <2>3. CASE w = 4
    BY <1>1, <2>3
  <2>4. CASE w = 8
    BY <1>1, <2>4
  <2>. QED  BY <1>1, <2>1, <2>2, <2>3, <2>4
<1>. HIDE DEF h
<1>4. [size |-> w, shift |-> h] \in Ops
  BY <1>1, <1>3 DEF Ops, Width, Lane
<1>5. parse(a.width, a.addr) = [size |-> w, shift |-> h]
  BY DEF parse, w, x, h
<1>6. [size |-> w, shift |-> h].size = w /\ [size |-> w, shift |-> h].shift = h
  OBVIOUS
<1>7. a.addr \in Bytes /\ a.width \in Width /\ Index(a.addr) \in Words
  <2>1. a.addr \in Bytes /\ a.width \in Width
    BY BusAssumption DEF Bytes
  <2>2. \A y, z \in Nat : y < z => y \in 0..(z - 1)
    OBVIOUS
  <2>3. x \div 8 \in 0..(WORDS - 1)
    BY <1>1, <1>2, <2>2
  <2>. QED  BY <2>1, <2>3 DEF Index, Words, x
<1>8. First(a) = 8 * Index(a.addr) + h
  BY <1>3 DEF First, Index, w, x
<1>. QED  BY <1>4, <1>5, <1>6, <1>7, <1>8 DEF w

\* What an operation leaves of a word is a word.
LEMMA WordKept ==
  ASSUME NEW op \in Ops, NEW d \in Word, NEW e \in Word, NEW w \in Width
  PROVE  /\ Zero \in Word /\ place(op, d) \in Word /\ apply(op, d) \in Word
         /\ apply_to(op, d, e) \in Word /\ Truncate(w, d) \in Word
         /\ strobe(op) \in SUBSET Lane /\ strobe(op) # {} /\ mask(op) = strobe(op)
         /\ \A k \in 0..(op.size - 1) : k \in Lane /\ op.shift + k \in Lane
         /\ \A k \in Lane : k \in mask(op) <=> k - op.shift \in 0..(op.size - 1)
<1>1. /\ op.size \in {1, 2, 4, 8} /\ op.shift \in 0..7 /\ op.shift + op.size <= 8
      /\ d \in [0..7 -> Byte] /\ e \in [0..7 -> Byte] /\ 0 \in Byte
  BY DEF Ops, Width, Lane, Word, Byte
<1>2. Zero \in Word /\ Truncate(w, d) \in Word
  BY <1>1 DEF Zero, Truncate, Word, Lane
<1>3. place(op, d) \in Word
  BY <1>1 DEF place, Word, Lane
<1>4. apply(op, d) \in Word
  BY <1>1 DEF apply, Word, Lane
<1>5. apply_to(op, d, e) \in Word
  BY <1>1, <1>4 DEF apply_to, Word, Lane
<1>6. /\ strobe(op) \in SUBSET Lane /\ strobe(op) # {} /\ mask(op) = strobe(op)
      /\ \A k \in 0..(op.size - 1) : k \in Lane /\ op.shift + k \in Lane
      /\ \A k \in Lane : k \in mask(op) <=> k - op.shift \in 0..(op.size - 1)
  <2>1. op.shift \in op.shift .. (op.shift + op.size - 1)
    BY <1>1
  <2>. QED  BY <1>1, <2>1 DEF strobe, mask, Lane
<1>. QED  BY <1>2, <1>3, <1>4, <1>5, <1>6

LEMMA OpLanes ==
  \A op \in Ops : /\ \A k \in mask(op) : k \in Lane
                  /\ \A k \in 0..(op.size - 1) : op.shift + k \in Lane
<1>. SUFFICES ASSUME NEW op \in Ops
     PROVE  /\ \A k \in mask(op) : k \in Lane
            /\ \A k \in 0..(op.size - 1) : op.shift + k \in Lane
  OBVIOUS
<1>1. op.size \in {1, 2, 4, 8} /\ op.shift \in 0..7 /\ op.shift + op.size <= 8
  BY DEF Ops, Width, Lane
<1>. QED  BY <1>1 DEF mask, Lane

\* A load of an operation, with the rest of the variable left alone.
LEMMA Applied ==
  ASSUME NEW op \in Ops, NEW d \in Word, NEW e \in Word
  PROVE  /\ \A k \in 0..(op.size - 1) : apply_to(op, d, e)[k] = d[op.shift + k]
         /\ \A k \in Lane : ~(k < op.size) => apply_to(op, d, e)[k] = e[k]
<1>1. op.size \in {1, 2, 4, 8} /\ op.shift \in 0..7 /\ op.shift + op.size <= 8 /\ op # DISCARD
  BY DEF Ops, Width, Lane, DISCARD
<1>2. ASSUME NEW k \in 0..(op.size - 1) PROVE apply_to(op, d, e)[k] = d[op.shift + k]
  <2>1. k \in Lane /\ k < op.size /\ ~(k + op.shift > 7) /\ k + op.shift = op.shift + k
    BY <1>1, <1>2 DEF Lane
  <2>. QED  BY <1>1, <2>1 DEF apply_to, apply
<1>3. \A k \in Lane : ~(k < op.size) => apply_to(op, d, e)[k] = e[k]
  BY DEF apply_to
<1>. QED  BY <1>2, <1>3

\* What a load should see, byte for byte, and what a store changes.
LEMMA SeenBytes ==
  ASSUME TypeInv, NEW a \in Accesses
  PROVE  LET op == parse(a.width, a.addr) IN
         /\ Seen(a) \in Word
         /\ \A k \in 0..(a.width - 1) : Seen(a)[k] = model[Index(a.addr)][op.shift + k]
         /\ \A k \in Lane : ~(k < a.width) => Seen(a)[k] = 0
<1>. DEFINE op == parse(a.width, a.addr)
            i == Index(a.addr)
<1>1. /\ op \in Ops /\ op.size = a.width /\ i \in Words /\ First(a) = 8 * i + op.shift
      /\ i \in Nat
  BY Parsed DEF Words
<1>. HIDE DEF op, i
<1>2. op.size \in {1, 2, 4, 8} /\ op.shift \in 0..7 /\ op.shift + op.size <= 8
  BY <1>1 DEF Ops, Width, Lane
<1>3. \A k \in 0..(a.width - 1) : (First(a) + k) % 8 = op.shift + k
  BY <1>1, <1>2
<1>4. model[i] \in Word /\ 0 \in Byte
  BY <1>1 DEF TypeInv, Byte
<1>5. ASSUME NEW k \in Lane, k < a.width
      PROVE  Seen(a)[k] = model[i][op.shift + k] /\ Seen(a)[k] \in Byte
  <2>1. k \in 0..(a.width - 1) /\ op.shift + k \in Lane
    BY <1>1, <1>2, <1>5 DEF Lane
  <2>2. Seen(a)[k] = model[i][op.shift + k]
    BY <1>3, <1>5, <2>1 DEF Seen, i
  <2>. QED  BY <1>4, <2>1, <2>2 DEF Word
<1>6. \A k \in Lane : ~(k < a.width) => Seen(a)[k] = 0
  BY DEF Seen
<1>7. Seen(a) \in Word
  <2>1. Seen(a) = [k \in Lane |-> Seen(a)[k]]
    BY DEF Seen
  <2>2. \A k \in Lane : Seen(a)[k] \in Byte
    BY <1>4, <1>5, <1>6
  <2>. HIDE DEF Seen
  <2>. QED  BY <2>1, <2>2 DEF Word
<1>8. \A k \in 0..(a.width - 1) : k \in Lane /\ k < a.width
  BY <1>1, <1>2 DEF Lane
<1>. QED  BY <1>5, <1>6, <1>7, <1>8 DEF op, i

-----------------------------------------------------------------------------
(* What a byte holds, along the queue.                                      *)

\* It depends only on the tasks before.
LEMMA HoldsSame ==
  ASSUME NEW q, NEW r, NEW m, NEW p \in Nat, NEW i, NEW k, NEW v,
         \A s \in 1..(p - 1) : r[s] = q[s]
  PROVE  Holds(r, m, p, i, k, v) <=> Holds(q, m, p, i, k, v)
BY DEF Holds

\* With no task before, it is the byte in memory.
LEMMA HoldsFirst ==
  ASSUME NEW q, NEW m, NEW i, NEW k, NEW v
  PROVE  Holds(q, m, 1, i, k, v) <=> m[i][k] = v
BY DEF Holds

\* One task more: it stores the byte, or it does not matter.
LEMMA HoldsNext ==
  ASSUME NEW q, NEW m, NEW p \in Nat \ {0}, NEW i, NEW k, NEW v
  PROVE  Holds(q, m, p + 1, i, k, v) <=>
           IF Stores(q[p], i, k) THEN q[p].data[k] = v ELSE Holds(q, m, p, i, k, v)
<1>1. /\ (p + 1) - 1 = p /\ p \in 1..p /\ (p + 1)..p = {} /\ p \in Nat
      /\ \A s \in 1..p : s = p \/ s \in 1..(p - 1)
      /\ \A s \in 1..(p - 1) : s \in 1..p /\ p \in (s + 1)..p
      /\ \A s \in 1..(p - 1) : \A r \in (s + 1)..(p - 1) : r \in (s + 1)..p
      /\ \A s \in 1..(p - 1) : \A r \in (s + 1)..p : r = p \/ r \in (s + 1)..(p - 1)
  OBVIOUS
<1>2. CASE Stores(q[p], i, k)
  <2>1. ASSUME Holds(q, m, p + 1, i, k, v) PROVE q[p].data[k] = v
    BY <1>1, <1>2, <2>1 DEF Holds
  <2>2. ASSUME q[p].data[k] = v PROVE Holds(q, m, p + 1, i, k, v)
    BY <1>1, <1>2, <2>2 DEF Holds
  <2>. QED  BY <1>2, <2>1, <2>2
<1>3. CASE ~Stores(q[p], i, k)
  <2>1. ASSUME Holds(q, m, p + 1, i, k, v) PROVE Holds(q, m, p, i, k, v)
    BY <1>1, <1>3, <2>1 DEF Holds
  <2>2. ASSUME Holds(q, m, p, i, k, v) PROVE Holds(q, m, p + 1, i, k, v)
    BY <1>1, <1>3, <2>2 DEF Holds
  <2>. QED  BY <1>3, <2>1, <2>2
<1>. QED  BY <1>2, <1>3

\* Performing the first task on memory, or before the others, is the same.
LEMMA HoldsShift ==
  ASSUME NEW q, NEW r, NEW m, NEW l, NEW p \in Nat \ {0}, NEW i, NEW k, NEW v,
         \A s \in 1..(p - 1) : r[s] = q[s + 1],
         l[i][k] = IF Stores(q[1], i, k) THEN q[1].data[k] ELSE m[i][k]
  PROVE  Holds(r, l, p, i, k, v) <=> Holds(q, m, p + 1, i, k, v)
<1>1. /\ \A s \in 1..(p - 1) : s + 1 \in 1..p /\ s + 1 # 1
      /\ \A s \in 1..p : s # 1 => s - 1 \in 1..(p - 1) /\ (s - 1) + 1 = s
      /\ 1 \in 1..p /\ (p + 1) - 1 = p
  OBVIOUS
<1>2. ASSUME Holds(r, l, p, i, k, v) PROVE Holds(q, m, p + 1, i, k, v)
  <2>1. CASE \E s \in 1..(p - 1) : /\ Stores(r[s], i, k) /\ r[s].data[k] = v
                                   /\ \A t \in (s + 1)..(p - 1) : ~Stores(r[t], i, k)
    <3>1. PICK s \in 1..(p - 1) : /\ Stores(r[s], i, k) /\ r[s].data[k] = v
                                  /\ \A t \in (s + 1)..(p - 1) : ~Stores(r[t], i, k)
      BY <2>1
    <3>2. Stores(q[s + 1], i, k) /\ q[s + 1].data[k] = v /\ s + 1 \in 1..p
      BY <1>1, <3>1
    <3>3. ASSUME NEW t \in ((s + 1) + 1)..p PROVE ~Stores(q[t], i, k)
      <4>1. t - 1 \in (s + 1)..(p - 1) /\ t - 1 \in 1..(p - 1) /\ (t - 1) + 1 = t
        OBVIOUS
      <4>. QED  BY <3>1, <4>1
    <3>. QED  BY <1>1, <3>2, <3>3 DEF Holds
  <2>2. CASE (\A t \in 1..(p - 1) : ~Stores(r[t], i, k)) /\ l[i][k] = v
    <3>1. \A t \in 1..p : t # 1 => ~Stores(q[t], i, k)
      BY <1>1, <2>2
    <3>2. CASE Stores(q[1], i, k)
      <4>1. q[1].data[k] = v /\ \A t \in (1 + 1)..p : t \in 1..p /\ t # 1
        BY <2>2, <3>2
      <4>2. \A t \in (1 + 1)..((p + 1) - 1) : ~Stores(q[t], i, k)
        BY <1>1, <3>1, <4>1
      <4>3. 1 \in 1..((p + 1) - 1)
        BY <1>1
      <4>. QED  BY <3>2, <4>1, <4>2, <4>3 DEF Holds
    <3>3. CASE ~Stores(q[1], i, k)
      <4>1. m[i][k] = v
        BY <2>2, <3>3
      <4>2. \A t \in 1..((p + 1) - 1) : ~Stores(q[t], i, k)
        BY <1>1, <3>1, <3>3
      <4>. QED  BY <4>1, <4>2 DEF Holds
    <3>. QED  BY <3>2, <3>3
  <2>. QED  BY <1>2, <2>1, <2>2 DEF Holds
<1>3. ASSUME Holds(q, m, p + 1, i, k, v) PROVE Holds(r, l, p, i, k, v)
  <2>1. CASE \E s \in 1..p : /\ Stores(q[s], i, k) /\ q[s].data[k] = v
                             /\ \A t \in (s + 1)..p : ~Stores(q[t], i, k)
    <3>1. PICK s \in 1..p : /\ Stores(q[s], i, k) /\ q[s].data[k] = v
                            /\ \A t \in (s + 1)..p : ~Stores(q[t], i, k)
      BY <2>1
    <3>2. CASE s = 1
      <4>1. l[i][k] = v
        BY <3>1, <3>2
      <4>2. \A t \in 1..(p - 1) : ~Stores(r[t], i, k)
        <5>1. \A t \in 1..(p - 1) : t + 1 \in (s + 1)..p
          BY <3>2
        <5>. QED  BY <3>1, <5>1
      <4>. QED  BY <4>1, <4>2 DEF Holds
    <3>3. CASE s # 1
      <4>1. s - 1 \in 1..(p - 1) /\ Stores(r[s - 1], i, k) /\ r[s - 1].data[k] = v
        BY <1>1, <3>1, <3>3
      <4>2. \A t \in ((s - 1) + 1)..(p - 1) : ~Stores(r[t], i, k)
        <5>1. \A t \in ((s - 1) + 1)..(p - 1) : t + 1 \in (s + 1)..p /\ t \in 1..(p - 1)
          OBVIOUS
        <5>. QED  BY <3>1, <5>1
      <4>. QED  BY <4>1, <4>2 DEF Holds
    <3>. QED  BY <3>2, <3>3
  <2>2. CASE (\A t \in 1..p : ~Stores(q[t], i, k)) /\ m[i][k] = v
    <3>1. l[i][k] = v
      BY <1>1, <2>2
    <3>2. \A t \in 1..(p - 1) : ~Stores(r[t], i, k)
      BY <1>1, <2>2
    <3>. QED  BY <3>1, <3>2 DEF Holds
  <2>. QED  BY <1>1, <1>3, <2>1, <2>2 DEF Holds
<1>. QED  BY <1>2, <1>3

\* There is one such byte.
LEMMA HoldsUnique ==
  ASSUME NEW q, NEW m, NEW p \in Nat, NEW i, NEW k, NEW v, NEW w,
         Holds(q, m, p, i, k, v), Holds(q, m, p, i, k, w)
  PROVE  v = w
<1>1. CASE \A r \in 1..(p - 1) : ~Stores(q[r], i, k)
  BY <1>1 DEF Holds
<1>2. CASE ~\A r \in 1..(p - 1) : ~Stores(q[r], i, k)
  <2>1. PICK s \in 1..(p - 1) : /\ Stores(q[s], i, k) /\ q[s].data[k] = v
                                /\ \A r \in (s + 1)..(p - 1) : ~Stores(q[r], i, k)
    BY <1>2 DEF Holds
  <2>2. PICK t \in 1..(p - 1) : /\ Stores(q[t], i, k) /\ q[t].data[k] = w
                                /\ \A r \in (t + 1)..(p - 1) : ~Stores(q[r], i, k)
    BY <1>2 DEF Holds
  <2>3. t \notin (s + 1)..(p - 1) /\ s \notin (t + 1)..(p - 1)
    BY <2>1, <2>2
  <2>4. s = t
    BY <2>3
  <2>. QED  BY <2>1, <2>2, <2>4
<1>. QED  BY <1>1, <1>2

\* A write of some lanes of a word.
LEMMA MaskedBytes ==
  ASSUME NEW m \in [Words -> Word], NEW i \in Words, NEW lanes, NEW data \in Word
  PROVE  /\ Masked(m, i, lanes, data) \in [Words -> Word]
         /\ \A j \in Words : \A k \in Lane :
              Masked(m, i, lanes, data)[j][k] = IF j = i /\ k \in lanes THEN data[k] ELSE m[j][k]
<1>. DEFINE w == [k \in Lane |-> IF k \in lanes THEN data[k] ELSE m[i][k]]
<1>1. w \in Word /\ \A k \in Lane : w[k] = IF k \in lanes THEN data[k] ELSE m[i][k]
  BY DEF Word
<1>2. Masked(m, i, lanes, data) = [m EXCEPT ![i] = w]
  BY DEF Masked
<1>. HIDE DEF w
<1>. QED  BY <1>1, <1>2

\* What the bus does with a request, written as the reference model does.
LEMMA PortStore ==
  ASSUME NEW m, NEW r
  PROVE  PortMemory!Store(m, r) = Masked(m, r.addr, r.strobe, r.data)
BY DEF PortMemory!Store, Masked

\* Half a strobe selects the mask of its bytes: every entry of the table is right.
LEMMA HalfMask ==
  ASSUME NEW lanes \in SUBSET Lane, NEW shift \in {0, 4}
  PROVE  STROBE_TO_MASK[Nibble(lanes, shift) + 1] = {k \in 0..3 : shift + k \in lanes}
<1>. DEFINE bit(k) == IF shift + k \in lanes THEN 1 ELSE 0
<1>1. Nibble(lanes, shift) = bit(0) + 2 * bit(1) + 4 * bit(2) + 8 * bit(3)
  BY DEF Nibble
<1>2. \A k \in 0..3 : /\ bit(k) \in {0, 1}
                      /\ bit(k) = 1 <=> shift + k \in lanes
  OBVIOUS
<1>3. bit(0) \in {0, 1} /\ bit(1) \in {0, 1} /\ bit(2) \in {0, 1} /\ bit(3) \in {0, 1}
  OBVIOUS
<1>4. {k \in 0..3 : shift + k \in lanes} = {k \in 0..3 : bit(k) = 1}
  BY <1>2
<1>. HIDE DEF bit
<1>. DEFINE picked(w, x, y, z) ==
              {k \in {0, 1, 2, 3} :
                 (k = 0 /\ w = 1) \/ (k = 1 /\ x = 1) \/ (k = 2 /\ y = 1) \/ (k = 3 /\ z = 1)}
<1>5. \A w, x, y, z \in {0, 1} :
        STROBE_TO_MASK[w + 2 * x + 4 * y + 8 * z + 1] = picked(w, x, y, z)
  <2>1. \A w, x \in {0, 1} :
          /\ STROBE_TO_MASK[w + 2 * x + 1] = picked(w, x, 0, 0)
          /\ STROBE_TO_MASK[w + 2 * x + 5] = picked(w, x, 1, 0)
          /\ STROBE_TO_MASK[w + 2 * x + 9] = picked(w, x, 0, 1)
          /\ STROBE_TO_MASK[w + 2 * x + 13] = picked(w, x, 1, 1)
    BY DEF STROBE_TO_MASK
  <2>2. \A w, x, y, z \in {0, 1} :
          \/ y = 0 /\ z = 0 /\ w + 2 * x + 4 * y + 8 * z + 1 = w + 2 * x + 1
          \/ y = 1 /\ z = 0 /\ w + 2 * x + 4 * y + 8 * z + 1 = w + 2 * x + 5
          \/ y = 0 /\ z = 1 /\ w + 2 * x + 4 * y + 8 * z + 1 = w + 2 * x + 9
          \/ y = 1 /\ z = 1 /\ w + 2 * x + 4 * y + 8 * z + 1 = w + 2 * x + 13
    OBVIOUS
  <2>. HIDE DEF picked
  <2>. QED  BY <2>1, <2>2
<1>6. {k \in 0..3 : bit(k) = 1} = picked(bit(0), bit(1), bit(2), bit(3))
  OBVIOUS
<1>. HIDE DEF picked
<1>. QED  BY <1>1, <1>3, <1>4, <1>5, <1>6

\* The two halves put together are the lanes of the strobe: the masks that the
\* reference model and the device look up say what the bus means.
LEMMA StrobeIsMask ==
  ASSUME NEW lanes \in SUBSET Lane
  PROVE  StrobeMask(lanes) = lanes
<1>1. /\ STROBE_TO_MASK[Nibble(lanes, 0) + 1] = {k \in 0..3 : 0 + k \in lanes}
      /\ STROBE_TO_MASK[Nibble(lanes, 4) + 1] = {k \in 0..3 : 4 + k \in lanes}
  BY HalfMask
<1>2. StrobeMask(lanes) = {k \in 0..3 : 0 + k \in lanes}
                            \cup {k + 4 : k \in {j \in 0..3 : 4 + j \in lanes}}
  BY <1>1 DEF StrobeMask
<1>3. ASSUME NEW k \in lanes PROVE k \in StrobeMask(lanes)
  <2>1. k \in 0..7
    BY DEF Lane
  <2>2. CASE k \in 0..3
    BY <1>2, <2>2
  <2>3. CASE k - 4 \in 0..3
    BY <1>2, <2>1, <2>3
  <2>. QED  BY <2>1, <2>2, <2>3
<1>4. ASSUME NEW k \in StrobeMask(lanes) PROVE k \in lanes
  BY <1>2
<1>. QED  BY <1>3, <1>4

\* A store in the model writes the lanes that the operation selects.
LEMMA Stored ==
  ASSUME TypeInv, NEW a \in Accesses, NEW d \in Word, Storing(a, d)
  PROVE  LET op == parse(a.width, a.addr) IN
         model' = Masked(model, Index(a.addr), strobe(op), place(op, d))
<1>. DEFINE op == parse(a.width, a.addr)
            i == Index(a.addr)
            at(k) == 8 * i + k - First(a)
            w == [k \in Lane |-> IF at(k) \in 0..(a.width - 1) THEN d[at(k)] ELSE model[i][k]]
            v == [k \in Lane |-> IF k \in strobe(op) THEN place(op, d)[k] ELSE model[i][k]]
<1>1. op \in Ops /\ op.size = a.width /\ First(a) = 8 * i + op.shift /\ i \in Nat
  BY Parsed DEF Words
<1>2. /\ model' = [model EXCEPT ![i] = w]
      /\ Masked(model, i, strobe(op), place(op, d)) = [model EXCEPT ![i] = v]
  BY DEF Storing, Masked
<1>3. ASSUME NEW k \in Lane PROVE w[k] = v[k]
  <2>1. /\ w[k] = IF at(k) \in 0..(a.width - 1) THEN d[at(k)] ELSE model[i][k]
        /\ v[k] = IF k \in strobe(op) THEN place(op, d)[k] ELSE model[i][k]
    OBVIOUS
  <2>. HIDE DEF op, i, w, v
  <2>2. op.size \in {1, 2, 4, 8} /\ op.shift \in 0..7 /\ op.shift + op.size <= 8 /\ k \in 0..7
    BY <1>1 DEF Ops, Width, Lane
  <2>3. at(k) = k - op.shift
    BY <1>1, <2>2
  <2>. HIDE DEF at
  <2>4. k \in strobe(op) <=> at(k) \in 0..(a.width - 1)
    <3>1. k \in strobe(op) <=> op.shift <= k /\ k <= op.shift + op.size - 1
      BY <2>2 DEF strobe
    <3>2. at(k) \in Int /\ (at(k) \in 0..(a.width - 1) <=> 0 <= at(k) /\ at(k) <= op.size - 1)
      BY <1>1, <2>2, <2>3
    <3>. QED  BY <2>2, <2>3, <3>1, <3>2
  <2>5. k \in strobe(op) => place(op, d)[k] = d[at(k)]
    BY <2>2, <2>3 DEF strobe, place
  <2>. QED  BY <2>1, <2>4, <2>5
<1>4. w = v
  <2>1. w = [k \in Lane |-> w[k]] /\ v = [k \in Lane |-> v[k]]
    OBVIOUS
  <2>. HIDE DEF w, v
  <2>. QED  BY <1>3, <2>1
<1>. QED  BY <1>2, <1>4

-----------------------------------------------------------------------------
(* The queue.                                                               *)

LEMMA Appended ==
  ASSUME NEW q \in Seq(Tasks), NEW u \in Tasks
  PROVE  /\ Append(q, u) \in Seq(Tasks) /\ Len(Append(q, u)) = Len(q) + 1 /\ Len(q) \in Nat
         /\ Append(q, u) # <<>>
         /\ \A s \in 1..Len(q) : Append(q, u)[s] = q[s]
         /\ Append(q, u)[Len(q) + 1] = u
OBVIOUS

LEMMA Tailed ==
  ASSUME NEW q \in Seq(Tasks), q # <<>>
  PROVE  /\ Tail(q) \in Seq(Tasks) /\ Len(Tail(q)) = Len(q) - 1
         /\ Len(q) \in Nat /\ 1 \in 1..Len(q) /\ Head(q) = q[1] /\ q[1] \in Tasks
         /\ \A s \in 1..(Len(q) - 1) : Tail(q)[s] = q[s + 1]
OBVIOUS

\* The address of a byte is in some word, and a task can be issued.
LEMMA IssuedPort ==
  /\ \A x \in Bytes : Index(x) \in Words
  /\ \A u \in Tasks : /\ Issued(u) \in Ports /\ Issued(u).valid /\ Issued(u) # NoReq
                      /\ Issued(u).addr = Index(u.addr) /\ Issued(u).strobe = u.strobe
                      /\ u.strobe # {} => Issued(u).data = u.data
<1>1. ASSUME NEW x \in Bytes PROVE Index(x) \in Words
  <2>1. x \in Nat /\ WORDS \in Nat /\ x < 8 * WORDS
    BY BusAssumption DEF Bytes
  <2>2. \A y, z \in Nat : y < z => y \in 0..(z - 1)
    OBVIOUS
  <2>3. x \div 8 \in Nat /\ x \div 8 < WORDS
    BY <2>1
  <2>. QED  BY <2>1, <2>2, <2>3 DEF Index, Words
<1>2. ASSUME NEW u \in Tasks
      PROVE  /\ Issued(u) \in Ports /\ Issued(u).valid /\ Issued(u) # NoReq
             /\ Issued(u).addr = Index(u.addr) /\ Issued(u).strobe = u.strobe
             /\ u.strobe # {} => Issued(u).data = u.data
  <2>1. /\ Index(u.addr) \in Words /\ u.strobe \in SUBSET Lane /\ u.data \in Word
        /\ Zero \in Word
    BY <1>1 DEF Tasks, Zero, Word, Byte
  <2>2. CASE u.strobe = {}
    BY <2>1, <2>2 DEF Issued, is_load, LoadRequest, Ports, NoReq
  <2>3. CASE u.strobe # {}
    BY <2>1, <2>3 DEF Issued, is_load, StoreRequest, Ports, NoReq
  <2>. QED  BY <2>2, <2>3
<1>. QED  BY <1>1, <1>2

\* Whether a task sees what it wants does not depend on those behind it, nor
\* on whether those before it have been performed.
LEMMA TaskSame ==
  ASSUME NEW q \in Seq(Tasks), NEW r, NEW m, NEW w, NEW x, NEW p \in 1..Len(q),
         \A s \in 1..p : r[s] = q[s],
         x[q[p].id] = w[q[p].id],
         TaskOK(q, m, w, p)
  PROVE  TaskOK(r, m, x, p)
<1>1. p \in Nat /\ r[p] = q[p] /\ \A s \in 1..(p - 1) : r[s] = q[s]
  OBVIOUS
<1>2. \A i, k, v : Holds(r, m, p, i, k, v) <=> Holds(q, m, p, i, k, v)
  BY <1>1, HoldsSame
<1>. QED  BY <1>1, <1>2 DEF TaskOK, LoadOK, ExpectOK

LEMMA TaskShift ==
  ASSUME NEW q \in Seq(Tasks), q # <<>>, NEW m, NEW l, NEW w, NEW p \in 1..(Len(q) - 1),
         \A i \in Words : \A k \in Lane :
           l[i][k] = IF Stores(q[1], i, k) THEN q[1].data[k] ELSE m[i][k],
         TaskOK(q, m, w, p + 1)
  PROVE  TaskOK(Tail(q), l, w, p)
<1>. DEFINE r == Tail(q)
<1>1. /\ p \in Nat \ {0} /\ p + 1 \in 1..Len(q) /\ r[p] = q[p + 1]
      /\ \A s \in 1..(p - 1) : r[s] = q[s + 1]
  BY Tailed
<1>. HIDE DEF r
<1>2. \A i \in Words : \A k \in Lane : \A v :
        Holds(r, l, p, i, k, v) <=> Holds(q, m, p + 1, i, k, v)
  BY <1>1, HoldsShift
<1>3. q[p + 1] \in Tasks
  BY <1>1
<1>4. Index(q[p + 1].addr) \in Words /\ q[p + 1].load_op \in Ops /\ q[p + 1].data \in Word
  BY <1>3, IssuedPort DEF Tasks
<1>5. /\ \A k \in mask(q[p + 1].load_op) : k \in Lane
      /\ \A k \in 0..(q[p + 1].load_op.size - 1) : q[p + 1].load_op.shift + k \in Lane
  BY <1>4, OpLanes
<1>6. TaskOK(r, l, w, p)
  <2>1. LoadOK(q, m, w, p + 1) => LoadOK(r, l, w, p)
    BY <1>1, <1>2, <1>4, <1>5 DEF LoadOK
  <2>2. ExpectOK(q, m, w, p + 1) => ExpectOK(r, l, w, p)
    BY <1>1, <1>2, <1>4, <1>5 DEF ExpectOK
  <2>. QED  BY <1>1, <2>1, <2>2 DEF TaskOK
<1>. QED  BY <1>6 DEF r

-----------------------------------------------------------------------------
(* Operations of a pipeline.                                                *)

\* When the bus is taken.
LEMMA BusTaken ==
  ASSUME IInv, mode = "pipeline"
  PROVE  port.valid <=> ongoing # <<>>
<1>1. CASE ongoing = <<>>
  BY <1>1 DEF IInv, PipeInv, NoReq
<1>2. CASE ongoing # <<>>
  <2>1. ongoing[1] \in Tasks
    BY <1>2, Tailed DEF IInv, TypeInv
  <2>. QED  BY <1>2, <2>1, IssuedPort DEF IInv, PipeInv
<1>. QED  BY <1>1, <1>2

\* A task that is submitted comes last, has a new number and waits.
LEMMA Submits ==
  ASSUME IInv, Running("pipeline"), n < MAX_OPS,
         NEW u \in Tasks, u.id = n + 1, submit(u),
         NEW x \in [kind : Kinds, width : Width \cup {0}, data : Word], Begin(x),
         UNCHANGED <<mem, mode, ref, dest, failed>>,
         caller' \in [at : {"test", "fence"}, arg : Int, then : {"test", "end", "get"}],
         TaskOK(Append(ongoing, u), mem, want', Len(ongoing) + 1)
  PROVE  /\ QueueInv' /\ CompareInv' /\ IdleInv' /\ DestInv' /\ LoadsRight' /\ ExpectExact'
         /\ ongoing' = Append(ongoing, u) /\ ongoing' \in Seq(Tasks)
         /\ port' \in Ports /\ port' = IF ongoing' = <<>> THEN NoReq ELSE Issued(ongoing'[1])
         /\ n' = n + 1 /\ n' \in 0..MAX_OPS
         /\ want' \in [OpNo -> [kind : Kinds, width : Width \cup {0}, data : Word]]
         /\ want'[n'] = x
<1>1. mode = "pipeline" /\ mode' = "pipeline" /\ caller.at = "test" /\ failed = "none"
  BY DEF Running
<1>2. /\ ongoing \in Seq(Tasks) /\ n \in Nat /\ n + 1 \in OpNo /\ MAX_OPS \in Nat
      /\ n' = n + 1 /\ n' \in 0..MAX_OPS
      /\ want \in [OpNo -> [kind : Kinds, width : Width \cup {0}, data : Word]]
  BY BusAssumption DEF IInv, TypeInv, OpNo, Begin
<1>3. /\ want' \in [OpNo -> [kind : Kinds, width : Width \cup {0}, data : Word]]
      /\ want'[n + 1] = x /\ \A i \in OpNo : i # n + 1 => want'[i] = want[i]
  BY <1>2 DEF Begin
<1>4. ongoing' = Append(ongoing, u)
  BY DEF submit
<1>5. /\ ongoing' \in Seq(Tasks) /\ Len(ongoing') = Len(ongoing) + 1 /\ Len(ongoing) \in Nat
      /\ ongoing' # <<>> /\ \A s \in 1..Len(ongoing) : ongoing'[s] = ongoing[s]
      /\ ongoing'[Len(ongoing) + 1] = u
  BY <1>2, <1>4, Appended
<1>6. port' = Issued(ongoing'[1]) /\ port' \in Ports
  <2>1. CASE port.valid
    <3>1. ongoing # <<>> /\ 1 \in 1..Len(ongoing) /\ port' = port
      BY <1>1, <1>2, <2>1, BusTaken, Tailed DEF submit
    <3>. QED  BY <1>1, <1>5, <3>1 DEF IInv, PipeInv, TypeInv
  <2>2. CASE ~port.valid
    <3>1. ongoing = <<>> /\ port' = Issued(u)
      BY <1>1, <2>2, BusTaken DEF submit
    <3>. QED  BY <1>5, <3>1, IssuedPort
  <2>. QED  BY <2>1, <2>2
<1>7. \A s \in 1..Len(ongoing) : ongoing[s].id \in OpNo /\ ongoing[s].id <= n
  <2>1. ASSUME NEW s \in 1..Len(ongoing) PROVE ongoing[s].id \in OpNo
    <3>1. ongoing[s] \in Tasks
      BY <1>2
    <3>. QED  BY <3>1 DEF Tasks
  <2>. QED  BY <2>1 DEF IInv, QueueInv
<1>8. QueueInv'
  <2>1. \A s \in 1..Len(ongoing') : s \in 1..Len(ongoing) \/ s = Len(ongoing) + 1
    BY <1>5
  <2>2. ongoing'[Len(ongoing) + 1].id = n + 1
    BY <1>5
  <2>3. \A s \in 1..Len(ongoing) : /\ ongoing'[s].id = ongoing[s].id
                                    /\ ongoing[s].id \in Nat /\ ongoing[s].id < n + 1
    BY <1>2, <1>5, <1>7 DEF OpNo
  <2>4. \A s \in 1..Len(ongoing') : ongoing'[s].id <= n'
    BY <1>2, <2>1, <2>2, <2>3
  <2>5. \A s, t \in 1..Len(ongoing') : s < t => ongoing'[s].id < ongoing'[t].id
    <3>1. ASSUME NEW s \in 1..Len(ongoing'), NEW t \in 1..Len(ongoing'), s < t
          PROVE  ongoing'[s].id < ongoing'[t].id
      <4>1. s \in 1..Len(ongoing)
        BY <1>5, <3>1
      <4>2. CASE t = Len(ongoing) + 1
        BY <2>2, <2>3, <4>1, <4>2
      <4>3. CASE t \in 1..Len(ongoing)
        BY <2>3, <3>1, <4>1, <4>3 DEF IInv, QueueInv
      <4>. QED  BY <2>1, <4>2, <4>3
    <3>. QED  BY <3>1
  <2>6. ASSUME NEW p \in 1..Len(ongoing') PROVE TaskOK(ongoing', mem', want', p)
    <3>1. CASE p = Len(ongoing) + 1
      BY <1>4, <3>1
    <3>2. CASE p \in 1..Len(ongoing)
      <4>1. /\ \A s \in 1..p : ongoing'[s] = ongoing[s]
            /\ want'[ongoing[p].id] = want[ongoing[p].id]
        BY <1>2, <1>3, <1>5, <1>7, <3>2 DEF OpNo
      <4>2. TaskOK(ongoing, mem, want, p)
        BY <3>2 DEF IInv, QueueInv
      <4>. QED  BY <1>2, <3>2, <4>1, <4>2, TaskSame
    <3>. QED  BY <2>1, <3>1, <3>2
  <2>. QED  BY <1>1, <2>4, <2>5, <2>6 DEF QueueInv
<1>9. \A i \in OpNo : /\ Returned(i)' <=> Returned(i)
                      /\ Returned(i) => i <= n
  <2>1. caller.at # "load" /\ caller'.at # "load"
    BY <1>1
  <2>2. \A i : Waits(i)' <=> Waits(i) \/ i = n + 1
    <3>1. \A s \in 1..(Len(ongoing) + 1) : s \in 1..Len(ongoing) \/ s = Len(ongoing) + 1
      BY <1>5
    <3>2. \A s \in 1..Len(ongoing) : s \in 1..(Len(ongoing) + 1)
      BY <1>5
    <3>3. Len(ongoing) + 1 \in 1..(Len(ongoing) + 1)
      BY <1>5
    <3>. QED  BY <1>5, <3>1, <3>2, <3>3 DEF Waits
  <2>3. \A i \in OpNo : i <= n + 1 <=> i <= n \/ i = n + 1
    BY <1>2 DEF OpNo
  <2>4. ~(n + 1 <= n)
    BY <1>2
  <2>. QED  BY <1>2, <2>1, <2>2, <2>3, <2>4 DEF Returned, In
<1>10. \A i \in OpNo : Returned(i) => want'[i] = want[i]
  <2>1. \A i \in OpNo : i <= n => i # n + 1
    BY <1>2 DEF OpNo
  <2>. QED  BY <1>3, <1>9, <2>1
<1>11. LoadsRight' /\ ExpectExact' /\ DestInv'
  <2>1. LoadsRight'
    BY <1>9, <1>10 DEF IInv, LoadsRight, OpNo
  <2>2. ExpectExact'
    BY <1>9, <1>10 DEF IInv, ExpectExact, OpNo
  <2>3. DestInv'
    BY <1>9 DEF IInv, DestInv, OpNo
  <2>. QED  BY <2>1, <2>2, <2>3
<1>12. CompareInv' /\ IdleInv'
  BY <1>1 DEF CompareInv, IdleInv
<1>. QED  BY <1>2, <1>3, <1>4, <1>5, <1>6, <1>8, <1>11, <1>12

\* When an operation begins, what it will find is what the model holds.
LEMMA AtEnd ==
  ASSUME IInv, mode = "pipeline", NEW u \in Tasks
  PROVE  \A i \in Words : \A k \in Lane : \A v :
           Holds(Append(ongoing, u), mem, Len(ongoing) + 1, i, k, v) <=> v = model[i][k]
<1>. DEFINE p == Len(ongoing) + 1
            q == Append(ongoing, u)
<1>1. p \in Nat /\ \A s \in 1..(p - 1) : q[s] = ongoing[s]
  BY Appended DEF IInv, TypeInv
<1>2. \A i \in Words : \A k \in Lane : Holds(ongoing, mem, p, i, k, model[i][k])
  BY DEF IInv, PipeInv
<1>. HIDE DEF p, q
<1>3. ASSUME NEW i \in Words, NEW k \in Lane, NEW v
      PROVE  Holds(q, mem, p, i, k, v) <=> v = model[i][k]
  <2>1. Holds(q, mem, p, i, k, v) <=> Holds(ongoing, mem, p, i, k, v)
    BY <1>1, HoldsSame
  <2>. QED  BY <1>1, <1>2, <2>1, HoldsUnique
<1>. QED  BY <1>3 DEF p, q

\* What the model holds next is what the memory will hold.
LEMMA ModelNext ==
  ASSUME IInv, mode = "pipeline", NEW u \in Tasks, NEW mo,
         \A i \in Words : \A k \in Lane :
           mo[i][k] = IF Stores(u, i, k) THEN u.data[k] ELSE model[i][k]
  PROVE  \A i \in Words : \A k \in Lane :
           Holds(Append(ongoing, u), mem, Len(Append(ongoing, u)) + 1, i, k, mo[i][k])
<1>. DEFINE p == Len(ongoing) + 1
            q == Append(ongoing, u)
<1>1. p \in Nat \ {0} /\ Len(q) = p /\ q[p] = u
  BY Appended DEF IInv, TypeInv
<1>2. \A i \in Words : \A k \in Lane : \A v : Holds(q, mem, p, i, k, v) <=> v = model[i][k]
  BY AtEnd
<1>. HIDE DEF p, q
<1>3. ASSUME NEW i \in Words, NEW k \in Lane PROVE Holds(q, mem, p + 1, i, k, mo[i][k])
  BY <1>1, <1>2, HoldsNext
<1>. QED  BY <1>1, <1>3 DEF q

\* A program that an assertion has ended stays as it is.
LEMMA StepAbort ==
  ASSUME IInv, failed = "none", mode = "pipeline", NEW reason \in {"alignment", "fence"},
         Abort(reason)
  PROVE  IInv'
<1>1. /\ failed' = reason /\ caller.at # "load"
      /\ UNCHANGED <<mem, port, mode, ongoing, caller, ref, dest, got, n, model, want>>
  BY DEF Abort, busVars, IInv, PipeInv
<1>2. TypeInv'
  BY <1>1 DEF IInv, TypeInv
<1>3. QueueInv'
  BY <1>1 DEF IInv, QueueInv
<1>4. PipeInv' /\ CompareInv' /\ IdleInv'
  BY <1>1 DEF IInv, PipeInv, CompareInv, IdleInv
<1>5. \A i \in OpNo : Returned(i)' <=> Returned(i)
  BY <1>1 DEF Returned, Waits, In
<1>6. DestInv' /\ LoadsRight' /\ ExpectExact'
  BY <1>1, <1>5 DEF IInv, DestInv, LoadsRight, ExpectExact
<1>. QED  BY <1>2, <1>3, <1>4, <1>6 DEF IInv

\* loadd .. loadb, and the load of MemoryCellGen::get.
LEMMA StepLoad ==
  ASSUME IInv, Running("pipeline"), n < MAX_OPS, NEW a \in Accesses,
         submit(Task(a.addr, {}, Zero, n + 1, parse(a.width, a.addr))),
         Begin([kind |-> "load", width |-> a.width, data |-> Seen(a)]),
         UNCHANGED <<mem, mode, ref, dest, got, failed, model>>,
         caller' \in [at : {"test", "fence"}, arg : Int, then : {"test", "end", "get"}]
  PROVE  IInv'
<1>. DEFINE op == parse(a.width, a.addr)
            u == Task(a.addr, {}, Zero, n + 1, op)
            x == [kind |-> "load", width |-> a.width, data |-> Seen(a)]
            i == Index(a.addr)
<1>1. /\ op \in Ops /\ op.size = a.width /\ a.addr \in Bytes /\ a.width \in Width /\ i \in Words
      /\ Seen(a) \in Word /\ Zero \in Word
      /\ \A k \in 0..(a.width - 1) : Seen(a)[k] = model[i][op.shift + k]
  BY Parsed, SeenBytes DEF IInv, Zero, Word, Byte
<1>. HIDE DEF op
<1>2. n \in Nat /\ n + 1 \in OpNo /\ n + 1 # 0 /\ n + 1 \in 0..MAX_OPS /\ mode = "pipeline"
  BY BusAssumption DEF IInv, TypeInv, OpNo, Running
<1>3. u \in Tasks /\ u.id = n + 1 /\ u.dest = n + 1 /\ u.strobe = {} /\ is_load(u)
      /\ u.load_op = op /\ u.addr = a.addr
  BY <1>1, <1>2 DEF Task, Tasks, is_load
<1>4. x \in [kind : Kinds, width : Width \cup {0}, data : Word]
  BY <1>1 DEF Kinds
<1>5. /\ want'[n + 1].kind = "load" /\ want'[n + 1].width = a.width
      /\ want'[n + 1].data = Seen(a)
  BY <1>2 DEF Begin, IInv, TypeInv
<1>6. submit(u) /\ Begin(x)
  BY DEF op
<1>. HIDE DEF u, x, i
<1>7. TaskOK(Append(ongoing, u), mem, want', Len(ongoing) + 1)
  <2>. DEFINE q == Append(ongoing, u)
              p == Len(ongoing) + 1
  <2>1. q[p] = u
    BY <1>3, Appended DEF IInv, TypeInv
  <2>2. \A k \in 0..(op.size - 1) : Holds(q, mem, p, i, op.shift + k, Seen(a)[k])
    <3>1. \A k \in 0..(op.size - 1) : op.shift + k \in Lane
      BY <1>1, OpLanes
    <3>. QED  BY <1>1, <1>2, <1>3, <3>1, AtEnd
  <2>. HIDE DEF q, p
  <2>3. LoadOK(q, mem, want', p)
    BY <1>1, <1>3, <1>5, <2>1, <2>2 DEF LoadOK, i
  <2>4. TaskOK(q, mem, want', p)
    BY <1>2, <1>3, <2>1, <2>3 DEF TaskOK
  <2>. QED  BY <2>4 DEF q, p
<1>8. /\ QueueInv' /\ CompareInv' /\ IdleInv' /\ DestInv' /\ LoadsRight' /\ ExpectExact'
      /\ ongoing' = Append(ongoing, u) /\ ongoing' \in Seq(Tasks)
      /\ port' \in Ports /\ port' = IF ongoing' = <<>> THEN NoReq ELSE Issued(ongoing'[1])
      /\ n' = n + 1 /\ n' \in 0..MAX_OPS
      /\ want' \in [OpNo -> [kind : Kinds, width : Width \cup {0}, data : Word]]
  BY <1>2, <1>3, <1>4, <1>6, <1>7, Submits
<1>9. TypeInv'
  BY <1>8 DEF IInv, TypeInv, OpNo
<1>10. PipeInv'
  <2>1. \A j \in Words : \A k \in Lane :
          Holds(ongoing', mem', Len(ongoing') + 1, j, k, model'[j][k])
    <3>1. \A j \in Words : \A k \in Lane : ~Stores(u, j, k)
      BY <1>3 DEF Stores
    <3>. QED  BY <1>2, <1>3, <1>8, <3>1, ModelNext
  <2>2. n' > 0
    BY <1>2, <1>8
  <2>. QED  BY <1>8, <2>1, <2>2 DEF PipeInv
<1>. QED  BY <1>8, <1>9, <1>10 DEF IInv

\* stored .. storeb: the bytes of the access, and no others, are those of the
\* model that change.
LEMMA StepStore ==
  ASSUME IInv, Running("pipeline"), n < MAX_OPS, NEW a \in Accesses, NEW d \in Word,
         submit(Task(a.addr, strobe(parse(a.width, a.addr)), place(parse(a.width, a.addr), d),
                     0, SIZE8_SHT0)),
         Begin([kind |-> "store", width |-> a.width, data |-> d]),
         Storing(a, d),
         UNCHANGED <<mem, mode, caller, ref, dest, got, failed>>
  PROVE  IInv'
<1>. DEFINE op == parse(a.width, a.addr)
            u == Task(a.addr, strobe(op), place(op, d), 0, SIZE8_SHT0)
            x == [kind |-> "store", width |-> a.width, data |-> d]
            i == Index(a.addr)
<1>1. /\ op \in Ops /\ op.size = a.width /\ a.addr \in Bytes /\ a.width \in Width /\ i \in Words
      /\ First(a) = 8 * i + op.shift /\ i \in Nat
      /\ place(op, d) \in Word /\ strobe(op) \in SUBSET Lane /\ strobe(op) # {}
  BY Parsed, WordKept DEF Words
<1>2. n \in Nat /\ n + 1 \in OpNo /\ n + 1 \in 0..MAX_OPS /\ 0 \in 0..MAX_OPS
      /\ mode = "pipeline" /\ caller.at = "test"
  BY BusAssumption DEF IInv, TypeInv, OpNo, Running
<1>3. u \in Tasks /\ u.id = n + 1 /\ u.dest = 0 /\ u.strobe = strobe(op) /\ ~is_load(u)
      /\ u.data = place(op, d) /\ u.addr = a.addr
  <2>1. SIZE8_SHT0 \in Ops
    BY DEF SIZE8_SHT0, Ops, Width, Lane
  <2>. HIDE DEF op
  <2>. QED  BY <1>1, <1>2, <2>1 DEF Task, Tasks, is_load
<1>4. /\ model' \in [Words -> Word]
      /\ \A j \in Words : \A k \in Lane :
           model'[j][k] = IF Stores(u, j, k) THEN u.data[k] ELSE model[j][k]
  <2>1. /\ model \in [Words -> Word]
        /\ model' = Masked(model, i, strobe(op), place(op, d))
    BY Stored DEF IInv, TypeInv
  <2>2. \A j, k : Stores(u, j, k) <=> j = i /\ k \in strobe(op)
    BY <1>3 DEF Stores
  <2>. HIDE DEF u, op, i
  <2>. QED  BY <1>1, <1>3, <2>1, <2>2, MaskedBytes
<1>5. x \in [kind : Kinds, width : Width \cup {0}, data : Word]
  BY <1>1 DEF Kinds
<1>6. want'[n + 1].kind = "store"
  BY <1>2 DEF Begin, IInv, TypeInv
<1>7. submit(u) /\ Begin(x)
  OBVIOUS
<1>. HIDE DEF u, x, op, i
<1>8. TaskOK(Append(ongoing, u), mem, want', Len(ongoing) + 1)
  <2>1. Append(ongoing, u)[Len(ongoing) + 1] = u
    BY <1>3, Appended DEF IInv, TypeInv
  <2>. QED  BY <1>3, <1>6, <2>1 DEF TaskOK
<1>9. caller' \in [at : {"test", "fence"}, arg : Int, then : {"test", "end", "get"}]
  BY <1>2 DEF IInv, TypeInv
<1>10. /\ QueueInv' /\ CompareInv' /\ IdleInv' /\ DestInv' /\ LoadsRight' /\ ExpectExact'
       /\ ongoing' = Append(ongoing, u) /\ ongoing' \in Seq(Tasks)
       /\ port' \in Ports /\ port' = IF ongoing' = <<>> THEN NoReq ELSE Issued(ongoing'[1])
       /\ n' = n + 1 /\ n' \in 0..MAX_OPS
       /\ want' \in [OpNo -> [kind : Kinds, width : Width \cup {0}, data : Word]]
  BY <1>2, <1>3, <1>5, <1>7, <1>8, <1>9, Submits
<1>11. TypeInv'
  BY <1>4, <1>10 DEF IInv, TypeInv, OpNo
<1>12. PipeInv'
  <2>1. \A j \in Words : \A k \in Lane :
          Holds(ongoing', mem', Len(ongoing') + 1, j, k, model'[j][k])
    BY <1>2, <1>3, <1>4, <1>10, ModelNext
  <2>. QED  BY <1>2, <1>10, <2>1 DEF PipeInv
<1>. QED  BY <1>10, <1>11, <1>12 DEF IInv

\* expectd .. expectb: the task will compare what is there with what is
\* expected, in the lanes of the access.
LEMMA StepExpect ==
  ASSUME IInv, Running("pipeline"), n < MAX_OPS, NEW a \in Accesses, NEW d \in Word,
         NEW right \in BOOLEAN,
         right <=> Truncate(a.width, d) = Truncate(a.width, Seen(a)),
         submit(Task(a.addr, {}, place(parse(a.width, a.addr), d), 0, parse(a.width, a.addr))),
         Begin([kind |-> IF right THEN "right" ELSE "wrong", width |-> a.width, data |-> d]),
         UNCHANGED <<mem, mode, caller, ref, dest, got, failed, model>>
  PROVE  IInv'
<1>. DEFINE op == parse(a.width, a.addr)
            u == Task(a.addr, {}, place(op, d), 0, op)
            x == [kind |-> IF right THEN "right" ELSE "wrong", width |-> a.width, data |-> d]
            i == Index(a.addr)
<1>1. /\ op \in Ops /\ op.size = a.width /\ a.addr \in Bytes /\ a.width \in Width /\ i \in Words
      /\ place(op, d) \in Word /\ Seen(a) \in Word
      /\ \A k \in 0..(a.width - 1) : Seen(a)[k] = model[i][op.shift + k]
  BY Parsed, WordKept, SeenBytes DEF IInv
<1>2. n \in Nat /\ n + 1 \in OpNo /\ n + 1 \in 0..MAX_OPS /\ 0 \in 0..MAX_OPS
      /\ mode = "pipeline" /\ caller.at = "test"
  BY BusAssumption DEF IInv, TypeInv, OpNo, Running
<1>3. right <=> \A k \in mask(op) : place(op, d)[k] = model[i][k]
  <2>. HIDE DEF op, i
  <2>1. op.size \in {1, 2, 4, 8} /\ op.shift \in 0..7 /\ op.shift + op.size <= 8
    BY <1>1 DEF Ops, Width, Lane
  <2>2. \A k \in mask(op) : /\ k - op.shift \in 0..(a.width - 1) /\ op.shift + (k - op.shift) = k
                            /\ place(op, d)[k] = d[k - op.shift]
    BY <1>1, <2>1 DEF mask, place, Lane
  <2>3. \A k \in 0..(a.width - 1) : op.shift + k \in mask(op) /\ (op.shift + k) - op.shift = k
    BY <1>1, <2>1 DEF mask
  <2>4. right <=> \A k \in 0..(a.width - 1) : d[k] = Seen(a)[k]
    <3>1. \A k \in Lane : k < a.width <=> k \in 0..(a.width - 1)
      BY <1>1, <2>1 DEF Lane
    <3>2. \A k \in 0..(a.width - 1) : k \in Lane
      BY <1>1, <2>1 DEF Lane
    <3>. HIDE DEF Seen
    <3>3. ASSUME Truncate(a.width, d) = Truncate(a.width, Seen(a)), NEW k \in 0..(a.width - 1)
          PROVE  d[k] = Seen(a)[k]
      <4>1. Truncate(a.width, d)[k] = d[k] /\ Truncate(a.width, Seen(a))[k] = Seen(a)[k]
        BY <3>1, <3>2 DEF Truncate
      <4>. QED  BY <3>3, <4>1
    <3>4. ASSUME \A k \in 0..(a.width - 1) : d[k] = Seen(a)[k]
          PROVE  Truncate(a.width, d) = Truncate(a.width, Seen(a))
      BY <3>1, <3>4 DEF Truncate
    <3>. QED  BY <3>3, <3>4
  <2>5. \A k \in mask(op) : Seen(a)[k - op.shift] = model[i][k]
    BY <1>1, <2>2
  <2>. QED  BY <2>2, <2>3, <2>4, <2>5
<1>. HIDE DEF op
<1>4. u \in Tasks /\ u.id = n + 1 /\ u.dest = 0 /\ u.strobe = {} /\ is_load(u)
      /\ u.data = place(op, d) /\ u.addr = a.addr /\ u.load_op = op
  BY <1>1, <1>2 DEF Task, Tasks, is_load
<1>5. x \in [kind : Kinds, width : Width \cup {0}, data : Word]
  BY <1>1 DEF Kinds
<1>6. want'[n + 1].kind = IF right THEN "right" ELSE "wrong"
  BY <1>2 DEF Begin, IInv, TypeInv
<1>7. submit(u) /\ Begin(x)
  BY DEF op
<1>. HIDE DEF u, x, i
<1>8. TaskOK(Append(ongoing, u), mem, want', Len(ongoing) + 1)
  <2>. DEFINE q == Append(ongoing, u)
              p == Len(ongoing) + 1
  <2>1. q[p] = u
    BY <1>4, Appended DEF IInv, TypeInv
  <2>2. \A k \in mask(op) : Holds(q, mem, p, i, k, place(op, d)[k])
                              <=> place(op, d)[k] = model[i][k]
    BY <1>1, <1>2, <1>4, OpLanes, AtEnd
  <2>. HIDE DEF q, p
  <2>3. ExpectOK(q, mem, want', p)
    <3>1. want'[n + 1].kind = "right" <=> right
      BY <1>6
    <3>. QED  BY <1>3, <1>4, <1>6, <2>1, <2>2, <3>1 DEF ExpectOK, i
  <2>4. TaskOK(q, mem, want', p)
    BY <1>4, <2>1, <2>3 DEF TaskOK
  <2>. QED  BY <2>4 DEF q, p
<1>9. caller' \in [at : {"test", "fence"}, arg : Int, then : {"test", "end", "get"}]
  BY <1>2 DEF IInv, TypeInv
<1>10. /\ QueueInv' /\ CompareInv' /\ IdleInv' /\ DestInv' /\ LoadsRight' /\ ExpectExact'
       /\ ongoing' = Append(ongoing, u) /\ ongoing' \in Seq(Tasks)
       /\ port' \in Ports /\ port' = IF ongoing' = <<>> THEN NoReq ELSE Issued(ongoing'[1])
       /\ n' = n + 1 /\ n' \in 0..MAX_OPS
       /\ want' \in [OpNo -> [kind : Kinds, width : Width \cup {0}, data : Word]]
  BY <1>2, <1>4, <1>5, <1>7, <1>8, <1>9, Submits
<1>11. TypeInv'
  BY <1>10 DEF IInv, TypeInv, OpNo
<1>12. PipeInv'
  <2>1. \A j \in Words : \A k \in Lane :
          Holds(ongoing', mem', Len(ongoing') + 1, j, k, model'[j][k])
    <3>1. \A j \in Words : \A k \in Lane : ~Stores(u, j, k)
      BY <1>4 DEF Stores
    <3>. QED  BY <1>2, <1>4, <1>10, <3>1, ModelNext
  <2>. QED  BY <1>2, <1>10, <2>1 DEF PipeInv
<1>. QED  BY <1>10, <1>11, <1>12 DEF IInv

-----------------------------------------------------------------------------
(* Tests begin and end; fences.                                             *)

\* Every test begins with memory as it is at reset, and an idle bus.
LEMMA StepStart ==
  ASSUME IInv, NEW m \in {"pipeline", "compare"}, StartTest(m)
  PROVE  IInv'
<1>1. /\ mode = "none" /\ failed = "none" /\ mode' = m
      /\ mem' = MEM /\ model' = MEM /\ ref' = MEM /\ port' = NoReq
      /\ n' = 0 /\ want' = [i \in OpNo |-> NoOp]
      /\ dest' = [i \in OpNo |-> DIRT] /\ got' = Zero
      /\ UNCHANGED <<ongoing, caller, failed>>
  BY DEF StartTest
<1>2. ongoing = <<>> /\ caller.at = "test"
  BY <1>1 DEF IInv, QueueInv, IdleInv
<1>3. MEM \in [Words -> Word] /\ DIRT \in Word /\ Zero \in Word /\ MAX_OPS \in Nat
  <2>1. MEM \in [Words -> Word] /\ DIRT \in Word /\ MAX_OPS \in Nat
    BY BusAssumption DEF Words
  <2>2. Zero \in Word
    BY DEF Zero, Word, Byte
  <2>. QED  BY <2>1, <2>2
<1>4. TypeInv'
  <2>1. NoOp \in [kind : Kinds, width : Width \cup {0}, data : Word]
    BY <1>3 DEF NoOp, Kinds
  <2>2. want' \in [OpNo -> [kind : Kinds, width : Width \cup {0}, data : Word]]
    BY <1>1, <2>1
  <2>3. 0 \in 0..MAX_OPS /\ dest' \in [OpNo -> Word] /\ NoReq \in Ports
    BY <1>1, <1>3 DEF Ports
  <2>. QED  BY <1>1, <1>3, <2>2, <2>3 DEF IInv, TypeInv
<1>5. QueueInv'
  BY <1>1, <1>2 DEF QueueInv
<1>6. PipeInv'
  <2>1. Len(<<>>) + 1 = 1
    OBVIOUS
  <2>. QED  BY <1>1, <1>2, <2>1, HoldsFirst DEF PipeInv
<1>7. CompareInv' /\ IdleInv'
  BY <1>1, <1>2 DEF CompareInv, IdleInv
<1>8. DestInv'
  BY <1>1 DEF DestInv, OpNo
<1>9. \A i \in OpNo : want'[i].kind = "none"
  BY <1>1 DEF NoOp
<1>10. LoadsRight' /\ ExpectExact'
  BY <1>1, <1>9 DEF LoadsRight, ExpectExact, OpNo
<1>. QED  BY <1>4, <1>5, <1>6, <1>7, <1>8, <1>10 DEF IInv

\* A call begins or ends, and changes nothing but what it returns.
LEMMA StepCall ==
  ASSUME IInv, mode = "pipeline", caller.at \in {"test", "fence"},
         caller' \in [at : {"test", "fence"}, arg : Int, then : {"test", "end", "get"}],
         caller'.at = "fence" /\ caller'.then = "get" => n > 0,
         got' \in Word,
         mode' = mode \/ (mode' = "none" /\ ongoing = <<>> /\ caller'.at = "test"),
         UNCHANGED <<mem, port, ongoing, ref, dest, failed, n, model, want>>
  PROVE  IInv'
<1>1. TypeInv'
  BY DEF IInv, TypeInv
<1>2. QueueInv' /\ PipeInv' /\ CompareInv' /\ IdleInv'
  BY DEF IInv, QueueInv, PipeInv, CompareInv, IdleInv
<1>3. \A i : Returned(i)' <=> Returned(i)
  BY DEF Returned, Waits, In
<1>4. DestInv' /\ LoadsRight' /\ ExpectExact'
  BY <1>3 DEF IInv, DestInv, LoadsRight, ExpectExact
<1>. QED  BY <1>1, <1>2, <1>4 DEF IInv

\* The test calls fence, or leaves the scope of the pipeline.
LEMMA StepFence ==
  ASSUME IInv, (\E limit \in Limits \cup {-1} : Fence(limit)) \/ EndPipeline
  PROVE  IInv'
<1>1. /\ mode = "pipeline" /\ caller.at = "test"
      /\ caller' \in [at : {"test", "fence"}, arg : Int, then : {"test", "end", "get"}]
      /\ caller'.then # "get"
      /\ UNCHANGED <<mem, port, mode, ongoing, ref, dest, got, failed, n, model, want>>
  <2>1. \A limit \in Limits \cup {-1} : limit \in Int
    BY BusAssumption
  <2>. QED  BY <2>1 DEF Fence, EndPipeline, Running, busVars
<1>. QED  BY <1>1, StepCall DEF IInv, TypeInv

\* The queue is empty: the call returns.
LEMMA StepFenceDone ==
  ASSUME IInv, FenceDone
  PROVE  IInv'
<1>1. /\ caller.at = "fence" /\ ongoing = <<>> /\ caller' = Test
      /\ got' = IF caller.then = "get" THEN Truncate(want[n].width, dest[n]) ELSE got
      /\ mode' = IF caller.then = "end" THEN "none" ELSE mode
      /\ UNCHANGED <<mem, port, ongoing, ref, dest, failed, n, model, want>>
  BY DEF FenceDone, In
<1>2. mode = "pipeline"
  BY <1>1 DEF IInv, CompareInv, IdleInv, TypeInv
<1>3. got' \in Word
  <2>1. CASE caller.then = "get"
    <3>1. n > 0
      BY <1>1, <1>2, <2>1 DEF IInv, PipeInv
    <3>2. dest[n] \in Word
      BY <3>1 DEF IInv, TypeInv, OpNo
    <3>3. \A w : Truncate(w, dest[n]) \in Word
      BY <3>2 DEF Truncate, Word, Byte
    <3>. QED  BY <1>1, <2>1, <3>3
  <2>2. CASE caller.then # "get"
    BY <1>1, <2>2 DEF IInv, TypeInv
  <2>. QED  BY <2>1, <2>2
<1>4. Test \in [at : {"test", "fence"}, arg : Int, then : {"test", "end", "get"}]
      /\ Test.at = "test"
  BY DEF Test
<1>. QED  BY <1>1, <1>2, <1>3, <1>4, StepCall

\* CMP_TO's scope ends.
LEMMA StepEndCompare ==
  ASSUME IInv, EndCompare
  PROVE  IInv'
<1>1. /\ mode = "compare" /\ caller.at = "test" /\ mode' = "none"
      /\ UNCHANGED <<mem, port, ongoing, caller, ref, dest, got, failed, n, model, want>>
  BY DEF EndCompare, Running
<1>2. TypeInv' /\ QueueInv' /\ PipeInv' /\ CompareInv' /\ IdleInv'
  BY <1>1 DEF IInv, TypeInv, QueueInv, PipeInv, CompareInv, IdleInv
<1>3. \A i : Returned(i)' <=> Returned(i)
  BY <1>1 DEF Returned, Waits, In
<1>4. DestInv' /\ LoadsRight' /\ ExpectExact'
  BY <1>1, <1>3 DEF IInv, DestInv, LoadsRight, ExpectExact
<1>. QED  BY <1>2, <1>4 DEF IInv

-----------------------------------------------------------------------------
(* A tick of a pipeline.                                                    *)

\* What the head of the queue does to memory.
LEMMA Performed ==
  ASSUME IInv, mode = "pipeline", ongoing # <<>>, Edge(TRUE)
  PROVE  /\ mem' \in [Words -> Word] /\ rdata = mem[Index(ongoing[1].addr)]
         /\ \A i \in Words : \A k \in Lane :
              mem'[i][k] = IF Stores(ongoing[1], i, k) THEN ongoing[1].data[k] ELSE mem[i][k]
<1>. DEFINE u == ongoing[1]
<1>1. u \in Tasks /\ port = Issued(u) /\ mem \in [Words -> Word]
  BY Tailed DEF IInv, TypeInv, PipeInv
<1>. HIDE DEF u
<1>2. /\ port.addr = Index(u.addr) /\ port.strobe = u.strobe /\ Index(u.addr) \in Words
      /\ u.strobe # {} => port.data = u.data
      /\ port.data \in Word
  <2>1. port.data \in Word
    <3>1. Zero \in Word
      BY DEF Zero, Word, Byte
    <3>2. port \in Ports
      BY DEF IInv, TypeInv
    <3>3. CASE port = NoReq
      BY <3>1, <3>3 DEF NoReq
    <3>4. CASE port # NoReq
      BY <3>2, <3>4 DEF Ports
    <3>. QED  BY <3>3, <3>4
  <2>2. u.addr \in Bytes
    BY <1>1 DEF Tasks
  <2>. QED  BY <1>1, <2>1, <2>2, IssuedPort
<1>3. mem' = Masked(mem, port.addr, port.strobe, port.data)
  BY PortStore DEF Edge
<1>4. /\ mem' \in [Words -> Word]
      /\ \A i \in Words : \A k \in Lane :
           mem'[i][k] = IF i = Index(u.addr) /\ k \in u.strobe THEN port.data[k] ELSE mem[i][k]
  BY <1>1, <1>2, <1>3, MaskedBytes
<1>5. \A i \in Words : \A k \in Lane :
        mem'[i][k] = IF Stores(u, i, k) THEN u.data[k] ELSE mem[i][k]
  <2>1. \A k : k \in u.strobe => port.data = u.data
    BY <1>2
  <2>. QED  BY <1>4, <2>1 DEF Stores
<1>6. rdata = mem[Index(u.addr)]
  BY <1>2 DEF rdata
<1>. QED  BY <1>4, <1>5, <1>6 DEF u

\* Nothing is answered: the request stays on the bus.
LEMMA StepTickIdle ==
  ASSUME IInv, mode = "pipeline", caller.at \in {"test", "fence"}, tick(FALSE),
         caller' \in [at : {"test", "fence"}, arg : Int, then : {"test", "end", "get"}],
         caller'.at = caller.at, caller'.then = caller.then
  PROVE  IInv' /\ port' = port /\ mem' = mem
<1>1. /\ mem' = mem /\ UNCHANGED <<ongoing, dest, failed, mode, ref, got, n, model, want>>
      /\ port' = IF ongoing = <<>> THEN NoReq ELSE Issued(Head(ongoing))
  BY DEF tick, Edge
<1>2. port' = port
  BY <1>1, Tailed DEF IInv, PipeInv, TypeInv
<1>3. TypeInv' /\ QueueInv' /\ PipeInv' /\ CompareInv' /\ IdleInv'
  BY <1>1, <1>2 DEF IInv, TypeInv, QueueInv, PipeInv, CompareInv, IdleInv
<1>4. \A i : Returned(i)' <=> Returned(i)
  BY <1>1 DEF Returned, Waits, In
<1>5. DestInv' /\ LoadsRight' /\ ExpectExact'
  BY <1>1, <1>4 DEF IInv, DestInv, LoadsRight, ExpectExact
<1>. QED  BY <1>1, <1>2, <1>3, <1>5 DEF IInv

\* The answer goes to the head of the queue, and is what its operation wants.
LEMMA StepTickAnswer ==
  ASSUME IInv, mode = "pipeline", caller.at \in {"test", "fence"}, failed = "none", tick(TRUE),
         caller' \in [at : {"test", "fence"}, arg : Int, then : {"test", "end", "get"}],
         caller'.at = caller.at, caller'.then = caller.then
  PROVE  IInv' /\ port.valid
<1>. DEFINE u == ongoing[1]
<1>1. port.valid /\ ongoing # <<>> /\ Edge(TRUE)
  BY BusTaken DEF tick, Edge
<1>2. /\ ongoing' = Tail(ongoing) /\ Deliver(u)
      /\ port' = IF ongoing' = <<>> THEN NoReq ELSE Issued(Head(ongoing'))
      /\ UNCHANGED <<mode, ref, got, n, model, want>>
  BY <1>1, Tailed DEF tick, IInv, TypeInv
<1>3. /\ ongoing' \in Seq(Tasks) /\ Len(ongoing') = Len(ongoing) - 1 /\ Len(ongoing) \in Nat
      /\ 1 \in 1..Len(ongoing) /\ u \in Tasks
      /\ \A s \in 1..(Len(ongoing) - 1) : ongoing'[s] = ongoing[s + 1]
  BY <1>1, <1>2, Tailed DEF IInv, TypeInv
<1>4. /\ mem' \in [Words -> Word] /\ rdata = mem[Index(u.addr)]
      /\ \A i \in Words : \A k \in Lane :
           mem'[i][k] = IF Stores(u, i, k) THEN u.data[k] ELSE mem[i][k]
  BY <1>1, Performed
<1>5. /\ dest' = IF u.dest # 0
                 THEN [dest EXCEPT ![u.dest] = apply_to(u.load_op, rdata, @)] ELSE dest
      /\ failed' = IF u.dest = 0 /\ is_load(u) /\ \E k \in mask(u.load_op) : u.data[k] # rdata[k]
                   THEN "expect" ELSE failed
  BY <1>2 DEF Deliver
<1>. HIDE DEF u
<1>6. u.load_op \in Ops /\ u.id \in OpNo /\ rdata \in Word /\ Index(u.addr) \in Words
      /\ u.data \in Word
  BY <1>3, <1>4, IssuedPort DEF Tasks, IInv, TypeInv
<1>7. TaskOK(ongoing, mem, want, 1) /\ u.id <= n
  BY <1>3 DEF IInv, QueueInv, u
<1>8. u.dest # 0 => u.dest = u.id
  BY <1>7 DEF TaskOK, LoadOK, u
<1>9. /\ ~is_load(u) => want[u.id].kind = "store" /\ u.dest = 0
      /\ is_load(u) /\ u.dest # 0 =>
           /\ want[u.id].kind = "load" /\ want[u.id].width = u.load_op.size
           /\ \A k \in 0..(u.load_op.size - 1) : rdata[u.load_op.shift + k] = want[u.id].data[k]
      /\ is_load(u) /\ u.dest = 0 =>
           /\ want[u.id].kind \in {"right", "wrong"}
           /\ want[u.id].kind = "right" <=> \A k \in mask(u.load_op) : rdata[k] = u.data[k]
  <2>1. \A i, k, v : Holds(ongoing, mem, 1, i, k, v) <=> mem[i][k] = v
    BY HoldsFirst
  <2>. QED  BY <1>4, <1>7, <2>1 DEF TaskOK, LoadOK, ExpectOK, u
\* The task is the only one of its number.
<1>10. \A i \in OpNo : Waits(i)' <=> Waits(i) /\ i # u.id
  <2>1. ASSUME NEW s \in 1..Len(ongoing')
        PROVE  ongoing'[s].id # u.id /\ s + 1 \in 1..Len(ongoing) /\ ongoing'[s] = ongoing[s + 1]
    <3>1. s + 1 \in 1..Len(ongoing) /\ 1 < s + 1 /\ ongoing'[s] = ongoing[s + 1]
      BY <1>3
    <3>2. u.id < ongoing[s + 1].id
      BY <1>3, <3>1 DEF IInv, QueueInv, u
    <3>3. ongoing[s + 1] \in Tasks
      BY <3>1 DEF IInv, TypeInv
    <3>. QED  BY <1>6, <3>1, <3>2, <3>3 DEF Tasks, OpNo
  <2>2. \A s \in 1..Len(ongoing) : s = 1 \/ (s - 1 \in 1..Len(ongoing') /\ (s - 1) + 1 = s)
    BY <1>3
  <2>3. ASSUME NEW i \in OpNo, Waits(i)' PROVE Waits(i) /\ i # u.id
    BY <2>1, <2>3 DEF Waits
  <2>4. ASSUME NEW i \in OpNo, Waits(i), i # u.id PROVE Waits(i)'
    <3>1. PICK s \in 1..Len(ongoing) : ongoing[s].id = i
      BY <2>4 DEF Waits
    <3>2. s # 1
      BY <2>4, <3>1 DEF u
    <3>3. s - 1 \in 1..Len(ongoing') /\ ongoing'[s - 1].id = i
      BY <2>1, <2>2, <3>1, <3>2
    <3>. QED  BY <3>3 DEF Waits
  <2>. QED  BY <2>3, <2>4
<1>11. /\ ~Returned(u.id)
       /\ \A i \in OpNo : Returned(i)' <=> Returned(i) \/ i = u.id
  <2>1. Waits(u.id)
    BY <1>3 DEF Waits, u
  <2>2. caller.at # "load" /\ caller'.at # "load" /\ n' = n
    BY <1>2
  <2>. QED  BY <1>6, <1>7, <1>10, <2>1, <2>2 DEF Returned, In
<1>12. /\ dest' \in [OpNo -> Word]
       /\ \A i \in OpNo : i # u.id => dest'[i] = dest[i]
       /\ u.dest # 0 => dest'[u.id] = apply_to(u.load_op, rdata, DIRT)
  <2>1. dest \in [OpNo -> Word] /\ dest[u.id] = DIRT /\ DIRT \in Word
    BY <1>6, <1>11, BusAssumption DEF IInv, TypeInv, DestInv
  <2>2. apply_to(u.load_op, rdata, DIRT) \in Word
    <3>1. 8 \in Width
      BY DEF Width
    <3>. QED  BY <1>6, <2>1, <3>1, WordKept
  <2>. QED  BY <1>5, <1>6, <1>8, <2>1, <2>2
<1>13. TypeInv'
  <2>1. port' \in Ports
    <3>1. ongoing' # <<>> => Head(ongoing') \in Tasks
      BY <1>3, Tailed
    <3>. QED  BY <1>2, <3>1, IssuedPort DEF Ports
  <2>2. failed' \in {"none", "alignment", "fence", "expect"}
    BY <1>5
  <2>. QED  BY <1>2, <1>3, <1>4, <1>12, <2>1, <2>2 DEF IInv, TypeInv
<1>14. QueueInv'
  <2>1. \A s \in 1..Len(ongoing') :
          s + 1 \in 1..Len(ongoing) /\ s \in 1..(Len(ongoing) - 1) /\ s \in Nat
    BY <1>3
  <2>2. \A s \in 1..Len(ongoing') : ongoing'[s].id <= n'
    BY <1>2, <1>3, <2>1 DEF IInv, QueueInv
  <2>3. \A s, t \in 1..Len(ongoing') : s < t => ongoing'[s].id < ongoing'[t].id
    <3>1. \A s, t \in 1..Len(ongoing') : s < t => s + 1 < t + 1
      BY <2>1
    <3>. QED  BY <1>3, <2>1, <3>1 DEF IInv, QueueInv
  <2>4. ASSUME NEW p \in 1..Len(ongoing') PROVE TaskOK(ongoing', mem', want', p)
    <3>1. p \in 1..(Len(ongoing) - 1) /\ TaskOK(ongoing, mem, want, p + 1)
      BY <2>1 DEF IInv, QueueInv
    <3>2. TaskOK(Tail(ongoing), mem', want, p)
      BY <1>1, <1>4, <3>1, TaskShift DEF IInv, TypeInv, u
    <3>. QED  BY <1>2, <3>2
  <2>. QED  BY <1>2, <2>2, <2>3, <2>4 DEF QueueInv
<1>15. PipeInv'
  <2>. DEFINE p == Len(ongoing)
  <2>1. p \in Nat \ {0} /\ Len(ongoing') + 1 = p
        /\ \A s \in 1..(p - 1) : ongoing'[s] = ongoing[s + 1]
    BY <1>3
  <2>2. \A i \in Words : \A k \in Lane : Holds(ongoing, mem, p + 1, i, k, model[i][k])
    BY DEF IInv, PipeInv
  <2>. HIDE DEF p
  <2>3. ASSUME NEW i \in Words, NEW k \in Lane
        PROVE  Holds(ongoing', mem', p, i, k, model[i][k])
    <3>1. mem'[i][k] = IF Stores(ongoing[1], i, k) THEN ongoing[1].data[k] ELSE mem[i][k]
      BY <1>4 DEF u
    <3>2. Holds(ongoing, mem, p + 1, i, k, model[i][k])
      BY <2>2
    <3>. DEFINE r == ongoing'
                l == mem'
    <3>3. /\ l[i][k] = IF Stores(ongoing[1], i, k) THEN ongoing[1].data[k] ELSE mem[i][k]
          /\ \A s \in 1..(p - 1) : r[s] = ongoing[s + 1]
      BY <2>1, <3>1
    <3>. HIDE DEF r, l
    <3>4. Holds(r, l, p, i, k, model[i][k])
      BY <2>1, <3>2, <3>3, HoldsShift
    <3>. QED  BY <3>4 DEF r, l
  <2>4. port' = IF ongoing' = <<>> THEN NoReq ELSE Issued(ongoing'[1])
    BY <1>2, <1>3, Tailed
  <2>. QED  BY <1>2, <2>1, <2>3, <2>4 DEF IInv, PipeInv
<1>16. CompareInv' /\ IdleInv'
  BY <1>2 DEF CompareInv, IdleInv
<1>17. DestInv'
  BY <1>11, <1>12 DEF IInv, DestInv
<1>18. LoadsRight'
  <2>1. ASSUME NEW i \in OpNo, want[i].kind = "load", Returned(i)'
        PROVE  dest'[i] = [k \in Lane |-> IF k < want[i].width THEN want[i].data[k] ELSE DIRT[k]]
    <3>1. CASE i # u.id
      BY <1>11, <1>12, <2>1, <3>1 DEF IInv, LoadsRight
    <3>2. CASE i = u.id
      <4>1. u.dest # 0 /\ is_load(u)
        BY <1>9, <2>1, <3>2
      <4>2. dest'[i] = apply_to(u.load_op, rdata, DIRT) /\ DIRT \in Word
        BY <1>12, <3>2, <4>1, BusAssumption
      <4>3. \A k \in Lane : k < u.load_op.size => k \in 0..(u.load_op.size - 1)
        BY <1>6 DEF Ops, Width, Lane
      <4>4. ASSUME NEW k \in Lane
            PROVE  apply_to(u.load_op, rdata, DIRT)[k]
                     = IF k < want[i].width THEN want[i].data[k] ELSE DIRT[k]
        BY <1>6, <1>9, <3>2, <4>1, <4>2, <4>3, Applied
      <4>5. apply_to(u.load_op, rdata, DIRT)
              = [k \in Lane |-> apply_to(u.load_op, rdata, DIRT)[k]]
        BY DEF apply_to
      <4>. HIDE DEF apply_to
      <4>. QED  BY <4>2, <4>4, <4>5
    <3>. QED  BY <3>1, <3>2
  <2>. QED  BY <1>2, <2>1 DEF LoadsRight, OpNo
<1>19. ExpectExact'
  <2>1. failed' = "expect" <=> want[u.id].kind = "wrong"
    BY <1>5, <1>9
  <2>2. \A i \in OpNo : ~(want[i].kind = "wrong" /\ Returned(i))
    BY DEF IInv, ExpectExact
  <2>. QED  BY <1>2, <1>6, <1>11, <2>1, <2>2 DEF ExpectExact, OpNo
<1>. QED
  BY <1>1, <1>13, <1>14, <1>15, <1>16, <1>17, <1>18, <1>19 DEF IInv

-----------------------------------------------------------------------------
(* Synchronous accesses.                                                    *)

\* No task waits while they go on.
LEMMA NoQueue ==
  ASSUME IInv, mode = "compare"
  PROVE  ongoing = <<>> /\ \A i : ~Waits(i)
<1>1. ongoing = <<>>
  BY DEF IInv, QueueInv
<1>. QED  BY <1>1 DEF Waits

\* DBusGen::loadd .. loadb is called.
LEMMA StepCompareLoad ==
  ASSUME IInv, NEW a \in Accesses, CompareLoad(a)
  PROVE  IInv'
<1>. DEFINE x == [kind |-> "load", width |-> a.width, data |-> Seen(a)]
<1>1. /\ mode = "compare" /\ caller.at = "test" /\ failed = "none" /\ n < MAX_OPS
      /\ port' = LoadRequest(a.addr)
      /\ n' = n + 1 /\ want' = [want EXCEPT ![n + 1] = x]
      /\ caller' = [at |-> "load", arg |-> a.addr, then |-> "test"]
      /\ UNCHANGED <<mem, mode, ongoing, ref, dest, got, failed, model>>
  BY DEF CompareLoad, Running, Begin
<1>2. /\ a.addr \in Bytes /\ a.addr \in Int /\ a.width \in Width /\ Index(a.addr) \in Words
      /\ Seen(a) \in Word /\ Zero \in Word
  BY Parsed, SeenBytes DEF IInv, Zero, Word, Byte, Bytes
<1>3. n \in Nat /\ n + 1 \in OpNo /\ n + 1 \in 0..MAX_OPS
  BY <1>1, BusAssumption DEF IInv, TypeInv, OpNo
<1>4. x \in [kind : Kinds, width : Width \cup {0}, data : Word]
  BY <1>2 DEF Kinds
<1>5. /\ want' \in [OpNo -> [kind : Kinds, width : Width \cup {0}, data : Word]]
      /\ want'[n + 1] = x /\ \A i \in OpNo : i # n + 1 => want'[i] = want[i]
  BY <1>1, <1>3, <1>4 DEF IInv, TypeInv
<1>6. Seen(a)' = Seen(a)
  BY <1>1 DEF Seen
<1>. HIDE DEF x
<1>7. TypeInv'
  <2>1. port' \in Ports
    BY <1>1, <1>2 DEF LoadRequest, Ports
  <2>2. caller' \in [at : {"test", "fence", "load", "store"}, arg : Int,
                     then : {"test", "end", "get"}]
    BY <1>1, <1>2
  <2>. QED  BY <1>1, <1>3, <1>5, <2>1, <2>2 DEF IInv, TypeInv, OpNo
<1>8. QueueInv' /\ PipeInv' /\ IdleInv'
  BY <1>1, NoQueue DEF QueueInv, PipeInv, IdleInv
<1>9. CompareInv'
  <2>1. ref = mem /\ model = mem /\ n' > 0
    BY <1>1, <1>3 DEF IInv, CompareInv
  <2>2. want'[n'] = [kind |-> "load", width |-> a.width, data |-> Seen(a)']
    BY <1>1, <1>5, <1>6 DEF x
  <2>3. caller'.at = "load" /\ caller'.arg = a.addr
    BY <1>1
  <2>. HIDE DEF Seen, LoadRequest
  <2>. QED  BY <1>1, <2>1, <2>2, <2>3 DEF CompareInv
<1>10. \A i \in OpNo : /\ Returned(i)' <=> Returned(i)
                       /\ Returned(i) => want'[i] = want[i]
  <2>1. \A i : ~Waits(i) /\ ~Waits(i)'
    BY <1>1, NoQueue DEF Waits
  <2>2. In("load")' /\ ~In("load")
    BY <1>1 DEF In
  <2>3. \A i \in OpNo : (i <= n <=> i <= n' /\ i # n') /\ (i <= n => i # n + 1)
    BY <1>1, <1>3 DEF OpNo
  <2>. QED  BY <1>5, <2>1, <2>2, <2>3 DEF Returned
<1>11. DestInv' /\ LoadsRight' /\ ExpectExact'
  <2>1. DestInv'
    BY <1>1, <1>10 DEF IInv, DestInv, OpNo
  <2>2. LoadsRight'
    BY <1>1, <1>10 DEF IInv, LoadsRight, OpNo
  <2>3. ExpectExact'
    BY <1>1, <1>10 DEF IInv, ExpectExact, OpNo
  <2>. QED  BY <2>1, <2>2, <2>3
<1>. QED  BY <1>7, <1>8, <1>9, <1>11 DEF IInv

\* The value that a store of the tests writes is a word.
LEMMA FreshWord ==
  ASSUME TypeInv
  PROVE  Fresh \in Word
<1>1. \A y \in Nat : y % 256 \in 0..255
  OBVIOUS
<1>2. \A k \in Lane : 8 * (n + 1) + k \in Nat
  BY BusAssumption DEF TypeInv, Lane
<1>3. \A k \in Lane : (8 * (n + 1) + k) % 256 \in 0..255
  BY <1>1, <1>2
<1>. QED  BY <1>3 DEF Fresh, Word, Byte

\* DBusGen::store is called, and the model knows what it stores.
LEMMA StepSyncStore ==
  ASSUME IInv, NEW addr \in Bytes, NEW lanes \in SUBSET Lane, NEW data \in Word,
         NEW width \in Width, SyncStore(addr, lanes, data, width),
         model' = Masked(model, Index(addr), lanes, data)
  PROVE  IInv'
<1>. DEFINE x == [kind |-> "store", width |-> width, data |-> Fresh]
<1>1. /\ mode = "compare" /\ caller.at = "test" /\ failed = "none" /\ n < MAX_OPS
      /\ port' = StoreRequest(addr, lanes, data)
      /\ n' = n + 1 /\ want' = [want EXCEPT ![n + 1] = x]
      /\ caller' = [at |-> "store", arg |-> addr, then |-> "test"]
      /\ UNCHANGED <<mem, mode, ongoing, ref, dest, got, failed>>
  BY DEF SyncStore, Running, Begin
<1>2. n \in Nat /\ n + 1 \in OpNo /\ n + 1 \in 0..MAX_OPS
  BY <1>1, BusAssumption DEF IInv, TypeInv, OpNo
<1>3. Fresh \in Word
  BY FreshWord DEF IInv
<1>. HIDE DEF Fresh
<1>4. addr \in Int /\ Index(addr) \in Words
  BY IssuedPort DEF Bytes
<1>5. model' \in [Words -> Word]
  BY <1>4, MaskedBytes DEF IInv, TypeInv
<1>6. x \in [kind : Kinds, width : Width \cup {0}, data : Word]
  BY <1>3 DEF Kinds
<1>7. /\ want' \in [OpNo -> [kind : Kinds, width : Width \cup {0}, data : Word]]
      /\ want'[n + 1].kind = "store" /\ \A i \in OpNo : i # n + 1 => want'[i] = want[i]
  BY <1>1, <1>2, <1>6 DEF IInv, TypeInv
<1>. HIDE DEF x
<1>8. /\ port' \in Ports /\ port'.valid /\ port'.addr = Index(addr)
      /\ port'.strobe = lanes /\ port'.data = data
  BY <1>1, <1>4 DEF StoreRequest, Ports
<1>9. TypeInv'
  <2>1. caller' \in [at : {"test", "fence", "load", "store"}, arg : Int,
                     then : {"test", "end", "get"}]
    BY <1>1, <1>4
  <2>. QED  BY <1>1, <1>2, <1>5, <1>7, <1>8, <2>1 DEF IInv, TypeInv, OpNo
<1>10. QueueInv' /\ PipeInv' /\ IdleInv'
  BY <1>1, NoQueue DEF QueueInv, PipeInv, IdleInv
<1>11. CompareInv'
  <2>1. ref = mem /\ model = mem /\ n' > 0
    BY <1>1, <1>2 DEF IInv, CompareInv
  <2>2. caller'.at = "store" /\ caller'.arg = addr
    BY <1>1
  <2>3. model' = Masked(mem', port'.addr, port'.strobe, port'.data)
    BY <1>1, <1>5, <1>8, <2>1
  <2>. QED  BY <1>1, <1>4, <1>7, <1>8, <2>1, <2>2, <2>3 DEF CompareInv
<1>12. \A i \in OpNo : /\ i # n + 1 => (Returned(i)' <=> Returned(i))
                       /\ Returned(i) => want'[i] = want[i]
                       /\ Returned(i) => Returned(i)'
  <2>1. \A i : ~Waits(i) /\ ~Waits(i)'
    BY <1>1, NoQueue DEF Waits
  <2>2. ~In("load")' /\ ~In("load")
    BY <1>1 DEF In
  <2>3. \A i \in OpNo : (i # n + 1 => (i <= n <=> i <= n')) /\ (i <= n => i # n + 1)
    BY <1>1, <1>2 DEF OpNo
  <2>. QED  BY <1>7, <2>1, <2>2, <2>3 DEF Returned
<1>13. \A i \in OpNo : want'[i].kind \in {"load", "wrong"} => i # n + 1
  BY <1>7
<1>14. DestInv' /\ LoadsRight' /\ ExpectExact'
  <2>1. DestInv'
    BY <1>1, <1>12 DEF IInv, DestInv, OpNo
  <2>2. LoadsRight'
    BY <1>1, <1>12, <1>13 DEF IInv, LoadsRight, OpNo
  <2>3. ExpectExact'
    BY <1>1, <1>12, <1>13 DEF IInv, ExpectExact, OpNo
  <2>. QED  BY <2>1, <2>2, <2>3
<1>. QED  BY <1>9, <1>10, <1>11, <1>14 DEF IInv

\* stored .. storeb: the lanes of the access.
LEMMA StepCompareStore ==
  ASSUME IInv, NEW a \in Accesses, CompareStore(a)
  PROVE  IInv'
<1>. DEFINE op == parse(a.width, a.addr)
<1>1. SyncStore(a.addr, strobe(op), place(op, Fresh), a.width) /\ Storing(a, Fresh)
  BY DEF CompareStore
<1>2. Fresh \in Word
  BY FreshWord DEF IInv
<1>. HIDE DEF Fresh
<1>3. a.addr \in Bytes /\ a.width \in Width /\ op \in Ops
  BY Parsed
<1>4. model' = Masked(model, Index(a.addr), strobe(op), place(op, Fresh))
  BY <1>1, <1>2, Stored DEF IInv
<1>. HIDE DEF op
<1>5. place(op, Fresh) \in Word /\ strobe(op) \in SUBSET Lane
  BY <1>2, <1>3, WordKept
<1>. QED  BY <1>1, <1>3, <1>4, <1>5, StepSyncStore

\* store with any strobe, none included.
LEMMA StepRawStore ==
  ASSUME IInv, NEW r \in RawStores, RawStore(r)
  PROVE  IInv'
<1>1. r.addr \in Bytes /\ r.strobe \in SUBSET Lane /\ 8 \in Width
  BY BusAssumption DEF Bytes, Width
<1>2. Fresh \in Word
  BY FreshWord DEF IInv
<1>. HIDE DEF Fresh
<1>3. /\ SyncStore(r.addr, r.strobe, Fresh, 8)
      /\ model' = Masked(model, Index(r.addr), r.strobe, Fresh)
  BY PortStore DEF RawStore, StoreRequest
<1>. QED  BY <1>1, <1>2, <1>3, StepSyncStore

\* What the last clock edge brought is not part of the invariant.
LEMMA StepSame ==
  ASSUME IInv, UNCHANGED <<mem, port, mode, ongoing, caller, ref, dest, got, failed, n, model, want>>
  PROVE  IInv'
<1>1. TypeInv' /\ QueueInv' /\ PipeInv' /\ CompareInv' /\ IdleInv'
  <2>1. TypeInv' /\ IdleInv' /\ QueueInv' /\ PipeInv'
    BY DEF IInv, TypeInv, QueueInv, PipeInv, IdleInv
  <2>2. \A a : Seen(a)' = Seen(a)
    BY DEF Seen
  <2>. HIDE DEF Seen
  <2>3. CompareInv'
    BY <2>2 DEF IInv, CompareInv
  <2>. QED  BY <2>1, <2>3
<1>2. \A i : Returned(i)' <=> Returned(i)
  BY DEF Returned, Waits, In
<1>3. DestInv' /\ LoadsRight' /\ ExpectExact'
  BY <1>2 DEF IInv, DestInv, LoadsRight, ExpectExact
<1>. QED  BY <1>1, <1>3 DEF IInv

\* A write of no lanes changes nothing.
LEMMA MaskedNone ==
  ASSUME NEW m \in [Words -> Word], NEW i \in Words, NEW data
  PROVE  Masked(m, i, {}, data) = m
<1>1. m[i] \in [Lane -> Byte]
  BY DEF Word
<1>2. m[i] = [k \in Lane |-> m[i][k]]
  BY <1>1
<1>3. Masked(m, i, {}, data) = [m EXCEPT ![i] = m[i]]
  BY <1>2 DEF Masked
<1>. QED  BY <1>3

\* The line the reference model loads holds the word it is asked for.
LEMMA LineHolds ==
  ASSUME NEW m, NEW addr \in Bytes
  PROVE  Line(m, addr)[Index(addr) % LINE] = m[Index(addr)]
<1>. DEFINE x == Index(addr)
            r == x % LINE
<1>1. x \in Nat /\ LINE \in Nat \ {0}
  BY IssuedPort, BusAssumption DEF Words
<1>. HIDE DEF x
<1>2. r \in 0..(LINE - 1)
  BY <1>1
<1>. HIDE DEF r
<1>3. (x - r) + r = x
  BY <1>1, <1>2
<1>. QED  BY <1>2, <1>3 DEF Line, x, r

\* DBusGen::loadd .. loadb is answered.
LEMMA StepAwaitLoad ==
  ASSUME IInv, AwaitLoad(TRUE)
  PROVE  IInv'
<1>1. mode = "compare"
  BY DEF AwaitLoad, In, IInv, TypeInv, PipeInv, IdleInv
<1>2. PICK a \in Accesses : /\ port = LoadRequest(a.addr) /\ caller.arg = a.addr
                            /\ want[n] = [kind |-> "load", width |-> a.width, data |-> Seen(a)]
  BY <1>1 DEF IInv, CompareInv, AwaitLoad, In
<1>. DEFINE op == parse(a.width, a.addr)
            i == Index(a.addr)
<1>3. /\ want[n].kind = "load" /\ want[n].width = a.width /\ want[n].data = Seen(a)
      /\ port.strobe = {} /\ port.addr = i /\ rdata = mem[i]
      /\ caller.at = "load" /\ failed = "none" /\ n > 0 /\ model = mem /\ ref = mem
  BY <1>1, <1>2 DEF LoadRequest, rdata, IInv, CompareInv, AwaitLoad, In
<1>4. /\ op \in Ops /\ op.size = a.width /\ a.addr \in Bytes /\ i \in Words
      /\ \A k \in 0..(a.width - 1) : Seen(a)[k] = model[i][op.shift + k]
  BY Parsed, SeenBytes DEF IInv
<1>5. /\ mem' = Masked(mem, port.addr, port.strobe, port.data) /\ port' = NoReq
      /\ caller' = Test /\ UNCHANGED <<mode, ongoing, n, model, want, ref>>
  BY PortStore DEF AwaitLoad, Awaits, Edge
<1>6. /\ failed' = IF rdata = Line(ref, a.addr)[i % LINE] THEN failed ELSE "compare"
      /\ got' = Truncate(op.size, apply(op, rdata))
      /\ dest' = [dest EXCEPT ![n] = apply_to(op, rdata, @)]
  BY <1>2, <1>3 DEF AwaitLoad
<1>. HIDE DEF op, i
<1>7. mem' = mem /\ failed' = "none"
  <2>1. mem' = mem
    BY <1>3, <1>4, <1>5, MaskedNone DEF IInv, TypeInv
  <2>2. Line(ref, a.addr)[i % LINE] = rdata
    BY <1>3, <1>4, LineHolds DEF i
  <2>. QED  BY <1>3, <1>6, <2>1, <2>2
<1>8. n \in OpNo /\ n \in Nat /\ rdata \in Word /\ DIRT \in Word /\ n <= n
  BY <1>3, <1>4, BusAssumption DEF IInv, TypeInv, OpNo
<1>9. /\ ~Returned(n)
      /\ \A j \in OpNo : Returned(j)' <=> Returned(j) \/ j = n
  <2>1. \A j : ~Waits(j) /\ ~Waits(j)'
    BY <1>1, <1>5, NoQueue DEF Waits
  <2>2. In("load") /\ ~In("load")'
    BY <1>3, <1>5 DEF In, Test
  <2>. QED  BY <1>5, <1>8, <2>1, <2>2 DEF Returned
<1>10. apply_to(op, rdata, DIRT) \in Word /\ got' \in Word
  <2>1. op.size \in Width
    BY <1>4 DEF Ops
  <2>2. apply(op, rdata) \in Word /\ apply_to(op, rdata, DIRT) \in Word
    BY <1>4, <1>8, <2>1, WordKept
  <2>. QED  BY <1>4, <1>6, <2>1, <2>2, WordKept
<1>11. /\ dest' \in [OpNo -> Word] /\ dest'[n] = apply_to(op, rdata, DIRT)
       /\ \A j \in OpNo : j # n => dest'[j] = dest[j]
  <2>1. dest \in [OpNo -> Word] /\ dest[n] = DIRT
    BY <1>8, <1>9 DEF IInv, TypeInv, DestInv
  <2>. HIDE DEF apply_to
  <2>. QED  BY <1>6, <1>8, <1>10, <2>1
<1>12. TypeInv'
  <2>1. port' \in Ports /\ caller' \in [at : {"test", "fence", "load", "store"}, arg : Int,
                                        then : {"test", "end", "get"}]
    BY <1>5 DEF Ports, Test
  <2>. QED  BY <1>5, <1>7, <1>10, <1>11, <2>1 DEF IInv, TypeInv
<1>13. QueueInv' /\ PipeInv' /\ IdleInv'
  BY <1>1, <1>5, NoQueue DEF QueueInv, PipeInv, IdleInv
<1>14. CompareInv'
  BY <1>3, <1>5, <1>7 DEF CompareInv, Test
<1>15. DestInv' /\ ExpectExact'
  <2>1. DestInv'
    BY <1>9, <1>11 DEF IInv, DestInv
  <2>2. ExpectExact'
    BY <1>3, <1>5, <1>7, <1>9 DEF IInv, ExpectExact
  <2>. QED  BY <2>1, <2>2
<1>16. LoadsRight'
  <2>1. ASSUME NEW j \in OpNo, want[j].kind = "load", Returned(j)'
        PROVE  dest'[j] = [k \in Lane |-> IF k < want[j].width THEN want[j].data[k] ELSE DIRT[k]]
    <3>1. CASE j # n
      BY <1>9, <1>11, <2>1, <3>1 DEF IInv, LoadsRight
    <3>2. CASE j = n
      <4>1. \A k \in Lane : k < op.size => k \in 0..(op.size - 1)
        BY <1>4 DEF Ops, Width, Lane
      <4>2. \A k \in 0..(op.size - 1) : rdata[op.shift + k] = want[j].data[k]
        BY <1>3, <1>4, <3>2
      <4>3. ASSUME NEW k \in Lane
            PROVE  apply_to(op, rdata, DIRT)[k]
                     = IF k < want[j].width THEN want[j].data[k] ELSE DIRT[k]
        BY <1>3, <1>4, <1>8, <3>2, <4>1, <4>2, Applied
      <4>4. apply_to(op, rdata, DIRT) = [k \in Lane |-> apply_to(op, rdata, DIRT)[k]]
        BY DEF apply_to
      <4>. HIDE DEF apply_to
      <4>. QED  BY <1>11, <3>2, <4>3, <4>4
    <3>. QED  BY <3>1, <3>2
  <2>. QED  BY <1>5, <2>1 DEF LoadsRight, OpNo
<1>. QED  BY <1>12, <1>13, <1>14, <1>15, <1>16 DEF IInv

\* DBusGen::store is answered, and the reference model follows with the masks
\* it looks up for the strobe.
LEMMA StepAwaitStore ==
  ASSUME IInv, AwaitStore(TRUE)
  PROVE  IInv'
<1>1. mode = "compare"
  BY DEF AwaitStore, In, IInv, TypeInv, PipeInv, IdleInv
<1>2. /\ caller.at = "store" /\ failed = "none" /\ ref = mem /\ port.addr = Index(caller.arg)
      /\ model = Masked(mem, port.addr, port.strobe, port.data) /\ n > 0
  BY <1>1 DEF IInv, CompareInv, AwaitStore, In
<1>3. /\ mem' = Masked(mem, port.addr, port.strobe, port.data) /\ port' = NoReq
      /\ ref' = Masked(ref, Index(caller.arg), StrobeMask(port.strobe), port.data)
      /\ caller' = Test /\ UNCHANGED <<mode, ongoing, n, model, want, dest, got, failed>>
  BY PortStore DEF AwaitStore, Awaits, Edge
<1>4. mem' = model /\ ref' = model
  <2>1. port.strobe \in SUBSET Lane
    <3>1. port \in Ports
      BY DEF IInv, TypeInv
    <3>2. CASE port = NoReq
      BY <3>2 DEF NoReq
    <3>3. CASE port # NoReq
      BY <3>1, <3>3 DEF Ports
    <3>. QED  BY <3>2, <3>3
  <2>2. StrobeMask(port.strobe) = port.strobe
    BY <2>1, StrobeIsMask
  <2>. QED  BY <1>2, <1>3, <2>2
<1>5. TypeInv'
  <2>1. port' \in Ports /\ caller' \in [at : {"test", "fence", "load", "store"}, arg : Int,
                                        then : {"test", "end", "get"}]
    BY <1>3 DEF Ports, Test
  <2>. QED  BY <1>3, <1>4, <2>1 DEF IInv, TypeInv
<1>6. QueueInv' /\ PipeInv' /\ IdleInv'
  BY <1>1, <1>3, NoQueue DEF QueueInv, PipeInv, IdleInv
<1>7. CompareInv'
  BY <1>2, <1>3, <1>4 DEF CompareInv, Test
<1>8. \A i : Returned(i)' <=> Returned(i)
  <2>1. \A i : ~Waits(i) /\ ~Waits(i)'
    BY <1>1, <1>3, NoQueue DEF Waits
  <2>2. ~In("load") /\ ~In("load")'
    BY <1>2, <1>3 DEF In, Test
  <2>. QED  BY <1>3, <2>1, <2>2 DEF Returned
<1>9. DestInv' /\ LoadsRight' /\ ExpectExact'
  BY <1>3, <1>8 DEF IInv, DestInv, LoadsRight, ExpectExact
<1>. QED  BY <1>5, <1>6, <1>7, <1>9 DEF IInv

-----------------------------------------------------------------------------
(* Every step.                                                              *)

\* An operation of a pipeline whose address is not aligned only aborts.
LEMMA StepOperation ==
  ASSUME IInv, NEW a \in Accesses, Operation(a)
  PROVE  IInv'
<1>1. TypeInv /\ a.width \in Width /\ Fresh \in Word /\ Seen(a) \in Word /\ got \in Word
  BY Parsed, FreshWord, SeenBytes DEF IInv, TypeInv
<1>2. Truncate(a.width, got) \in Word
  <2>1. SIZE8_SHT0 \in Ops
    BY DEF SIZE8_SHT0, Ops, Width, Lane
  <2>. QED  BY <1>1, <2>1, WordKept
<1>. HIDE DEF Fresh, Seen, Truncate
<1>3. ASSUME Running("pipeline"), Abort("alignment") PROVE IInv'
  BY <1>3, StepAbort DEF Running
<1>4. Running("pipeline") => caller \in [at : {"test", "fence"}, arg : Int, then : {"test", "end", "get"}]
  BY DEF Running, IInv, TypeInv
<1>5. CASE Load(a)
  <2>1. CASE ~Aligned(a)
    BY <1>3, <1>5, <2>1 DEF Load
  <2>2. CASE Aligned(a)
    BY <1>4, <1>5, <2>2, StepLoad DEF Load
  <2>. QED  BY <2>1, <2>2
<1>6. ASSUME NEW d \in Word, Store(a, d) PROVE IInv'
  <2>1. CASE ~Aligned(a)
    BY <1>3, <1>6, <2>1 DEF Store
  <2>2. CASE Aligned(a)
    BY <1>6, <2>2, StepStore DEF Store
  <2>. QED  BY <2>1, <2>2
<1>7. ASSUME NEW d \in Word, Expect(a, d) PROVE IInv'
  <2>1. CASE ~Aligned(a)
    BY <1>3, <1>7, <2>1 DEF Expect
  <2>2. CASE Aligned(a)
    <3>. DEFINE right == Truncate(a.width, d) = Truncate(a.width, Seen(a))
    <3>1. right \in BOOLEAN /\ (right <=> Truncate(a.width, d) = Truncate(a.width, Seen(a)))
      OBVIOUS
    <3>2. /\ Running("pipeline") /\ n < MAX_OPS
          /\ submit(Task(a.addr, {}, place(parse(a.width, a.addr), d), 0, parse(a.width, a.addr)))
          /\ Begin([kind |-> IF right THEN "right" ELSE "wrong", width |-> a.width, data |-> d])
          /\ UNCHANGED <<mem, mode, caller, ref, dest, got, failed, model>>
      BY <1>7, <2>2 DEF Expect
    <3>. HIDE DEF right
    <3>. QED  BY <1>7, <3>1, <3>2, StepExpect
  <2>. QED  BY <2>1, <2>2
<1>8. CASE Get(a)
  <2>1. caller' \in [at : {"test", "fence"}, arg : Int, then : {"test", "end", "get"}]
    BY <1>8 DEF Get
  <2>. QED  BY <1>8, <2>1, StepLoad DEF Get
<1>. QED
  BY <1>1, <1>2, <1>5, <1>6, <1>7, <1>8, StepCompareLoad, StepCompareStore
  DEF Operation, Assign

\* A tick of the test or of a fence.
LEMMA StepTick ==
  ASSUME IInv, NEW ok \in BOOLEAN, Tick(ok) \/ FenceTick(ok)
  PROVE  /\ IInv' /\ mode = "pipeline" /\ mode' = mode /\ Edge(ok)
         /\ ok => port.valid
         /\ ~ok => port' = port
<1>1. /\ mode = "pipeline" /\ caller.at \in {"test", "fence"} /\ failed = "none" /\ tick(ok)
      /\ caller' \in [at : {"test", "fence"}, arg : Int, then : {"test", "end", "get"}]
      /\ caller'.at = caller.at /\ caller'.then = caller.then
  <2>1. caller \in [at : {"test", "fence", "load", "store"}, arg : Int, then : {"test", "end", "get"}]
    BY DEF IInv, TypeInv
  <2>2. CASE Tick(ok)
    BY <2>1, <2>2 DEF Tick, Running
  <2>3. CASE FenceTick(ok)
    <3>1. mode = "pipeline"
      BY <2>3 DEF FenceTick, In, IInv, QueueInv
    <3>. DEFINE x == IF caller.arg > 0 THEN caller.arg - 1 ELSE caller.arg
    <3>2. caller' = [caller EXCEPT !.arg = x] /\ x \in Int /\ tick(ok) /\ In("fence")
      BY <2>1, <2>3 DEF FenceTick
    <3>. HIDE DEF x
    <3>. QED  BY <2>1, <3>1, <3>2 DEF In
  <2>. QED  BY <2>2, <2>3
<1>2. mode' = mode /\ Edge(ok)
  BY <1>1 DEF tick
<1>3. CASE ok
  BY <1>1, <1>2, <1>3, StepTickAnswer
<1>4. CASE ~ok
  BY <1>1, <1>2, <1>4, StepTickIdle
<1>. QED  BY <1>1, <1>2, <1>3, <1>4

\* A tick that a synchronous access waits in.
LEMMA StepAwait ==
  ASSUME IInv, NEW ok \in BOOLEAN, AwaitLoad(ok) \/ AwaitStore(ok)
  PROVE  /\ IInv' /\ mode = "compare" /\ mode' = mode /\ Edge(ok)
         /\ ok => port.valid
         /\ ~ok => port' = port
<1>1. mode = "compare" /\ mode' = mode /\ Edge(ok) /\ (~ok => port' = port)
  BY DEF AwaitLoad, AwaitStore, Awaits, In, IInv, TypeInv, PipeInv, IdleInv
<1>2. CASE ok
  BY <1>1, <1>2, StepAwaitLoad, StepAwaitStore DEF Edge
<1>3. CASE ~ok
  <2>1. UNCHANGED <<mem, port, mode, ongoing, caller, ref, dest, got, failed, n, model, want>>
    BY <1>3 DEF AwaitLoad, AwaitStore, Awaits, Edge
  <2>. QED  BY <1>1, <1>3, <2>1, StepSame
<1>. QED  BY <1>1, <1>2, <1>3

LEMMA StepTimeout ==
  ASSUME IInv, FenceTimeout
  PROVE  IInv'
<1>1. mode = "pipeline" /\ failed = "none" /\ Abort("fence")
  BY DEF FenceTimeout, In, IInv, QueueInv
<1>. QED  BY <1>1, StepAbort

LEMMA InitInv == Init => IInv
<1>. SUFFICES ASSUME Init PROVE IInv
  OBVIOUS
<1>1. /\ MEM \in [Words -> Word] /\ DIRT \in Word /\ Zero \in Word /\ MAX_OPS \in Nat
      /\ NoOp \in [kind : Kinds, width : Width \cup {0}, data : Word]
  <2>1. Zero \in Word
    BY DEF Zero, Word, Byte
  <2>. QED  BY <2>1, BusAssumption DEF Words, NoOp, Kinds
<1>2. TypeInv
  BY <1>1 DEF Init, TypeInv, Ports, Test
<1>3. QueueInv /\ PipeInv /\ CompareInv /\ IdleInv
  BY DEF Init, QueueInv, PipeInv, CompareInv, IdleInv, Test
<1>4. DestInv
  BY DEF Init, DestInv
<1>5. LoadsRight /\ ExpectExact
  BY DEF Init, LoadsRight, ExpectExact, NoOp
<1>. QED  BY <1>2, <1>3, <1>4, <1>5 DEF IInv

LEMMA StepInv == IInv /\ [Next]_vars => IInv'
<1>. SUFFICES ASSUME IInv, [Next]_vars PROVE IInv'
  OBVIOUS
<1>1. CASE UNCHANGED vars
  BY <1>1, StepSame DEF vars
<1>2. CASE \E m \in {"pipeline", "compare"} : StartTest(m)
  BY <1>2, StepStart
<1>3. CASE \E a \in Accesses : Operation(a)
  BY <1>3, StepOperation
<1>4. CASE (\E limit \in Limits \cup {-1} : Fence(limit)) \/ EndPipeline
  BY <1>4, StepFence
<1>5. CASE FenceTimeout \/ FenceDone \/ EndCompare
  BY <1>5, StepTimeout, StepFenceDone, StepEndCompare
<1>6. CASE \E ok \in BOOLEAN : Tick(ok) \/ FenceTick(ok) \/ AwaitLoad(ok) \/ AwaitStore(ok)
  BY <1>6, StepTick, StepAwait
<1>7. CASE \E r \in RawStores : RawStore(r)
  BY <1>7, StepRawStore
<1>. QED  BY <1>1, <1>2, <1>3, <1>4, <1>5, <1>6, <1>7 DEF Next

\* The inductive invariant: the queue and memory together hold what the
\* operations called so far leave, and every task finds in its turn what its
\* operation wants.
THEOREM Invariance == Spec => []IInv
BY InitInv, StepInv, PTL DEF Spec

-----------------------------------------------------------------------------
(* What the runs check.                                                     *)

\* The numbers of the tasks increase up to n: there are at most n.
LEMMA QueueShort == IInv => Len(ongoing) <= n
<1>. SUFFICES ASSUME IInv PROVE Len(ongoing) <= n
  OBVIOUS
<1>. DEFINE l == Len(ongoing)
            f == [s \in 1..l |-> ongoing[s].id]
<1>1. n \in Nat /\ l \in Nat
  BY BusAssumption DEF IInv, TypeInv
<1>2. \A s \in 1..l : ongoing[s].id \in 1..n
  <2>1. ASSUME NEW s \in 1..l PROVE ongoing[s].id \in OpNo
    <3>1. ongoing[s] \in Tasks
      BY DEF IInv, TypeInv
    <3>. QED  BY <3>1 DEF Tasks
  <2>2. \A s \in 1..l : ongoing[s].id <= n
    BY DEF IInv, QueueInv
  <2>. QED  BY <1>1, <2>1, <2>2 DEF OpNo
<1>3. \A s, t \in 1..l : s < t => ongoing[s].id < ongoing[t].id
  BY DEF IInv, QueueInv
<1>. HIDE DEF l
<1>4. \A s, t \in 1..l : ongoing[s].id = ongoing[t].id => s = t
  <2>1. ASSUME NEW s \in 1..l, NEW t \in 1..l, ongoing[s].id = ongoing[t].id PROVE s = t
    <3>1. ~(s < t) /\ ~(t < s)
      BY <1>2, <1>3, <2>1
    <3>. QED  BY <1>1, <3>1
  <2>. QED  BY <2>1
<1>5. f \in Injection(1..l, 1..n)
  BY <1>2, <1>4, Z3 DEF Injection, IsInjective
<1>6. IsFiniteSet(1..n) /\ Cardinality(1..n) = n /\ Cardinality(1..l) = l
  BY <1>1, FS_Interval
<1>7. Cardinality(1..l) <= Cardinality(1..n)
  BY <1>5, <1>6, FS_Injection
<1>. QED  BY <1>6, <1>7 DEF l

\* The types of the state, and no more tasks than operations.
THEOREM TypeCorrect == Spec => []TypeOK
<1>1. IInv => TypeOK
  <2>. SUFFICES ASSUME IInv PROVE TypeOK
    OBVIOUS
  <2>1. Zero \in Word /\ 0 \in Words
    BY BusAssumption DEF Zero, Word, Byte, Words
  <2>2. port.addr \in Words /\ port.strobe \subseteq Lane /\ port.data \in Word
    <3>1. port \in Ports
      BY DEF IInv, TypeInv
    <3>2. CASE port = NoReq
      BY <2>1, <3>2 DEF NoReq
    <3>3. CASE port # NoReq
      BY <3>1, <3>3 DEF Ports
    <3>. QED  BY <3>2, <3>3
  <2>3. n <= MAX_OPS /\ Len(ongoing) <= n
    BY BusAssumption, QueueShort DEF IInv, TypeInv
  <2>. QED  BY <2>2, <2>3 DEF IInv, TypeInv, TypeOK, Words
<1>. QED  BY <1>1, Invariance, PTL

\* A variable that the test loads into holds what its load should see in the
\* order of the calls, whatever the queue held and whenever the answers came.
THEOREM LoadsSeeProgramOrder == Spec => []LoadsRight
<1>1. IInv => LoadsRight
  BY DEF IInv
<1>. QED  BY <1>1, Invariance, PTL

\* An expectation ends the test exactly if it is wrong in the order of the
\* calls: no false alarm and none missed.
THEOREM ExpectationsExact == Spec => []ExpectExact
<1>1. IInv => ExpectExact
  BY DEF IInv
<1>. QED  BY <1>1, Invariance, PTL

\* The reference model of CMP_TO, which writes the bytes that its table gives
\* for the two halves of a strobe, never disagrees with a memory that writes
\* the lanes, for every strobe; and no answer comes to an empty queue.
THEOREM ReferenceAgrees == Spec => []NeverDiverges
<1>1. IInv => NeverDiverges
  BY DEF IInv, TypeInv, CompareInv, NeverDiverges
<1>. QED  BY <1>1, Invariance, PTL

-----------------------------------------------------------------------------
(* The harness as a requester of a memory port.                             *)

Request == [valid : {TRUE}, addr : 0..(WORDS - 1), strobe : SUBSET Lane, data : Word]

\* A clock edge of a test is one of the port.
LEMMA EdgeIsPort ==
  ASSUME IInv, TypeInv', NEW ok \in BOOLEAN, Edge(ok), mode # "none", mode' = mode,
         ok => port.valid, ~ok => port' = port
  PROVE  PortMemory!Next
<1>1. port' \in Request \cup {NoReq}
  BY DEF TypeInv, Ports, Words, Request
<1>4. ok => port # NoReq
  BY DEF NoReq
<1>2. CASE ok
  <2>1. PortMemory!Perform
    BY <1>1, <1>2, <1>4 DEF PortMemory!Perform, PortMemory!Becomes, Edge, rdata,
                      Request
  <2>. QED  BY <2>1 DEF PortMemory!Next
<1>3. CASE ~ok
  <2>1. PortMemory!Wait
    BY <1>1, <1>3 DEF PortMemory!Wait, PortMemory!Becomes, PortMemory!NoAnswer, Edge, NoAnswer,
                      Request
  <2>. QED  BY <2>1 DEF PortMemory!Next
<1>. QED  BY <1>2, <1>3

\* So is a call that puts a request on the free bus, or leaves it free.
LEMMA CallIsPort ==
  ASSUME TypeInv', port = NoReq, mode # "none", mem' = mem, answer' = NoAnswer
  PROVE  PortMemory!Next
<1>1. port' \in Request \cup {NoReq}
  BY DEF TypeInv, Ports, Words, Request
<1>2. PortMemory!Wait
  BY <1>1 DEF PortMemory!Wait, PortMemory!Becomes, PortMemory!NoAnswer, NoAnswer, Request
<1>. QED  BY <1>2 DEF PortMemory!Next

\* A submitted task waits behind the request on the bus, or finds it free.
LEMMA SubmitIsPort ==
  ASSUME IInv, TypeInv', mode = "pipeline", NEW u, submit(u), mem' = mem, mode' = mode
  PROVE  [PortMemory!Next]_PortMemory!portVars
<1>1. CASE port.valid
  BY <1>1 DEF submit, PortMemory!portVars
<1>2. CASE ~port.valid
  <2>1. port = NoReq /\ answer' = NoAnswer
    BY <1>2, BusTaken DEF IInv, PipeInv, submit
  <2>. QED  BY <2>1, CallIsPort
<1>. QED  BY <1>1, <1>2

LEMMA StepPort ==
  IInv /\ IInv' /\ [Next]_vars => [PortMemory!Next]_PortMemory!portVars
<1>. SUFFICES ASSUME IInv, IInv', [Next]_vars PROVE [PortMemory!Next]_PortMemory!portVars
  OBVIOUS
<1>0. TypeInv'
  BY DEF IInv
<1>1. CASE UNCHANGED <<mem, port, answer, mode>>
  BY <1>1 DEF PortMemory!portVars
<1>2. CASE \E m \in {"pipeline", "compare"} : StartTest(m)
  <2>1. PortMemory!Down
    BY <1>2 DEF StartTest, PortMemory!Down, PortMemory!Becomes, PortMemory!NoAnswer, NoAnswer
  <2>. QED  BY <2>1 DEF PortMemory!Next
<1>3. ASSUME NEW a \in Accesses, Operation(a) PROVE [PortMemory!Next]_PortMemory!portVars
  <2>1. CASE Abort("alignment")
    BY <1>1, <2>1 DEF Abort, busVars
  <2>2. CASE \E u : submit(u) /\ mode = "pipeline" /\ UNCHANGED <<mem, mode>>
    BY <1>0, <2>2, SubmitIsPort
  <2>3. CASE /\ mode = "compare" /\ caller.at = "test" /\ UNCHANGED <<mem, mode>>
             /\ answer' = NoAnswer
    BY <1>0, <2>3, CallIsPort DEF IInv, CompareInv
  <2>4. CASE Load(a)
    BY <2>1, <2>2, <2>4 DEF Load, Running
  <2>5. ASSUME NEW d, Store(a, d) PROVE [PortMemory!Next]_PortMemory!portVars
    BY <2>1, <2>2, <2>5 DEF Store, Running
  <2>6. ASSUME NEW d, Expect(a, d) PROVE [PortMemory!Next]_PortMemory!portVars
    BY <2>1, <2>2, <2>6 DEF Expect, Running
  <2>7. CASE Get(a)
    BY <2>2, <2>7 DEF Get, Running
  <2>8. CASE CompareLoad(a) \/ CompareStore(a)
    BY <2>3, <2>8 DEF CompareLoad, CompareStore, SyncStore, Running
  <2>. QED  BY <1>3, <2>4, <2>5, <2>6, <2>7, <2>8 DEF Operation, Assign
<1>4. CASE (\E limit \in Limits \cup {-1} : Fence(limit)) \/ EndPipeline \/ FenceTimeout
  BY <1>1, <1>4 DEF Fence, EndPipeline, FenceTimeout, Abort, busVars
<1>5. CASE FenceDone
  <2>1. mode = "pipeline" /\ port = NoReq
    BY <1>5 DEF FenceDone, In, IInv, TypeInv, PipeInv, CompareInv, IdleInv
  <2>. QED  BY <1>0, <1>5, <2>1, CallIsPort DEF FenceDone
<1>6. CASE EndCompare
  <2>1. port = NoReq /\ mode = "compare"
    BY <1>6 DEF EndCompare, Running, IInv, CompareInv
  <2>. QED  BY <1>0, <1>6, <2>1, CallIsPort DEF EndCompare
<1>7. CASE \E ok \in BOOLEAN : Tick(ok) \/ FenceTick(ok)
  BY <1>0, <1>7, StepTick, EdgeIsPort
<1>8. CASE \E ok \in BOOLEAN : AwaitLoad(ok) \/ AwaitStore(ok)
  BY <1>0, <1>8, StepAwait, EdgeIsPort
<1>9. CASE UNCHANGED vars
  BY <1>1, <1>9 DEF vars
<1>10. CASE \E r \in RawStores : RawStore(r)
  <2>1. mode = "compare" /\ port = NoReq /\ UNCHANGED <<mem, mode>> /\ answer' = NoAnswer
    BY <1>10 DEF RawStore, SyncStore, Running, IInv, CompareInv
  <2>. QED  BY <1>0, <2>1, CallIsPort
<1>. QED  BY <1>2, <1>3, <1>4, <1>5, <1>6, <1>7, <1>8, <1>9, <1>10 DEF Next

\* The tests are a requester that the cache is verified for: they hold a
\* request until it is answered and take every answer once.
THEOREM HarnessIsRequester == Spec => PortIsMemory
<1>1. Init => PortMemory!Init
  BY DEF Init, PortMemory!Init, PortMemory!NoAnswer, NoAnswer
<1>. QED  BY <1>1, StepPort, Invariance, PTL DEF Spec, PortIsMemory, PortMemory!Spec
=============================================================================

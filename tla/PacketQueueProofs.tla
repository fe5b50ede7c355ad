------------------------- MODULE PacketQueueProofs -------------------------
(***************************************************************************)
(* Lemmas about the reorder buffer, for every QUEUE_SIZE and WORD that     *)
(* satisfy the assumptions of PacketQueue: which sequence numbers share a  *)
(* slot, what the unsigned test for a full queue means, and what           *)
(* Enqueue_PacketQueue, Dequeue_PacketQueue and reorder do to a buffer.    *)
(* The proofs about the buffer alone (CLBReorderProofs) and about two      *)
(* hosts (CLBProcessorProofs) rest on them.                                *)
(***************************************************************************)
EXTENDS PacketQueue, WellFoundedInduction, TLAPS

(* A set of natural numbers that is not empty has a least element.         *)
LEMMA LeastNatural ==
  ASSUME NEW S \in SUBSET Nat, S # {}
  PROVE  \E k \in S : \A j \in S : k <= j
<1>1. PICK k \in S : \A j \in S : ~ (<<j, k>> \in OpToRel(<, Nat))
  BY NatLessThanWellFounded, WFMin
<1>2. \A j \in S : ~ (j < k)
  BY <1>1 DEF OpToRel
<1> QED
  BY <1>2

(* Division with remainder.                                                *)
LEMMA Remainder ==
  ASSUME NEW n \in Nat \ {0}, NEW x \in Int
  PROVE  /\ x % n \in 0 .. n - 1
         /\ x = n * (x \div n) + (x % n)
OBVIOUS

(* The remainder is the only number of 0 .. n - 1 that fits.               *)
LEMMA RemainderUnique ==
  ASSUME NEW n \in Nat \ {0}, NEW q \in Int, NEW r \in 0 .. n - 1
  PROVE  (n * q + r) % n = r
OBVIOUS

(* Two different numbers less than n apart have different remainders.      *)
LEMMA SameRemainder ==
  ASSUME NEW n \in Nat \ {0}, NEW x \in Int, NEW y \in Int,
         x % n = y % n, x < y
  PROVE  y >= x + n
<1> DEFINE a == x \div n
           b == y \div n
<1>1. a \in Int /\ b \in Int
  OBVIOUS
<1>2. n * b - n * a = y - x
  <2>1. x = n * a + (x % n) /\ y = n * b + (y % n)
    BY Remainder
  <2>2. n * a \in Int /\ n * b \in Int /\ x % n \in Int
    BY <1>1, Remainder
  <2> QED
    BY <2>1, <2>2
<1> HIDE DEF a, b
<1>3. n * (b - a) = y - x
  BY <1>1, <1>2
<1>4. ~ (b - a <= 0)
  <2> SUFFICES ASSUME b - a <= 0 PROVE FALSE
    OBVIOUS
  <2>1. n * (b - a) <= 0
    BY <1>1
  <2> QED
    BY <1>3, <2>1
<1>5. n * (b - a) >= n
  BY <1>1, <1>4
<1> QED
  BY <1>3, <1>5

(* A number is its own remainder when it is small enough, and its          *)
(* remainder is found by adding the modulus when it is a little below 0.   *)
LEMMA SmallRemainder ==
  ASSUME NEW n \in Nat \ {0}, NEW x \in Int
  PROVE  /\ x \in 0 .. n - 1 => x % n = x
         /\ x \in -n .. -1 => x % n = x + n
OBVIOUS

(* Appending the next n numbers to 1 .. m gives 1 .. m + n.                *)
LEMMA CountOn ==
  ASSUME NEW m \in Nat, NEW n \in Nat
  PROVE  [i \in 1 .. m |-> i] \o [i \in 1 .. n |-> m + 1 + i - 1]
           = [i \in 1 .. m + n |-> i]
<1> DEFINE a == [i \in 1 .. m |-> i]
           b == [i \in 1 .. n |-> m + 1 + i - 1]
           c == [i \in 1 .. m + n |-> i]
<1>1. a \in Seq(Int) /\ Len(a) = m /\ b \in Seq(Int) /\ Len(b) = n
  OBVIOUS
<1>2. a \o b = [i \in 1 .. m + n |-> IF i <= m THEN a[i] ELSE b[i - m]]
  BY <1>1
<1>3. ASSUME NEW i \in 1 .. m + n
      PROVE  (IF i <= m THEN a[i] ELSE b[i - m]) = i
  OBVIOUS
<1> QED
  BY <1>2, <1>3

-----------------------------------------------------------------------------
(* Slots of sequence numbers.                                              *)
LEMMA QIDType ==
  ASSUME NEW x \in Int
  PROVE  QID(x) \in Slots
BY QueueSizeAssumption, Remainder DEF QID, Slots

(* Numbers in one slot are a multiple of QUEUE_SIZE apart.                 *)
LEMMA QIDApart ==
  ASSUME NEW x \in Int, NEW y \in Int, QID(x) = QID(y), x < y
  PROVE  y >= x + QUEUE_SIZE
BY QueueSizeAssumption, SameRemainder DEF QID

(* One turn of the ring leads back to the same slot.                       *)
LEMMA QIDWrap ==
  ASSUME NEW x \in Int
  PROVE  QID(x + QUEUE_SIZE) = QID(x)
<1> DEFINE a == x \div QUEUE_SIZE
           r == x % QUEUE_SIZE
<1>1. QUEUE_SIZE \in Nat \ {0} /\ a \in Int /\ r \in 0 .. QUEUE_SIZE - 1
  BY QueueSizeAssumption, Remainder
<1>2. x = QUEUE_SIZE * a + r
  BY QueueSizeAssumption, Remainder
<1> HIDE DEF a, r
<1>3. x + QUEUE_SIZE = QUEUE_SIZE * (a + 1) + r
  <2>1. QUEUE_SIZE * (a + 1) = QUEUE_SIZE * a + QUEUE_SIZE
    BY <1>1
  <2> QED
    BY <1>1, <1>2, <2>1
<1>4. (QUEUE_SIZE * (a + 1) + r) % QUEUE_SIZE = r
  BY <1>1, RemainderUnique
<1> QED
  BY <1>3, <1>4 DEF QID, r

(* The unsigned comparison tells the packets reorder_value ..              *)
(* reorder_value + QUEUE_SIZE from all others, older ones included.        *)
LEMMA UnsignedCompare ==
  ASSUME NEW x \in Int, QUEUE_SIZE - WORD < x, x < WORD
  PROVE  x % WORD > QUEUE_SIZE <=> x \notin 0 .. QUEUE_SIZE
<1>1. QUEUE_SIZE \in Nat /\ WORD \in Nat \ {0}
  BY QueueSizeAssumption, WordAssumption
<1>2. CASE x < 0
  <2>1. x % WORD = x + WORD
    BY <1>1, <1>2, SmallRemainder
  <2> QED
    BY <1>1, <1>2, <2>1
<1>3. CASE x >= 0
  <2>1. x % WORD = x
    BY <1>1, <1>3, SmallRemainder
  <2> QED
    BY <1>1, <1>3, <2>1
<1> QED
  BY <1>2, <1>3

(* What the "full of queue" test means for a packet the peer has sent.     *)
LEMMA FullMeaning ==
  ASSUME NEW N \in Nat, N < WORD - QUEUE_SIZE,
         NEW value \in 1 .. N + 1, NEW seq \in 1 .. N
  PROVE  Full(seq, value) <=> seq - value \notin 0 .. QUEUE_SIZE
<1>1. /\ seq - value \in Int
      /\ QUEUE_SIZE - WORD < seq - value
      /\ seq - value < WORD
  BY QueueSizeAssumption, WordAssumption
<1> QED
  BY <1>1, UnsignedCompare DEF Full

(* RunLength is well defined: the loop of Dequeue_PacketQueue ends.        *)
LEMMA RunLengthIsRun ==
  ASSUME NEW slot, NEW value
  PROVE  /\ RunLength(slot, value) \in 0 .. QUEUE_SIZE
         /\ IsRun(slot, value, RunLength(slot, value))
<1> DEFINE T == {n \in 0 .. QUEUE_SIZE :
                   n = QUEUE_SIZE \/ At(slot, value, n) = NoPkt}
<1>1. QUEUE_SIZE \in T /\ T \in SUBSET Nat
  BY QueueSizeAssumption
<1>2. PICK m \in T : \A k \in T : m <= k
  BY <1>1, LeastNatural
<1>3. ASSUME NEW i \in 0 .. m - 1 PROVE At(slot, value, i) # NoPkt
  <2>1. i \notin T
    BY <1>1, <1>2
  <2>2. i \in 0 .. QUEUE_SIZE
    BY <1>1, QueueSizeAssumption
  <2> QED
    BY <2>1, <2>2
<1>4. m \in 0 .. QUEUE_SIZE /\ IsRun(slot, value, m)
  BY <1>3 DEF IsRun
<1> QED
  BY <1>4 DEF RunLength

-----------------------------------------------------------------------------
(***************************************************************************)
(* The buffer between two calls of reorder(), as a predicate on its parts  *)
(* (N bounds the sequence numbers), and the weaker one that holds between  *)
(* Enqueue_PacketQueue and Dequeue_PacketQueue, where the slot of          *)
(* reorder_value may hold packet reorder_value or reorder_value +          *)
(* QUEUE_SIZE.                                                             *)
(***************************************************************************)
BufType(b, N) ==
  b \in [value: 1 .. N + 1, slot: [Slots -> {NoPkt} \cup 1 .. N]]

Settled(b) ==
  \A k \in Slots : IsPkt(b.slot[k]) =>
    /\ QID(b.slot[k]) = k
    /\ b.value < b.slot[k]
    /\ b.slot[k] < b.value + QUEUE_SIZE

Loaded(b) ==
  \A k \in Slots : IsPkt(b.slot[k]) =>
    /\ QID(b.slot[k]) = k
    /\ b.value <= b.slot[k]
    /\ b.slot[k] <= b.value + QUEUE_SIZE

(* The slot of reorder_value is free between two calls of reorder().       *)
LEMMA HeadFree ==
  ASSUME NEW N \in Nat, NEW b, BufType(b, N), Settled(b)
  PROVE  b.slot[QID(b.value)] = NoPkt
<1>1. b.value \in Int /\ QID(b.value) \in Slots
  BY QIDType DEF BufType
<1> DEFINE s == b.slot[QID(b.value)]
<1> SUFFICES ASSUME IsPkt(s) PROVE FALSE
  BY DEF IsPkt
<1>2. QID(s) = QID(b.value) /\ b.value < s /\ s < b.value + QUEUE_SIZE
  BY <1>1 DEF Settled
<1>3. s \in Int
  BY <1>1 DEF BufType, NoPkt
<1> QED
  BY <1>1, <1>2, <1>3, QIDApart, QueueSizeAssumption

(***************************************************************************)
(* Enqueue_PacketQueue of a packet that is not in the buffer finds its     *)
(* slot free.                                                              *)
(***************************************************************************)
LEMMA EnqueueFindsRoom ==
  ASSUME NEW N \in Nat, N < WORD - QUEUE_SIZE,
         NEW b, BufType(b, N), Settled(b),
         NEW seq \in 1 .. N, seq \notin Buffered(b.slot),
         ~ Full(seq, b.value)
  PROVE  /\ b.slot[QID(seq)] = NoPkt
         /\ seq - b.value \in 0 .. QUEUE_SIZE
<1>1. b.value \in 1 .. N + 1 /\ QID(seq) \in Slots
  BY QIDType DEF BufType
<1>2. QUEUE_SIZE \in Nat \ {0} /\ WORD \in Nat \ {0} /\ WORD > 2 * QUEUE_SIZE
  BY QueueSizeAssumption, WordAssumption
<1>3. seq - b.value \in 0 .. QUEUE_SIZE
  BY <1>1, FullMeaning
<1>4. b.slot[QID(seq)] = NoPkt
  <2> DEFINE s == b.slot[QID(seq)]
  <2> SUFFICES ASSUME IsPkt(s) PROVE FALSE
    BY DEF IsPkt
  <2>1. QID(s) = QID(seq) /\ b.value < s /\ s < b.value + QUEUE_SIZE
    BY <1>1 DEF Settled
  <2>2. s \in Int
    BY <1>1 DEF BufType, NoPkt
  <2>3. s # seq
    BY <1>1 DEF Buffered, IsPkt
  <2>4. CASE s < seq
    BY <1>1, <1>2, <1>3, <2>1, <2>2, <2>4, QIDApart
  <2>5. CASE seq < s
    BY <1>1, <1>2, <1>3, <2>1, <2>2, <2>5, QIDApart
  <2> QED
    BY <2>2, <2>3, <2>4, <2>5
<1> QED
  BY <1>3, <1>4

(* The ordinary case: the packet is put in its slot, nothing else.         *)
LEMMA EnqueueNotFull ==
  ASSUME NEW N \in Nat, N < WORD - QUEUE_SIZE,
         NEW b, BufType(b, N), Settled(b),
         NEW seq \in 1 .. N, seq \notin Buffered(b.slot),
         ~ Full(seq, b.value)
  PROVE  Enqueue_PacketQueue(b, seq) =
           [buf  |-> [value |-> b.value,
                      slot  |-> [b.slot EXCEPT ![QID(seq)] = seq]],
            out  |-> << >>,
            leak |-> {}]
<1>1. b = [value |-> b.value, slot |-> b.slot]
  BY DEF BufType
<1>2. b.slot[QID(seq)] = NoPkt
  BY EnqueueFindsRoom
<1> QED
  BY <1>1, <1>2 DEF Enqueue_PacketQueue

(***************************************************************************)
(* What Enqueue_PacketQueue does to a settled buffer.                      *)
(***************************************************************************)
LEMMA EnqueueLoads ==
  ASSUME NEW N \in Nat, N < WORD - QUEUE_SIZE,
         NEW b, BufType(b, N), Settled(b),
         NEW seq \in 1 .. N, seq \notin Buffered(b.slot)
  PROVE  LET e == Enqueue_PacketQueue(b, seq)
         IN  /\ e.leak = {}
             /\ BufType(e.buf, N)
             /\ Loaded(e.buf)
             /\ Buffered(e.buf.slot) \subseteq Buffered(b.slot) \cup {seq}
<1> DEFINE e == Enqueue_PacketQueue(b, seq)
           q == QID(seq)
<1>1. q \in Slots /\ seq \in Int /\ seq # NoPkt
  BY QIDType DEF NoPkt
<1>2. /\ b = [value |-> b.value, slot |-> b.slot]
      /\ b.value \in 1 .. N + 1
      /\ b.slot \in [Slots -> {NoPkt} \cup 1 .. N]
  BY DEF BufType
<1>3. CASE Full(seq, b.value)
  <2> DEFINE new == [k \in Slots |-> IF k = q THEN seq ELSE NoPkt]
  <2>1. /\ e.leak = {}
        /\ e.buf = [value |-> seq, slot |-> new]
    BY <1>1, <1>3 DEF Enqueue_PacketQueue, Flush
  <2>2. BufType(e.buf, N)
    BY <1>1, <2>1 DEF BufType
  <2>3. Loaded(e.buf)
    <3> SUFFICES ASSUME NEW k \in Slots, IsPkt(new[k])
                 PROVE  /\ QID(new[k]) = k
                        /\ seq <= new[k]
                        /\ new[k] <= seq + QUEUE_SIZE
      BY <2>1 DEF Loaded
    <3>1. k = q /\ new[k] = seq
      BY DEF IsPkt
    <3> QED
      BY <1>1, <3>1, QueueSizeAssumption
  <2>4. Buffered(e.buf.slot) \subseteq {seq}
    BY <2>1 DEF Buffered
  <2> QED
    BY <1>3, <2>1, <2>2, <2>3, <2>4
<1>4. CASE ~ Full(seq, b.value)
  <2> DEFINE new == [b.slot EXCEPT ![q] = seq]
  <2>1. b.slot[q] = NoPkt /\ seq - b.value \in 0 .. QUEUE_SIZE
    BY <1>4, EnqueueFindsRoom
  <2>2. /\ e.leak = {}
        /\ e.buf = [value |-> b.value, slot |-> new]
    BY <1>4, EnqueueNotFull
  <2>3. BufType(e.buf, N)
    BY <1>1, <1>2, <2>2 DEF BufType
  <2>4. Loaded(e.buf)
    <3> SUFFICES ASSUME NEW k \in Slots, IsPkt(new[k])
                 PROVE  /\ QID(new[k]) = k
                        /\ b.value <= new[k]
                        /\ new[k] <= b.value + QUEUE_SIZE
      BY <2>2 DEF Loaded
    <3>1. CASE k = q
      BY <1>1, <1>2, <2>1, <3>1, QueueSizeAssumption
    <3>2. CASE k # q
      <4>1. new[k] = b.slot[k] /\ b.slot[k] \in Int
        BY <1>1, <1>2, <3>2 DEF NoPkt
      <4> QED
        BY <1>2, <4>1, QueueSizeAssumption DEF Settled
    <3> QED
      BY <3>1, <3>2
  <2>5. Buffered(e.buf.slot) \subseteq Buffered(b.slot) \cup {seq}
    BY <1>1, <1>2, <2>2 DEF Buffered
  <2> QED
    BY <2>2, <2>3, <2>4, <2>5
<1> QED
  BY <1>3, <1>4

(* The packet found i places after reorder_value is reorder_value + i,     *)
(* except that the first place may hold reorder_value + QUEUE_SIZE.        *)
LEMMA LoadedAt ==
  ASSUME NEW N \in Nat, NEW b, BufType(b, N), Loaded(b),
         NEW i \in 0 .. QUEUE_SIZE - 1, At(b.slot, b.value, i) # NoPkt
  PROVE  /\ At(b.slot, b.value, i) \in 1 .. N
         /\ \/ At(b.slot, b.value, i) = b.value + i
            \/ i = 0 /\ At(b.slot, b.value, i) = b.value + QUEUE_SIZE
<1> DEFINE s == At(b.slot, b.value, i)
           x == b.value + i
<1>1. b.value \in Int /\ x \in Int /\ QUEUE_SIZE \in Nat \ {0}
  BY QueueSizeAssumption DEF BufType
<1>2. QID(x) \in Slots
  BY <1>1, QIDType
<1>3. s \in 1 .. N
  BY <1>2 DEF At, BufType
<1>4. QID(s) = QID(x) /\ b.value <= s /\ s <= b.value + QUEUE_SIZE
  BY <1>2 DEF At, Loaded, IsPkt
<1>5. CASE s < x
  BY <1>1, <1>3, <1>4, <1>5, QIDApart
<1>6. CASE x < s
  BY <1>1, <1>3, <1>4, <1>6, QIDApart
<1>7. CASE s = x
  BY <1>3, <1>7
<1> QED
  BY <1>1, <1>3, <1>5, <1>6, <1>7

(***************************************************************************)
(* What Dequeue_PacketQueue does to a loaded buffer: it settles it.        *)
(***************************************************************************)
LEMMA DequeueSettles ==
  ASSUME NEW N \in Nat, NEW b, BufType(b, N), Loaded(b)
  PROVE  LET d == Dequeue_PacketQueue(b)
         IN  /\ BufType(d.buf, N)
             /\ Settled(d.buf)
             /\ Buffered(d.buf.slot) \subseteq Buffered(b.slot)
<1> DEFINE n == RunLength(b.slot, b.value)
           taken == {QID(b.value + i) : i \in 0 .. n - 1}
           rest == [k \in Slots |-> IF k \in taken THEN NoPkt ELSE b.slot[k]]
           d == Dequeue_PacketQueue(b)
<1>1. /\ b.value \in 1 .. N + 1
      /\ b.slot \in [Slots -> {NoPkt} \cup 1 .. N]
      /\ QUEUE_SIZE \in Nat \ {0}
  BY QueueSizeAssumption DEF BufType
<1>2. n \in 0 .. QUEUE_SIZE /\ IsRun(b.slot, b.value, n)
  BY RunLengthIsRun
<1>3. d.buf = [value |-> b.value + n, slot |-> rest]
  BY DEF Dequeue_PacketQueue
<1> HIDE DEF n
<1>4. BufType(d.buf, N)
  <2>1. b.value + n \in 1 .. N + 1
    <3>1. CASE n = 0
      BY <1>1, <3>1
    <3>2. CASE n > 0
      <4> DEFINE i == n - 1
      <4>1. i \in 0 .. QUEUE_SIZE - 1 /\ At(b.slot, b.value, i) # NoPkt
        BY <1>1, <1>2, <3>2 DEF IsRun
      <4>2. b.value + i <= N
        BY <1>1, <4>1, LoadedAt
      <4> QED
        BY <1>1, <1>2, <4>2
    <3> QED
      BY <1>2, <3>1, <3>2
  <2>2. rest \in [Slots -> {NoPkt} \cup 1 .. N]
    BY <1>1
  <2> QED
    BY <1>3, <2>1, <2>2 DEF BufType
<1>5. Settled(d.buf)
  <2> SUFFICES ASSUME NEW k \in Slots, IsPkt(rest[k])
               PROVE  /\ QID(rest[k]) = k
                      /\ b.value + n < rest[k]
                      /\ rest[k] < b.value + n + QUEUE_SIZE
    BY <1>3 DEF Settled
  <2> DEFINE s == b.slot[k]
             j == s - b.value
  <2>1. k \notin taken /\ rest[k] = s /\ s # NoPkt
    BY DEF IsPkt
  <2>2. QID(s) = k /\ j \in 0 .. QUEUE_SIZE /\ s \in Int /\ s = b.value + j
    BY <1>1, <2>1 DEF Loaded, IsPkt
  <2>3. ASSUME n > 0 PROVE k # QID(b.value)
    <3>1. QID(b.value + 0) \in taken
      BY <1>1, <1>2, <2>3
    <3> QED
      BY <1>1, <2>1, <3>1
  <2>4. ASSUME n = 0 PROVE k # QID(b.value)
    <3>1. At(b.slot, b.value, 0) = NoPkt
      BY <1>1, <1>2, <2>4 DEF IsRun
    <3> QED
      BY <1>1, <2>1, <3>1 DEF At
  <2>5. j # 0 /\ j # QUEUE_SIZE
    <3>1. k # QID(b.value)
      BY <1>2, <2>3, <2>4
    <3> QED
      BY <1>1, <2>2, <3>1, QIDWrap
  <2>6. j >= n
    <3> SUFFICES ASSUME j < n PROVE FALSE
      BY <1>2, <2>2
    <3>1. QID(b.value + j) \in taken
      BY <1>2, <2>2
    <3> QED
      BY <2>1, <2>2, <3>1
  <2>7. j # n
    <3> SUFFICES ASSUME j = n PROVE FALSE
      OBVIOUS
    <3>1. At(b.slot, b.value, n) = NoPkt
      BY <1>2, <2>5 DEF IsRun
    <3>2. At(b.slot, b.value, n) = s
      BY <2>2 DEF At
    <3> QED
      BY <2>1, <3>1, <3>2
  <2> QED
    BY <1>1, <1>2, <2>1, <2>2, <2>5, <2>6, <2>7
<1>6. Buffered(d.buf.slot) \subseteq Buffered(b.slot)
  BY <1>3 DEF Buffered
<1> QED
  BY <1>4, <1>5, <1>6

(* reorder() of a packet that is not in the buffer: the buffer is settled  *)
(* again, nothing is leaked, and nothing but seq is new in the buffer.     *)
LEMMA ReorderSettles ==
  ASSUME NEW N \in Nat, N < WORD - QUEUE_SIZE,
         NEW b, BufType(b, N), Settled(b),
         NEW seq \in 1 .. N, seq \notin Buffered(b.slot)
  PROVE  LET r == reorder(b, seq)
         IN  /\ r.leak = {}
             /\ BufType(r.buf, N)
             /\ Settled(r.buf)
             /\ Buffered(r.buf.slot) \subseteq Buffered(b.slot) \cup {seq}
<1> DEFINE e == Enqueue_PacketQueue(b, seq)
           d == Dequeue_PacketQueue(e.buf)
<1>1. /\ e.leak = {}
      /\ BufType(e.buf, N)
      /\ Loaded(e.buf)
      /\ Buffered(e.buf.slot) \subseteq Buffered(b.slot) \cup {seq}
  BY EnqueueLoads
<1>2. /\ BufType(d.buf, N)
      /\ Settled(d.buf)
      /\ Buffered(d.buf.slot) \subseteq Buffered(e.buf.slot)
  BY <1>1, DequeueSettles
<1>3. reorder(b, seq) = [buf |-> d.buf, out |-> e.out \o d.out, leak |-> e.leak]
  BY DEF reorder
<1> HIDE DEF e, d
<1> QED
  BY <1>1, <1>2, <1>3

(* reorder() of a packet inside the window: the next n packets in order    *)
(* are passed on, n >= 0, and every packet that the buffer held or just    *)
(* received is either among them or still held; none else is passed on.    *)
LEMMA ReorderInWindow ==
  ASSUME NEW N \in Nat, N < WORD - QUEUE_SIZE,
         NEW b, BufType(b, N), Settled(b),
         NEW seq \in 1 .. N, seq \notin Buffered(b.slot),
         seq - b.value \in Slots
  PROVE  \E n \in Nat :
           LET r == reorder(b, seq)
           IN  /\ r.buf.value = b.value + n
               /\ r.out = [i \in 1 .. n |-> b.value + i - 1]
               /\ \A s \in Buffered(b.slot) \cup {seq} :
                     s < b.value + n \/ s \in Buffered(r.buf.slot)
               /\ \A i \in 0 .. n - 1 : b.value + i \in Buffered(b.slot) \cup {seq}
<1> DEFINE e == Enqueue_PacketQueue(b, seq)
           d == Dequeue_PacketQueue(e.buf)
           n == RunLength(e.buf.slot, b.value)
<1>1. /\ b.value \in 1 .. N + 1
      /\ b.slot \in [Slots -> {NoPkt} \cup 1 .. N]
      /\ QUEUE_SIZE \in Nat \ {0}
      /\ seq - b.value \in 0 .. QUEUE_SIZE - 1
      /\ QID(seq) \in Slots
      /\ QID(b.value) \in Slots
  BY QueueSizeAssumption, QIDType DEF BufType, Slots
<1>2. ~ Full(seq, b.value)
  BY <1>1, FullMeaning
<1>3. /\ BufType(e.buf, N)
      /\ Loaded(e.buf)
      /\ e.out = << >>
      /\ e.buf.value = b.value
      /\ e.buf.slot = [b.slot EXCEPT ![QID(seq)] = seq]
  <2>1. BufType(e.buf, N) /\ Loaded(e.buf)
    BY EnqueueLoads
  <2>2. e = [buf  |-> [value |-> b.value,
                       slot  |-> [b.slot EXCEPT ![QID(seq)] = seq]],
             out  |-> << >>,
             leak |-> {}]
    BY <1>2, EnqueueNotFull
  <2> HIDE DEF e
  <2> QED
    BY <2>1, <2>2
<1> HIDE DEF e
<1>4. n \in 0 .. QUEUE_SIZE /\ IsRun(e.buf.slot, b.value, n)
  BY RunLengthIsRun
<1> DEFINE taken == {QID(b.value + i) : i \in 0 .. n - 1}
           rest == [k \in Slots |-> IF k \in taken THEN NoPkt ELSE e.buf.slot[k]]
<1>5. /\ d.buf = [value |-> b.value + n, slot |-> rest]
      /\ d.out = [i \in 1 .. n |-> At(e.buf.slot, b.value, i - 1)]
  BY <1>3 DEF Dequeue_PacketQueue
<1>6. e.buf.slot[QID(b.value)] \in {NoPkt, b.value}
  <2>1. CASE QID(seq) = QID(b.value)
    <3>1. ~ (b.value < seq)
      BY <1>1, <2>1, QIDApart
    <3>2. seq = b.value
      BY <1>1, <3>1
    <3> QED
      BY <1>1, <1>3, <3>2
  <2>2. CASE QID(seq) # QID(b.value)
    BY <1>1, <1>3, <2>2, HeadFree
  <2> QED
    BY <2>1, <2>2
<1> HIDE DEF n
<1>7. ASSUME NEW i \in 0 .. n - 1
      PROVE  At(e.buf.slot, b.value, i) = b.value + i
  <2>1. At(e.buf.slot, b.value, i) # NoPkt
    BY <1>4 DEF IsRun
  <2>2. i \in 0 .. QUEUE_SIZE - 1
    BY <1>1, <1>4
  <2>3. \/ At(e.buf.slot, b.value, i) = b.value + i
        \/ i = 0 /\ At(e.buf.slot, b.value, i) = b.value + QUEUE_SIZE
    BY <1>3, <2>1, <2>2, LoadedAt
  <2>4. CASE i = 0
    <3>1. At(e.buf.slot, b.value, 0) = e.buf.slot[QID(b.value)]
      BY <1>1 DEF At
    <3> QED
      BY <1>1, <1>6, <2>1, <2>4, <3>1
  <2> QED
    BY <2>2, <2>3, <2>4
<1>8. d.out = [i \in 1 .. n |-> b.value + i - 1]
  <2> SUFFICES ASSUME NEW i \in 1 .. n
               PROVE  At(e.buf.slot, b.value, i - 1) = b.value + i - 1
    BY <1>5
  <2>1. i - 1 \in 0 .. n - 1
    BY <1>4
  <2> QED
    BY <1>1, <1>4, <1>7, <2>1
<1>9. ASSUME NEW s \in Buffered(b.slot) \cup {seq}
      PROVE  s < b.value + n \/ s \in Buffered(rest)
  <2>1. PICK k \in Slots : e.buf.slot[k] = s /\ s # NoPkt
    <3>1. CASE s = seq
      <4>1. e.buf.slot[QID(seq)] = seq /\ seq # NoPkt
        BY <1>1, <1>3 DEF NoPkt
      <4> QED
        BY <1>1, <3>1, <4>1
    <3>2. CASE s # seq
      <4>1. PICK k \in Slots : b.slot[k] = s /\ s # NoPkt
        BY <3>2 DEF Buffered
      <4>2. k # QID(seq)
        BY <1>2, <4>1, EnqueueFindsRoom
      <4> QED
        BY <1>1, <1>3, <4>1, <4>2
    <3> QED
      BY <3>1, <3>2
  <2>2. CASE k \in taken
    <3>1. PICK i \in 0 .. n - 1 : k = QID(b.value + i)
      BY <2>2
    <3>2. s = b.value + i
      BY <1>7, <2>1, <3>1 DEF At
    <3> QED
      BY <1>1, <1>4, <3>2
  <2>3. CASE k \notin taken
    BY <2>1, <2>3 DEF Buffered
  <2> QED
    BY <2>2, <2>3
<1>10. << >> \o d.out = d.out
  <2>1. d.out \in Seq(Int)
    BY <1>1, <1>4, <1>8
  <2> QED
    BY <2>1
<1>11. /\ reorder(b, seq).buf = d.buf
       /\ reorder(b, seq).out = e.out \o d.out
  BY DEF reorder, e
<1>12. n \in Nat
  BY <1>4
<1>13. ASSUME NEW i \in 0 .. n - 1 PROVE b.value + i \in Buffered(b.slot) \cup {seq}
  <2>1. b.value + i \in Int /\ QID(b.value + i) \in Slots
    BY <1>1, <1>4, QIDType
  <2>2. e.buf.slot[QID(b.value + i)] = b.value + i /\ b.value + i # NoPkt
    BY <1>1, <1>4, <1>7 DEF At, NoPkt
  <2> QED
    BY <1>1, <1>3, <2>1, <2>2 DEF Buffered
<1> HIDE DEF d, rest
<1>14. /\ reorder(b, seq).buf.value = b.value + n
       /\ reorder(b, seq).out = [i \in 1 .. n |-> b.value + i - 1]
       /\ reorder(b, seq).buf.slot = rest
  BY <1>3, <1>5, <1>8, <1>10, <1>11
<1> QED
  BY <1>9, <1>12, <1>13, <1>14
=============================================================================

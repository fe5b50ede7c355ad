-------------------------- MODULE CLBReorderProofs --------------------------
(***************************************************************************)
(* Proofs about the reorder buffer, for every QUEUE_SIZE, WORD, MaxSeq and *)
(* MaxLoss that satisfy the assumptions of PacketQueue and CLBReorder.     *)
(***************************************************************************)
EXTENDS CLBReorder, PacketQueueProofs, FiniteSetTheorems, WellFoundedInduction, TLAPS

-----------------------------------------------------------------------------
(***************************************************************************)
(* The inductive invariant.  NoConflict is not inductive: that an arriving *)
(* packet finds its slot free follows from Window and from the fact that   *)
(* it is not in the buffer already.                                        *)
(***************************************************************************)
NotYetBuffered == inflight \cap Buffered(buf.slot) = {}

Safe == TypeOK /\ Window /\ NoConflict /\ NotYetBuffered

(* What the invariant says of the buffer, in the lemmas' terms.            *)
LEMMA SafeBuffer ==
  ASSUME Safe
  PROVE  /\ sequence \in Nat /\ sequence < WORD - QUEUE_SIZE
         /\ BufType(buf, sequence)
         /\ Settled(buf)
         /\ \A seq \in inflight : seq \in 1 .. sequence
                                  /\ seq \notin Buffered(buf.slot)
<1>1. sequence \in Nat /\ sequence < WORD - QUEUE_SIZE
  BY MaxSeqAssumption, WordAssumption, QueueSizeAssumption DEF Safe, TypeOK
<1>2. BufType(buf, sequence) /\ Settled(buf)
  BY DEF Safe, TypeOK, Window, BufType, Settled
<1> QED
  BY <1>1, <1>2 DEF Safe, TypeOK, NotYetBuffered

(* The invariant holds initially.                                          *)
LEMMA SafeInit == Init => Safe
<1> SUFFICES ASSUME Init PROVE Safe
  OBVIOUS
<1>1. TypeOK
  BY MaxSeqAssumption DEF Init, TypeOK, Init_PacketQueue
<1>2. Window
  BY DEF Init, Window, Init_PacketQueue, IsPkt
<1> QED
  BY <1>1, <1>2 DEF Init, Safe, NoConflict, NotYetBuffered

(* The peer's send() touches nothing the invariant is about.               *)
LEMMA SafeSend == Safe /\ Send => Safe'
<1> SUFFICES ASSUME Safe, Send PROVE Safe'
  OBVIOUS
<1>1. sequence \in Nat /\ sequence' = sequence + 1
  BY DEF Safe, TypeOK, Send
<1>2. TypeOK'
  <2>1. buf' \in [value: 1 .. sequence' + 1, slot: [Slots -> {NoPkt} \cup 1 .. sequence']]
    BY <1>1 DEF Safe, TypeOK, Send
  <2> QED
    BY <1>1, <2>1, MaxSeqAssumption DEF Safe, TypeOK, Send
<1>3. Window' /\ NoConflict'
  BY DEF Safe, Window, NoConflict, Send
<1>4. NotYetBuffered'
  <2>1. sequence + 1 \notin Buffered(buf.slot)
    BY <1>1 DEF Safe, TypeOK, Buffered
  <2> QED
    BY <2>1 DEF Safe, NotYetBuffered, Send
<1> QED
  BY <1>2, <1>3, <1>4 DEF Safe

(* An arrival preserves the invariant: ReorderSettles applies, because a   *)
(* packet in flight is not in the buffer.                                  *)
LEMMA SafeArrive == ASSUME Safe, NEW seq \in inflight, Arrive(seq) PROVE Safe'
<1> DEFINE r == reorder(buf, seq)
<1>1. /\ sequence \in Nat /\ sequence < WORD - QUEUE_SIZE
      /\ BufType(buf, sequence) /\ Settled(buf)
      /\ seq \in 1 .. sequence /\ seq \notin Buffered(buf.slot)
  BY SafeBuffer
<1>2. /\ r.leak = {}
      /\ BufType(r.buf, sequence)
      /\ Settled(r.buf)
      /\ Buffered(r.buf.slot) \subseteq Buffered(buf.slot) \cup {seq}
  BY <1>1, ReorderSettles
<1>3. /\ buf' = r.buf
      /\ leaked' = leaked \cup r.leak
      /\ inflight' = inflight \ {seq}
      /\ sequence' = sequence /\ lost' = lost
      /\ inWindow' \in BOOLEAN
  BY DEF Arrive
<1> HIDE DEF r
<1>4. TypeOK'
  BY <1>2, <1>3 DEF Safe, TypeOK, BufType
<1>5. Window'
  BY <1>2, <1>3 DEF Window, Settled
<1>6. NoConflict' /\ NotYetBuffered'
  BY <1>2, <1>3 DEF Safe, NoConflict, NotYetBuffered
<1> QED
  BY <1>4, <1>5, <1>6 DEF Safe

(* A loss only removes packets from the network.                           *)
LEMMA SafeLose == ASSUME Safe, NEW seq \in inflight, Lose(seq) PROVE Safe'
<1>1. TypeOK'
  BY DEF Safe, TypeOK, Lose
<1>2. Window' /\ NoConflict'
  BY DEF Safe, Window, NoConflict, Lose
<1>3. NotYetBuffered'
  BY DEF Safe, NotYetBuffered, Lose
<1> QED
  BY <1>1, <1>2, <1>3 DEF Safe

(* Every step preserves the invariant.                                     *)
LEMMA SafeNext == Safe /\ [Next]_vars => Safe'
<1> SUFFICES ASSUME Safe, [Next]_vars PROVE Safe'
  OBVIOUS
<1>1. CASE Send
  BY <1>1, SafeSend
<1>2. CASE \E seq \in inflight : Arrive(seq)
  BY <1>2, SafeArrive
<1>3. CASE \E seq \in inflight : Lose(seq)
  BY <1>3, SafeLose
<1>4. CASE UNCHANGED vars
  BY <1>4 DEF vars, Safe, TypeOK, Window, NoConflict, NotYetBuffered
<1> QED
  BY <1>1, <1>2, <1>3, <1>4 DEF Next

(* The inductive invariant of the reorder buffer, for every run.           *)
THEOREM SafeAlways == Spec => []Safe
BY SafeInit, SafeNext, PTL DEF Spec

(* The types of CLBProcessor's reorder state: reorder_value never leaves   *)
(* 1 .. sequence + 1, also when late packets move it backwards.            *)
THEOREM TypeCorrect == Spec => []TypeOK
<1>1. Safe => TypeOK
  BY DEF Safe
<1> QED
  BY <1>1, SafeAlways, PTL

(* Between two calls of reorder() every buffered packet is in its own slot *)
(* and within QUEUE_SIZE - 1 of reorder_value, for every QUEUE_SIZE.       *)
THEOREM WindowHolds == Spec => []Window
<1>1. Safe => Window
  BY DEF Safe
<1> QED
  BY <1>1, SafeAlways, PTL

(* The "qid conflit" branch of Enqueue_PacketQueue is dead code: no        *)
(* packet is ever leaked by it, whatever is lost, delayed or reordered.    *)
THEOREM NeverConflict == Spec => []NoConflict
<1>1. Safe => NoConflict
  BY DEF Safe
<1> QED
  BY <1>1, SafeAlways, PTL

-----------------------------------------------------------------------------
(***************************************************************************)
(* In-order delivery.  While every arrival is inside the window, packets   *)
(* below reorder_value are delivered and the others are accounted for.     *)
(***************************************************************************)
Accounted ==
  inWindow => \A s \in buf.value .. sequence :
                s \in inflight \cup lost \cup Buffered(buf.slot)

Ordered == Safe /\ InOrder /\ Accounted

(* An arrival extends what the node has seen by the next n packets, and    *)
(* accounts for every packet it held back.                                 *)
LEMMA OrderedArrive ==
  ASSUME Ordered, NEW seq \in inflight, Arrive(seq), inWindow'
  PROVE  InOrder' /\ Accounted'
<1> DEFINE r == reorder(buf, seq)
<1>1. /\ sequence \in Nat /\ sequence < WORD - QUEUE_SIZE
      /\ BufType(buf, sequence) /\ Settled(buf)
      /\ seq \in 1 .. sequence /\ seq \notin Buffered(buf.slot)
      /\ buf.value \in 1 .. sequence + 1
  BY SafeBuffer DEF Ordered, BufType
<1>2. inWindow /\ seq - buf.value \in Slots
  BY DEF Arrive
<1>3. PICK n \in Nat :
        /\ r.buf.value = buf.value + n
        /\ r.out = [i \in 1 .. n |-> buf.value + i - 1]
        /\ \A s \in Buffered(buf.slot) \cup {seq} :
              s < buf.value + n \/ s \in Buffered(r.buf.slot)
  BY <1>1, <1>2, ReorderInWindow
<1>4. /\ buf' = r.buf
      /\ delivered' = delivered \o r.out
      /\ inflight' = inflight \ {seq}
      /\ sequence' = sequence /\ lost' = lost
  BY DEF Arrive
<1> HIDE DEF r
<1>5. InOrder'
  <2> DEFINE m == buf.value - 1
  <2>1. m \in Nat /\ buf.value = m + 1
    BY <1>1
  <2>2. delivered = [i \in 1 .. m |-> i]
    BY <1>2 DEF Ordered, InOrder
  <2>3. r.out = [i \in 1 .. n |-> m + 1 + i - 1]
    BY <1>3, <2>1
  <2>4. buf'.value - 1 = m + n
    BY <1>3, <1>4, <2>1
  <2> HIDE DEF m
  <2>5. delivered' = [i \in 1 .. m + n |-> i]
    BY <1>3, <1>4, <2>1, <2>2, <2>3, CountOn
  <2> QED
    BY <2>4, <2>5 DEF InOrder
<1>6. Accounted'
  <2> SUFFICES ASSUME NEW s \in buf.value + n .. sequence
               PROVE  s \in (inflight \ {seq}) \cup lost \cup Buffered(r.buf.slot)
    BY <1>3, <1>4 DEF Accounted
  <2>1. s \in buf.value .. sequence
    BY <1>1, <1>3
  <2>2. s \in inflight \cup lost \cup Buffered(buf.slot)
    BY <1>2, <2>1 DEF Ordered, Accounted
  <2>3. ~ (s < buf.value + n)
    BY <1>1, <1>3
  <2> QED
    BY <1>3, <2>2, <2>3
<1> QED
  BY <1>5, <1>6

(* Every step preserves the second invariant.                              *)
LEMMA OrderedNext == Ordered /\ [Next]_vars => Ordered'
<1> SUFFICES ASSUME Ordered, [Next]_vars PROVE InOrder' /\ Accounted'
  BY SafeNext DEF Ordered
<1>1. CASE Send
  <2>1. InOrder'
    BY <1>1 DEF Ordered, InOrder, Send
  <2>2. sequence \in Nat
    BY SafeBuffer DEF Ordered
  <2>3. Accounted'
    <3> SUFFICES ASSUME inWindow, NEW s \in buf.value .. sequence + 1
                 PROVE  s \in (inflight \cup {sequence + 1}) \cup lost \cup Buffered(buf.slot)
      BY <1>1 DEF Accounted, Send
    <3>1. buf.value \in Int
      BY DEF Ordered, Safe, TypeOK
    <3>2. s = sequence + 1 \/ s \in buf.value .. sequence
      BY <2>2, <3>1
    <3> QED
      BY <3>2 DEF Ordered, Accounted
  <2> QED
    BY <2>1, <2>3
<1>2. ASSUME NEW seq \in inflight, Arrive(seq) PROVE InOrder' /\ Accounted'
  <2>1. CASE inWindow'
    BY <1>2, <2>1, OrderedArrive
  <2>2. CASE ~ inWindow'
    BY <2>2 DEF InOrder, Accounted
  <2> QED
    BY <2>1, <2>2
<1>3. ASSUME NEW seq \in inflight, Lose(seq) PROVE InOrder' /\ Accounted'
  BY <1>3 DEF Ordered, InOrder, Accounted, Lose
<1>4. CASE UNCHANGED vars
  BY <1>4 DEF vars, Ordered, InOrder, Accounted
<1> QED
  BY <1>1, <1>2, <1>3, <1>4 DEF Next

(* It holds initially.                                                     *)
LEMMA OrderedInit == Init => Ordered
<1> SUFFICES ASSUME Init PROVE InOrder /\ Accounted
  BY SafeInit DEF Ordered
<1>1. buf.value = 1 /\ delivered = << >> /\ sequence = 0
  BY DEF Init, Init_PacketQueue
<1> QED
  BY <1>1 DEF InOrder, Accounted

(* The second invariant: deliveries are in order and nothing is lost       *)
(* track of, while arrivals stay in the window.                            *)
THEOREM OrderedAlways == Spec => []Ordered
BY OrderedInit, OrderedNext, PTL DEF Spec

(* As long as no packet arrives outside the QUEUE_SIZE numbers from        *)
(* reorder_value on, what reorder() passes on is 1, 2, 3, ... without gap. *)
THEOREM InOrderHolds == Spec => []InOrder
<1>1. Ordered => InOrder
  BY DEF Ordered
<1> QED
  BY <1>1, OrderedAlways, PTL

(* reorder() holds packets back only while packet reorder_value is missing.*)
THEOREM HeldOnlyForMissing == Spec => []HeldForMissing
<1>1. Ordered => HeldForMissing
  <2> SUFFICES ASSUME Ordered, inWindow, Buffered(buf.slot) # {}
               PROVE  buf.value \in inflight \cup lost
    BY DEF HeldForMissing
  <2>1. /\ sequence \in Nat
        /\ buf.value \in 1 .. sequence + 1
        /\ buf.slot \in [Slots -> {NoPkt} \cup 1 .. sequence]
    BY DEF Ordered, Safe, TypeOK
  <2>2. PICK k \in Slots : buf.slot[k] # NoPkt
    BY DEF Buffered
  <2>3. buf.slot[k] \in 1 .. sequence /\ buf.value < buf.slot[k]
    BY <2>1, <2>2 DEF Ordered, Safe, Window, IsPkt
  <2>4. buf.value \in buf.value .. sequence
    BY <2>1, <2>3
  <2>5. buf.value \notin Buffered(buf.slot)
    <3> SUFFICES ASSUME NEW j \in Slots, buf.slot[j] = buf.value PROVE FALSE
      BY DEF Buffered
    <3>1. IsPkt(buf.slot[j])
      BY <2>1 DEF IsPkt, NoPkt
    <3>2. buf.value < buf.slot[j]
      BY <3>1 DEF Ordered, Safe, Window
    <3> QED
      BY <2>1, <3>2
  <2> QED
    BY <2>4, <2>5 DEF Ordered, Accounted
<1> QED
  BY <1>1, OrderedAlways, PTL

-----------------------------------------------------------------------------
(***************************************************************************)
(* The FIFO channel.  A step inside the window is a step of OrderedChannel *)
(* or leaves the node's view alone, for all constants; when the peer sends *)
(* no more than QUEUE_SIZE packets every arrival is inside the window, so  *)
(* that the buffer implements the channel, with or without loss.           *)
(***************************************************************************)
Ahead == inWindow => \A s \in inflight : buf.value <= s

InStep == Ordered /\ Ahead

(* Packets that are still on their way are not passed over.                *)
LEMMA AheadArrive ==
  ASSUME InStep, NEW seq \in inflight, Arrive(seq), inWindow'
  PROVE  Ahead'
<1> DEFINE r == reorder(buf, seq)
<1>1. /\ sequence \in Nat /\ sequence < WORD - QUEUE_SIZE
      /\ BufType(buf, sequence) /\ Settled(buf)
      /\ seq \in 1 .. sequence /\ seq \notin Buffered(buf.slot)
      /\ buf.value \in 1 .. sequence + 1
      /\ \A s \in inflight : s \in 1 .. sequence /\ s \notin Buffered(buf.slot)
  BY SafeBuffer DEF InStep, Ordered, BufType
<1>2. inWindow /\ seq - buf.value \in Slots
  BY DEF Arrive
<1>3. PICK n \in Nat :
        /\ r.buf.value = buf.value + n
        /\ \A i \in 0 .. n - 1 : buf.value + i \in Buffered(buf.slot) \cup {seq}
  BY <1>1, <1>2, ReorderInWindow
<1>4. buf' = r.buf /\ inflight' = inflight \ {seq}
  BY DEF Arrive
<1> HIDE DEF r
<1> SUFFICES ASSUME NEW s \in inflight, s # seq PROVE buf.value + n <= s
  BY <1>3, <1>4 DEF Ahead
<1>5. buf.value <= s /\ s \in 1 .. sequence /\ s \notin Buffered(buf.slot)
  BY <1>1, <1>2 DEF InStep, Ahead
<1>6. CASE s < buf.value + n
  <2> DEFINE i == s - buf.value
  <2>1. i \in 0 .. n - 1 /\ buf.value + i = s
    BY <1>1, <1>5, <1>6
  <2> QED
    BY <1>3, <1>5, <2>1
<1> QED
  BY <1>1, <1>3, <1>5, <1>6

LEMMA InStepNext == InStep /\ [Next]_vars => InStep'
<1> SUFFICES ASSUME InStep, [Next]_vars PROVE Ahead'
  BY OrderedNext DEF InStep
<1>1. CASE Send
  <2>1. buf.value \in 1 .. sequence + 1 /\ sequence \in Nat
    BY SafeBuffer DEF InStep, Ordered, BufType
  <2> QED
    BY <1>1, <2>1 DEF InStep, Ahead, Send
<1>2. ASSUME NEW seq \in inflight, Arrive(seq) PROVE Ahead'
  <2>1. CASE inWindow'
    BY <1>2, <2>1, AheadArrive
  <2>2. CASE ~ inWindow'
    BY <2>2 DEF Ahead
  <2> QED
    BY <2>1, <2>2
<1>3. ASSUME NEW seq \in inflight, Lose(seq) PROVE Ahead'
  BY <1>3 DEF InStep, Ahead, Lose
<1>4. CASE UNCHANGED vars
  BY <1>4 DEF vars, InStep, Ahead
<1> QED
  BY <1>1, <1>2, <1>3, <1>4 DEF Next

LEMMA InStepInit == Init => InStep
<1> SUFFICES ASSUME Init PROVE Ahead
  BY OrderedInit DEF InStep
<1> QED
  BY DEF Init, Ahead

(* Packets below reorder_value are delivered, the others are ahead of it:  *)
(* the third invariant of the reorder buffer.                              *)
THEOREM InStepAlways == Spec => []InStep
BY InStepInit, InStepNext, PTL DEF Spec

(* An arrival inside the window delivers the next n packets, or none.      *)
LEMMA ArriveDelivers ==
  ASSUME InStep, InStep', NEW seq \in inflight, Arrive(seq), inWindow'
  PROVE  Channel!Deliver \/ UNCHANGED Channel!vars
<1>1. /\ sequence \in Nat /\ buf.value \in 1 .. sequence + 1
      /\ buf'.value \in 1 .. sequence + 1 /\ sequence' = sequence
  <2>1. sequence \in Nat /\ buf.value \in 1 .. sequence + 1
    BY SafeBuffer DEF InStep, Ordered, BufType
  <2>2. sequence' = sequence
    BY DEF Arrive
  <2>3. buf'.value \in 1 .. sequence' + 1
    BY DEF InStep, Ordered, Safe, TypeOK
  <2> QED
    BY <2>1, <2>2, <2>3
<1>2. inWindow
  BY DEF Arrive
<1> DEFINE r == reorder(buf, seq)
<1>3. PICK n \in Nat :
        /\ r.buf.value = buf.value + n
        /\ r.out = [i \in 1 .. n |-> buf.value + i - 1]
        /\ \A s \in Buffered(buf.slot) \cup {seq} :
              s < buf.value + n \/ s \in Buffered(r.buf.slot)
  <2>1. /\ sequence < WORD - QUEUE_SIZE
        /\ BufType(buf, sequence) /\ Settled(buf)
        /\ seq \in 1 .. sequence /\ seq \notin Buffered(buf.slot)
    BY SafeBuffer DEF InStep, Ordered
  <2>2. seq - buf.value \in Slots
    BY DEF Arrive
  <2> QED
    BY <1>1, <2>1, <2>2, ReorderInWindow
<1>4. buf' = r.buf /\ delivered' = delivered \o r.out
  BY DEF Arrive
<1> HIDE DEF r
<1> DEFINE m == buf.value - 1
<1>5. m \in Nat /\ delivered = [i \in 1 .. m |-> i] /\ Len(delivered) = m
  <2>1. m \in Nat /\ delivered = [i \in 1 .. m |-> i]
    BY <1>1, <1>2 DEF InStep, Ordered, InOrder
  <2> HIDE DEF m
  <2> QED
    BY <2>1
<1>6. n <= sequence - m
  BY <1>1, <1>3, <1>4
<1>7. r.out = [i \in 1 .. n |-> Len(delivered) + i]
  BY <1>1, <1>3, <1>5
<1> HIDE DEF m
<1>8. CASE n = 0
  <2>1. r.out = << >>
    BY <1>7, <1>8
  <2>2. delivered \in Seq(Int)
    BY <1>5
  <2>3. delivered' = delivered
    BY <1>4, <2>1, <2>2
  <2> QED
    BY <1>1, <2>3 DEF Channel!vars
<1>9. CASE n # 0
  <2>1. n \in 1 .. sequence - Len(delivered)
    BY <1>1, <1>3, <1>5, <1>6, <1>9
  <2> QED
    BY <1>1, <1>4, <1>7, <2>1 DEF Channel!Deliver
<1> QED
  BY <1>8, <1>9

LEMMA ChannelStep ==
  ASSUME InStep, InStep', [Next]_vars, inWindow'
  PROVE  [Channel!Next]_(Channel!vars)
<1>1. CASE Send
  BY <1>1 DEF Send, Channel!Next, Channel!Send
<1>2. ASSUME NEW seq \in inflight, Arrive(seq) PROVE [Channel!Next]_(Channel!vars)
  BY <1>2, ArriveDelivers DEF Channel!Next
<1>3. ASSUME NEW seq \in inflight, Lose(seq) PROVE [Channel!Next]_(Channel!vars)
  BY <1>3 DEF Lose, Channel!vars
<1>4. CASE UNCHANGED vars
  BY <1>4 DEF vars, Channel!vars
<1> QED
  BY <1>1, <1>2, <1>3, <1>4 DEF Next

(* Every step up to the first arrival outside the window is a step of the  *)
(* FIFO channel, for every QUEUE_SIZE, number of packets and of losses.    *)
THEOREM ChannelInWindow == Spec => [][inWindow' => [Channel!Next]_(Channel!vars)]_vars
<1>1. InStep /\ InStep' /\ [Next]_vars => [inWindow' => [Channel!Next]_(Channel!vars)]_vars
  BY ChannelStep
<1> QED
  BY <1>1, InStepAlways, PTL DEF Spec

(* With no more packets than slots every arrival is inside the window.     *)
LEMMA WindowNext ==
  ASSUME MaxSeq <= QUEUE_SIZE, InStep, inWindow = TRUE, [Next]_vars
  PROVE  inWindow' = TRUE
<1>1. ASSUME NEW seq \in inflight, Arrive(seq) PROVE inWindow' = TRUE
  <2>1. /\ sequence \in 0 .. MaxSeq /\ buf.value \in 1 .. sequence + 1
        /\ seq \in 1 .. sequence /\ MaxSeq \in Nat /\ QUEUE_SIZE \in Nat
    BY MaxSeqAssumption, QueueSizeAssumption DEF InStep, Ordered, Safe, TypeOK
  <2>2. buf.value <= seq
    BY DEF InStep, Ahead
  <2>3. seq - buf.value \in Slots
    BY <2>1, <2>2 DEF Slots
  <2> QED
    BY <1>1, <2>3 DEF Arrive
<1>2. CASE Send
  BY <1>2 DEF Send
<1>3. ASSUME NEW seq \in inflight, Lose(seq) PROVE inWindow' = TRUE
  BY <1>3 DEF Lose
<1>4. CASE UNCHANGED vars
  BY <1>4 DEF vars
<1> QED
  BY <1>1, <1>2, <1>3, <1>4 DEF Next

(* The paths and the reorder buffer together implement the FIFO channel    *)
(* when the peer has at most QUEUE_SIZE packets to send, whatever the      *)
(* paths reorder or lose.                                                  *)
THEOREM ChannelImplemented ==
  ASSUME MaxSeq <= QUEUE_SIZE
  PROVE  Spec => Channel!Spec
<1> DEFINE All == InStep /\ inWindow = TRUE
<1>1. Init => All /\ Channel!Init
  BY InStepInit DEF Init, Channel!Init
<1>2. All /\ [Next]_vars => All'
  BY InStepNext, WindowNext
<1>3. All /\ All' /\ [Next]_vars => [Channel!Next]_(Channel!vars)
  BY ChannelStep
<1> QED
  BY <1>1, <1>2, <1>3, PTL DEF Spec, Channel!Spec

-----------------------------------------------------------------------------
(***************************************************************************)
(* Conservation.  What reorder() passes on and what it keeps are together  *)
(* what it held and the packet it was given, each packet once, in the      *)
(* ordinary case and when the full buffer is flushed.                      *)
(***************************************************************************)
Distinct(s) == \A i, j \in DOMAIN s : i # j => s[i] # s[j]

LEMMA AppendDistinct ==
  ASSUME NEW s \in Seq(Int), NEW x \in Int, Distinct(s), x \notin Elements(s)
  PROVE  /\ Append(s, x) \in Seq(Int) /\ Distinct(Append(s, x))
         /\ Elements(Append(s, x)) = Elements(s) \cup {x}
<1> DEFINE t == Append(s, x)
<1>1. /\ Len(s) \in Nat /\ DOMAIN s = 1 .. Len(s) /\ DOMAIN t = 1 .. Len(s) + 1
      /\ t[Len(s) + 1] = x /\ \A i \in 1 .. Len(s) : t[i] = s[i]
      /\ t \in Seq(Int)
  OBVIOUS
<1> HIDE DEF t
<1>2. \A i \in DOMAIN t : i = Len(s) + 1 \/ i \in DOMAIN s
  BY <1>1
<1>3. Distinct(t)
  BY <1>1, <1>2 DEF Distinct, Elements
<1>4. Elements(t) = Elements(s) \cup {x}
  <2>1. Elements(t) \subseteq Elements(s) \cup {x}
    BY <1>1, <1>2 DEF Elements
  <2>2. Elements(s) \cup {x} \subseteq Elements(t)
    BY <1>1, SMTT(30) DEF Elements
  <2> QED
    BY <2>1, <2>2
<1> QED
  BY <1>1, <1>3, <1>4 DEF t

LEMMA ConcatDistinct ==
  ASSUME NEW s \in Seq(Int), NEW t \in Seq(Int), Distinct(s), Distinct(t),
         Elements(s) \cap Elements(t) = {}
  PROVE  /\ s \o t \in Seq(Int) /\ Distinct(s \o t)
         /\ Elements(s \o t) = Elements(s) \cup Elements(t)
<1> DEFINE u == s \o t
<1>1. /\ Len(s) \in Nat /\ Len(t) \in Nat /\ DOMAIN s = 1 .. Len(s) /\ DOMAIN t = 1 .. Len(t)
      /\ DOMAIN u = 1 .. Len(s) + Len(t) /\ u \in Seq(Int)
      /\ \A i \in 1 .. Len(s) : u[i] = s[i]
      /\ \A i \in 1 .. Len(t) : u[Len(s) + i] = t[i]
  OBVIOUS
<1> HIDE DEF u
<1>2. ASSUME NEW i \in DOMAIN u
      PROVE  \/ i \in DOMAIN s /\ u[i] = s[i]
             \/ i - Len(s) \in DOMAIN t /\ u[i] = t[i - Len(s)]
  <2>1. CASE i <= Len(s)
    BY <1>1, <2>1
  <2>2. CASE i > Len(s)
    <3> DEFINE j == i - Len(s)
    <3>1. j \in 1 .. Len(t) /\ Len(s) + j = i
      BY <1>1, <2>2
    <3> QED
      BY <1>1, <3>1
  <2> QED
    BY <1>1, <2>1, <2>2
<1>3. Distinct(u)
  <2> SUFFICES ASSUME NEW i \in DOMAIN u, NEW j \in DOMAIN u, i # j, u[i] = u[j] PROVE FALSE
    BY DEF Distinct
  <2>1. i \in Nat /\ j \in Nat
    BY <1>1
  <2>2. CASE i \in DOMAIN s /\ u[i] = s[i]
    <3>1. ~ (j \in DOMAIN s /\ u[j] = s[j])
      BY <2>2 DEF Distinct
    <3>2. s[i] \in Elements(s) /\ s[i] \in Elements(t)
      BY <1>2, <2>2, <3>1 DEF Elements
    <3> QED
      BY <3>2
  <2>3. CASE i - Len(s) \in DOMAIN t /\ u[i] = t[i - Len(s)]
    <3>1. ~ (j - Len(s) \in DOMAIN t /\ u[j] = t[j - Len(s)])
      BY <1>1, <2>1, <2>3 DEF Distinct
    <3>2. t[i - Len(s)] \in Elements(s) /\ t[i - Len(s)] \in Elements(t)
      BY <1>2, <2>3, <3>1 DEF Elements
    <3> QED
      BY <3>2
  <2> QED
    BY <1>2, <2>2, <2>3
<1>4. Elements(u) = Elements(s) \cup Elements(t)
  <2>1. Elements(u) \subseteq Elements(s) \cup Elements(t)
    BY <1>2 DEF Elements
  <2>2. Elements(s) \subseteq Elements(u)
    BY <1>1 DEF Elements
  <2>3. ASSUME NEW i \in DOMAIN t PROVE t[i] \in Elements(u)
    <3>1. Len(s) + i \in DOMAIN u /\ u[Len(s) + i] = t[i]
      BY <1>1
    <3> QED
      BY <3>1 DEF Elements
  <2>4. Elements(t) \subseteq Elements(u)
    BY <2>3 DEF Elements
  <2> QED
    BY <2>1, <2>2, <2>4
<1> QED
  BY <1>1, <1>3, <1>4 DEF u

(* A packet has one slot, and so one place after reorder_value.            *)
LEMMA OnePlace ==
  ASSUME NEW N \in Nat, NEW b, BufType(b, N), Loaded(b),
         NEW i \in 0 .. QUEUE_SIZE - 1, NEW j \in 0 .. QUEUE_SIZE - 1,
         At(b.slot, b.value, i) # NoPkt, At(b.slot, b.value, i) = At(b.slot, b.value, j)
  PROVE  i = j
<1>1. /\ b.value \in Int /\ b.value + i \in Int /\ b.value + j \in Int /\ i \in Int /\ j \in Int
      /\ QUEUE_SIZE \in Nat
  BY QueueSizeAssumption DEF BufType
<1>2. QID(b.value + i) \in Slots /\ QID(b.value + j) \in Slots
  BY <1>1, QIDType
<1>3. QID(b.value + i) = QID(b.value + j)
  BY <1>2 DEF At, Loaded, IsPkt
<1>4. ~ (b.value + i < b.value + j)
  BY <1>1, <1>3, QIDApart
<1>5. ~ (b.value + j < b.value + i)
  BY <1>1, <1>3, QIDApart
<1> QED
  BY <1>1, <1>4, <1>5

(* Dequeue_PacketQueue passes on what it removes.                          *)
LEMMA DequeueConserves ==
  ASSUME NEW N \in Nat, NEW b, BufType(b, N), Loaded(b)
  PROVE  LET d == Dequeue_PacketQueue(b)
         IN  /\ d.out \in Seq(Int) /\ Distinct(d.out)
             /\ Elements(d.out) \cup Buffered(d.buf.slot) = Buffered(b.slot)
             /\ Elements(d.out) \cap Buffered(d.buf.slot) = {}
<1> DEFINE n == RunLength(b.slot, b.value)
           taken == {QID(b.value + i) : i \in 0 .. n - 1}
           rest == [k \in Slots |-> IF k \in taken THEN NoPkt ELSE b.slot[k]]
           out == [i \in 1 .. n |-> At(b.slot, b.value, i - 1)]
           d == Dequeue_PacketQueue(b)
<1>1. /\ b.value \in Int /\ b.slot \in [Slots -> {NoPkt} \cup 1 .. N]
      /\ QUEUE_SIZE \in Nat \ {0}
  BY QueueSizeAssumption DEF BufType
<1>2. n \in 0 .. QUEUE_SIZE /\ IsRun(b.slot, b.value, n)
  BY RunLengthIsRun
<1>3. d.buf.slot = rest /\ d.out = out
  BY DEF Dequeue_PacketQueue
<1> HIDE DEF n, d
<1>4. ASSUME NEW i \in 0 .. n - 1
      PROVE  /\ i \in 0 .. QUEUE_SIZE - 1 /\ QID(b.value + i) \in Slots
             /\ At(b.slot, b.value, i) \in 1 .. N /\ At(b.slot, b.value, i) # NoPkt
             /\ At(b.slot, b.value, i) = b.slot[QID(b.value + i)]
  <2>1. i \in 0 .. QUEUE_SIZE - 1 /\ At(b.slot, b.value, i) # NoPkt
    BY <1>1, <1>2 DEF IsRun
  <2>2. QID(b.value + i) \in Slots
    BY <1>1, <2>1, QIDType
  <2> QED
    BY <2>1, <2>2, LoadedAt DEF At
<1>5. /\ DOMAIN out = 1 .. n /\ \A i \in 1 .. n : i - 1 \in 0 .. n - 1
      /\ \A i \in 1 .. n : out[i] = At(b.slot, b.value, i - 1)
  BY <1>2
<1>6. out \in Seq(Int)
  BY <1>2, <1>4, <1>5
<1> HIDE DEF out
<1>7. Distinct(out)
  <2> SUFFICES ASSUME NEW i \in 1 .. n, NEW j \in 1 .. n, out[i] = out[j] PROVE i = j
    BY <1>5 DEF Distinct
  <2>1. i - 1 = j - 1
    BY <1>4, <1>5, OnePlace
  <2> QED
    BY <1>2, <2>1
<1>8. Elements(out) \subseteq Buffered(b.slot) \ Buffered(rest)
  <2> SUFFICES ASSUME NEW i \in 1 .. n PROVE out[i] \in Buffered(b.slot) /\ out[i] \notin Buffered(rest)
    BY <1>5 DEF Elements
  <2> DEFINE q == QID(b.value + (i - 1))
  <2>1. out[i] = b.slot[q] /\ q \in Slots /\ q \in taken /\ out[i] # NoPkt
    BY <1>4, <1>5
  <2>2. ASSUME NEW k \in Slots, rest[k] = out[i] PROVE FALSE
    <3>1. k \notin taken /\ b.slot[k] = b.slot[q] /\ b.slot[k] # NoPkt
      BY <2>1, <2>2
    <3>2. k = QID(b.slot[k]) /\ q = QID(b.slot[q])
      BY <2>1, <3>1 DEF Loaded, IsPkt
    <3> QED
      BY <2>1, <3>1, <3>2
  <2> QED
    BY <2>1, <2>2 DEF Buffered
<1>9. Buffered(b.slot) \subseteq Elements(out) \cup Buffered(rest)
  <2> SUFFICES ASSUME NEW k \in Slots, b.slot[k] # NoPkt
               PROVE  b.slot[k] \in Elements(out) \cup Buffered(rest)
    BY DEF Buffered
  <2>1. CASE k \in taken
    <3>1. PICK i \in 0 .. n - 1 : k = QID(b.value + i)
      BY <2>1
    <3>2. i + 1 \in 1 .. n /\ (i + 1) - 1 = i
      BY <1>2
    <3>3. out[i + 1] = At(b.slot, b.value, i)
      BY <1>5, <3>2
    <3>4. out[i + 1] = b.slot[k]
      BY <1>4, <3>1, <3>3
    <3> QED
      BY <1>5, <3>2, <3>4 DEF Elements
  <2>2. CASE k \notin taken
    BY <2>2 DEF Buffered
  <2> QED
    BY <2>1, <2>2
<1>10. Buffered(rest) \subseteq Buffered(b.slot)
  BY DEF Buffered
<1> HIDE DEF rest
<1>11. /\ d.out \in Seq(Int) /\ Distinct(d.out)
       /\ Elements(d.out) \cup Buffered(d.buf.slot) = Buffered(b.slot)
       /\ Elements(d.out) \cap Buffered(d.buf.slot) = {}
  BY <1>3, <1>6, <1>7, <1>8, <1>9, <1>10
<1> QED
  BY <1>11 DEF d

(***************************************************************************)
(* The rounds of the flush: f[i] is what the first i rounds pass on.       *)
(***************************************************************************)
Round(slot, value, s, i) ==
  IF IsPkt(At(slot, value, i)) THEN Append(s, At(slot, value, i)) ELSE s

Rounds(f, slot, value, n) ==
  /\ f \in [0 .. n -> Seq(Int)]
  /\ f[0] = << >>
  /\ \A i \in 1 .. n : f[i] = Round(slot, value, f[i - 1], i - 1)

LEMMA RoundsExist ==
  ASSUME NEW slot, NEW value, \A i \in 0 .. QUEUE_SIZE - 1 : At(slot, value, i) \in Int
  PROVE  \E f : Rounds(f, slot, value, QUEUE_SIZE)
<1> DEFINE S == {n \in 0 .. QUEUE_SIZE : ~ \E f : Rounds(f, slot, value, n)}
<1>1. QUEUE_SIZE \in Nat
  BY QueueSizeAssumption
<1>2. S \in SUBSET Nat
  BY <1>1
<1>3. \A n : n \in S <=> n \in 0 .. QUEUE_SIZE /\ ~ \E f : Rounds(f, slot, value, n)
  OBVIOUS
<1> HIDE DEF S
<1>4. S = {}
  <2> SUFFICES ASSUME S # {} PROVE FALSE
    OBVIOUS
  <2>1. PICK n \in S : \A m \in S : n <= m
    BY <1>2, LeastNatural
  <2>2. n \in 0 .. QUEUE_SIZE /\ ~ \E f : Rounds(f, slot, value, n)
    BY <1>3, <2>1
  <2>3. CASE n = 0
    <3>1. Rounds([i \in 0 .. 0 |-> << >>], slot, value, 0)
      BY DEF Rounds
    <3> QED
      BY <2>2, <2>3, <3>1
  <2>4. CASE n # 0
    <3>1. n - 1 \in 0 .. QUEUE_SIZE /\ n - 1 < n /\ n \in Nat
      BY <1>1, <2>2, <2>4
    <3>2. n - 1 \notin S
      BY <2>1, <3>1
    <3>3. PICK f : Rounds(f, slot, value, n - 1)
      BY <1>3, <3>1, <3>2
    <3> DEFINE last == Round(slot, value, f[n - 1], n - 1)
               g == [i \in 0 .. n |-> IF i = n THEN last ELSE f[i]]
    <3>4. f \in [0 .. n - 1 -> Seq(Int)] /\ f[n - 1] \in Seq(Int) /\ f[0] = << >>
      BY <2>4, <3>1, <3>3 DEF Rounds
    <3>5. last \in Seq(Int)
      <4>1. At(slot, value, n - 1) \in Int
        BY <1>1, <2>2, <2>4
      <4> QED
        BY <3>4, <4>1 DEF Round
    <3> HIDE DEF last
    <3>6. g \in [0 .. n -> Seq(Int)] /\ g[n] = last /\ g[0] = << >>
      BY <2>4, <3>1, <3>4, <3>5
    <3>7. \A i \in 0 .. n - 1 : g[i] = f[i]
      BY <3>1
    <3> HIDE DEF g
    <3>8. ASSUME NEW i \in 1 .. n PROVE g[i] = Round(slot, value, g[i - 1], i - 1)
      <4>1. CASE i = n
        <5>1. g[n - 1] = f[n - 1]
          BY <2>4, <3>1, <3>7
        <5> QED
          BY <3>6, <4>1, <5>1 DEF last
      <4>2. CASE i # n
        <5>1. i \in 1 .. n - 1 /\ i \in 0 .. n - 1 /\ i - 1 \in 0 .. n - 1
          BY <3>1, <4>2
        <5>2. f[i] = Round(slot, value, f[i - 1], i - 1)
          BY <3>3, <5>1 DEF Rounds
        <5> QED
          BY <3>7, <5>1, <5>2
      <4> QED
        BY <4>1, <4>2
    <3>9. Rounds(g, slot, value, n)
      BY <3>6, <3>8 DEF Rounds
    <3> QED
      BY <2>2, <3>9
  <2> QED
    BY <2>3, <2>4
<1>5. QUEUE_SIZE \in 0 .. QUEUE_SIZE /\ QUEUE_SIZE \notin S
  BY <1>1, <1>4
<1> QED
  BY <1>3, <1>5

LEMMA FlushedRounds ==
  ASSUME NEW slot, NEW value, \A i \in 0 .. QUEUE_SIZE - 1 : At(slot, value, i) \in Int
  PROVE  \E f : /\ f[0] = << >>
                /\ \A i \in 1 .. QUEUE_SIZE : f[i] = Round(slot, value, f[i - 1], i - 1)
                /\ Flushed(slot, value) = f[QUEUE_SIZE]
<1> DEFINE Body(g) == [i \in 0 .. QUEUE_SIZE |->
                         IF i = 0 THEN << >>
                         ELSE IF IsPkt(At(slot, value, i - 1))
                              THEN Append(g[i - 1], At(slot, value, i - 1))
                              ELSE g[i - 1]]
           out == CHOOSE g : g = Body(g)
<1>1. QUEUE_SIZE \in Nat
  BY QueueSizeAssumption
<1>2. PICK f : Rounds(f, slot, value, QUEUE_SIZE)
  BY RoundsExist
<1>3. f = Body(f)
  <2>1. f \in [0 .. QUEUE_SIZE -> Seq(Int)] /\ f[0] = << >>
    BY <1>2 DEF Rounds
  <2>2. ASSUME NEW i \in 0 .. QUEUE_SIZE, i # 0
        PROVE  f[i] = IF IsPkt(At(slot, value, i - 1))
                      THEN Append(f[i - 1], At(slot, value, i - 1)) ELSE f[i - 1]
    <3>1. i \in 1 .. QUEUE_SIZE
      BY <1>1, <2>2
    <3> QED
      BY <1>2, <3>1 DEF Rounds, Round
  <2> QED
    BY <2>1, <2>2
<1>4. out = Body(out)
  BY <1>3
<1>5. Flushed(slot, value) = out[QUEUE_SIZE]
  BY DEF Flushed
<1> HIDE DEF out
<1>6. out[0] = << >>
  BY <1>1, <1>4
<1>7. ASSUME NEW i \in 1 .. QUEUE_SIZE
      PROVE  out[i] = Round(slot, value, out[i - 1], i - 1)
  <2>1. i \in 0 .. QUEUE_SIZE /\ i # 0
    BY <1>1
  <2>2. out[i] = Body(out)[i]
    BY <1>4
  <2> QED
    BY <2>1, <2>2 DEF Round
<1> QED
  BY <1>5, <1>6, <1>7

(* What is found in the first n places after reorder_value.                *)
Places(slot, value, n) == {At(slot, value, i) : i \in 0 .. n - 1} \ {NoPkt}

Lists(s, S) == s \in Seq(Int) /\ Distinct(s) /\ Elements(s) = S

LEMMA RoundLists ==
  ASSUME NEW N \in Nat, NEW b, BufType(b, N), Loaded(b),
         NEW n \in 1 .. QUEUE_SIZE, NEW s, Lists(s, Places(b.slot, b.value, n - 1))
  PROVE  Lists(Round(b.slot, b.value, s, n - 1), Places(b.slot, b.value, n))
<1> DEFINE x == At(b.slot, b.value, n - 1)
           P == Places(b.slot, b.value, n - 1)
           Q == Places(b.slot, b.value, n)
<1>1. QUEUE_SIZE \in Nat /\ n - 1 \in 0 .. QUEUE_SIZE - 1 /\ n \in Nat
  BY QueueSizeAssumption
<1>2. \A i \in 0 .. n - 1 : i = n - 1 \/ i \in 0 .. (n - 1) - 1
  BY <1>1
<1>3. \A i \in 0 .. (n - 1) - 1 : i \in 0 .. n - 1 /\ i # n - 1 /\ i \in 0 .. QUEUE_SIZE - 1
  BY <1>1
<1>4. n - 1 \in 0 .. n - 1
  BY <1>1
<1>5. Q = (P \cup {x}) \ {NoPkt} /\ NoPkt \notin P
  BY <1>2, <1>3, <1>4 DEF Places
<1>6. s \in Seq(Int) /\ Distinct(s) /\ Elements(s) = P
  BY DEF Lists
<1>7. CASE ~ IsPkt(x)
  <2>1. Q = P
    BY <1>5, <1>7 DEF IsPkt
  <2> QED
    BY <1>6, <1>7, <2>1 DEF Round, Lists
<1>8. CASE IsPkt(x)
  <2>1. x # NoPkt
    BY <1>8 DEF IsPkt
  <2>2. x \in Int
    BY <1>1, <2>1, LoadedAt
  <2>3. x \notin P
    <3> SUFFICES ASSUME NEW i \in 0 .. (n - 1) - 1, At(b.slot, b.value, i) = x PROVE FALSE
      BY DEF Places
    <3>1. i = n - 1
      BY <1>1, <1>3, <2>1, OnePlace
    <3> QED
      BY <1>3, <3>1
  <2> HIDE DEF x, P
  <2>4. /\ Append(s, x) \in Seq(Int) /\ Distinct(Append(s, x))
        /\ Elements(Append(s, x)) = P \cup {x}
    BY <1>6, <2>2, <2>3, AppendDistinct
  <2>5. Elements(Append(s, x)) = Q
    BY <1>5, <2>1, <2>4
  <2> QED
    BY <1>8, <2>4, <2>5 DEF Round, Lists, x
<1> QED
  BY <1>7, <1>8

(* The buffer's packets are those found from reorder_value on.             *)
LEMMA AllPlaces ==
  ASSUME NEW N \in Nat, NEW b, BufType(b, N), Loaded(b)
  PROVE  Places(b.slot, b.value, QUEUE_SIZE) = Buffered(b.slot)
<1>1. /\ b.value \in Int /\ b.slot \in [Slots -> {NoPkt} \cup 1 .. N]
      /\ QUEUE_SIZE \in Nat \ {0}
  BY QueueSizeAssumption DEF BufType
<1>2. Places(b.slot, b.value, QUEUE_SIZE) \subseteq Buffered(b.slot)
  <2> SUFFICES ASSUME NEW i \in 0 .. QUEUE_SIZE - 1 PROVE QID(b.value + i) \in Slots
    BY DEF Places, Buffered, At
  <2> QED
    BY <1>1, QIDType
<1>3. Buffered(b.slot) \subseteq Places(b.slot, b.value, QUEUE_SIZE)
  <2> SUFFICES ASSUME NEW k \in Slots, b.slot[k] # NoPkt
               PROVE  \E i \in 0 .. QUEUE_SIZE - 1 : b.slot[k] = At(b.slot, b.value, i)
    BY DEF Places, Buffered
  <2> DEFINE x == b.slot[k]
  <2>1. QID(x) = k /\ b.value <= x /\ x <= b.value + QUEUE_SIZE /\ x \in Int
    BY <1>1 DEF Loaded, IsPkt
  <2>2. CASE x = b.value + QUEUE_SIZE
    <3>1. QID(b.value + 0) = k /\ 0 \in 0 .. QUEUE_SIZE - 1
      BY <1>1, <2>1, <2>2, QIDWrap
    <3> QED
      BY <3>1 DEF At
  <2>3. CASE x # b.value + QUEUE_SIZE
    <3> DEFINE i == x - b.value
    <3>1. b.value + i = x /\ i \in 0 .. QUEUE_SIZE - 1
      BY <1>1, <2>1, <2>3
    <3> QED
      BY <2>1, <3>1 DEF At
  <2> QED
    BY <2>2, <2>3
<1> QED
  BY <1>2, <1>3

(* The flush passes on every buffered packet once.                         *)
LEMMA FlushedAll ==
  ASSUME NEW N \in Nat, NEW b, BufType(b, N), Loaded(b)
  PROVE  Lists(Flushed(b.slot, b.value), Buffered(b.slot))
<1>1. QUEUE_SIZE \in Nat
  BY QueueSizeAssumption
<1>2. \A i \in 0 .. QUEUE_SIZE - 1 : At(b.slot, b.value, i) \in Int
  <2> TAKE i \in 0 .. QUEUE_SIZE - 1
  <2>1. b.value + i \in Int /\ b.slot \in [Slots -> {NoPkt} \cup 1 .. N]
    BY <1>1 DEF BufType
  <2> QED
    BY <2>1, QIDType DEF At, NoPkt
<1>3. PICK f : /\ f[0] = << >>
               /\ \A i \in 1 .. QUEUE_SIZE : f[i] = Round(b.slot, b.value, f[i - 1], i - 1)
               /\ Flushed(b.slot, b.value) = f[QUEUE_SIZE]
  BY <1>2, FlushedRounds
<1> DEFINE S == {n \in 0 .. QUEUE_SIZE : ~ Lists(f[n], Places(b.slot, b.value, n))}
<1>4. S \in SUBSET Nat
  BY <1>1
<1>5. \A n : n \in S <=> n \in 0 .. QUEUE_SIZE /\ ~ Lists(f[n], Places(b.slot, b.value, n))
  OBVIOUS
<1> HIDE DEF S
<1>6. S = {}
  <2> SUFFICES ASSUME S # {} PROVE FALSE
    OBVIOUS
  <2>1. PICK n \in S : \A m \in S : n <= m
    BY <1>4, LeastNatural
  <2>2. n \in 0 .. QUEUE_SIZE /\ ~ Lists(f[n], Places(b.slot, b.value, n))
    BY <1>5, <2>1
  <2>3. CASE n = 0
    <3>1. Places(b.slot, b.value, 0) = {}
      BY DEF Places
    <3>2. Lists(<< >>, {})
      BY DEF Lists, Distinct, Elements
    <3> QED
      BY <1>3, <2>2, <2>3, <3>1, <3>2
  <2>4. CASE n # 0
    <3>1. n \in 1 .. QUEUE_SIZE /\ n - 1 \in 0 .. QUEUE_SIZE /\ n - 1 < n
      BY <1>1, <2>2, <2>4
    <3>2. n - 1 \notin S
      BY <2>1, <3>1
    <3>3. Lists(f[n - 1], Places(b.slot, b.value, n - 1))
      BY <1>5, <3>1, <3>2
    <3>4. Lists(Round(b.slot, b.value, f[n - 1], n - 1), Places(b.slot, b.value, n))
      BY <3>1, <3>3, RoundLists
    <3> QED
      BY <1>3, <2>2, <3>1, <3>4
  <2> QED
    BY <2>3, <2>4
<1>7. Lists(f[QUEUE_SIZE], Places(b.slot, b.value, QUEUE_SIZE))
  BY <1>1, <1>5, <1>6
<1> QED
  BY <1>3, <1>7, AllPlaces

(* The packets of the set all are divided, each once, into those passed on *)
(* and those held.                                                         *)
Splits(out, held, all) ==
  /\ out \in Seq(Int) /\ Distinct(out)
  /\ Elements(out) \cup held = all
  /\ Elements(out) \cap held = {}

LEMMA EnqueueConserves ==
  ASSUME NEW N \in Nat, N < WORD - QUEUE_SIZE,
         NEW b, BufType(b, N), Settled(b),
         NEW seq \in 1 .. N, seq \notin Buffered(b.slot)
  PROVE  LET e == Enqueue_PacketQueue(b, seq)
         IN  Splits(e.out, Buffered(e.buf.slot), Buffered(b.slot) \cup {seq})
<1> DEFINE e == Enqueue_PacketQueue(b, seq)
           q == QID(seq)
<1>1. q \in Slots /\ seq \in Int /\ seq # NoPkt
  BY QIDType DEF NoPkt
<1>2. /\ b.value \in 1 .. N + 1
      /\ b.slot \in [Slots -> {NoPkt} \cup 1 .. N]
  BY DEF BufType
<1>3. CASE Full(seq, b.value)
  <2> DEFINE new == [k \in Slots |-> IF k = q THEN seq ELSE NoPkt]
  <2>1. e.buf.slot = new /\ e.out = Flushed(b.slot, b.value)
    BY <1>1, <1>3 DEF Enqueue_PacketQueue, Flush
  <2>2. Loaded(b)
    <3> SUFFICES ASSUME NEW k \in Slots, IsPkt(b.slot[k])
                 PROVE  /\ QID(b.slot[k]) = k
                        /\ b.value <= b.slot[k]
                        /\ b.slot[k] <= b.value + QUEUE_SIZE
      BY DEF Loaded
    <3>1. b.slot[k] \in Int
      BY <1>2 DEF NoPkt
    <3> QED
      BY <1>2, <3>1, QueueSizeAssumption DEF Settled
  <2>3. Lists(e.out, Buffered(b.slot))
    BY <2>1, <2>2, FlushedAll
  <2>4. Buffered(new) = {seq}
    BY <1>1 DEF Buffered
  <2> HIDE DEF e, new
  <2>5. Splits(e.out, Buffered(e.buf.slot), Buffered(b.slot) \cup {seq})
    BY <2>1, <2>3, <2>4 DEF Lists, Splits
  <2> QED
    BY <2>5 DEF e
<1>4. CASE ~ Full(seq, b.value)
  <2> DEFINE new == [b.slot EXCEPT ![q] = seq]
  <2>1. b.slot[q] = NoPkt
    BY <1>4, EnqueueFindsRoom
  <2>2. e = [buf  |-> [value |-> b.value, slot |-> new], out |-> << >>, leak |-> {}]
    BY <1>4, EnqueueNotFull
  <2>3. Buffered(new) = Buffered(b.slot) \cup {seq}
    <3>1. Buffered(new) \subseteq Buffered(b.slot) \cup {seq}
      BY <1>1, <1>2 DEF Buffered
    <3>2. seq \in Buffered(new)
      BY <1>1, <1>2 DEF Buffered
    <3>3. ASSUME NEW k \in Slots, b.slot[k] # NoPkt PROVE b.slot[k] \in Buffered(new)
      <4>1. k # q /\ new[k] = b.slot[k]
        BY <1>2, <2>1, <3>3
      <4> QED
        BY <3>3, <4>1 DEF Buffered
    <3>4. Buffered(b.slot) \subseteq Buffered(new)
      BY <3>3 DEF Buffered
    <3> QED
      BY <3>1, <3>2, <3>4
  <2>4. << >> \in Seq(Int) /\ Distinct(<< >>) /\ Elements(<< >>) = {}
    BY DEF Distinct, Elements
  <2> HIDE DEF e, new
  <2>5. e.out = << >> /\ e.buf.slot = new
    BY <2>2
  <2>6. Splits(e.out, Buffered(e.buf.slot), Buffered(b.slot) \cup {seq})
    BY <2>3, <2>4, <2>5 DEF Splits
  <2> QED
    BY <2>6 DEF e
<1> QED
  BY <1>3, <1>4

(* reorder() passes on or keeps each packet, and no packet twice.          *)
LEMMA ReorderConserves ==
  ASSUME NEW N \in Nat, N < WORD - QUEUE_SIZE,
         NEW b, BufType(b, N), Settled(b),
         NEW seq \in 1 .. N, seq \notin Buffered(b.slot)
  PROVE  LET r == reorder(b, seq)
         IN  Splits(r.out, Buffered(r.buf.slot), Buffered(b.slot) \cup {seq})
<1> DEFINE e == Enqueue_PacketQueue(b, seq)
           d == Dequeue_PacketQueue(e.buf)
           r == reorder(b, seq)
<1>1. BufType(e.buf, N) /\ Loaded(e.buf)
  BY EnqueueLoads
<1>2. Splits(e.out, Buffered(e.buf.slot), Buffered(b.slot) \cup {seq})
  BY EnqueueConserves
<1>3. /\ d.out \in Seq(Int) /\ Distinct(d.out)
      /\ Elements(d.out) \cup Buffered(d.buf.slot) = Buffered(e.buf.slot)
      /\ Elements(d.out) \cap Buffered(d.buf.slot) = {}
  BY <1>1, DequeueConserves
<1>4. r.buf = d.buf /\ r.out = e.out \o d.out
  BY DEF reorder
<1> HIDE DEF e, d, r
<1>5. /\ e.out \in Seq(Int) /\ Distinct(e.out)
      /\ Elements(e.out) \cup Buffered(e.buf.slot) = Buffered(b.slot) \cup {seq}
      /\ Elements(e.out) \cap Buffered(e.buf.slot) = {}
  BY <1>2 DEF Splits
<1>6. Elements(e.out) \cap Elements(d.out) = {}
  BY <1>3, <1>5
<1>7. /\ e.out \o d.out \in Seq(Int) /\ Distinct(e.out \o d.out)
      /\ Elements(e.out \o d.out) = Elements(e.out) \cup Elements(d.out)
  BY <1>3, <1>5, <1>6, ConcatDistinct
<1>8. Splits(r.out, Buffered(r.buf.slot), Buffered(b.slot) \cup {seq})
  BY <1>3, <1>4, <1>5, <1>7 DEF Splits
<1> QED
  BY <1>8 DEF r

(***************************************************************************)
(* The inductive invariant behind Conserved: the four places a packet can  *)
(* be in are pairwise disjoint and hold the packets sent between them, and *)
(* no packet occurs twice in what was passed on.                           *)
(***************************************************************************)
Partitioned(I, L, B, D, All) ==
  /\ I \cup L \cup B \cup D = All
  /\ I \cap L = {} /\ I \cap B = {} /\ I \cap D = {}
  /\ L \cap B = {} /\ L \cap D = {} /\ B \cap D = {}

Once ==
  /\ Safe
  /\ delivered \in Seq(Int) /\ Distinct(delivered)
  /\ Partitioned(inflight, lost, Buffered(buf.slot), Elements(delivered), 1 .. sequence)

LEMMA OnceInit == Init => Once
<1> SUFFICES ASSUME Init PROVE Once
  OBVIOUS
<1>1. Safe
  BY SafeInit
<1>2. Buffered(buf.slot) = {}
  BY DEF Init, Init_PacketQueue, Buffered
<1>3. delivered \in Seq(Int) /\ Distinct(delivered) /\ Elements(delivered) = {}
  BY DEF Init, Distinct, Elements
<1>4. 1 .. sequence = {} /\ inflight = {} /\ lost = {}
  BY DEF Init
<1> QED
  BY <1>1, <1>2, <1>3, <1>4 DEF Once, Partitioned

LEMMA OnceArrive == ASSUME Once, NEW seq \in inflight, Arrive(seq) PROVE Once'
<1>1. Safe /\ Safe'
  BY SafeArrive DEF Once
<1>2. PICK r : r = reorder(buf, seq)
  OBVIOUS
<1>3. /\ sequence \in Nat /\ sequence < WORD - QUEUE_SIZE
      /\ BufType(buf, sequence) /\ Settled(buf)
      /\ seq \in 1 .. sequence /\ seq \notin Buffered(buf.slot)
  BY <1>1, SafeBuffer
<1>4. Splits(r.out, Buffered(r.buf.slot), Buffered(buf.slot) \cup {seq})
  BY <1>2, <1>3, ReorderConserves
<1>5. /\ buf' = r.buf /\ delivered' = delivered \o r.out
      /\ inflight' = inflight \ {seq} /\ sequence' = sequence /\ lost' = lost
  BY <1>2 DEF Arrive
<1>6. /\ r.out \in Seq(Int) /\ Distinct(r.out)
      /\ Elements(r.out) \cup Buffered(r.buf.slot) = Buffered(buf.slot) \cup {seq}
      /\ Elements(r.out) \cap Buffered(r.buf.slot) = {}
  BY <1>4 DEF Splits
<1>7. /\ delivered \in Seq(Int) /\ Distinct(delivered)
      /\ Partitioned(inflight, lost, Buffered(buf.slot), Elements(delivered), 1 .. sequence)
  BY DEF Once
<1>8. Elements(delivered) \cap Elements(r.out) = {}
  BY <1>6, <1>7 DEF Partitioned
<1>9. /\ delivered \o r.out \in Seq(Int) /\ Distinct(delivered \o r.out)
      /\ Elements(delivered \o r.out) = Elements(delivered) \cup Elements(r.out)
  BY <1>6, <1>7, <1>8, ConcatDistinct
<1>10. Partitioned(inflight \ {seq}, lost, Buffered(r.buf.slot),
               Elements(delivered) \cup Elements(r.out), 1 .. sequence)
  BY <1>6, <1>7 DEF Partitioned
<1>11. Partitioned(inflight', lost', Buffered(buf'.slot), Elements(delivered'), 1 .. sequence')
  BY <1>5, <1>9, <1>10
<1> QED
  BY <1>1, <1>5, <1>9, <1>11 DEF Once

LEMMA OnceNext == Once /\ [Next]_vars => Once'
<1> SUFFICES ASSUME Once, [Next]_vars PROVE Once'
  OBVIOUS
<1>1. Safe /\ Safe'
  BY SafeNext DEF Once
<1>2. Partitioned(inflight, lost, Buffered(buf.slot), Elements(delivered), 1 .. sequence)
  BY DEF Once
<1>3. CASE Send
  <2>1. sequence \in Nat
    BY <1>1, SafeBuffer
  <2>2. 1 .. sequence + 1 = (1 .. sequence) \cup {sequence + 1} /\ sequence + 1 \notin 1 .. sequence
    BY <2>1
  <2>3. Partitioned(inflight \cup {sequence + 1}, lost, Buffered(buf.slot), Elements(delivered),
                1 .. sequence + 1)
    BY <1>2, <2>2 DEF Partitioned
  <2>4. /\ buf' = buf /\ delivered' = delivered /\ lost' = lost
        /\ inflight' = inflight \cup {sequence + 1} /\ sequence' = sequence + 1
    BY <1>3 DEF Send
  <2>5. Partitioned(inflight', lost', Buffered(buf'.slot), Elements(delivered'), 1 .. sequence')
    BY <2>3, <2>4
  <2> QED
    BY <1>1, <2>4, <2>5 DEF Once
<1>4. CASE \E seq \in inflight : Arrive(seq)
  BY <1>4, OnceArrive
<1>5. ASSUME NEW seq \in inflight, Lose(seq) PROVE Once'
  <2>1. Partitioned(inflight \ {seq}, lost \cup {seq}, Buffered(buf.slot), Elements(delivered),
                1 .. sequence)
    BY <1>2 DEF Partitioned
  <2>2. /\ buf' = buf /\ delivered' = delivered /\ sequence' = sequence
        /\ inflight' = inflight \ {seq} /\ lost' = lost \cup {seq}
    BY <1>5 DEF Lose
  <2>3. Partitioned(inflight', lost', Buffered(buf'.slot), Elements(delivered'), 1 .. sequence')
    BY <2>1, <2>2
  <2> QED
    BY <1>1, <2>2, <2>3 DEF Once
<1>6. CASE UNCHANGED vars
  BY <1>1, <1>6 DEF vars, Once
<1> QED
  BY <1>3, <1>4, <1>5, <1>6 DEF Next

(* A sequence without repetitions has as many elements as places.          *)
LEMMA DistinctLength ==
  ASSUME NEW s \in Seq(Int), Distinct(s)
  PROVE  IsFiniteSet(Elements(s)) /\ Cardinality(Elements(s)) = Len(s)
<1>1. Len(s) \in Nat /\ DOMAIN s = 1 .. Len(s) /\ s = [i \in 1 .. Len(s) |-> s[i]]
  OBVIOUS
<1>2. s \in Bijection(1 .. Len(s), Elements(s))
  <2>1. s \in [1 .. Len(s) -> Elements(s)]
    BY <1>1 DEF Elements
  <2>2. s \in Injection(1 .. Len(s), Elements(s))
    BY <1>1, <2>1 DEF Injection, IsInjective, Distinct
  <2>3. s \in Surjection(1 .. Len(s), Elements(s))
    BY <1>1, <2>1 DEF Surjection, Elements
  <2> QED
    BY <2>2, <2>3 DEF Bijection
<1>3. ExistsBijection(1 .. Len(s), Elements(s))
  BY <1>2 DEF ExistsBijection
<1>4. 1 \in Int /\ Len(s) \in Int
  BY <1>1
<1>5. /\ IsFiniteSet(1 .. Len(s))
      /\ Cardinality(1 .. Len(s)) = IF 1 > Len(s) THEN 0 ELSE Len(s) - 1 + 1
  BY <1>4, FS_Interval, Zenon
<1>6. Cardinality(1 .. Len(s)) = Len(s)
  BY <1>1, <1>5
<1> QED
  BY <1>3, <1>5, <1>6, FS_Bijection

LEMMA Counted ==
  ASSUME NEW I, NEW L, NEW B, NEW D, NEW n \in Nat, Partitioned(I, L, B, D, 1 .. n)
  PROVE  /\ Cardinality(I) + Cardinality(L) + Cardinality(B) + Cardinality(D) = n
         /\ IsFiniteSet(D)
<1>1. /\ I \cup L \cup B \cup D = 1 .. n
      /\ I \cap L = {} /\ (I \cup L) \cap B = {} /\ (I \cup L \cup B) \cap D = {}
  BY DEF Partitioned
<1>2. 1 \in Int /\ n \in Int
  OBVIOUS
<1>3. IsFiniteSet(1 .. n) /\ Cardinality(1 .. n) = IF 1 > n THEN 0 ELSE n - 1 + 1
  BY <1>2, FS_Interval, Zenon
<1>4. Cardinality(1 .. n) = n
  BY <1>3
<1>5. IsFiniteSet(I) /\ IsFiniteSet(L) /\ IsFiniteSet(B) /\ IsFiniteSet(D)
  BY <1>1, <1>3, FS_Subset
<1>6. /\ Cardinality(I) \in Nat /\ Cardinality(L) \in Nat
      /\ Cardinality(B) \in Nat /\ Cardinality(D) \in Nat
  BY <1>5, FS_CardinalityType
<1>7. Cardinality({}) = 0
  BY FS_EmptySet
<1>8. /\ IsFiniteSet(I \cup L)
      /\ Cardinality(I \cup L) = Cardinality(I) + Cardinality(L) - Cardinality(I \cap L)
  BY <1>5, FS_Union
<1>9. /\ IsFiniteSet(I \cup L \cup B)
      /\ Cardinality(I \cup L \cup B)
           = Cardinality(I \cup L) + Cardinality(B) - Cardinality((I \cup L) \cap B)
  BY <1>5, <1>8, FS_Union
<1>10. Cardinality(I \cup L \cup B \cup D)
         = Cardinality(I \cup L \cup B) + Cardinality(D) - Cardinality((I \cup L \cup B) \cap D)
  BY <1>5, <1>9, FS_Union
<1>11. /\ Cardinality(I \cap L) = 0 /\ Cardinality((I \cup L) \cap B) = 0
       /\ Cardinality((I \cup L \cup B) \cap D) = 0
       /\ Cardinality(I \cup L \cup B \cup D) = n
  BY <1>1, <1>4, <1>7, Zenon
<1> QED
  BY <1>5, <1>6, <1>8, <1>9, <1>10, <1>11

(* No packet vanishes in reorder() and none is passed on twice: each       *)
(* packet the peer sent is under way, lost, buffered or passed on, and in  *)
(* one of these places only, whatever the order of arrival, with flushes   *)
(* of the full buffer and backward moves of reorder_value.                 *)
THEOREM ConservedTheorem == Spec => []Conserved
<1>1. Once => Conserved
  <2> SUFFICES ASSUME Once PROVE Conserved
    OBVIOUS
  <2>1. sequence \in Nat
    BY SafeBuffer DEF Once
  <2>2. /\ delivered \in Seq(Int) /\ Distinct(delivered)
        /\ Partitioned(inflight, lost, Buffered(buf.slot), Elements(delivered), 1 .. sequence)
    BY DEF Once
  <2>3. Cardinality(Elements(delivered)) = Len(delivered)
    BY <2>2, DistinctLength
  <2>4. Cardinality(inflight) + Cardinality(lost)
          + Cardinality(Buffered(buf.slot)) + Cardinality(Elements(delivered)) = sequence
    BY <2>1, <2>2, Counted
  <2> QED
    BY <2>2, <2>3, <2>4 DEF Conserved, Partitioned
<1> QED
  BY <1>1, OnceInit, OnceNext, PTL DEF Spec

-----------------------------------------------------------------------------
(***************************************************************************)
(* The stall after a loss.  A packet s in the buffer is after              *)
(* reorder_value, so that s + QUEUE_SIZE is too far for the buffer.        *)
(***************************************************************************)
LEMMA ConcatKeeps ==
  ASSUME NEW a \in Seq(Int), NEW b \in Seq(Int)
  PROVE  /\ a \o b \in Seq(Int)
         /\ Elements(a) \cup Elements(b) \subseteq Elements(a \o b)
<1>1. /\ a \o b \in Seq(Int)
      /\ \A i \in DOMAIN a : i \in DOMAIN (a \o b) /\ (a \o b)[i] = a[i]
      /\ \A i \in DOMAIN b : /\ Len(a) + i \in DOMAIN (a \o b)
                            /\ (a \o b)[Len(a) + i] = b[i]
  OBVIOUS
<1> QED
  BY <1>1 DEF Elements

(* A packet QUEUE_SIZE or more ahead of a buffered one flushes it.         *)
LEMMA FarArrivalFlushes ==
  ASSUME Once, NEW s \in Buffered(buf.slot), NEW t \in inflight,
         t >= s + QUEUE_SIZE, Arrive(t)
  PROVE  s \in Elements(delivered')
<1> DEFINE e == Enqueue_PacketQueue(buf, t)
           d == Dequeue_PacketQueue(e.buf)
           new == [k \in Slots |-> IF k = QID(t) THEN t ELSE NoPkt]
<1>1. /\ sequence \in Nat /\ sequence < WORD - QUEUE_SIZE
      /\ BufType(buf, sequence) /\ Settled(buf)
      /\ t \in 1 .. sequence /\ t \notin Buffered(buf.slot)
  BY SafeBuffer DEF Once
<1>2. buf.value \in 1 .. sequence + 1 /\ buf.slot \in [Slots -> {NoPkt} \cup 1 .. sequence]
  BY <1>1 DEF BufType
<1>3. QID(t) \in Slots /\ t # NoPkt /\ t # s
  BY <1>1, QIDType DEF NoPkt
<1>4. Full(t, buf.value)
  <2>1. PICK k \in Slots : s = buf.slot[k] /\ IsPkt(buf.slot[k])
    BY DEF Buffered, IsPkt
  <2>2. buf.value < s /\ s \in Int
    BY <1>1, <1>2, <2>1 DEF Settled, IsPkt
  <2>3. t - buf.value \notin 0 .. QUEUE_SIZE
    BY <1>1, <1>2, <2>2, QueueSizeAssumption
  <2> QED
    BY <1>1, <1>2, <2>3, FullMeaning
<1>5. e.buf.slot = new
  BY <1>3, <1>4 DEF Enqueue_PacketQueue, Flush
<1>6. Buffered(new) = {t}
  BY <1>3 DEF Buffered
<1>7. Splits(e.out, Buffered(e.buf.slot), Buffered(buf.slot) \cup {t})
  BY <1>1, EnqueueConserves
<1>8. BufType(e.buf, sequence) /\ Loaded(e.buf)
  BY <1>1, EnqueueLoads
<1>9. d.out \in Seq(Int)
  BY <1>1, <1>8, DequeueConserves
<1>10. reorder(buf, t).out = e.out \o d.out
  BY DEF reorder
<1> HIDE DEF e, d, new
<1>11. s \in Elements(e.out) /\ e.out \in Seq(Int)
  BY <1>3, <1>5, <1>6, <1>7 DEF Splits
<1>12. delivered' = delivered \o (e.out \o d.out) /\ delivered \in Seq(Int)
  BY <1>10 DEF Arrive, Once
<1>13. s \in Elements(e.out \o d.out) /\ e.out \o d.out \in Seq(Int)
  BY <1>9, <1>11, ConcatKeeps
<1> QED
  BY <1>12, <1>13, ConcatKeeps

(* A lost packet never stalls the node for longer than QUEUE_SIZE packets: *)
(* the arrival of packet t, by the flush of Enqueue_PacketQueue, passes on *)
(* everything in the buffer that is QUEUE_SIZE or more behind it.          *)
THEOREM StallEndsTheorem == Spec => StallEnds
<1> DEFINE A == \A s \in Buffered(buf.slot), t \in inflight :
                  /\ t >= s + QUEUE_SIZE
                  /\ t \notin inflight' \cup lost'
                  => s \in Elements(delivered')
<1>1. ASSUME Once, Next PROVE A
  <2> SUFFICES ASSUME NEW s \in Buffered(buf.slot), NEW t \in inflight,
                      t >= s + QUEUE_SIZE, t \notin inflight' \cup lost'
               PROVE  s \in Elements(delivered')
    OBVIOUS
  <2>1. Arrive(t)
    BY <1>1 DEF Next, Send, Arrive, Lose
  <2> QED
    BY <1>1, <2>1, FarArrivalFlushes
<1>2. Once /\ [Next]_vars => [A]_vars
  BY <1>1
<1> QED
  BY <1>2, OnceInit, OnceNext, PTL DEF Spec, StallEnds
=============================================================================

----------------------------- MODULE CLBReorder -----------------------------
(***************************************************************************)
(* The reorder buffer of one CLBProcessor, fed by its peer over paths that *)
(* reorder and lose packets.  The peer numbers its packets 1, 2, 3, ...    *)
(* (CLBProcessor::send, sequence += 1) and spreads them over virtual       *)
(* paths; each arriving packet is handed to reorder(), which passes zero   *)
(* or more packets on to the node.                                         *)
(***************************************************************************)
EXTENDS PacketQueue, FiniteSets

CONSTANTS
  MaxSeq,       \* bound: how many packets the peer sends
  MaxLoss       \* bound: how many of them the network may lose

ASSUME MaxSeqAssumption == MaxSeq \in Nat /\ MaxSeq < WORD - QUEUE_SIZE
ASSUME MaxLossAssumption == MaxLoss \in Nat

VARIABLES
  sequence,     \* the peer's packet counter
  inflight,     \* sequence numbers travelling on some path
  lost,         \* sequence numbers dropped on the way
  buf,          \* reorder_value and PacketQueue[]
  delivered,    \* history: packets passed on to the node, in order
  leaked,       \* history: packets dropped by the "qid conflit" branch
  inWindow      \* history: every arrival so far was one of the QUEUE_SIZE
                \* sequence numbers from reorder_value on

vars == <<sequence, inflight, lost, buf, delivered, leaked, inWindow>>

Elements(s) == {s[i] : i \in DOMAIN s}

Init ==
  /\ sequence = 0
  /\ inflight = {}
  /\ lost = {}
  /\ buf = Init_PacketQueue
  /\ delivered = << >>
  /\ leaked = {}
  /\ inWindow = TRUE

(* The peer's send(): sequence += 1; SN_HSN = sequence.                    *)
Send ==
  /\ sequence < MaxSeq
  /\ sequence' = sequence + 1
  /\ inflight' = inflight \cup {sequence + 1}
  /\ UNCHANGED <<lost, buf, delivered, leaked, inWindow>>

(* recv() hands the packet to reorder().                                   *)
Arrive(seq) ==
  LET r == reorder(buf, seq)
  IN  /\ seq \in inflight
      /\ inflight' = inflight \ {seq}
      /\ buf' = r.buf
      /\ delivered' = delivered \o r.out
      /\ leaked' = leaked \cup r.leak
      /\ inWindow' = (inWindow /\ seq - buf.value \in Slots)
      /\ UNCHANGED <<sequence, lost>>

(* A drop-tail queue on the path overflows.                                *)
Lose(seq) ==
  /\ seq \in inflight
  /\ Cardinality(lost) < MaxLoss
  /\ inflight' = inflight \ {seq}
  /\ lost' = lost \cup {seq}
  /\ UNCHANGED <<sequence, buf, delivered, leaked, inWindow>>

Next ==
  \/ Send
  \/ \E seq \in inflight : Arrive(seq)
  \/ \E seq \in inflight : Lose(seq)

Spec == Init /\ [][Next]_vars

(* A packet that the network does not lose arrives in the end.             *)
FairSpec == Spec /\ \A seq \in 1 .. MaxSeq : WF_vars(Arrive(seq))

-----------------------------------------------------------------------------
(* Types of the variables.  (What delivered holds is stated by Conserved.) *)
TypeOK ==
  /\ sequence \in 0 .. MaxSeq
  /\ inflight \subseteq 1 .. sequence
  /\ lost \subseteq 1 .. sequence
  /\ buf \in [value: 1 .. sequence + 1, slot: [Slots -> {NoPkt} \cup 1 .. sequence]]
  /\ leaked \subseteq 1 .. sequence
  /\ inWindow \in BOOLEAN

(* Between two calls of reorder() every buffered packet sits in its own    *)
(* slot and is one of the QUEUE_SIZE - 1 packets after reorder_value: the  *)
(* slot of reorder_value itself is free and no two candidates for a slot   *)
(* are in the buffer's range, whatever flushes and late packets did.       *)
Window ==
  \A k \in Slots : IsPkt(buf.slot[k]) =>
    /\ QID(buf.slot[k]) = k
    /\ buf.value < buf.slot[k]
    /\ buf.slot[k] < buf.value + QUEUE_SIZE

(* The "qid conflit" branch of Enqueue_PacketQueue, which would drop and   *)
(* leak the packet because reorder() ignores the -1, is never taken.       *)
NoConflict == leaked = {}

(* No packet vanishes and none is duplicated: each packet sent is in       *)
(* exactly one place, and none is passed on twice, also across flushes and *)
(* backward moves of reorder_value.                                        *)
Conserved ==
  /\ inflight \cup lost \cup Buffered(buf.slot) \cup Elements(delivered)
       = 1 .. sequence
  /\ Cardinality(inflight) + Cardinality(lost)
       + Cardinality(Buffered(buf.slot)) + Len(delivered) = sequence

(* While no arrival falls outside the QUEUE_SIZE numbers the buffer has    *)
(* room for, the node receives exactly 1, 2, 3, ... up to reorder_value-1. *)
InOrder == inWindow => delivered = [i \in 1 .. buf.value - 1 |-> i]

(* A packet is held back only for a reason: while arrivals stay in the     *)
(* window, a non-empty buffer means that packet reorder_value is still on  *)
(* its way or was lost.  (It follows from Window, Conserved and InOrder.)  *)
HeldForMissing ==
  inWindow /\ Buffered(buf.slot) # {} => buf.value \in inflight \cup lost

(* What ends the stall after a loss.  There is no timeout and the missing  *)
(* packet is never sent again: a packet s in the buffer waits for the test *)
(* of a full buffer in Enqueue_PacketQueue.  It is passed on at the latest *)
(* by the step in which packet s + QUEUE_SIZE or a later one arrives,      *)
(* whatever was lost and however flushes moved reorder_value.              *)
StallEnds ==
  [][\A s \in Buffered(buf.slot), t \in inflight :
       /\ t >= s + QUEUE_SIZE
       /\ t \notin inflight' \cup lost'
       => s \in Elements(delivered')]_vars

(* The abstract specification: a FIFO channel from the peer's send() to    *)
(* the node.  With no loss and all packets inside the window the paths and *)
(* the reorder buffer together implement it, liveness included.            *)
Channel == INSTANCE OrderedChannel WITH sent <- sequence
ImplementsChannel == Channel!FairSpec

(* Claimed by the comment "full of queue" (clb-processor.cc:1169) and by   *)
(* the buffer's purpose: what fits is put in order.  The packets that one  *)
(* call of reorder() passes on are in increasing order.                    *)
ReleasedInOrder ==
  [][\A i, j \in Len(delivered) + 1 .. Len(delivered') :
        i < j => delivered'[i] < delivered'[j]]_vars
=============================================================================

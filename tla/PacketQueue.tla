---------------------------- MODULE PacketQueue ----------------------------
(***************************************************************************)
(* The receiver's reorder buffer of CLBProcessor as pure operators:        *)
(* PacketQueue[], reorder_value, Enqueue_PacketQueue,                      *)
(* Dequeue_PacketQueue and reorder (clb/clb-processor.cc).                 *)
(*                                                                         *)
(* A slot of PacketQueue[] is abstracted to the sequence number of the     *)
(* packet it holds, or NoPkt when its flag is 0.  (The slot's seq and time *)
(* fields are written and never read.)  A buffer is a record               *)
(*     [value: reorder_value, slot: PacketQueue]                           *)
(***************************************************************************)
EXTENDS Integers, Sequences

CONSTANTS
  QUEUE_SIZE,   \* number of slots of PacketQueue[] (100000 in the code)
  WORD          \* 2^32: seq - reorder_value is computed in unsigned int

ASSUME QueueSizeAssumption == QUEUE_SIZE \in Nat \ {0}
ASSUME WordAssumption == WORD \in Nat /\ WORD > 2 * QUEUE_SIZE

NoPkt == -1     \* flag = 0; every sequence number is a natural number

Slots == 0 .. QUEUE_SIZE - 1

QID(x) == x % QUEUE_SIZE

(* The packet in the slot of sequence number value + i.                    *)
At(slot, value, i) == slot[QID(value + i)]

Buffered(slot) == {slot[k] : k \in Slots} \ {NoPkt}

IsPkt(x) == x # NoPkt

Init_PacketQueue == [value |-> 1, slot |-> [k \in Slots |-> NoPkt]]

(* Mutant: the buffer is believed twice as long as it is.                  *)
FullTooLate(seq, value) == (seq - value) % WORD > 2 * QUEUE_SIZE

(* Mutant: the last slot is never used.                                    *)
FullTooEarly(seq, value) == (seq - value) % WORD >= QUEUE_SIZE - 1

(* seq - reorder_value > QUEUE_SIZE: the subtraction wraps around, so a    *)
(* packet older than reorder_value is far ahead of it.                     *)
Full(seq, value) == (seq - value) % WORD > QUEUE_SIZE

(***************************************************************************)
(* The "full of queue" branch: every buffered packet is delivered, in slot *)
(* order from reorder_value on, and reorder_value jumps to seq.            *)
(***************************************************************************)
Flushed(slot, value) ==             \* the packets passed on, round by round
  LET out[i \in 0 .. QUEUE_SIZE] ==
        IF i = 0 THEN << >>
        ELSE IF IsPkt(At(slot, value, i - 1))
             THEN Append(out[i - 1], At(slot, value, i - 1))
             ELSE out[i - 1]
  IN  out[QUEUE_SIZE]

FlushKeepingFlags(buf, seq) ==      \* Mutant: flag = 0 is forgotten
  [buf |-> [value |-> seq, slot |-> buf.slot], out |-> Flushed(buf.slot, buf.value)]

FlushSilently(buf, seq) ==          \* Mutant: the packets are not passed on
  [buf |-> [value |-> seq, slot |-> [k \in Slots |-> NoPkt]], out |-> << >>]

Flush(buf, seq) ==
  [buf |-> [value |-> seq, slot |-> [k \in Slots |-> NoPkt]],
   out |-> Flushed(buf.slot, buf.value)]

Enqueue_PacketQueue(buf, seq) ==
  LET f == IF Full(seq, buf.value) THEN Flush(buf, seq)
                                   ELSE [buf |-> buf, out |-> << >>]
      conflict == f.buf.slot[QID(seq)] # NoPkt
  IN  [buf  |-> IF conflict THEN f.buf      \* "qid conflit": p is dropped
                            ELSE [f.buf EXCEPT !.slot[QID(seq)] = seq],
       out  |-> f.out,
       leak |-> IF conflict THEN {seq} ELSE {}]

(***************************************************************************)
(* RunLength: how many consecutive slots from reorder_value on hold a      *)
(* packet.  The loop clears each slot it visits, so it ends after          *)
(* QUEUE_SIZE rounds at the latest.                                        *)
(***************************************************************************)
IsRun(slot, value, n) ==
  /\ \A i \in 0 .. n - 1 : At(slot, value, i) # NoPkt
  /\ n = QUEUE_SIZE \/ At(slot, value, n) = NoPkt

RunLength(slot, value) == CHOOSE n \in 0 .. QUEUE_SIZE : IsRun(slot, value, n)

DequeueOne(buf) ==                  \* Mutant: "if" in place of "while"
  LET head == buf.slot[QID(buf.value)]
  IN  IF head = NoPkt
      THEN [buf |-> buf, out |-> << >>]
      ELSE [buf |-> [value |-> buf.value + 1,
                     slot  |-> [buf.slot EXCEPT ![QID(buf.value)] = NoPkt]],
            out |-> <<head>>]

Dequeue_PacketQueue(buf) ==
  LET n == RunLength(buf.slot, buf.value)
      taken == {QID(buf.value + i) : i \in 0 .. n - 1}
  IN  [buf |-> [value |-> buf.value + n,
                slot  |-> [k \in Slots |-> IF k \in taken THEN NoPkt
                                                          ELSE buf.slot[k]]],
       out |-> [i \in 1 .. n |-> At(buf.slot, buf.value, i - 1)]]

(* reorder(p): the return code of Enqueue_PacketQueue is ignored.          *)
reorder(buf, seq) ==
  LET e == Enqueue_PacketQueue(buf, seq)
      d == Dequeue_PacketQueue(e.buf)
  IN  [buf |-> d.buf, out |-> e.out \o d.out, leak |-> e.leak]
=============================================================================

------------------------------ MODULE CLBQueue ------------------------------
(***************************************************************************)
(* CLBQueue (clb/clb-queue.cc), the link queue that keeps the packets of   *)
(* probe trains (burst_id > 0) apart: one FIFO queue per destination and   *)
(* virtual path, all served in turn before the common drop-tail queue q_.  *)
(* The caller is Queue (queue/queue.cc): recv() enqueues a packet and      *)
(* dequeues one if the link is idle, resume() dequeues when the link has   *)
(* sent its packet.                                                        *)
(*                                                                         *)
(* The loop of deque() walks the std::map bqMap with the iterator bqIt,    *)
(* which survives between calls, and is modelled round by round: whether   *)
(* it ends, and whether it has then seen every queue, is the question.     *)
(* A key of bqMap, the string "dst-vp", is abstracted to its rank in the   *)
(* map's order.                                                            *)
(***************************************************************************)
EXTENDS Integers, Sequences, FiniteSets

CONSTANTS
  KEYS,           \* number of destination-path pairs that are probed
  QLIM,           \* limit_, in packets (queue_in_bytes_ is false)
  ECN_THRESHOLD,  \* ecn_threshold_, positive
  Limits,         \* values that limit_ may be lowered to
  MaxPkts         \* bound: packets that reach the queue

ASSUME KeysAssumption == KEYS \in Nat
ASSUME LimitAssumption == QLIM \in Nat /\ Limits \subseteq Nat /\ ECN_THRESHOLD \in Nat \ {0}
ASSUME MaxPktsAssumption == MaxPkts \in Nat

Keys == 1 .. KEYS
End == KEYS + 1       \* bqMap.end()
Plain == 0            \* the key of packets outside of a train

VARIABLES
  bqMap,        \* the probe queues: a function on the keys seen so far
  bqIt,         \* iterator into bqMap: whose turn it is
  q_,           \* the common queue
  qlim_,        \* its limit
  drop_front_,  \* whether it drops from the front (set by the script)
  blocked_,     \* the link is sending
  pc,           \* "idle", or "deque" while the loop of deque() runs
  tmpIt,        \* bqIt when deque() was called
  arrived,      \* number of packets that reached the queue
  departed,     \* history: packets passed on to the link
  dropped,      \* history: packets dropped
  passed        \* history: passed[k][j] packets of j departed since k's
                \* queue became non-empty or was last served

vars == <<bqMap, bqIt, q_, qlim_, drop_front_, blocked_, pc, tmpIt,
          arrived, departed, dropped, passed>>

-----------------------------------------------------------------------------
(* The iterator.                                                           *)

First(S) == CHOOSE k \in S : \A j \in S : k <= j

Begin == First(DOMAIN bqMap \cup {End})

(* Mutant: ++ on the key and not on the map's entries.                     *)
Succ_Number(k) == k + 1

Succ(k) == First({j \in DOMAIN bqMap \cup {End} : j > k})

(* if (bqIt == bqMap.end()) bqIt = bqMap.begin();                          *)
Turn == IF bqIt = End THEN Begin ELSE bqIt

-----------------------------------------------------------------------------

Init ==
  /\ bqMap = << >>
  /\ bqIt = End           \* begin() of the empty map
  /\ q_ = << >>
  /\ qlim_ = QLIM
  /\ drop_front_ \in BOOLEAN
  /\ blocked_ = FALSE
  /\ pc = "idle"
  /\ tmpIt = End
  /\ arrived = 0
  /\ departed = {}
  /\ dropped = {}
  /\ passed = [k \in Keys |-> [j \in Keys |-> 0]]

(* Mutant: the mark is decided without counting the packet itself.         *)
Marked_Late(queue) == Len(queue) > ECN_THRESHOLD

(* ce() of a packet that finds the queue like this.                        *)
Marked(queue) == Len(queue) + 1 >= ECN_THRESHOLD

Overflows(queue) == Len(queue) + 1 >= qlim_

Packet(k, queue) == [key |-> k, id |-> arrived + 1, ce |-> Marked(queue)]

(* bqMap[dstvp], after the queue was created if it was not there.          *)
WithKey(k) == [j \in DOMAIN bqMap \cup {k} |-> IF j \in DOMAIN bqMap THEN bqMap[j] ELSE << >>]

(* enque() of a packet of a probe train.                                   *)
EnqueProbe(k) ==
  LET queue == WithKey(k)[k]
      p == Packet(k, queue)
  IN  /\ k \in Keys
      /\ IF Overflows(queue)
         THEN bqMap' = WithKey(k) /\ dropped' = dropped \cup {p}
         ELSE bqMap' = [WithKey(k) EXCEPT ![k] = Append(@, p)] /\ UNCHANGED dropped
      /\ UNCHANGED q_

(* enque() of any other packet.                                            *)
EnquePlain ==
  LET p == Packet(Plain, q_)
      full == Append(q_, p)
  IN  /\ IF ~ Overflows(q_)
         THEN q_' = full /\ UNCHANGED dropped
         ELSE IF drop_front_
         THEN q_' = Tail(full) /\ dropped' = dropped \cup {Head(full)}
         ELSE dropped' = dropped \cup {p} /\ UNCHANGED q_
      /\ UNCHANGED bqMap

(* Queue::recv: enque(p), and deque() if the link is idle.                 *)
Recv ==
  /\ pc = "idle"
  /\ arrived < MaxPkts
  /\ arrived' = arrived + 1
  /\ EnquePlain \/ \E k \in Keys : EnqueProbe(k)
  /\ pc' = IF blocked_ THEN "idle" ELSE "deque"
  /\ tmpIt' = bqIt
  /\ UNCHANGED <<bqIt, qlim_, drop_front_, blocked_, departed, passed>>

(* Queue::resume: the link has sent its packet.                            *)
Resume ==
  /\ pc = "idle"
  /\ blocked_
  /\ pc' = "deque"
  /\ tmpIt' = bqIt
  /\ UNCHANGED <<bqMap, bqIt, q_, qlim_, drop_front_, blocked_, arrived,
                 departed, dropped, passed>>

(* shrink_queue(), after limit_ was lowered to l.  The probe queues keep   *)
(* what they hold.                                                         *)
Shrink(l) ==
  LET excess == IF Len(q_) > l THEN Len(q_) - l ELSE 0
      kept == IF drop_front_ THEN excess + 1 .. Len(q_) ELSE 1 .. Len(q_) - excess
  IN  /\ pc = "idle"
      /\ l < qlim_
      /\ qlim_' = l
      /\ q_' = IF drop_front_ THEN SubSeq(q_, excess + 1, Len(q_))
                             ELSE SubSeq(q_, 1, Len(q_) - excess)
      /\ dropped' = dropped \cup {q_[i] : i \in DOMAIN q_ \ kept}
      /\ UNCHANGED <<bqMap, bqIt, drop_front_, blocked_, pc, tmpIt, arrived,
                     departed, passed>>

(* History of the queue k being served.                                    *)
Served(k) ==
  [i \in Keys |-> IF i = k \/ i \notin DOMAIN bqMap \/ bqMap[i] = << >>
                  THEN [j \in Keys |-> 0]
                  ELSE [passed[i] EXCEPT ![k] = @ + 1]]

(* Mutant: the iterator is not advanced past the queue it served.          *)
TakeProbe_Stay ==
  /\ pc = "deque"
  /\ Turn # End
  /\ bqMap[Turn] # << >>
  /\ bqMap' = [bqMap EXCEPT ![Turn] = Tail(@)]
  /\ bqIt' = Turn
  /\ departed' = departed \cup {Head(bqMap[Turn])}
  /\ passed' = Served(Turn)
  /\ blocked_' = TRUE
  /\ pc' = "idle"
  /\ UNCHANGED <<q_, qlim_, drop_front_, tmpIt, arrived, dropped>>

(* A round of the loop finds a packet: (bqIt++)->second->deque().          *)
TakeProbe ==
  /\ pc = "deque"
  /\ Turn # End
  /\ bqMap[Turn] # << >>
  /\ bqMap' = [bqMap EXCEPT ![Turn] = Tail(@)]
  /\ bqIt' = Succ(Turn)
  /\ departed' = departed \cup {Head(bqMap[Turn])}
  /\ passed' = Served(Turn)
  /\ blocked_' = TRUE
  /\ pc' = "idle"
  /\ UNCHANGED <<q_, qlim_, drop_front_, tmpIt, arrived, dropped>>

(* Mutant: the loop ends at the end of the map.                            *)
LastRound_AtEnd == Turn # End => Succ(Turn) = End

(* The round is the last one if it finds nothing.                          *)
LastRound == Turn # End => Succ(Turn) = tmpIt

(* A round finds an empty queue and the loop goes on.                      *)
Skip ==
  /\ pc = "deque"
  /\ ~ LastRound
  /\ bqMap[Turn] = << >>
  /\ bqIt' = Succ(Turn)
  /\ UNCHANGED <<bqMap, q_, qlim_, drop_front_, blocked_, pc, tmpIt, arrived,
                 departed, dropped, passed>>

(* Mutant: the packet is left in the queue.                                *)
Rest_Kept(queue) == queue

Rest(queue) == Tail(queue)

(* Mutant: recv() and resume() take the link for idle after a packet.      *)
Busy_Never == FALSE

(* The link has been given a packet of q_.                                 *)
Busy == q_ # << >>

(* The loop ends without a packet; q_ is served, if it holds one.  Without *)
(* a packet resume() unblocks the queue, and recv() leaves it unblocked.   *)
TakePlain ==
  /\ pc = "deque"
  /\ LastRound
  /\ Turn # End => bqMap[Turn] = << >>
  /\ bqIt' = IF Turn = End THEN End ELSE Succ(Turn)
  /\ IF q_ = << >>
     THEN UNCHANGED <<q_, departed>>
     ELSE q_' = Rest(q_) /\ departed' = departed \cup {Head(q_)}
  /\ blocked_' = Busy
  /\ pc' = "idle"
  /\ UNCHANGED <<bqMap, qlim_, drop_front_, tmpIt, arrived, dropped, passed>>

Round == TakeProbe \/ Skip \/ TakePlain

Next ==
  \/ Recv
  \/ Resume
  \/ \E l \in Limits : Shrink(l)
  \/ Round

Spec == Init /\ [][Next]_vars

(* The loop keeps running, and the link finishes sending.                  *)
FairSpec == Spec /\ WF_vars(Round) /\ WF_vars(Resume)

-----------------------------------------------------------------------------
(* Properties.                                                             *)

Packets(K) == [key : K, id : 1 .. arrived, ce : BOOLEAN]

(* Types of the variables; the iterators point into the map, and a queue   *)
(* holds packets of its own key only.                                      *)
TypeOK ==
  /\ DOMAIN bqMap \subseteq Keys
  /\ \A k \in DOMAIN bqMap : bqMap[k] \in Seq(Packets({k}))
  /\ bqIt \in DOMAIN bqMap \cup {End}
  /\ tmpIt \in DOMAIN bqMap \cup {End}
  /\ q_ \in Seq(Packets({Plain}))
  /\ qlim_ \in 0 .. QLIM
  /\ drop_front_ \in BOOLEAN
  /\ blocked_ \in BOOLEAN
  /\ pc \in {"idle", "deque"}
  /\ arrived \in 0 .. MaxPkts
  /\ departed \subseteq Packets(Keys \cup {Plain})
  /\ dropped \subseteq Packets(Keys \cup {Plain})
  /\ passed \in [Keys -> [Keys -> Nat]]

(* Between calls bqIt is never begin(): the loop of deque() compares bqIt  *)
(* with tmpIt only after moving it, so a search that starts at begin() and *)
(* finds nothing would never end.  New keys may be put before or after the *)
(* iterator at any time.                                                   *)
NeverAtBegin ==
  LET start == IF pc = "idle" THEN bqIt ELSE tmpIt
  IN  start = Begin => start = End

(* Probes have priority: deque() turns to q_ only when no probe queue      *)
(* holds a packet, wherever the search started.                            *)
NoneOverlooked ==
  [][\A p \in departed' \ departed : p.key = Plain =>
       \A k \in DOMAIN bqMap : bqMap[k] = << >>]_vars

(* The probe queues take turns: while a queue waits, no other is served    *)
(* twice, also if queues are created between the two.                      *)
FairTurns == \A k, j \in Keys : passed[k][j] <= 1

Content(queue) == {queue[i].id : i \in DOMAIN queue}

Waiting == (UNION {Content(bqMap[k]) : k \in DOMAIN bqMap}) \cup Content(q_)

(* Every packet is in one place, and none is sent or dropped twice.        *)
Accounted ==
  LET gone == {p.id : p \in dropped}
      sent == {p.id : p \in departed}
  IN  /\ Waiting \cup gone \cup sent = 1 .. arrived
      /\ Cardinality(Waiting) + Cardinality(gone) + Cardinality(sent) = arrived

(* Congestion is signalled: every packet that waits ECN_THRESHOLD or more  *)
(* places from the head of a queue is marked, however the queue drained,   *)
(* overflowed or shrank since it was put there.                            *)
Signalled ==
  \A queue \in {q_} \cup {bqMap[k] : k \in DOMAIN bqMap} :
    \A i \in DOMAIN queue : i >= ECN_THRESHOLD => queue[i].ce

(* Every call of deque() returns, and no packet waits for ever: the link   *)
(* is never left idle beside a packet (blocked_), and q_, which strict     *)
(* priority makes wait for the probe queues, is served when the probes end *)
(* (that they do is the bound MaxPkts).                                    *)
NothingStuck ==
  /\ (pc = "deque") ~> (pc = "idle")
  /\ \A i \in 1 .. MaxPkts : (i \in Waiting) ~> (i \notin Waiting)
=============================================================================

--------------------------- MODULE CLBQueueProofs ---------------------------
(***************************************************************************)
(* Proofs about CLBQueue, for every number of keys, every limit and        *)
(* threshold and every run length: bqIt is never left at begin(), which is *)
(* what makes the loop of deque end, and the loop has looked into every    *)
(* probe queue before it turns to q_; the probe queues take turns; packets *)
(* far back are marked; and none is lost or sent twice.                    *)
(***************************************************************************)
EXTENDS CLBQueue, FiniteSetTheorems, WellFoundedInduction, TLAPS

(* First is the least element, of a non-empty set of naturals.             *)
LEMMA FirstIsLeast ==
  ASSUME NEW S \in SUBSET Nat, S # {}
  PROVE  First(S) \in S /\ \A j \in S : First(S) <= j
<1>1. PICK k \in S : \A j \in S : ~ (<<j, k>> \in OpToRel(<, Nat))
  BY NatLessThanWellFounded, WFMin
<1>2. \A j \in S : ~ (j < k)
  BY <1>1 DEF OpToRel
<1>3. \A j \in S : k <= j
  BY <1>2
<1> QED
  BY <1>3 DEF First

(* The iterators point into the map or at its end.                         *)
IterOK ==
  /\ DOMAIN bqMap \subseteq Keys
  /\ bqIt \in DOMAIN bqMap \cup {End}
  /\ tmpIt \in DOMAIN bqMap \cup {End}
  /\ pc \in {"idle", "deque"}

(* begin() is the first key, or end() when there is none.                  *)
LEMMA BeginFacts ==
  ASSUME DOMAIN bqMap \subseteq Keys
  PROVE  /\ Begin \in DOMAIN bqMap \cup {End}
         /\ Begin \in Nat
         /\ \A j \in DOMAIN bqMap : Begin <= j /\ j \in Nat /\ j < End
         /\ End \in Nat /\ Begin <= End
<1>1. DOMAIN bqMap \cup {End} \in SUBSET Nat /\ End \in Nat
  BY KeysAssumption DEF Keys, End
<1>2. \A j \in DOMAIN bqMap : j \in Nat /\ j < End
  BY KeysAssumption DEF Keys, End
<1>3. /\ First(DOMAIN bqMap \cup {End}) \in DOMAIN bqMap \cup {End}
      /\ \A j \in DOMAIN bqMap \cup {End} : First(DOMAIN bqMap \cup {End}) <= j
  BY <1>1, FirstIsLeast
<1> QED
  BY <1>1, <1>2, <1>3 DEF Begin

(* ++ leads to the next key, or to end().                                  *)
LEMMA SuccFacts ==
  ASSUME DOMAIN bqMap \subseteq Keys, NEW k \in DOMAIN bqMap
  PROVE  /\ Succ(k) \in DOMAIN bqMap \cup {End}
         /\ Succ(k) \in Nat
         /\ Succ(k) > k
         /\ \A j \in DOMAIN bqMap \cup {End} : j > k => Succ(k) <= j
<1> DEFINE S == {j \in DOMAIN bqMap \cup {End} : j > k}
<1>1. S \in SUBSET Nat
  BY BeginFacts
<1>2. End \in S
  BY BeginFacts
<1>3. First(S) \in S /\ \A j \in S : First(S) <= j
  BY <1>1, <1>2, FirstIsLeast
<1>4. Succ(k) = First(S)
  BY DEF Succ
<1> QED
  BY <1>1, <1>3, <1>4

-----------------------------------------------------------------------------
(***************************************************************************)
(* The inductive invariant.  Begun says where a search starts: at end() or *)
(* behind some key.  Searched says that while deque() runs the queues from *)
(* tmpIt to bqIt, in the cyclic order of the map, are empty.               *)
(***************************************************************************)
Begun ==
  LET start == IF pc = "idle" THEN bqIt ELSE tmpIt
  IN  start # End => \E j \in DOMAIN bqMap : j < start

Visited(k) ==
  IF tmpIt <= bqIt THEN tmpIt <= k /\ k < bqIt
                   ELSE tmpIt <= k \/ k < bqIt

Searched == pc = "deque" => \A k \in DOMAIN bqMap : Visited(k) => bqMap[k] = << >>

SearchInv == IterOK /\ Begun /\ Searched

(* A key in front of the start of a search is what NeverAtBegin is about.  *)
LEMMA BegunIsNotBegin == IterOK => (Begun <=> NeverAtBegin)
<1> SUFFICES ASSUME IterOK PROVE Begun <=> NeverAtBegin
  OBVIOUS
<1> DEFINE start == IF pc = "idle" THEN bqIt ELSE tmpIt
<1>1. start \in DOMAIN bqMap \cup {End}
  BY DEF IterOK
<1>2. start # End => ((\E j \in DOMAIN bqMap : j < start) <=> start # Begin)
  BY <1>1, BeginFacts DEF IterOK
<1> QED
  BY <1>2 DEF Begun, NeverAtBegin

(* The queue whose turn it is exists, if there is any.                     *)
LEMMA TurnFacts ==
  ASSUME IterOK
  PROVE  /\ Turn \in DOMAIN bqMap \cup {End}
         /\ Turn = End => DOMAIN bqMap = {} /\ bqIt = End
         /\ bqIt # End => Turn = bqIt
         /\ bqIt = End => Turn = Begin
<1>1. Begin = End => \A j \in DOMAIN bqMap : FALSE
  BY BeginFacts DEF IterOK
<1> QED
  BY <1>1, BeginFacts DEF IterOK, Turn

(* Initially the map is empty and no search is under way.                  *)
LEMMA SearchInit == Init => SearchInv
<1> SUFFICES ASSUME Init PROVE SearchInv
  OBVIOUS
<1>1. DOMAIN bqMap = {}
  BY DEF Init
<1> QED
  BY <1>1 DEF Init, SearchInv, IterOK, Begun, Searched

(* enque() may add a key and never removes one.                            *)
LEMMA EnqueDomain ==
  ASSUME IterOK, EnquePlain \/ \E k \in Keys : EnqueProbe(k)
  PROVE  DOMAIN bqMap' \subseteq Keys /\ DOMAIN bqMap \subseteq DOMAIN bqMap'
<1>1. CASE EnquePlain
  BY <1>1 DEF EnquePlain, IterOK
<1>2. ASSUME NEW k \in Keys, EnqueProbe(k)
      PROVE  DOMAIN bqMap' = DOMAIN bqMap \cup {k}
  <2>1. DOMAIN WithKey(k) = DOMAIN bqMap \cup {k}
    BY DEF WithKey
  <2>2. bqMap' = WithKey(k) \/ \E x : bqMap' = [WithKey(k) EXCEPT ![k] = x]
    BY <1>2 DEF EnqueProbe
  <2> QED
    BY <2>1, <2>2
<1> QED
  BY <1>1, <1>2 DEF IterOK

(* recv(): a key may be added on either side of the iterator, and a search *)
(* starts with nothing visited.                                            *)
LEMMA SearchRecv == SearchInv /\ Recv => SearchInv'
<1> SUFFICES ASSUME SearchInv, Recv PROVE SearchInv'
  OBVIOUS
<1> USE DEF SearchInv, Recv
<1>1. DOMAIN bqMap' \subseteq Keys /\ DOMAIN bqMap \subseteq DOMAIN bqMap'
  BY EnqueDomain
<1>2. bqIt' = bqIt /\ tmpIt' = bqIt /\ pc = "idle" /\ pc' \in {"idle", "deque"}
  OBVIOUS
<1>3. IterOK'
  BY <1>1, <1>2 DEF IterOK
<1>4. Begun'
  BY <1>1, <1>2, <1>3 DEF Begun
<1>5. Searched'
  <2>1. bqIt' \in Nat /\ \A k \in DOMAIN bqMap' : k \in Nat
    BY <1>1, <1>3, KeysAssumption DEF IterOK, Keys, End
  <2>2. \A k \in DOMAIN bqMap' : ~ Visited(k)'
    BY <1>2, <2>1 DEF Visited
  <2> QED
    BY <2>2 DEF Searched
<1> QED
  BY <1>3, <1>4, <1>5

(* resume(): a search starts with nothing visited.                         *)
LEMMA SearchResume == SearchInv /\ Resume => SearchInv'
<1> SUFFICES ASSUME SearchInv, Resume PROVE SearchInv'
  OBVIOUS
<1> USE DEF SearchInv, Resume
<1>1. IterOK'
  BY DEF IterOK
<1>2. Begun'
  BY DEF Begun
<1>3. Searched'
  <2>1. bqIt' \in Nat /\ \A k \in DOMAIN bqMap' : k \in Nat
    BY <1>1, KeysAssumption DEF IterOK, Keys, End
  <2>2. \A k \in DOMAIN bqMap' : ~ Visited(k)'
    BY <2>1 DEF Visited
  <2> QED
    BY <2>2 DEF Searched
<1> QED
  BY <1>1, <1>2, <1>3

(* A packet is found: the iterator moves on, past at least one key.        *)
LEMMA SearchTakeProbe == SearchInv /\ TakeProbe => SearchInv'
<1> SUFFICES ASSUME SearchInv, TakeProbe PROVE SearchInv'
  OBVIOUS
<1> USE DEF SearchInv
<1>1. DOMAIN bqMap' = DOMAIN bqMap
  BY DEF TakeProbe
<1>2. Turn \in DOMAIN bqMap
  BY TurnFacts DEF TakeProbe
<1>3. bqIt' \in DOMAIN bqMap \cup {End} /\ bqIt' > Turn
  BY <1>2, SuccFacts DEF TakeProbe, IterOK
<1>4. IterOK'
  BY <1>1, <1>3 DEF TakeProbe, IterOK
<1>5. Begun'
  BY <1>1, <1>2, <1>3 DEF TakeProbe, Begun
<1>6. Searched'
  BY DEF TakeProbe, Searched
<1> QED
  BY <1>4, <1>5, <1>6

(* An empty queue is skipped: the searched part grows by it, and does not  *)
(* reach tmpIt, because tmpIt is not the first key.                        *)
LEMMA SearchSkip == SearchInv /\ Skip => SearchInv'
<1> SUFFICES ASSUME SearchInv, Skip PROVE SearchInv'
  OBVIOUS
<1> USE DEF SearchInv
<1>1. Turn \in DOMAIN bqMap /\ Succ(Turn) # tmpIt /\ bqMap[Turn] = << >>
  BY TurnFacts DEF Skip, LastRound
<1>2. /\ bqIt' = Succ(Turn) /\ bqMap' = bqMap /\ tmpIt' = tmpIt
      /\ pc = "deque" /\ pc' = "deque"
  BY DEF Skip
<1>3. /\ Succ(Turn) \in DOMAIN bqMap \cup {End}
      /\ Succ(Turn) \in Nat
      /\ Succ(Turn) > Turn
      /\ \A j \in DOMAIN bqMap \cup {End} : j > Turn => Succ(Turn) <= j
  BY <1>1, SuccFacts DEF IterOK
<1>4. IterOK'
  BY <1>2, <1>3 DEF IterOK
<1>5. Begun'
  BY <1>2 DEF Begun
<1>6. ASSUME NEW k \in DOMAIN bqMap, Visited(k)' PROVE bqMap[k] = << >>
  <2>1. /\ k \in Nat /\ k < End /\ Turn \in Nat /\ Turn < End /\ tmpIt \in Nat /\ tmpIt <= End
        /\ Begin <= k /\ bqIt \in Nat
    BY <1>1, BeginFacts DEF IterOK
  <2>2. k # Turn => k < Turn \/ k >= Succ(Turn)
    BY <1>3, <2>1
  <2>3. CASE bqIt # End
    <3>1. Turn = bqIt
      BY <2>3, TurnFacts
    <3>2. k # Turn => Visited(k)
      BY <1>1, <1>2, <1>3, <1>6, <2>1, <2>2, <3>1 DEF Visited, IterOK
    <3> QED
      BY <1>1, <1>2, <3>2 DEF Searched
  <2>4. CASE bqIt = End
    <3>1. Turn = Begin
      BY <2>4, TurnFacts
    <3>2. tmpIt # End => tmpIt > Turn
      BY <1>2, <2>1, <3>1, BeginFacts DEF Begun, IterOK
    <3>3. Succ(Turn) < tmpIt
      BY <1>1, <1>3, <2>1, <3>2 DEF IterOK
    <3>4. k # Turn => tmpIt <= k
      BY <1>2, <1>3, <1>6, <2>1, <2>2, <3>1, <3>3 DEF Visited
    <3>5. k # Turn => Visited(k)
      BY <2>1, <2>4, <3>4 DEF Visited
    <3> QED
      BY <1>1, <1>2, <3>5 DEF Searched
  <2> QED
    BY <2>3, <2>4
<1> QED
  BY <1>2, <1>4, <1>5, <1>6 DEF Searched

(* When the loop gives up, every probe queue is empty.                     *)
LEMMA GivenUp ==
  ASSUME SearchInv, TakePlain, NEW k \in DOMAIN bqMap
  PROVE  bqMap[k] = << >>
<1> USE DEF SearchInv
<1>1. Turn \in DOMAIN bqMap /\ Succ(Turn) = tmpIt /\ bqMap[Turn] = << >> /\ pc = "deque"
  BY TurnFacts DEF TakePlain, LastRound
<1>2. /\ Succ(Turn) \in Nat
      /\ Succ(Turn) > Turn
      /\ \A j \in DOMAIN bqMap \cup {End} : j > Turn => Succ(Turn) <= j
  BY <1>1, SuccFacts DEF IterOK
<1>3. k \in Nat /\ k < End /\ Turn \in Nat /\ Begin <= k /\ bqIt \in Nat
  BY <1>1, BeginFacts DEF IterOK
<1>4. k # Turn => k < Turn \/ k >= tmpIt
  BY <1>1, <1>2, <1>3
<1>5. CASE bqIt # End
  <2>1. Turn = bqIt
    BY <1>5, TurnFacts
  <2>2. k # Turn => Visited(k)
    BY <1>1, <1>2, <1>3, <1>4, <2>1 DEF Visited
  <2> QED
    BY <1>1, <2>2 DEF Searched
<1>6. CASE bqIt = End
  <2>1. Turn = Begin
    BY <1>6, TurnFacts
  <2>2. tmpIt \in Nat /\ tmpIt <= End
    BY BeginFacts DEF IterOK
  <2>3. k # Turn => Visited(k)
    BY <1>3, <1>4, <1>6, <2>1, <2>2 DEF Visited
  <2> QED
    BY <1>1, <2>3 DEF Searched
<1> QED
  BY <1>5, <1>6

(* q_ is served: the iterator rests at end() or behind the skipped key.    *)
LEMMA SearchTakePlain == SearchInv /\ TakePlain => SearchInv'
<1> SUFFICES ASSUME SearchInv, TakePlain PROVE SearchInv'
  OBVIOUS
<1> USE DEF SearchInv
<1>1. bqMap' = bqMap /\ tmpIt' = tmpIt /\ pc' = "idle"
  BY DEF TakePlain
<1>2. CASE Turn = End
  BY <1>1, <1>2 DEF TakePlain, IterOK, Begun, Searched
<1>3. CASE Turn # End
  <2>1. Turn \in DOMAIN bqMap
    BY <1>3, TurnFacts
  <2>2. bqIt' \in DOMAIN bqMap \cup {End} /\ bqIt' > Turn
    BY <1>3, <2>1, SuccFacts DEF TakePlain, IterOK
  <2> QED
    BY <1>1, <2>1, <2>2 DEF IterOK, Begun, Searched
<1> QED
  BY <1>2, <1>3

(* Every step preserves the invariant.                                     *)
LEMMA SearchNext == SearchInv /\ [Next]_vars => SearchInv'
<1> SUFFICES ASSUME SearchInv, [Next]_vars PROVE SearchInv'
  OBVIOUS
<1>1. ASSUME NEW l \in Limits, Shrink(l) PROVE SearchInv'
  BY <1>1 DEF Shrink, SearchInv, IterOK, Begun, Searched, Visited
<1>2. CASE UNCHANGED vars
  BY <1>2 DEF vars, SearchInv, IterOK, Begun, Searched, Visited
<1> QED
  BY <1>1, <1>2, SearchRecv, SearchResume, SearchTakeProbe, SearchSkip,
     SearchTakePlain DEF Next, Round

(* The inductive invariant of the search, for every run.                   *)
THEOREM SearchAlways == Spec => []SearchInv
BY SearchInit, SearchNext, PTL DEF Spec

-----------------------------------------------------------------------------
(* Types.                                                                  *)

(* A packet that was put into some queue earlier is a packet still.        *)
LEMMA PacketsGrow ==
  ASSUME arrived \in Nat, arrived' = arrived + 1, NEW K
  PROVE  /\ Packets(K) \subseteq Packets(K)'
         /\ Seq(Packets(K)) \subseteq Seq(Packets(K)')
<1>1. Packets(K) \subseteq Packets(K)'
  BY DEF Packets
<1> QED
  BY <1>1

(* The packet that enque() is given.                                       *)
LEMMA PacketType ==
  ASSUME arrived \in Nat, arrived' = arrived + 1, NEW k, NEW queue
  PROVE  Packet(k, queue) \in Packets({k})'
BY DEF Packet, Packets, Marked

(* The part of TypeOK that enque() may change.                             *)
LEMMA EnqueType ==
  ASSUME TypeOK, arrived' = arrived + 1, EnquePlain \/ \E k \in Keys : EnqueProbe(k)
  PROVE  /\ \A k \in DOMAIN bqMap' : bqMap'[k] \in Seq(Packets({k})')
         /\ q_' \in Seq(Packets({Plain})')
         /\ dropped' \subseteq Packets(Keys \cup {Plain})'
<1>1. arrived \in Nat
  BY MaxPktsAssumption DEF TypeOK
<1>2. /\ \A k \in DOMAIN bqMap : bqMap[k] \in Seq(Packets({k})')
      /\ q_ \in Seq(Packets({Plain})')
      /\ dropped \subseteq Packets(Keys \cup {Plain})'
  BY <1>1, PacketsGrow DEF TypeOK
<1>3. \A k \in Keys \cup {Plain} : Packets({k})' \subseteq Packets(Keys \cup {Plain})'
  BY DEF Packets
<1>4. CASE EnquePlain
  <2> DEFINE p == Packet(Plain, q_)
             full == Append(q_, p)
  <2>1. p \in Packets({Plain})'
    BY <1>1, PacketType
  <2> HIDE DEF p
  <2>2. full \in Seq(Packets({Plain})') /\ full # << >>
    BY <1>2, <2>1
  <2>3. Head(full) \in Packets({Plain})' /\ Tail(full) \in Seq(Packets({Plain})')
    BY <2>2
  <2> HIDE DEF full
  <2>4. /\ bqMap' = bqMap
        /\ q_' \in {q_, full, Tail(full)}
        /\ dropped' \in {dropped, dropped \cup {p}, dropped \cup {Head(full)}}
    BY <1>4 DEF EnquePlain, p, full
  <2> QED
    BY <1>2, <1>3, <2>1, <2>2, <2>3, <2>4
<1>5. ASSUME NEW k \in Keys, EnqueProbe(k)
      PROVE  /\ \A j \in DOMAIN bqMap' : bqMap'[j] \in Seq(Packets({j})')
             /\ q_' \in Seq(Packets({Plain})')
             /\ dropped' \subseteq Packets(Keys \cup {Plain})'
  <2> DEFINE map == WithKey(k)
             p == Packet(k, map[k])
  <2>1. p \in Packets({k})'
    BY <1>1, PacketType
  <2>2. /\ map = [j \in DOMAIN map |-> map[j]]
        /\ k \in DOMAIN map
        /\ \A j \in DOMAIN map : map[j] \in Seq(Packets({j})')
    BY <1>2 DEF WithKey
  <2>3. /\ q_' = q_
        /\ \/ bqMap' = map /\ dropped' = dropped \cup {p}
           \/ bqMap' = [map EXCEPT ![k] = Append(map[k], p)] /\ dropped' = dropped
    BY <1>5 DEF EnqueProbe
  <2> HIDE DEF map, p
  <2>4. Append(map[k], p) \in Seq(Packets({k})')
    BY <2>1, <2>2
  <2> QED
    BY <1>2, <1>3, <2>1, <2>2, <2>3, <2>4
<1> QED
  BY <1>4, <1>5

(* Every step preserves the types.                                         *)
LEMMA TypeNext == SearchInv /\ TypeOK /\ [Next]_vars => TypeOK'
<1> SUFFICES ASSUME SearchInv, SearchInv', TypeOK, [Next]_vars PROVE TypeOK'
  BY SearchNext
<1>1. /\ DOMAIN bqMap' \subseteq Keys /\ bqIt' \in DOMAIN bqMap' \cup {End}
      /\ tmpIt' \in DOMAIN bqMap' \cup {End} /\ pc' \in {"idle", "deque"}
  BY DEF SearchInv, IterOK
<1>2. CASE Recv
  <2>1. arrived' \in 0 .. MaxPkts
    BY <1>2, MaxPktsAssumption DEF Recv, TypeOK
  <2>2. departed' \subseteq Packets(Keys \cup {Plain})'
    <3>1. arrived \in Nat
      BY MaxPktsAssumption DEF TypeOK
    <3> QED
      BY <1>2, <3>1, PacketsGrow DEF Recv, TypeOK
  <2>3. /\ \A k \in DOMAIN bqMap' : bqMap'[k] \in Seq(Packets({k})')
        /\ q_' \in Seq(Packets({Plain})')
        /\ dropped' \subseteq Packets(Keys \cup {Plain})'
    BY <1>2, EnqueType DEF Recv
  <2> QED
    BY <1>1, <1>2, <2>1, <2>2, <2>3 DEF Recv, TypeOK
<1>3. CASE Resume
  BY <1>1, <1>3 DEF Resume, TypeOK, Packets
<1>4. ASSUME NEW l \in Limits, Shrink(l) PROVE TypeOK'
  <2>1. l \in Nat /\ qlim_' \in 0 .. QLIM
    BY <1>4, LimitAssumption DEF Shrink, TypeOK
  <2>2. q_ \in Seq(Packets({Plain})) /\ Packets({Plain}) \subseteq Packets(Keys \cup {Plain})
    BY DEF TypeOK, Packets
  <2>3. \A i \in DOMAIN q_ : q_[i] \in Packets(Keys \cup {Plain})
    <3>1. \A i \in DOMAIN q_ : q_[i] \in Packets({Plain})
      BY <2>2
    <3> QED
      BY <2>2, <3>1
  <2>4. dropped' \subseteq Packets(Keys \cup {Plain})
    BY <1>4, <2>3 DEF Shrink, TypeOK
  <2>5. q_' \in Seq(Packets({Plain}))
    BY <1>4, <2>1, <2>2 DEF Shrink
  <2>6. \A K : Packets(K)' = Packets(K)
    BY <1>4 DEF Shrink, Packets
  <2> QED
    BY <1>1, <1>4, <2>1, <2>4, <2>5, <2>6 DEF Shrink, TypeOK
<1>5. CASE TakeProbe
  <2>1. Turn \in DOMAIN bqMap /\ bqMap[Turn] \in Seq(Packets({Turn})) /\ bqMap[Turn] # << >>
    BY <1>5, TurnFacts DEF TakeProbe, SearchInv, TypeOK
  <2>2. Head(bqMap[Turn]) \in Packets({Turn}) /\ Tail(bqMap[Turn]) \in Seq(Packets({Turn}))
    BY <2>1
  <2>3. Packets({Turn}) \subseteq Packets(Keys \cup {Plain})
    BY <2>1 DEF TypeOK, Packets
  <2>4. \A K : Packets(K)' = Packets(K)
    BY <1>5 DEF TakeProbe, Packets
  <2>5. departed' \subseteq Packets(Keys \cup {Plain})
    BY <1>5, <2>2, <2>3 DEF TakeProbe, TypeOK
  <2>6. \A k \in DOMAIN bqMap' : bqMap'[k] \in Seq(Packets({k}))
    BY <1>5, <2>1, <2>2 DEF TakeProbe, TypeOK
  <2>7. passed' \in [Keys -> [Keys -> Nat]]
    <3>1. passed \in [Keys -> [Keys -> Nat]] /\ Turn \in Keys
      BY <2>1 DEF TypeOK
    <3>2. ASSUME NEW i \in Keys
          PROVE  [passed[i] EXCEPT ![Turn] = @ + 1] \in [Keys -> Nat]
      BY <3>1
    <3>3. [j \in Keys |-> 0] \in [Keys -> Nat]
      OBVIOUS
    <3>4. passed' = Served(Turn)
      BY <1>5 DEF TakeProbe
    <3> QED
      BY <3>2, <3>3, <3>4 DEF Served
  <2> QED
    BY <1>1, <1>5, <2>4, <2>5, <2>6, <2>7 DEF TakeProbe, TypeOK
<1>6. CASE Skip
  BY <1>1, <1>6 DEF Skip, TypeOK, Packets
<1>7. CASE TakePlain
  <2>1. \A K : Packets(K)' = Packets(K)
    BY <1>7 DEF TakePlain, Packets
  <2>2. Packets({Plain}) \subseteq Packets(Keys \cup {Plain})
    BY DEF Packets
  <2>3. q_ # << >> => Head(q_) \in Packets({Plain}) /\ Tail(q_) \in Seq(Packets({Plain}))
    BY DEF TypeOK
  <2>4. q_' \in Seq(Packets({Plain})) /\ departed' \subseteq Packets(Keys \cup {Plain})
    <3>1. CASE q_ = << >>
      BY <1>7, <3>1 DEF TakePlain, TypeOK
    <3>2. CASE q_ # << >>
      <4>1. q_' = Tail(q_) /\ departed' = departed \cup {Head(q_)}
        BY <1>7, <3>2 DEF TakePlain, Rest
      <4>2. departed \subseteq Packets(Keys \cup {Plain})
        BY DEF TypeOK
      <4> QED
        BY <2>2, <2>3, <3>2, <4>1, <4>2
    <3> QED
      BY <3>1, <3>2
  <2> QED
    BY <1>1, <1>7, <2>1, <2>4 DEF TakePlain, Busy, TypeOK
<1>8. CASE UNCHANGED vars
  BY <1>1, <1>8 DEF vars, TypeOK, Packets
<1> QED
  BY <1>2, <1>3, <1>4, <1>5, <1>6, <1>7, <1>8 DEF Next, Round

(* The types hold initially.                                               *)
LEMMA TypeInit == Init => TypeOK
<1> SUFFICES ASSUME Init PROVE TypeOK
  OBVIOUS
<1>1. DOMAIN bqMap = {} /\ qlim_ \in 0 .. QLIM /\ arrived \in 0 .. MaxPkts
  BY LimitAssumption, MaxPktsAssumption DEF Init
<1>2. q_ \in Seq(Packets({Plain}))
  BY DEF Init
<1>3. passed \in [Keys -> [Keys -> Nat]]
  BY DEF Init
<1>4. bqIt = End /\ tmpIt = End /\ departed = {} /\ dropped = {}
  BY DEF Init
<1>5. drop_front_ \in BOOLEAN /\ blocked_ \in BOOLEAN /\ pc = "idle"
  BY DEF Init
<1> QED
  BY <1>1, <1>2, <1>3, <1>4, <1>5 DEF TypeOK

(* CLBQueue's iterators always point into bqMap or at its end, and every   *)
(* probe queue holds packets of its own destination and path only.         *)
THEOREM TypeCorrect == Spec => []TypeOK
BY TypeInit, TypeNext, SearchAlways, PTL DEF Spec

-----------------------------------------------------------------------------
(* Between two calls of deque() the iterator bqIt is never at begin(), and *)
(* so no search starts there: the case in which CLBQueue::deque would loop *)
(* for ever does not occur.                                                *)
THEOREM NeverAtBeginHolds == Spec => []NeverAtBegin
<1>1. SearchInv => NeverAtBegin
  BY BegunIsNotBegin DEF SearchInv
<1> QED
  BY <1>1, SearchAlways, PTL

(* CLBQueue::deque serves q_ only when every probe queue is empty.         *)
THEOREM NoneOverlookedHolds == Spec => NoneOverlooked
<1>1. SearchInv /\ TypeOK /\ [Next]_vars =>
        [\A p \in departed' \ departed : p.key = Plain =>
           \A k \in DOMAIN bqMap : bqMap[k] = << >>]_vars
  <2> SUFFICES ASSUME SearchInv, TypeOK, Next,
                      NEW p \in departed' \ departed, p.key = Plain,
                      NEW k \in DOMAIN bqMap
               PROVE  bqMap[k] = << >>
    OBVIOUS
  <2>1. CASE TakePlain
    BY <2>1, GivenUp
  <2>2. CASE TakeProbe
    <3>1. Turn \in DOMAIN bqMap /\ p = Head(bqMap[Turn])
      BY <2>2, TurnFacts DEF TakeProbe, SearchInv
    <3>2. Head(bqMap[Turn]) \in Packets({Turn})
      <4>1. bqMap[Turn] \in Seq(Packets({Turn})) /\ bqMap[Turn] # << >>
        BY <2>2, <3>1 DEF TakeProbe, TypeOK
      <4> QED
        BY <4>1
    <3>3. p.key = Turn
      BY <3>1, <3>2 DEF Packets
    <3>4. Turn # Plain
      BY <3>1 DEF TypeOK, Keys, Plain
    <3> QED
      BY <3>3, <3>4
  <2>3. departed' = departed \/ TakePlain \/ TakeProbe
    BY DEF Next, Round, Recv, Resume, Shrink, Skip
  <2> QED
    BY <2>1, <2>2, <2>3
<1> QED
  BY <1>1, SearchAlways, TypeCorrect, PTL DEF Spec, NoneOverlooked

-----------------------------------------------------------------------------
(***************************************************************************)
(* Turns.  FairTurns is not inductive: that a queue j is not served again  *)
(* while k waits follows from where the iterator is.  Meets(it, k, j) says *)
(* that the walk from it to k, in the cyclic order of the map, meets j;    *)
(* it never does for a queue j that was served while k waited.             *)
(***************************************************************************)
Meets(it, k, j) == IF it <= k THEN it <= j /\ j <= k ELSE it <= j \/ j <= k

TurnsInv ==
  \A k, j \in Keys :
    \/ passed[k][j] = 0
    \/ /\ passed[k][j] = 1
       /\ k \in DOMAIN bqMap /\ j \in DOMAIN bqMap
       /\ bqMap[k] # << >>
       /\ ~ Meets(bqIt, k, j)

(* When the iterator moves past a queue other than k, the walk to k is a   *)
(* part of what it was.                                                    *)
LEMMA WalkOn ==
  ASSUME IterOK, Turn # End, NEW k \in DOMAIN bqMap, k # Turn, NEW j \in DOMAIN bqMap,
         Meets(Succ(Turn), k, j)
  PROVE  Meets(bqIt, k, j)
<1>1. Turn \in DOMAIN bqMap
  BY TurnFacts
<1>2. /\ Succ(Turn) \in Nat /\ Succ(Turn) > Turn
      /\ \A i \in DOMAIN bqMap \cup {End} : i > Turn => Succ(Turn) <= i
  BY <1>1, SuccFacts DEF IterOK
<1>3. /\ k \in Nat /\ k < End /\ j \in Nat /\ j < End /\ Turn \in Nat /\ Begin <= k
      /\ Begin \in Nat /\ End \in Nat
  BY <1>1, BeginFacts DEF IterOK
<1>4. k < Turn \/ Succ(Turn) <= k
  BY <1>2, <1>3
<1>5. CASE bqIt # End
  <2>1. Turn = bqIt
    BY <1>5, TurnFacts
  <2> QED
    BY <1>2, <1>3, <1>4, <2>1 DEF Meets
<1>6. CASE bqIt = End
  <2>1. Turn = Begin
    BY <1>6, TurnFacts
  <2> QED
    BY <1>2, <1>3, <1>4, <1>6, <2>1 DEF Meets
<1> QED
  BY <1>5, <1>6

(* The queue whose turn it is lies on the walk to every other one, and     *)
(* behind the iterator afterwards.                                         *)
LEMMA WalkStart ==
  ASSUME IterOK, Turn # End, NEW k \in DOMAIN bqMap, k # Turn
  PROVE  Meets(bqIt, k, Turn) /\ ~ Meets(Succ(Turn), k, Turn)
<1>1. Turn \in DOMAIN bqMap
  BY TurnFacts
<1>2. /\ Succ(Turn) \in Nat /\ Succ(Turn) > Turn
      /\ \A i \in DOMAIN bqMap \cup {End} : i > Turn => Succ(Turn) <= i
  BY <1>1, SuccFacts DEF IterOK
<1>3. /\ k \in Nat /\ k < End /\ Turn \in Nat /\ Begin <= k
      /\ Begin \in Nat /\ End \in Nat
  BY <1>1, BeginFacts DEF IterOK
<1>4. k < Turn \/ Succ(Turn) <= k
  BY <1>2, <1>3
<1>5. CASE bqIt # End
  <2>1. Turn = bqIt
    BY <1>5, TurnFacts
  <2> QED
    BY <1>2, <1>3, <1>4, <2>1 DEF Meets
<1>6. CASE bqIt = End
  <2>1. Turn = Begin
    BY <1>6, TurnFacts
  <2> QED
    BY <1>2, <1>3, <1>4, <1>6, <2>1 DEF Meets
<1> QED
  BY <1>5, <1>6

(* enque() keeps the queues that hold packets.                             *)
LEMMA EnqueKeeps ==
  ASSUME TypeOK, EnquePlain \/ \E k \in Keys : EnqueProbe(k), NEW k \in DOMAIN bqMap
  PROVE  k \in DOMAIN bqMap' /\ (bqMap[k] # << >> => bqMap'[k] # << >>)
<1>1. CASE EnquePlain
  BY <1>1 DEF EnquePlain
<1>2. ASSUME NEW l \in Keys, EnqueProbe(l)
      PROVE  k \in DOMAIN bqMap' /\ (bqMap[k] # << >> => bqMap'[k] # << >>)
  <2> DEFINE map == WithKey(l)
  <2>1. /\ map = [j \in DOMAIN map |-> map[j]] /\ DOMAIN map = DOMAIN bqMap \cup {l}
        /\ map[k] = bqMap[k] /\ k \in DOMAIN map
    BY DEF WithKey
  <2>2. PICK p : bqMap' = map \/ bqMap' = [map EXCEPT ![l] = Append(map[l], p)]
    BY <1>2 DEF EnqueProbe
  <2> HIDE DEF map
  <2>3. CASE k # l
    BY <2>1, <2>2, <2>3
  <2>4. CASE k = l
    <3>1. map[l] \in Seq(Packets({k}))
      BY <2>1, <2>4 DEF TypeOK
    <3>2. Append(map[l], p) # << >>
      BY <3>1
    <3> QED
      BY <2>1, <2>2, <2>4, <3>2
  <2> QED
    BY <2>3, <2>4
<1> QED
  BY <1>1, <1>2

LEMMA TurnsMove ==
  ASSUME IterOK, TurnsInv, Turn # End, bqMap[Turn] = << >>,
         bqIt' = Succ(Turn), bqMap' = bqMap, passed' = passed
  PROVE  TurnsInv'
<1> SUFFICES ASSUME NEW k \in Keys, NEW j \in Keys, passed[k][j] # 0
             PROVE  /\ passed[k][j] = 1 /\ k \in DOMAIN bqMap /\ j \in DOMAIN bqMap
                    /\ bqMap[k] # << >> /\ ~ Meets(Succ(Turn), k, j)
  BY DEF TurnsInv
<1>1. /\ passed[k][j] = 1 /\ k \in DOMAIN bqMap /\ j \in DOMAIN bqMap
      /\ bqMap[k] # << >> /\ ~ Meets(bqIt, k, j)
  BY DEF TurnsInv
<1>2. k # Turn
  BY <1>1
<1> QED
  BY <1>1, <1>2, WalkOn

LEMMA TurnsTake ==
  ASSUME IterOK, TypeOK, TurnsInv, TakeProbe
  PROVE  TurnsInv'
<1> DEFINE t == Turn
<1>1. /\ t # End /\ bqMap[t] # << >> /\ bqIt' = Succ(t) /\ passed' = Served(t)
      /\ bqMap' = [bqMap EXCEPT ![t] = Tail(@)]
  BY DEF TakeProbe
<1>2. t \in DOMAIN bqMap /\ t \in Keys
  BY <1>1, TurnFacts DEF IterOK
<1>3. passed \in [Keys -> [Keys -> Nat]]
  BY DEF TypeOK
<1>4. DOMAIN bqMap' = DOMAIN bqMap /\ \A i \in DOMAIN bqMap : i # t => bqMap'[i] = bqMap[i]
  BY <1>1
<1> SUFFICES ASSUME NEW k \in Keys, NEW j \in Keys, passed'[k][j] # 0
             PROVE  /\ passed'[k][j] = 1 /\ k \in DOMAIN bqMap' /\ j \in DOMAIN bqMap'
                    /\ bqMap'[k] # << >> /\ ~ Meets(bqIt', k, j)
  BY DEF TurnsInv
<1>5. /\ k # t /\ k \in DOMAIN bqMap /\ bqMap[k] # << >>
      /\ passed'[k] = [passed[k] EXCEPT ![t] = @ + 1]
  BY <1>1 DEF Served
<1>6. CASE j = t
  <2>1. Meets(bqIt, k, t) /\ ~ Meets(Succ(t), k, t)
    BY <1>1, <1>5, WalkStart
  <2>2. passed[k][t] = 0
    BY <1>2, <2>1 DEF TurnsInv
  <2>3. passed'[k][t] = passed[k][t] + 1
    BY <1>2, <1>3, <1>5
  <2> QED
    BY <1>1, <1>2, <1>4, <1>5, <1>6, <2>1, <2>2, <2>3
<1>7. CASE j # t
  <2>1. passed'[k][j] = passed[k][j]
    BY <1>2, <1>3, <1>5, <1>7
  <2>2. passed[k][j] = 1 /\ j \in DOMAIN bqMap /\ ~ Meets(bqIt, k, j)
    BY <2>1 DEF TurnsInv
  <2>3. ~ Meets(Succ(t), k, j)
    BY <1>1, <1>5, <2>2, WalkOn
  <2> QED
    BY <1>1, <1>4, <1>5, <2>1, <2>2, <2>3
<1> QED
  BY <1>6, <1>7

LEMMA TurnsNext == SearchInv /\ TypeOK /\ TurnsInv /\ [Next]_vars => TurnsInv'
<1> SUFFICES ASSUME SearchInv, TypeOK, TurnsInv, [Next]_vars PROVE TurnsInv'
  OBVIOUS
<1>1. IterOK
  BY DEF SearchInv
<1>2. CASE Recv
  <2>1. passed' = passed /\ bqIt' = bqIt
    BY <1>2 DEF Recv
  <2>2. \A k \in DOMAIN bqMap : k \in DOMAIN bqMap' /\ (bqMap[k] # << >> => bqMap'[k] # << >>)
    BY <1>2, EnqueKeeps DEF Recv
  <2> QED
    BY <2>1, <2>2 DEF TurnsInv
<1>3. CASE TakeProbe
  BY <1>1, <1>3, TurnsTake
<1>4. CASE Skip
  <2>1. Turn # End /\ bqMap[Turn] = << >>
    BY <1>4 DEF Skip, LastRound
  <2> QED
    BY <1>1, <1>4, <2>1, TurnsMove DEF Skip
<1>5. CASE TakePlain
  <2>1. CASE Turn = End
    BY <1>1, <1>5, <2>1, TurnFacts DEF TakePlain, TurnsInv
  <2>2. CASE Turn # End
    BY <1>1, <1>5, <2>2, TurnsMove DEF TakePlain
  <2> QED
    BY <2>1, <2>2
<1>6. CASE Resume \/ (\E l \in Limits : Shrink(l)) \/ UNCHANGED vars
  BY <1>6 DEF Resume, Shrink, vars, TurnsInv
<1> QED
  BY <1>2, <1>3, <1>4, <1>5, <1>6 DEF Next, Round

(* The probe queues of a CLBQueue take turns: while one of them waits, no  *)
(* other is served twice, for every number of queues and also if queues    *)
(* are created on either side of the iterator in between.                  *)
THEOREM FairTurnsHolds == Spec => []FairTurns
<1>1. Init => TurnsInv
  BY DEF Init, TurnsInv
<1>2. TurnsInv => FairTurns
  <2> SUFFICES ASSUME TurnsInv, NEW k \in Keys, NEW j \in Keys PROVE passed[k][j] <= 1
    BY DEF FairTurns
  <2>1. passed[k][j] = 0 \/ passed[k][j] = 1
    BY DEF TurnsInv
  <2> QED
    BY <2>1
<1> QED
  BY <1>1, <1>2, TurnsNext, SearchAlways, TypeCorrect, PTL DEF Spec

-----------------------------------------------------------------------------
(***************************************************************************)
(* Marks and accounts.  Both are about what enque(), deque() and           *)
(* shrink_queue() do to one queue: append, remove the head, or keep a part *)
(* of it.                                                                  *)
(***************************************************************************)
LEMMA TailFacts ==
  ASSUME NEW P, NEW s \in Seq(P), s # << >>
  PROVE  /\ Tail(s) \in Seq(P) /\ Head(s) = s[1] /\ 1 \in DOMAIN s
         /\ \A i \in DOMAIN Tail(s) : i + 1 \in DOMAIN s /\ i \in Nat /\ Tail(s)[i] = s[i + 1]
         /\ \A i \in DOMAIN s : i \in Nat /\ (i = 1 \/ i - 1 \in DOMAIN Tail(s))
OBVIOUS

LEMMA AppendFacts ==
  ASSUME NEW P, NEW s \in Seq(P), NEW x \in P
  PROVE  /\ Append(s, x) \in Seq(P) /\ Append(s, x) # << >> /\ Len(s) \in Nat
         /\ \A i \in DOMAIN Append(s, x) :
              \/ i \in DOMAIN s /\ Append(s, x)[i] = s[i]
              \/ i = Len(s) + 1 /\ Append(s, x)[i] = x
         /\ Len(s) + 1 \in DOMAIN Append(s, x) /\ Append(s, x)[Len(s) + 1] = x
         /\ Len(s) + 1 \notin DOMAIN s
         /\ \A i \in DOMAIN s : i \in DOMAIN Append(s, x) /\ Append(s, x)[i] = s[i]
OBVIOUS

LEMMA SubSeqFacts ==
  ASSUME NEW P, NEW s \in Seq(P), NEW m \in Nat \ {0}, NEW n \in Nat, n <= Len(s)
  PROVE  /\ SubSeq(s, m, n) \in Seq(P)
         /\ \A i \in DOMAIN SubSeq(s, m, n) :
              /\ i \in Nat \ {0} /\ m + i - 1 \in m .. n /\ m + i - 1 \in DOMAIN s
              /\ SubSeq(s, m, n)[i] = s[m + i - 1]
         /\ \A i \in m .. n :
              /\ i \in DOMAIN s /\ i - m + 1 \in DOMAIN SubSeq(s, m, n)
              /\ SubSeq(s, m, n)[i - m + 1] = s[i]
OBVIOUS

(* The part that shrink_queue() keeps.                                     *)
Cut(s, l) == IF Len(s) > l THEN Len(s) - l ELSE 0

LEMMA CutFacts ==
  ASSUME NEW P, NEW s \in Seq(P), NEW l \in Nat
  PROVE  /\ Cut(s, l) \in Nat /\ Cut(s, l) + 1 \in Nat \ {0} /\ Cut(s, l) <= Len(s)
         /\ Len(s) \in Nat /\ Len(s) - Cut(s, l) \in Nat /\ Len(s) - Cut(s, l) <= Len(s)
         /\ DOMAIN s = 1 .. Len(s)
BY DEF Cut

-----------------------------------------------------------------------------
(* Marks in one queue.                                                     *)
MarksOK(s) == \A i \in DOMAIN s : i >= ECN_THRESHOLD => s[i].ce = TRUE

LEMMA MarksAppend ==
  ASSUME NEW P, NEW s \in Seq(P), NEW x \in P, MarksOK(s),
         Len(s) + 1 >= ECN_THRESHOLD => x.ce = TRUE
  PROVE  MarksOK(Append(s, x))
<1> SUFFICES ASSUME NEW i \in DOMAIN Append(s, x), i >= ECN_THRESHOLD
             PROVE  Append(s, x)[i].ce = TRUE
  BY DEF MarksOK
<1>1. \/ i \in DOMAIN s /\ Append(s, x)[i] = s[i]
      \/ i = Len(s) + 1 /\ Append(s, x)[i] = x
  BY AppendFacts
<1> QED
  BY <1>1 DEF MarksOK

LEMMA MarksTail ==
  ASSUME NEW P, NEW s \in Seq(P), s # << >>, MarksOK(s)
  PROVE  MarksOK(Tail(s))
<1> SUFFICES ASSUME NEW i \in DOMAIN Tail(s), i >= ECN_THRESHOLD
             PROVE  Tail(s)[i].ce = TRUE
  BY DEF MarksOK
<1>1. i + 1 \in DOMAIN s /\ i \in Nat /\ Tail(s)[i] = s[i + 1]
  BY TailFacts
<1>2. i + 1 >= ECN_THRESHOLD
  BY <1>1, LimitAssumption
<1> QED
  BY <1>1, <1>2 DEF MarksOK

LEMMA MarksSubSeq ==
  ASSUME NEW P, NEW s \in Seq(P), NEW m \in Nat \ {0}, NEW n \in Nat, n <= Len(s), MarksOK(s)
  PROVE  MarksOK(SubSeq(s, m, n))
<1> SUFFICES ASSUME NEW i \in DOMAIN SubSeq(s, m, n), i >= ECN_THRESHOLD
             PROVE  SubSeq(s, m, n)[i].ce = TRUE
  BY DEF MarksOK
<1>1. /\ i \in Nat \ {0} /\ m + i - 1 \in DOMAIN s
      /\ SubSeq(s, m, n)[i] = s[m + i - 1]
  BY SubSeqFacts, SMTT(30)
<1>2. m + i - 1 >= ECN_THRESHOLD
  BY <1>1, LimitAssumption
<1> QED
  BY <1>1, <1>2 DEF MarksOK

Marks == MarksOK(q_) /\ \A k \in DOMAIN bqMap : MarksOK(bqMap[k])

LEMMA PacketMark ==
  ASSUME NEW k, NEW queue, Len(queue) + 1 >= ECN_THRESHOLD
  PROVE  Packet(k, queue).ce = TRUE
<1>1. Marked(queue)
  BY DEF Marked
<1>2. Packet(k, queue).ce = Marked(queue)
  BY DEF Packet
<1> QED
  BY <1>1, <1>2, Zenon

(* The cases of enque(), with the packet p it is given.                    *)
LEMMA EnqueCases ==
  ASSUME TypeOK, arrived' = arrived + 1, EnquePlain \/ \E k \in Keys : EnqueProbe(k)
  PROVE  \/ \E p : /\ p = Packet(Plain, q_) /\ bqMap' = bqMap
                   /\ \/ q_' = Append(q_, p) /\ dropped' = dropped
                      \/ /\ q_' = Tail(Append(q_, p))
                         /\ dropped' = dropped \cup {Head(Append(q_, p))}
                      \/ q_' = q_ /\ dropped' = dropped \cup {p}
         \/ \E k \in Keys : \E map, p :
              /\ map = WithKey(k) /\ p = Packet(k, map[k]) /\ q_' = q_
              /\ \/ bqMap' = map /\ dropped' = dropped \cup {p}
                 \/ bqMap' = [map EXCEPT ![k] = Append(map[k], p)] /\ dropped' = dropped
<1>1. CASE EnquePlain
  BY <1>1 DEF EnquePlain
<1>2. ASSUME NEW k \in Keys, EnqueProbe(k)
      PROVE  \E map, p :
               /\ map = WithKey(k) /\ p = Packet(k, map[k]) /\ q_' = q_
               /\ \/ bqMap' = map /\ dropped' = dropped \cup {p}
                  \/ bqMap' = [map EXCEPT ![k] = Append(map[k], p)] /\ dropped' = dropped
  BY <1>2 DEF EnqueProbe
<1> QED
  BY <1>1, <1>2

LEMMA MarksRecv == ASSUME TypeOK, Marks, Recv PROVE Marks'
<1>1. arrived \in Nat /\ arrived' = arrived + 1
  BY MaxPktsAssumption DEF Recv, TypeOK
<1>2. EnquePlain \/ \E k \in Keys : EnqueProbe(k)
  BY DEF Recv
<1>3. /\ \A k \in DOMAIN bqMap : bqMap[k] \in Seq(Packets({k})')
      /\ q_ \in Seq(Packets({Plain})')
  BY <1>1, PacketsGrow DEF TypeOK
<1>4. ASSUME NEW p, p = Packet(Plain, q_), bqMap' = bqMap,
             q_' \in {Append(q_, p), Tail(Append(q_, p)), q_}
      PROVE  Marks'
  <2>1. PICK P : P = Packets({Plain})'
    OBVIOUS
  <2>2. q_ \in Seq(P) /\ p \in P /\ MarksOK(q_)
    BY <1>1, <1>3, <1>4, <2>1, PacketType DEF Marks
  <2>3. Len(q_) + 1 >= ECN_THRESHOLD => p.ce = TRUE
    BY <1>4, PacketMark
  <2>4. MarksOK(Append(q_, p))
    BY <2>2, <2>3, MarksAppend
  <2>5. Append(q_, p) \in Seq(P) /\ Append(q_, p) # << >>
    BY <2>2, AppendFacts
  <2>6. MarksOK(Tail(Append(q_, p)))
    BY <2>4, <2>5, MarksTail
  <2>7. MarksOK(q_')
    BY <1>4, <2>2, <2>4, <2>6
  <2> QED
    BY <1>4, <2>7 DEF Marks, MarksOK
<1>5. ASSUME NEW k \in Keys, NEW map, NEW p, map = WithKey(k), p = Packet(k, map[k]), q_' = q_,
             bqMap' = map \/ bqMap' = [map EXCEPT ![k] = Append(map[k], p)]
      PROVE  Marks'
  <2>1. PICK P : P = Packets({k})'
    OBVIOUS
  <2>2. << >> \in Seq(P) /\ MarksOK(<< >>)
    BY DEF MarksOK
  <2>3. /\ map = [j \in DOMAIN map |-> map[j]] /\ k \in DOMAIN map
        /\ \A j \in DOMAIN map : map[j] = << >> \/ (j \in DOMAIN bqMap /\ map[j] = bqMap[j])
    BY <1>5 DEF WithKey
  <2>4. \A j \in DOMAIN map : MarksOK(map[j])
    BY <2>2, <2>3 DEF Marks
  <2>5. map[k] \in Seq(P) /\ p \in P
    BY <1>1, <1>3, <1>5, <2>1, <2>2, <2>3, PacketType
  <2>6. Len(map[k]) + 1 >= ECN_THRESHOLD => p.ce = TRUE
    BY <1>5, PacketMark
  <2>7. MarksOK(Append(map[k], p))
    BY <2>3, <2>4, <2>5, <2>6, MarksAppend
  <2>8. \A j \in DOMAIN bqMap' : MarksOK(bqMap'[j])
    BY <1>5, <2>3, <2>4, <2>7
  <2> QED
    BY <1>5, <2>8 DEF Marks, MarksOK
<1> QED
  BY <1>1, <1>2, <1>4, <1>5, EnqueCases

LEMMA MarksNext == SearchInv /\ TypeOK /\ Marks /\ [Next]_vars => Marks'
<1> SUFFICES ASSUME SearchInv, TypeOK, Marks, [Next]_vars PROVE Marks'
  OBVIOUS
<1>1. CASE Recv
  BY <1>1, MarksRecv
<1>2. ASSUME NEW l \in Limits, Shrink(l) PROVE Marks'
  <2>1. l \in Nat /\ q_ \in Seq(Packets({Plain})) /\ MarksOK(q_)
    BY LimitAssumption DEF TypeOK, Marks
  <2>2. q_' = SubSeq(q_, Cut(q_, l) + 1, Len(q_)) \/ q_' = SubSeq(q_, 1, Len(q_) - Cut(q_, l))
    BY <1>2 DEF Shrink, Cut
  <2>3. /\ Cut(q_, l) + 1 \in Nat \ {0} /\ Len(q_) \in Nat
        /\ Len(q_) - Cut(q_, l) \in Nat /\ Len(q_) - Cut(q_, l) <= Len(q_)
    BY <2>1, CutFacts
  <2>4. MarksOK(SubSeq(q_, Cut(q_, l) + 1, Len(q_)))
    BY <2>1, <2>3, MarksSubSeq
  <2>5. MarksOK(SubSeq(q_, 1, Len(q_) - Cut(q_, l)))
    BY <2>1, <2>3, MarksSubSeq
  <2>6. MarksOK(q_') /\ bqMap' = bqMap
    BY <1>2, <2>2, <2>4, <2>5 DEF Shrink
  <2> QED
    BY <2>6 DEF Marks, MarksOK
<1>3. CASE TakeProbe
  <2>1. Turn \in DOMAIN bqMap /\ bqMap[Turn] \in Seq(Packets({Turn})) /\ bqMap[Turn] # << >>
    BY <1>3, TurnFacts DEF TakeProbe, SearchInv, TypeOK
  <2>2. MarksOK(Tail(bqMap[Turn]))
    BY <2>1, MarksTail DEF Marks
  <2>3. q_' = q_ /\ bqMap' = [bqMap EXCEPT ![Turn] = Tail(bqMap[Turn])]
    BY <1>3 DEF TakeProbe
  <2>4. \A k \in DOMAIN bqMap' : MarksOK(bqMap'[k])
    BY <2>1, <2>2, <2>3 DEF Marks
  <2> QED
    BY <2>3, <2>4 DEF Marks, MarksOK
<1>4. CASE TakePlain
  <2>1. bqMap' = bqMap /\ (q_' = q_ \/ (q_ # << >> /\ q_' = Tail(q_)))
    BY <1>4 DEF TakePlain, Rest
  <2>2. q_ \in Seq(Packets({Plain})) /\ MarksOK(q_)
    BY DEF TypeOK, Marks
  <2>3. MarksOK(q_')
    BY <2>1, <2>2, MarksTail
  <2> QED
    BY <2>1, <2>3 DEF Marks, MarksOK
<1>5. CASE Resume \/ Skip \/ UNCHANGED vars
  BY <1>5 DEF Resume, Skip, vars, Marks, MarksOK
<1> QED
  BY <1>1, <1>2, <1>3, <1>4, <1>5 DEF Next, Round

(* Congestion is signalled by CLBQueue: a packet that has ECN_THRESHOLD or *)
(* more places to the head of its queue is marked, for every threshold and *)
(* limit and however the queue overflowed, drained or was shrunk.          *)
THEOREM SignalledHolds == Spec => []Signalled
<1>1. Init => Marks
  BY DEF Init, Marks, MarksOK
<1>2. Marks => Signalled
  BY Zenon DEF Marks, MarksOK, Signalled
<1> QED
  BY <1>1, <1>2, MarksNext, SearchAlways, TypeCorrect, PTL DEF Spec

-----------------------------------------------------------------------------
(* Accounts of one queue: no packet is in it twice.                        *)
Single(s) == \A i, j \in DOMAIN s : s[i].id = s[j].id => i = j

LEMMA SingleAppend ==
  ASSUME NEW P, NEW s \in Seq(P), NEW x \in P, Single(s), x.id \notin Content(s)
  PROVE  /\ Single(Append(s, x)) /\ Append(s, x) \in Seq(P) /\ Append(s, x) # << >>
         /\ Content(Append(s, x)) = Content(s) \cup {x.id}
<1>1. PICK t : t = Append(s, x)
  OBVIOUS
<1>2. /\ t \in Seq(P) /\ t # << >>
      /\ \A i \in DOMAIN t : \/ i \in DOMAIN s /\ t[i] = s[i]
                             \/ i = Len(s) + 1 /\ t[i] = x
      /\ Len(s) + 1 \in DOMAIN t /\ t[Len(s) + 1] = x
      /\ \A i \in DOMAIN s : i \in DOMAIN t /\ t[i] = s[i]
  BY <1>1, AppendFacts
<1>3. Single(t)
  <2> SUFFICES ASSUME NEW i \in DOMAIN t, NEW j \in DOMAIN t, t[i].id = t[j].id PROVE i = j
    BY DEF Single
  <2> QED
    BY <1>2 DEF Single, Content
<1>4. Content(t) \subseteq Content(s) \cup {x.id}
  BY <1>2 DEF Content
<1>5. Content(s) \subseteq Content(t) /\ x.id \in Content(t)
  BY <1>2 DEF Content
<1> QED
  BY <1>1, <1>2, <1>3, <1>4, <1>5

LEMMA SingleTail ==
  ASSUME NEW P, NEW s \in Seq(P), s # << >>, Single(s)
  PROVE  /\ Single(Tail(s)) /\ Content(s) = Content(Tail(s)) \cup {Head(s).id}
         /\ Head(s).id \notin Content(Tail(s))
<1>1. PICK t : t = Tail(s)
  OBVIOUS
<1>2. /\ Head(s) = s[1] /\ 1 \in DOMAIN s
      /\ \A i \in DOMAIN t : i + 1 \in DOMAIN s /\ i \in Nat /\ t[i] = s[i + 1]
      /\ \A i \in DOMAIN s : i \in Nat /\ (i = 1 \/ i - 1 \in DOMAIN t)
  BY <1>1, TailFacts
<1>3. Single(t)
  <2> SUFFICES ASSUME NEW i \in DOMAIN t, NEW j \in DOMAIN t, t[i].id = t[j].id PROVE i = j
    BY DEF Single
  <2>1. i + 1 = j + 1 /\ i \in Nat /\ j \in Nat
    BY <1>2 DEF Single
  <2> QED
    BY <2>1
<1>4. Content(s) \subseteq Content(t) \cup {Head(s).id}
  <2> SUFFICES ASSUME NEW i \in DOMAIN s, i # 1 PROVE s[i].id \in Content(t)
    BY <1>2 DEF Content
  <2>1. i - 1 \in DOMAIN t /\ (i - 1) + 1 = i
    BY <1>2
  <2>2. t[i - 1] = s[i]
    BY <1>2, <2>1
  <2> QED
    BY <2>1, <2>2 DEF Content
<1>5. Content(t) \subseteq Content(s) /\ Head(s).id \in Content(s)
  BY <1>2 DEF Content
<1>6. Head(s).id \notin Content(t)
  <2> SUFFICES ASSUME NEW i \in DOMAIN t, t[i].id = s[1].id PROVE FALSE
    BY <1>2 DEF Content
  <2>1. i + 1 = 1 /\ i \in Nat /\ i \in DOMAIN t
    BY <1>2 DEF Single
  <2>2. t \in Seq(P)
    BY <1>1, TailFacts
  <2> QED
    BY <2>1, <2>2
<1> QED
  BY <1>1, <1>3, <1>4, <1>5, <1>6

LEMMA SingleSubSeq ==
  ASSUME NEW P, NEW s \in Seq(P), NEW m \in Nat \ {0}, NEW n \in Nat, n <= Len(s), Single(s)
  PROVE  LET t == SubSeq(s, m, n)
             R == {s[i].id : i \in DOMAIN s \ (m .. n)}
         IN  /\ Single(t) /\ Content(t) \cup R = Content(s)
             /\ Content(t) \cap R = {}
<1> DEFINE R == {s[i].id : i \in DOMAIN s \ (m .. n)}
<1>1. PICK t : t = SubSeq(s, m, n)
  OBVIOUS
<1>2. /\ \A i \in DOMAIN t : /\ i \in Nat \ {0} /\ m + i - 1 \in m .. n /\ m + i - 1 \in DOMAIN s
                             /\ t[i] = s[m + i - 1]
      /\ \A i \in m .. n : /\ i \in DOMAIN s /\ i - m + 1 \in DOMAIN t
                           /\ t[i - m + 1] = s[i]
  BY <1>1, SubSeqFacts
<1>3. Single(t)
  <2> SUFFICES ASSUME NEW i \in DOMAIN t, NEW j \in DOMAIN t, t[i].id = t[j].id PROVE i = j
    BY DEF Single
  <2>1. m + i - 1 = m + j - 1 /\ i \in Nat /\ j \in Nat
    BY <1>2 DEF Single
  <2> QED
    BY <2>1
<1>4. \A x \in Content(t) : \E i \in m .. n : i \in DOMAIN s /\ x = s[i].id
  BY <1>2 DEF Content
<1>5. \A i \in m .. n : s[i].id \in Content(t)
  BY <1>2 DEF Content
<1>6. Content(t) \cup R = Content(s)
  <2>1. Content(t) \cup R \subseteq Content(s)
    BY <1>4 DEF Content
  <2>2. Content(s) \subseteq Content(t) \cup R
    BY <1>5 DEF Content
  <2> QED
    BY <2>1, <2>2
<1>7. Content(t) \cap R = {}
  BY <1>4 DEF Single
<1> QED
  BY <1>1, <1>3, <1>6, <1>7

-----------------------------------------------------------------------------
(***************************************************************************)
(* The inductive invariant behind Accounted: the queues, what was dropped  *)
(* and what was sent are pairwise disjoint and no queue holds a packet     *)
(* twice.  It is stated for the function from keys to queues, q_ included. *)
(***************************************************************************)
Ids(S) == {p.id : p \in S}

Queues == [k \in DOMAIN bqMap \cup {Plain} |-> IF k = Plain THEN q_ ELSE bqMap[k]]

Held(f) == UNION {Content(f[k]) : k \in DOMAIN f}

Balanced(f, G, S, n) ==
  /\ \A k \in DOMAIN f : Single(f[k])
  /\ \A k, l \in DOMAIN f : k # l => Content(f[k]) \cap Content(f[l]) = {}
  /\ \A k \in DOMAIN f : Content(f[k]) \cap (G \cup S) = {}
  /\ G \cap S = {}
  /\ Held(f) \cup G \cup S = 1 .. n

AccountInv == Balanced(Queues, Ids(dropped), Ids(departed), arrived)

(* What a queue and the sets of dropped and sent packets hold before, with *)
(* the new packets N, and afterwards.                                      *)
Exchanged(C, G, S, N, C1, G1, S1) ==
  /\ C1 \cup G1 \cup S1 = C \cup G \cup S \cup N
  /\ C1 \cap (G1 \cup S1) = {} /\ G1 \cap S1 = {}

(* A step changes one queue: what the queue, the dropped and the sent      *)
(* packets were together, and the new packet if there is one, they are     *)
(* afterwards.  C is what the queue held.                                  *)
LEMMA OneQueueChanges ==
  ASSUME NEW f, NEW g, NEW k, NEW C, NEW G, NEW S, NEW G1, NEW S1,
         NEW n \in Nat, NEW m \in Nat, n <= m,
         Balanced(f, G, S, n),
         DOMAIN g = DOMAIN f \cup {k}, \A l \in DOMAIN f : l # k => g[l] = f[l],
         k \in DOMAIN f => C = Content(f[k]), k \notin DOMAIN f => C = {},
         Single(g[k]),
         Exchanged(C, G, S, n + 1 .. m, Content(g[k]), G1, S1)
  PROVE  Balanced(g, G1, S1, m)
<1> DEFINE Z == C \cup G \cup S \cup (n + 1 .. m)
<1>0. /\ Content(g[k]) \cup G1 \cup S1 = Z
      /\ Content(g[k]) \cap (G1 \cup S1) = {} /\ G1 \cap S1 = {}
  BY DEF Exchanged
<1>1. 1 .. m = (1 .. n) \cup (n + 1 .. m) /\ (1 .. n) \cap (n + 1 .. m) = {}
  OBVIOUS
<1>2. \A l \in DOMAIN f : Content(f[l]) \subseteq 1 .. n
  BY DEF Balanced, Held
<1>3. \A l \in DOMAIN f : l # k => Content(g[l]) \cap Z = {}
  <2> TAKE l \in DOMAIN f
  <2> HAVE l # k
  <2>1. g[l] = f[l] /\ Content(f[l]) \subseteq 1 .. n
    BY <1>2
  <2>2. Content(f[l]) \cap C = {} /\ Content(f[l]) \cap (G \cup S) = {}
    BY DEF Balanced
  <2> QED
    BY <1>1, <2>1, <2>2
<1>4. \A l \in DOMAIN g : Single(g[l])
  BY DEF Balanced
<1>5. \A l \in DOMAIN g : Content(g[l]) \cap (G1 \cup S1) = {}
  <2> TAKE l \in DOMAIN g
  <2>1. CASE l = k
    BY <1>0, <2>1
  <2>2. CASE l # k
    BY <1>0, <1>3, <2>2
  <2> QED
    BY <2>1, <2>2
<1>6. \A i, j \in DOMAIN g : i # j => Content(g[i]) \cap Content(g[j]) = {}
  <2> TAKE i, j \in DOMAIN g
  <2> HAVE i # j
  <2>1. CASE i = k
    <3>1. Content(g[j]) \cap Z = {}
      BY <1>3, <2>1
    <3> QED
      BY <1>0, <2>1, <3>1
  <2>2. CASE j = k
    <3>1. Content(g[i]) \cap Z = {}
      BY <1>3, <2>2
    <3> QED
      BY <1>0, <2>2, <3>1
  <2>3. CASE i # k /\ j # k
    BY <2>3 DEF Balanced
  <2> QED
    BY <2>1, <2>2, <2>3
<1>7. Held(g) \cup G1 \cup S1 = 1 .. m
  <2>1. \A x \in Held(g) \cup G1 \cup S1 : x \in 1 .. m
    <3> TAKE x \in Held(g) \cup G1 \cup S1
    <3>1. Z \subseteq 1 .. m
      BY <1>1, <1>2 DEF Balanced
    <3>2. CASE x \in G1 \cup S1 \cup Content(g[k])
      BY <1>0, <3>1, <3>2
    <3>3. ASSUME NEW l \in DOMAIN g, x \in Content(g[l]), l # k PROVE x \in 1 .. m
      BY <1>1, <1>2, <3>3
    <3> QED
      BY <3>2, <3>3 DEF Held
  <2>2. \A x \in 1 .. m : x \in Held(g) \cup G1 \cup S1
    <3> TAKE x \in 1 .. m
    <3>1. CASE x \in Z
      <4>1. x \in Content(g[k]) \cup G1 \cup S1 /\ k \in DOMAIN g
        BY <1>0, <3>1
      <4> QED
        BY <4>1 DEF Held
    <3>2. CASE x \notin Z
      <4>1. x \in Held(f)
        BY <1>1, <3>2 DEF Balanced
      <4>2. PICK l \in DOMAIN f : x \in Content(f[l])
        BY <4>1 DEF Held
      <4>3. l # k /\ x \in Content(g[l]) /\ l \in DOMAIN g
        BY <3>2, <4>2
      <4> QED
        BY <4>3 DEF Held
    <3> QED
      BY <3>1, <3>2
  <2> QED
    BY <2>1, <2>2
<1> QED
  BY <1>0, <1>4, <1>5, <1>6, <1>7 DEF Balanced

(* What the accounts say of one queue.                                     *)
LEMMA OneQueue ==
  ASSUME NEW f, NEW G, NEW S, NEW n \in Nat, Balanced(f, G, S, n), NEW k \in DOMAIN f
  PROVE  /\ Single(f[k]) /\ Content(f[k]) \subseteq 1 .. n
         /\ G \subseteq 1 .. n /\ S \subseteq 1 .. n
         /\ Content(f[k]) \cap (G \cup S) = {} /\ G \cap S = {}
         /\ n + 1 \notin Content(f[k]) /\ n + 1 \notin G /\ n + 1 \notin S
         /\ n + 1 .. n + 1 = {n + 1} /\ n + 1 .. n = {}
<1>1. /\ Single(f[k]) /\ Content(f[k]) \subseteq 1 .. n
      /\ G \subseteq 1 .. n /\ S \subseteq 1 .. n
      /\ Content(f[k]) \cap (G \cup S) = {} /\ G \cap S = {}
  BY DEF Balanced, Held
<1>2. n + 1 \notin 1 .. n /\ n + 1 .. n + 1 = {n + 1} /\ n + 1 .. n = {}
  OBVIOUS
<1> QED
  BY <1>1, <1>2

(* enque() of p turns the queue s into t and the dropped packets G to G1.  *)
Enqued(s, t, p, G, G1) ==
  \/ t = Append(s, p) /\ G1 = G
  \/ t = Tail(Append(s, p)) /\ G1 = G \cup {Head(Append(s, p)).id}
  \/ t = s /\ G1 = G \cup {p.id}

(* A packet is put into a queue or dropped.                                *)
LEMMA BalancedPut ==
  ASSUME NEW f, NEW g, NEW k \in DOMAIN f, NEW G, NEW S, NEW n \in Nat, NEW G1,
         Balanced(f, G, S, n), DOMAIN g = DOMAIN f, \A l \in DOMAIN f : l # k => g[l] = f[l],
         NEW P, f[k] \in Seq(P), NEW p \in P, p.id = n + 1,
         Enqued(f[k], g[k], p, G, G1)
  PROVE  Balanced(g, G1, S, n + 1)
<1>1. PICK C : C = Content(f[k])
  OBVIOUS
<1>2. /\ Single(f[k]) /\ C \subseteq 1 .. n /\ G \subseteq 1 .. n /\ S \subseteq 1 .. n
      /\ C \cap (G \cup S) = {} /\ G \cap S = {}
      /\ n + 1 \notin C /\ n + 1 \notin G /\ n + 1 \notin S
      /\ n + 1 .. n + 1 = {n + 1}
  BY <1>1, OneQueue
<1>3. PICK full : full = Append(f[k], p)
  OBVIOUS
<1>4. /\ Single(full) /\ Content(full) = C \cup {n + 1} /\ full \in Seq(P) /\ full # << >>
  BY <1>1, <1>2, <1>3, SingleAppend
<1>5. /\ Single(Tail(full)) /\ Content(full) = Content(Tail(full)) \cup {Head(full).id}
      /\ Head(full).id \notin Content(Tail(full))
  BY <1>4, SingleTail
<1>6. /\ Single(g[k])
      /\ Content(g[k]) \cup G1 = C \cup G \cup {n + 1}
      /\ Content(g[k]) \cap (G1 \cup S) = {} /\ G1 \cap S = {}
  <2>1. CASE g[k] = full /\ G1 = G
    BY <1>2, <1>4, <2>1
  <2>2. CASE g[k] = Tail(full) /\ G1 = G \cup {Head(full).id}
    <3>1. PICK h : h = Head(full).id
      OBVIOUS
    <3>2. PICK T : T = Content(Tail(full))
      OBVIOUS
    <3>3. C \cup {n + 1} = T \cup {h} /\ h \notin T /\ Content(g[k]) = T /\ G1 = G \cup {h}
      BY <1>4, <1>5, <2>2, <3>1, <3>2
    <3>4. h \notin G /\ h \notin S
      BY <1>2, <3>3
    <3> QED
      BY <1>2, <1>5, <2>2, <3>3, <3>4
  <2>3. CASE g[k] = f[k] /\ G1 = G \cup {p.id}
    BY <1>1, <1>2, <2>3
  <2> QED
    BY <1>3, <2>1, <2>2, <2>3 DEF Enqued
<1>7. Exchanged(C, G, S, n + 1 .. n + 1, Content(g[k]), G1, S)
  BY <1>2, <1>6 DEF Exchanged
<1>8. DOMAIN g = DOMAIN f \cup {k}
  BY Zenon
<1>9. n + 1 \in Nat /\ n <= n + 1
  OBVIOUS
<1> QED
  BY <1>1, <1>6, <1>7, <1>8, <1>9, OneQueueChanges

(* A new, empty queue changes nothing.                                     *)
LEMMA BalancedNew ==
  ASSUME NEW f, NEW g, NEW k, NEW G, NEW S, NEW n \in Nat,
         Balanced(f, G, S, n), DOMAIN g = DOMAIN f \cup {k},
         \A l \in DOMAIN f : g[l] = f[l], k \notin DOMAIN f => g[k] = << >>
  PROVE  Balanced(g, G, S, n)
<1>1. CASE k \in DOMAIN f
  <2>1. DOMAIN g = DOMAIN f /\ Held(g) = Held(f)
    BY <1>1 DEF Held
  <2> QED
    BY <2>1 DEF Balanced
<1>2. CASE k \notin DOMAIN f
  <2>1. Single(g[k]) /\ Content(g[k]) = {}
    BY <1>2 DEF Single, Content
  <2>2. G \cap S = {} /\ n + 1 .. n = {}
    BY DEF Balanced
  <2>3. Exchanged({}, G, S, n + 1 .. n, Content(g[k]), G, S) /\ n <= n
    BY <2>1, <2>2 DEF Exchanged
  <2> QED
    BY <1>2, <2>1, <2>3, OneQueueChanges
<1> QED
  BY <1>1, <1>2

(* The head of a queue is sent.                                            *)
LEMMA BalancedTake ==
  ASSUME NEW f, NEW g, NEW k \in DOMAIN f, NEW G, NEW S, NEW n \in Nat,
         Balanced(f, G, S, n), DOMAIN g = DOMAIN f, \A l \in DOMAIN f : l # k => g[l] = f[l],
         NEW P, f[k] \in Seq(P), f[k] # << >>, g[k] = Tail(f[k])
  PROVE  Balanced(g, G, S \cup {Head(f[k]).id}, n)
<1>1. PICK C, h, T : C = Content(f[k]) /\ h = Head(f[k]).id /\ T = Content(g[k])
  OBVIOUS
<1>2. /\ Single(f[k]) /\ C \cap (G \cup S) = {} /\ G \cap S = {} /\ n + 1 .. n = {}
  BY <1>1, OneQueue
<1>3. Single(g[k]) /\ C = T \cup {h} /\ h \notin T
  BY <1>1, <1>2, SingleTail
<1>4. h \notin G
  BY <1>2, <1>3
<1>5. PICK S1 : S1 = S \cup {h}
  OBVIOUS
<1>6. Exchanged(C, G, S, n + 1 .. n, Content(g[k]), G, S1)
  BY <1>1, <1>2, <1>3, <1>4, <1>5 DEF Exchanged
<1>7. DOMAIN g = DOMAIN f \cup {k}
  BY Zenon
<1>8. n <= n
  OBVIOUS
<1>9. Balanced(g, G, S1, n)
  BY <1>1, <1>3, <1>6, <1>7, <1>8, OneQueueChanges
<1> QED
  BY <1>1, <1>5, <1>9

(* What is lost of a queue when its places a .. b are kept.                *)
CutOff(s, a, b) == {s[i].id : i \in DOMAIN s \ (a .. b)}

(* A part of a queue is kept and the rest dropped.                         *)
LEMMA BalancedCut ==
  ASSUME NEW f, NEW g, NEW k \in DOMAIN f, NEW G, NEW S, NEW n \in Nat,
         Balanced(f, G, S, n), DOMAIN g = DOMAIN f, \A l \in DOMAIN f : l # k => g[l] = f[l],
         NEW P, f[k] \in Seq(P), NEW a \in Nat \ {0}, NEW b \in Nat, b <= Len(f[k]),
         g[k] = SubSeq(f[k], a, b), NEW R, R = CutOff(f[k], a, b)
  PROVE  Balanced(g, G \cup R, S, n)
<1>1. PICK C, T : C = Content(f[k]) /\ T = Content(g[k])
  OBVIOUS
<1>2. /\ Single(f[k]) /\ C \cap (G \cup S) = {} /\ G \cap S = {} /\ n + 1 .. n = {}
  BY <1>1, OneQueue
<1>3. Single(g[k]) /\ T \cup R = C /\ T \cap R = {}
  BY <1>1, <1>2, SingleSubSeq DEF CutOff
<1>4. PICK G1 : G1 = G \cup R
  OBVIOUS
<1>5. Exchanged(C, G, S, n + 1 .. n, Content(g[k]), G1, S)
  BY <1>1, <1>2, <1>3, <1>4 DEF Exchanged
<1>6. DOMAIN g = DOMAIN f \cup {k}
  BY Zenon
<1>7. n <= n
  OBVIOUS
<1>8. Balanced(g, G1, S, n)
  BY <1>1, <1>3, <1>5, <1>6, <1>7, OneQueueChanges
<1> QED
  BY <1>4, <1>8

-----------------------------------------------------------------------------
(* The steps of the queue, in terms of Queues.                             *)
LEMMA QueuesFacts ==
  ASSUME TypeOK
  PROVE  /\ DOMAIN Queues = DOMAIN bqMap \cup {Plain} /\ Queues[Plain] = q_
         /\ \A k \in DOMAIN bqMap : k # Plain /\ Queues[k] = bqMap[k]
         /\ Plain \notin DOMAIN bqMap
<1>1. \A k \in DOMAIN bqMap : k # Plain
  BY DEF TypeOK, Keys, Plain
<1> QED
  BY <1>1 DEF Queues

LEMMA AccountRecv == ASSUME TypeOK, TypeOK', AccountInv, Recv PROVE AccountInv'
<1>1. arrived \in Nat /\ arrived' = arrived + 1 /\ departed' = departed
  BY MaxPktsAssumption DEF Recv, TypeOK
<1>2. EnquePlain \/ \E k \in Keys : EnqueProbe(k)
  BY DEF Recv
<1>3. /\ \A k \in DOMAIN bqMap : bqMap[k] \in Seq(Packets({k})')
      /\ q_ \in Seq(Packets({Plain})')
  BY <1>1, PacketsGrow DEF TypeOK
<1>4. PICK f, g, G, G1, S, n : /\ f = Queues /\ g = Queues' /\ G = Ids(dropped) /\ G1 = Ids(dropped')
                               /\ S = Ids(departed) /\ n = arrived
  OBVIOUS
<1>5. Balanced(f, G, S, n) /\ n \in Nat
  BY <1>1, <1>4 DEF AccountInv
<1>6. /\ DOMAIN f = DOMAIN bqMap \cup {Plain} /\ f[Plain] = q_
      /\ \A k \in DOMAIN bqMap : k # Plain /\ f[k] = bqMap[k]
      /\ DOMAIN g = DOMAIN bqMap' \cup {Plain} /\ g[Plain] = q_'
      /\ \A k \in DOMAIN bqMap' : k # Plain /\ g[k] = bqMap'[k]
  <2>1. /\ DOMAIN Queues' = DOMAIN bqMap' \cup {Plain} /\ Queues'[Plain] = q_'
        /\ \A k \in DOMAIN bqMap' : k # Plain /\ Queues'[k] = bqMap'[k]
    <3>1. \A k \in DOMAIN bqMap' : k # Plain
      BY DEF TypeOK, Keys, Plain
    <3> QED
      BY <3>1 DEF Queues
  <2> QED
    BY <1>4, <2>1, QueuesFacts
<1>7. SUFFICES Balanced(g, G1, S, n + 1)
  BY <1>1, <1>4, <1>7 DEF AccountInv
<1>8. ASSUME NEW p, p = Packet(Plain, q_), bqMap' = bqMap,
             \/ q_' = Append(q_, p) /\ dropped' = dropped
             \/ q_' = Tail(Append(q_, p)) /\ dropped' = dropped \cup {Head(Append(q_, p))}
             \/ q_' = q_ /\ dropped' = dropped \cup {p}
      PROVE  Balanced(g, G1, S, n + 1)
  <2>1. PICK P : P = Packets({Plain})'
    OBVIOUS
  <2>2. f[Plain] \in Seq(P) /\ p \in P /\ p.id = n + 1 /\ Plain \in DOMAIN f
    BY <1>1, <1>3, <1>4, <1>6, <1>8, <2>1, PacketType DEF Packet
  <2>3. DOMAIN g = DOMAIN f /\ \A l \in DOMAIN f : l # Plain => g[l] = f[l]
    BY <1>6, <1>8
  <2>4. Enqued(f[Plain], g[Plain], p, G, G1)
    <3>1. \A x : dropped' = dropped \cup {x} => G1 = G \cup {x.id}
      BY <1>4 DEF Ids
    <3>2. dropped' = dropped => G1 = G
      BY <1>4
    <3> QED
      BY <1>6, <1>8, <3>1, <3>2 DEF Enqued
  <2> QED
    BY <1>5, <2>2, <2>3, <2>4, BalancedPut
<1>9. ASSUME NEW k \in Keys, NEW map, NEW p, map = WithKey(k), p = Packet(k, map[k]), q_' = q_,
             \/ bqMap' = map /\ dropped' = dropped \cup {p}
             \/ bqMap' = [map EXCEPT ![k] = Append(map[k], p)] /\ dropped' = dropped
      PROVE  Balanced(g, G1, S, n + 1)
  <2>1. PICK P : P = Packets({k})'
    OBVIOUS
  <2>2. /\ map = [j \in DOMAIN map |-> map[j]] /\ k \in DOMAIN map /\ k # Plain
        /\ DOMAIN map = DOMAIN bqMap \cup {k}
        /\ \A j \in DOMAIN bqMap : map[j] = bqMap[j]
        /\ k \notin DOMAIN bqMap => map[k] = << >>
    BY <1>9 DEF WithKey, Keys, Plain
  <2>3. PICK h : h = [j \in DOMAIN map \cup {Plain} |-> IF j = Plain THEN q_ ELSE map[j]]
    OBVIOUS
  <2>4. /\ DOMAIN h = DOMAIN f \cup {k} /\ k \in DOMAIN h /\ h[k] = map[k]
        /\ \A l \in DOMAIN f : h[l] = f[l]
        /\ k \notin DOMAIN f => h[k] = << >>
    BY <1>6, <2>2, <2>3
  <2>5. Balanced(h, G, S, n)
    BY <1>5, <2>4, BalancedNew
  <2>6. h[k] \in Seq(P) /\ p \in P /\ p.id = n + 1
    <3>1. << >> \in Seq(P)
      OBVIOUS
    <3>2. map[k] \in Seq(P)
      BY <1>3, <2>1, <2>2, <3>1
    <3> QED
      BY <1>1, <1>4, <1>9, <2>1, <2>4, <3>2, PacketType DEF Packet
  <2>7. DOMAIN g = DOMAIN h /\ \A l \in DOMAIN h : l # k => g[l] = h[l]
    BY <1>6, <1>9, <2>2, <2>3
  <2>8. Enqued(h[k], g[k], p, G, G1)
    <3>1. dropped' = dropped \cup {p} => G1 = G \cup {p.id}
      BY <1>4 DEF Ids
    <3>2. dropped' = dropped => G1 = G
      BY <1>4
    <3>3. CASE bqMap' = map /\ dropped' = dropped \cup {p}
      BY <1>6, <2>2, <2>4, <3>1, <3>3 DEF Enqued
    <3>4. CASE bqMap' = [map EXCEPT ![k] = Append(map[k], p)] /\ dropped' = dropped
      BY <1>6, <2>2, <2>4, <3>2, <3>4 DEF Enqued
    <3> QED
      BY <1>9, <3>3, <3>4
  <2> QED
    BY <1>5, <2>4, <2>5, <2>6, <2>7, <2>8, BalancedPut
<1> QED
  BY <1>1, <1>2, <1>8, <1>9, EnqueCases

LEMMA AccountNext == SearchInv /\ TypeOK /\ AccountInv /\ [Next]_vars => AccountInv'
<1> SUFFICES ASSUME SearchInv, TypeOK, TypeOK', AccountInv, [Next]_vars PROVE AccountInv'
  BY TypeNext
<1>1. PICK f, G, S, n : f = Queues /\ G = Ids(dropped) /\ S = Ids(departed) /\ n = arrived
  OBVIOUS
<1>2. Balanced(f, G, S, n) /\ n \in Nat
  BY <1>1, MaxPktsAssumption DEF AccountInv, TypeOK
<1>3. /\ DOMAIN f = DOMAIN bqMap \cup {Plain} /\ f[Plain] = q_
      /\ \A k \in DOMAIN bqMap : k # Plain /\ f[k] = bqMap[k]
      /\ Plain \notin DOMAIN bqMap
  BY <1>1, QueuesFacts
<1>4. CASE Recv
  BY <1>4, AccountRecv
<1>5. ASSUME NEW l \in Limits, Shrink(l) PROVE AccountInv'
  <2>1. PICK g : g = Queues'
    OBVIOUS
  <2>2. PICK P : P = Packets({Plain})
    OBVIOUS
  <2>3. l \in Nat /\ q_ \in Seq(P) /\ f[Plain] \in Seq(P) /\ Plain \in DOMAIN f
    BY <1>3, <2>2, LimitAssumption DEF TypeOK
  <2>4. /\ Cut(q_, l) + 1 \in Nat \ {0} /\ Len(q_) \in Nat /\ Cut(q_, l) \in Nat
        /\ Len(q_) - Cut(q_, l) \in Nat /\ Len(q_) - Cut(q_, l) <= Len(q_)
        /\ Len(q_) <= Len(q_)
    BY <2>3, CutFacts
  <2>5. \E a \in Nat \ {0}, b \in Nat :
          /\ b <= Len(q_) /\ q_' = SubSeq(q_, a, b)
          /\ dropped' = dropped \cup {q_[i] : i \in DOMAIN q_ \ (a .. b)}
    <3>1. CASE drop_front_
      <4>1. /\ q_' = SubSeq(q_, Cut(q_, l) + 1, Len(q_))
            /\ dropped' = dropped \cup {q_[i] : i \in DOMAIN q_ \ (Cut(q_, l) + 1 .. Len(q_))}
        BY <1>5, <3>1 DEF Shrink, Cut
      <4> QED
        BY <2>4, <4>1
    <3>2. CASE ~ drop_front_
      <4>1. /\ q_' = SubSeq(q_, 1, Len(q_) - Cut(q_, l))
            /\ dropped' = dropped \cup {q_[i] : i \in DOMAIN q_ \ (1 .. Len(q_) - Cut(q_, l))}
        BY <1>5, <3>2 DEF Shrink, Cut
      <4>2. PICK b : b = Len(q_) - Cut(q_, l)
        OBVIOUS
      <4>3. 1 \in Nat \ {0} /\ b \in Nat /\ b <= Len(q_)
        BY <2>4, <4>2
      <4>4. /\ q_' = SubSeq(q_, 1, b)
            /\ dropped' = dropped \cup {q_[i] : i \in DOMAIN q_ \ (1 .. b)}
        BY <4>1, <4>2
      <4> QED
        BY <4>3, <4>4
    <3> QED
      BY <3>1, <3>2
  <2>6. PICK a \in Nat \ {0}, b \in Nat :
          /\ b <= Len(q_) /\ q_' = SubSeq(q_, a, b)
          /\ dropped' = dropped \cup {q_[i] : i \in DOMAIN q_ \ (a .. b)}
    BY <2>5
  <2>7. PICK R : R = CutOff(q_, a, b)
    OBVIOUS
  <2>8. Ids(dropped') = G \cup R
    BY <1>1, <2>6, <2>7 DEF Ids, CutOff
  <2>9. /\ bqMap' = bqMap /\ arrived' = arrived /\ departed' = departed
    BY <1>5 DEF Shrink
  <2>10. /\ DOMAIN g = DOMAIN f /\ g[Plain] = SubSeq(f[Plain], a, b)
         /\ \A k \in DOMAIN f : k # Plain => g[k] = f[k]
    BY <1>1, <1>3, <2>1, <2>6, <2>9 DEF Queues
  <2>11. b <= Len(f[Plain]) /\ R = CutOff(f[Plain], a, b)
    BY <1>3, <2>6, <2>7
  <2>12. Balanced(g, G \cup R, S, n)
    BY <1>2, <2>3, <2>10, <2>11, BalancedCut
  <2> QED
    BY <1>1, <2>1, <2>8, <2>9, <2>12 DEF AccountInv
<1>6. CASE TakeProbe
  <2>1. PICK g, t : g = Queues' /\ t = Turn
    OBVIOUS
  <2>2. PICK P : P = Packets({t})
    OBVIOUS
  <2>3. t \in DOMAIN bqMap /\ bqMap[t] \in Seq(P) /\ bqMap[t] # << >>
    BY <1>6, <2>1, <2>2, TurnFacts DEF TakeProbe, SearchInv, TypeOK
  <2>4. /\ q_' = q_ /\ bqMap' = [bqMap EXCEPT ![t] = Tail(bqMap[t])]
        /\ departed' = departed \cup {Head(bqMap[t])} /\ arrived' = arrived /\ dropped' = dropped
    BY <1>6, <2>1 DEF TakeProbe
  <2>5. /\ t \in DOMAIN f /\ f[t] \in Seq(P) /\ f[t] # << >>
        /\ DOMAIN g = DOMAIN f /\ g[t] = Tail(f[t])
        /\ \A k \in DOMAIN f : k # t => g[k] = f[k]
    BY <1>1, <1>3, <2>1, <2>3, <2>4 DEF Queues
  <2>6. Balanced(g, G, S \cup {Head(f[t]).id}, n)
    BY <1>2, <2>5, BalancedTake
  <2>7. Ids(departed') = S \cup {Head(f[t]).id}
    BY <1>1, <1>3, <2>3, <2>4 DEF Ids
  <2> QED
    BY <1>1, <2>1, <2>4, <2>6, <2>7 DEF AccountInv
<1>7. CASE TakePlain
  <2>1. PICK g : g = Queues'
    OBVIOUS
  <2>2. PICK P : P = Packets({Plain})
    OBVIOUS
  <2>3. bqMap' = bqMap /\ arrived' = arrived /\ dropped' = dropped
    BY <1>7 DEF TakePlain
  <2>4. CASE q_ = << >>
    <3>1. q_' = q_ /\ departed' = departed
      BY <1>7, <2>4 DEF TakePlain
    <3> QED
      BY <2>3, <3>1 DEF AccountInv, Queues
  <2>5. CASE q_ # << >>
    <3>1. q_' = Tail(q_) /\ departed' = departed \cup {Head(q_)}
      BY <1>7, <2>5 DEF TakePlain, Rest
    <3>2. /\ Plain \in DOMAIN f /\ f[Plain] \in Seq(P) /\ f[Plain] # << >>
          /\ DOMAIN g = DOMAIN f /\ g[Plain] = Tail(f[Plain])
          /\ \A k \in DOMAIN f : k # Plain => g[k] = f[k]
      <4>1. f[Plain] \in Seq(P) /\ Plain \in DOMAIN f
        BY <1>3, <2>2 DEF TypeOK
      <4> QED
        BY <1>1, <1>3, <2>1, <2>3, <2>5, <3>1, <4>1 DEF Queues
    <3>3. Balanced(g, G, S \cup {Head(f[Plain]).id}, n)
      BY <1>2, <3>2, BalancedTake
    <3>4. Ids(departed') = S \cup {Head(f[Plain]).id}
      BY <1>1, <1>3, <3>1 DEF Ids
    <3> QED
      BY <1>1, <2>1, <2>3, <3>3, <3>4 DEF AccountInv
  <2> QED
    BY <2>4, <2>5
<1>8. CASE Resume \/ Skip \/ UNCHANGED vars
  BY <1>8 DEF Resume, Skip, vars, AccountInv, Queues
<1> QED
  BY <1>4, <1>5, <1>6, <1>7, <1>8 DEF Next, Round

(* Every packet that reached a CLBQueue waits in one queue, was dropped or *)
(* was sent, and none of them twice: for every number of keys, through     *)
(* overflows, drops from the front and lowered limits.                     *)
THEOREM AccountedHolds == Spec => []Accounted
<1>1. Init => AccountInv
  <2> SUFFICES ASSUME Init PROVE AccountInv
    OBVIOUS
  <2>1. /\ DOMAIN Queues = {Plain} /\ Queues[Plain] = << >>
        /\ Ids(dropped) = {} /\ Ids(departed) = {} /\ 1 .. arrived = {}
    BY DEF Init, Queues, Ids
  <2>2. Content(Queues[Plain]) = {} /\ Single(Queues[Plain])
    BY <2>1 DEF Content, Single
  <2>3. Held(Queues) = {}
    BY <2>1, <2>2 DEF Held
  <2> QED
    BY <2>1, <2>2, <2>3 DEF AccountInv, Balanced
<1>2. TypeOK /\ AccountInv => Accounted
  <2> SUFFICES ASSUME TypeOK, AccountInv PROVE Accounted
    OBVIOUS
  <2>1. PICK W, G, S, n : W = Held(Queues) /\ G = Ids(dropped) /\ S = Ids(departed) /\ n = arrived
    OBVIOUS
  <2>2. n \in Nat /\ 1 \in Int /\ n \in Int
    BY <2>1, MaxPktsAssumption DEF TypeOK
  <2>3. W \cup G \cup S = 1 .. n /\ W \cap G = {} /\ (W \cup G) \cap S = {}
    BY <2>1 DEF AccountInv, Balanced, Held
  <2>4. Waiting = W
    <3>1. /\ DOMAIN Queues = DOMAIN bqMap \cup {Plain} /\ Queues[Plain] = q_
          /\ \A k \in DOMAIN bqMap : Queues[k] = bqMap[k]
      BY QueuesFacts
    <3>2. Waiting = Held(bqMap) \cup Content(q_)
      BY DEF Waiting, Held
    <3>3. \A f, x : x \in Held(f) <=> \E k \in DOMAIN f : x \in Content(f[k])
      BY DEF Held
    <3>4. ASSUME NEW x \in Waiting PROVE x \in Held(Queues)
      <4>1. x \in Content(q_) \/ \E k \in DOMAIN bqMap : x \in Content(bqMap[k])
        BY <3>2, <3>3
      <4>2. \E k \in DOMAIN Queues : x \in Content(Queues[k])
        BY <3>1, <4>1
      <4> QED
        BY <4>2 DEF Held
    <3>5. ASSUME NEW x \in Held(Queues) PROVE x \in Waiting
      <4>1. PICK k \in DOMAIN Queues : x \in Content(Queues[k])
        BY DEF Held
      <4>2. x \in Content(q_) \/ \E j \in DOMAIN bqMap : x \in Content(bqMap[j])
        BY <3>1, <4>1
      <4> QED
        BY <3>2, <3>3, <4>2
    <3> QED
      BY <2>1, <3>4, <3>5
  <2>5. IsFiniteSet(1 .. n) /\ Cardinality(1 .. n) = IF 1 > n THEN 0 ELSE n - 1 + 1
    BY <2>2, FS_Interval, Zenon
  <2>6. IsFiniteSet(W) /\ IsFiniteSet(G) /\ IsFiniteSet(S)
    BY <2>3, <2>5, FS_Subset
  <2>7. Cardinality(W) \in Nat /\ Cardinality(G) \in Nat /\ Cardinality(S) \in Nat
    BY <2>6, FS_CardinalityType
  <2>8. /\ IsFiniteSet(W \cup G)
        /\ Cardinality(W \cup G) = Cardinality(W) + Cardinality(G) - Cardinality(W \cap G)
    BY <2>6, FS_Union
  <2>9. Cardinality(W \cup G \cup S)
          = Cardinality(W \cup G) + Cardinality(S) - Cardinality((W \cup G) \cap S)
    BY <2>6, <2>8, FS_Union
  <2>10. /\ Cardinality(W \cap G) = 0 /\ Cardinality((W \cup G) \cap S) = 0
         /\ Cardinality(W \cup G \cup S) = Cardinality(1 .. n)
    BY <2>3, FS_EmptySet, Zenon
  <2>11. Cardinality(W) + Cardinality(G) + Cardinality(S) = n
    BY <2>2, <2>5, <2>7, <2>8, <2>9, <2>10
  <2> QED
    BY <2>1, <2>3, <2>4, <2>11 DEF Accounted, Ids
<1> QED
  BY <1>1, <1>2, AccountNext, SearchAlways, TypeCorrect, PTL DEF Spec
=============================================================================

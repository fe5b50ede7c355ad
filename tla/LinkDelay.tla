------------------------------ MODULE LinkDelay ------------------------------
(***************************************************************************)
(* A link of ns-2 (LinkDelay, link/delay.cc) with the DREAgent that        *)
(* measures its load for Conga (link/dre.cc).  The queue before the link   *)
(* hands over one packet at a time and is called back when the packet has  *)
(* been sent; the packet reaches the next node delay_ later.  The script   *)
(* may change delay_ while packets are in transit.                         *)
(*                                                                         *)
(* Time is counted in bit times of the link, so that a packet of n bits    *)
(* takes n to send.  The register X of the DRE is only read through        *)
(* (int) X, and the integer below equals (int) X exactly: halving and      *)
(* adding whole bits commute with cutting off the fraction.                *)
(***************************************************************************)
EXTENDS Integers, SequencesExt

CONSTANTS
  Sizes,        \* packet sizes in bits
  Delays,       \* values of delay_
  T_DRE,        \* period of the decay timer
  MAX_CE        \* number of congestion degrees

ASSUME SizesAssumption == Sizes \subseteq Nat \ {0} /\ Delays \subseteq Nat
ASSUME DreAssumption == T_DRE \in Nat \ {0} /\ MAX_CE \in Nat \ {0}

VARIABLES
  mode,         \* "dynamic", "avoid" (avoidReordering_) or "static"
  delay_,
  transit,      \* time left for every packet on its way, in the order they
                \* were sent (for a dynamic link, this is also itq_)
  degree,       \* congDegree of a packet just handed over, otherwise 0
  busy,         \* time left until the queue is called back
  latest,       \* latest_time_ - now, or 0
  dre,          \* the DREAgent exists (ifCONGA_)
  X,            \* its register
  decay,        \* time left until its timer expires
  changed,      \* history: delay_ was changed
  routing,      \* history: the packet being sent is counted by the DRE
  load,         \* history: for how long the link has been sending routed
                \* packets without a pause, up to 2 * T_DRE + 1
  idle          \* history: for how long it has sent none, up to 2 * T_DRE + 1

dreVars == <<dre, X, decay>>
history == <<changed, routing, load, idle>>
linkVars == <<mode, delay_, transit, degree, busy, latest, dreVars, history>>

LinkInit ==
  /\ mode \in {"dynamic", "avoid", "static"}
  /\ delay_ \in Delays
  /\ transit = << >>
  /\ degree = 0
  /\ busy = 0
  /\ latest = 0
  /\ dre = FALSE
  /\ X = 0
  /\ decay = T_DRE
  /\ changed = FALSE
  /\ routing = FALSE
  /\ load = 0
  /\ idle = 0

Cap(n) == IF n > 2 * T_DRE THEN 2 * T_DRE + 1 ELSE n

Larger(m, n) == IF m > n THEN m ELSE n

-----------------------------------------------------------------------------
(* The DRE.                                                                *)

(* updateDRECost: X * ALPHA / (T_DRE * bandWidth) * MAX_CE, ALPHA = 0.5.   *)
dreCost(x) ==
  LET cost == (x * MAX_CE) \div (2 * T_DRE)
  IN  IF cost >= MAX_CE THEN MAX_CE - 1 ELSE cost

(* Mutant: the register is decayed twice.                                  *)
Halved_Twice(x) == x \div 4

(* Mutant: the register is not decayed.                                    *)
Halved_None(x) == x

(* Mutant: the decay is too slow.                                          *)
Halved_Slow(x) == x - (x \div 4)

Halved(x) == x \div 2

(* DREAgent::decayTimeout.                                                 *)
Decay ==
  /\ dre
  /\ decay = 0
  /\ decay' = T_DRE
  /\ X' = Halved(X)
  /\ UNCHANGED <<mode, delay_, transit, degree, busy, latest, dre, history>>

-----------------------------------------------------------------------------
(* The link.                                                               *)

(* Mutant: the link counts on the delay of this moment.                    *)
Overtakes_Never(size) == FALSE

(* The packet would arrive before the one sent before it.                  *)
Overtakes(size) == size + delay_ < latest

(* Mutant: the delay is added to the time of the packet before.            *)
Due_Added(size) ==
  IF mode = "avoid" /\ Overtakes(size) THEN latest + size + delay_ ELSE size + delay_

(* How long the packet is under way.                                       *)
Due(size) ==
  IF mode = "avoid" /\ Overtakes(size) THEN latest + size ELSE size + delay_

Counted(size) == X + size

(* recv(): a packet of the given size that arrives with congestion degree  *)
(* deg, routed by Conga (congaRouteRow.en_flag, or ifCONGA of the older    *)
(* agent) or not.                                                          *)
LinkRecv(size, routed, deg) ==
  /\ busy = 0
  /\ IF routed
     THEN /\ dre' = TRUE
          /\ X' = Counted(size)
          /\ decay' = IF dre THEN decay ELSE T_DRE
          /\ degree' = Larger(deg, dreCost(X'))
     ELSE /\ degree' = deg
          /\ UNCHANGED dreVars
  /\ transit' = Append(transit, Due(size))
  /\ latest' = IF mode = "avoid" THEN Due(size) ELSE latest
  /\ busy' = size
  /\ routing' = routed
  /\ idle' = IF routed THEN 0 ELSE idle
  /\ UNCHANGED <<mode, delay_, changed, load>>

(* The events of the scheduler that are due next; the scheduler runs       *)
(* simultaneous ones in the order they were scheduled.                     *)
Arrives(i) ==
  /\ transit[i] = 0
  /\ \A j \in 1 .. i - 1 : transit[j] > 0

(* The packet reaches the next node: target_->recv(), on a dynamic link    *)
(* through handle(), which takes the first packet of itq_ whichever event  *)
(* fired (it asserts that it is the right one; the Makefile defines        *)
(* NDEBUG).  transit loses the event that fired.                           *)
Deliver(i) ==
  /\ Arrives(i)
  /\ transit' = RemoveAt(transit, i)
  /\ UNCHANGED <<mode, delay_, degree, busy, latest, dreVars, history>>

(* The script sets delay_.                                                 *)
SetDelay(d) ==
  /\ d # delay_
  /\ delay_' = d
  /\ changed' = TRUE
  /\ UNCHANGED <<mode, transit, degree, busy, latest, dreVars, routing, load, idle>>

(* reset(), when a dynamic link goes down: the packets in transit are      *)
(* dropped.  The queue is still called back.                               *)
Reset ==
  /\ mode = "dynamic"
  /\ transit # << >>
  /\ transit' = << >>
  /\ UNCHANGED <<mode, delay_, degree, busy, latest, dreVars, history>>

Less(n) == IF n = 0 THEN 0 ELSE n - 1

(* Time passes when no event is due.  The queue may leave the link idle.   *)
Tick ==
  /\ \A i \in DOMAIN transit : transit[i] > 0
  /\ dre => decay > 0
  /\ transit' = [i \in DOMAIN transit |-> transit[i] - 1]
  /\ degree' = 0
  /\ busy' = Less(busy)
  /\ latest' = Less(latest)
  /\ decay' = IF dre THEN decay - 1 ELSE decay
  /\ load' = IF busy > 0 /\ routing THEN Cap(load + 1) ELSE 0
  /\ idle' = IF busy > 0 /\ routing THEN 0 ELSE Cap(idle + 1)
  /\ UNCHANGED <<mode, delay_, dre, X, changed, routing>>

LinkNext ==
  \/ \E size \in Sizes, routed \in BOOLEAN, deg \in 0 .. MAX_CE - 1 :
       LinkRecv(size, routed, deg)
  \/ \E i \in DOMAIN transit : Deliver(i)
  \/ Decay
  \/ \E d \in Delays : SetDelay(d)
  \/ Reset
  \/ Tick

LinkSpec == LinkInit /\ [][LinkNext]_linkVars

-----------------------------------------------------------------------------
(* Properties.                                                             *)

(* The packets arrive in the order they were sent: always with             *)
(* avoidReordering_, otherwise as long as delay_ is not changed.  Under    *)
(* that condition handle() takes the packet whose event fired.             *)
InOrder ==
  mode = "avoid" \/ ~ changed =>
    \A i \in DOMAIN transit : Arrives(i) => i = 1

(* Holding a packet back to keep the order (recv with avoidReordering_)    *)
(* does not add up: however often delay_ changes, no packet is under way   *)
(* longer than the largest delay and the largest packet allow (not its own *)
(* delay and size, since it may be behind slower ones).                    *)
NotHeldBack ==
  \A i \in DOMAIN transit :
    \E d \in Delays, size \in Sizes : transit[i] <= d + size

(* The register never runs away: it exceeds the value that stands for a    *)
(* full link, 2 * T_DRE, by at most the packet being sent.                 *)
RegisterBounded == X <= 2 * T_DRE + busy

(* A link that sent routed packets without a pause for two periods shows   *)
(* at least three quarters of the load of one period, up to rounding and   *)
(* three eighths of a packet: two decays (decayTimeout) leave that much,   *)
(* wherever in the period the load began and the packets end.              *)
FullSeen ==
  load > 2 * T_DRE =>
    \E size \in Sizes : 8 * (X + 1) + 3 * size >= 6 * T_DRE

(* After two periods without routed packets at most a quarter of the       *)
(* register is left.                                                       *)
IdleForgotten == idle > 2 * T_DRE => 4 * X <= 2 * T_DRE
=============================================================================

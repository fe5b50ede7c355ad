-------------------------------- MODULE Conga --------------------------------
(***************************************************************************)
(* Conga (clb/conga.cc) on the leaf switches of a leaf-spine network.  A   *)
(* leaf sends every packet on the up-link port whose path to the           *)
(* destination's leaf has the least known congestion degree.  The links    *)
(* raise the degree in the packet's header (LinkDelay); the receiving leaf *)
(* notes it and reports it back on one of its own packets, chosen at       *)
(* random, to the leaf that picked the port.                               *)
(*                                                                         *)
(* Packets of one leaf on one port to one leaf stay in order; packets on   *)
(* different ports overtake each other, and queues may drop packets.  A    *)
(* host is identified with its leaf (serv2leaf), and only packets that     *)
(* route() was called for are modelled: others carry no rows.  route_count_*)
(* is only read by debug output.                                           *)
(***************************************************************************)
EXTENDS Integers, Sequences, FiniteSets

CONSTANTS
  Leaves,         \* leaf switches
  Talk,           \* pairs <<l, d>> of leaves such that l sends to d
  slots_,         \* number of up-link ports of each leaf
  Degrees,        \* congestion degrees that the links may measure
  MaxTransit      \* bound: packets in the network

ASSUME LeavesAssumption == Talk \subseteq Leaves \X Leaves /\ \A t \in Talk : t[1] # t[2]
ASSUME SlotsAssumption == slots_ \in [Leaves -> Nat \ {0}]
ASSUME DegreesAssumption == Degrees \subseteq Nat /\ 0 \in Degrees
ASSUME MaxTransitAssumption == MaxTransit \in Nat

Ports(l) == 0 .. slots_[l] - 1

(* A leaf, a leaf it sends to, and the port it uses.                       *)
Paths == UNION {{<<t[1], t[2], p>> : p \in Ports(t[1])} : t \in Talk}

VARIABLES
  route_table_,     \* per leaf: destination leaf -> port -> degree
  response_table_,  \* per leaf: source leaf -> port of that leaf -> degree
  net,              \* net[l, d, p]: reports carried by packets of l to d on p
  last,             \* history: degree of the path's last packet to arrive
  ever              \* history: degrees ever measured on the path

vars == <<route_table_, response_table_, net, last, ever>>

None == -1

Init ==
  /\ route_table_ = [l \in Leaves |-> << >>]
  /\ response_table_ = [l \in Leaves |-> << >>]
  /\ net = [x \in Paths |-> << >>]
  /\ last = [x \in Paths |-> None]
  /\ ever = [x \in Paths |-> {}]

(* Table t after t[k] = v.                                                 *)
With(t, k, v) == [j \in DOMAIN t \cup {k} |-> IF j = k THEN v ELSE t[j]]

-----------------------------------------------------------------------------
(* route().                                                                *)

(* The ports route() chooses from.                                         *)
Best(l, d) ==
  IF d \in DOMAIN route_table_[l]
  THEN {p \in Ports(l) : \A q \in Ports(l) :
          route_table_[l][d][p] <= route_table_[l][d][q]}
  ELSE Ports(l)

(* Mutant: always the first entry.                                         *)
Reports_First(l, d) ==
  IF d \in DOMAIN response_table_[l]
  THEN LET t == response_table_[l][d]
           p == CHOOSE q \in DOMAIN t : \A r \in DOMAIN t : q <= r
       IN  {{<<p, t[p]>>}}
  ELSE {{}}

(* The response rows it may set: one entry of the table, or none.          *)
Reports(l, d) ==
  IF d \in DOMAIN response_table_[l]
  THEN {{<<p, response_table_[l][d][p]>>} : p \in DOMAIN response_table_[l][d]}
  ELSE {{}}

InTransit == {y \in Paths \X (1 .. MaxTransit) : y[2] <= Len(net[y[1]])}

(* A packet leaves l for d on port p, with the report rep.                 *)
Route(l, d, p, rep) ==
  /\ Cardinality(InTransit) < MaxTransit
  /\ p \in Best(l, d)
  /\ rep \in Reports(l, d)
  /\ net' = [net EXCEPT ![<<l, d, p>>] = Append(@, rep)]
  /\ UNCHANGED <<route_table_, response_table_, last, ever>>

-----------------------------------------------------------------------------
(* recv(), called by every classifier of a leaf.                           *)

(* Mutant: the degree is filed under the port the packet came on.          *)
Learned_Here(t, l, slots, p, rep) ==
  LET row == IF l \in DOMAIN t THEN t[l] ELSE [q \in slots |-> 0]
  IN  IF rep = {} THEN t
      ELSE With(t, l, [q \in slots |-> IF q = p THEN (CHOOSE r \in rep : TRUE)[2]
                                       ELSE row[q]])

(* The route table t after the report rep of leaf l; slots are the ports   *)
(* of this leaf, p is the port the packet came on.                         *)
Learned(t, l, slots, p, rep) ==
  LET row == IF l \in DOMAIN t THEN t[l] ELSE [q \in slots |-> 0]
  IN  IF rep = {} THEN t
      ELSE With(t, l, [q \in slots |-> IF \E r \in rep : r[1] = q
                                       THEN (CHOOSE r \in rep : r[1] = q)[2]
                                       ELSE row[q]])

(* The response table t after a packet of leaf l on its port p that came   *)
(* with degree deg.                                                        *)
Noted(t, l, p, deg) ==
  With(t, l, With(IF l \in DOMAIN t THEN t[l] ELSE << >>, p, deg))

(* A packet of l on port p reaches d with the degree deg.                  *)
Recv(l, d, p, deg) ==
  LET x == <<l, d, p>>
  IN  /\ net[x] # << >>
      /\ net' = [net EXCEPT ![x] = Tail(@)]
      /\ response_table_' = [response_table_ EXCEPT ![d] = Noted(@, l, p, deg)]
      /\ route_table_' = [route_table_ EXCEPT
                            ![d] = Learned(@, l, Ports(d), p, Head(net[x]))]
      /\ last' = [last EXCEPT ![x] = deg]
      /\ ever' = [ever EXCEPT ![x] = @ \cup {deg}]

(* A queue drops the packet.                                               *)
Lose(x) ==
  /\ net[x] # << >>
  /\ net' = [net EXCEPT ![x] = Tail(@)]
  /\ UNCHANGED <<route_table_, response_table_, last, ever>>

Next ==
  \/ \E l, d \in Leaves, p \in UNION {Ports(m) : m \in Leaves} :
       /\ <<l, d>> \in Talk
       /\ \E rep \in Reports(l, d) : Route(l, d, p, rep)
  \/ \E x \in Paths, deg \in Degrees : Recv(x[1], x[2], x[3], deg)
  \/ \E x \in Paths : Lose(x)

Spec == Init /\ [][Next]_vars

-----------------------------------------------------------------------------
(* Fairness: the leaves keep sending to each other, the network does not   *)
(* lose every packet on a port, and rand() picks every report and every    *)
(* best port again and again.                                              *)

(* l reports its port-p measurement of d on a packet by port q.            *)
RouteReport(l, d, q, p) ==
  \E rep \in Reports(l, d) : (\E r \in rep : r[1] = p) /\ Route(l, d, q, rep)

(* The next packet on x arrives.                                           *)
RecvAny(x) == \E deg \in Degrees : Recv(x[1], x[2], x[3], deg)

(* The same packet, if it carries a report on port p.                      *)
RecvReport(x, p) ==
  /\ net[x] # << >> /\ \E r \in Head(net[x]) : r[1] = p
  /\ RecvAny(x)

Fairness ==
  \A x \in Paths :
    /\ WF_vars(RecvAny(x))
    /\ <<x[2], x[1]>> \in Talk =>
         \A p \in Ports(x[2]) :
           SF_vars(RouteReport(x[1], x[2], x[3], p)) /\ SF_vars(RecvReport(x, p))

FairSpec == Spec /\ Fairness

-----------------------------------------------------------------------------
(* Properties.                                                             *)

(* The receiver's entry for path x is the degree of its last packet.       *)
Measured(x) ==
  LET l == x[1]  d == x[2]  p == x[3]
  IN  IF l \in DOMAIN response_table_[d] /\ p \in DOMAIN response_table_[d][l]
      THEN response_table_[d][l][p] = last[x] ELSE last[x] = None

(* The sender's entry for path x was measured on it some time.             *)
Believed(x) ==
  LET l == x[1]  d == x[2]  p == x[3]
  IN  d \in DOMAIN route_table_[l] => route_table_[l][d][p] \in ever[x] \cup {0}

(* So was what packets on x report of the paths the other way.             *)
Carried(x) ==
  \A i \in DOMAIN net[x] : \A r \in net[x][i] :
    <<x[2], x[1], r[1]>> \in Paths /\ r[2] \in ever[<<x[2], x[1], r[1]>>]

(* What the leaves know of a path was measured on that path, although      *)
(* packets overtake each other and get lost: the receiver's entry is the   *)
(* degree of the last packet to arrive, and what it reports, however late  *)
(* that arrives, and the sender's entry are degrees that packets of this   *)
(* leaf, on this port, to this leaf came with (recv, route).               *)
Provenance == \A x \in Paths : Measured(x) /\ Believed(x) /\ Carried(x)

Quiet(x) == net[x] = << >>

Known(x) == x[2] \in DOMAIN route_table_[x[1]] /\ route_table_[x[1]][x[2]][x[3]] = last[x]

(* Reports may overtake each other and be lost, but once a leaf stops      *)
(* using a port, its table comes to hold the degree of the last packet     *)
(* that arrived there, and keeps it: the degree is as old as that packet.  *)
(* (The leaf behind the port must send something back to report it on.)    *)
Settles ==
  \A x \in Paths :
    <<x[2], x[1]>> \in Talk =>
      ((<>[](Quiet(x) /\ last[x] # None)) => <>[](Known(x)))
=============================================================================

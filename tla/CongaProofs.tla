---------------------------- MODULE CongaProofs ----------------------------
(***************************************************************************)
(* Proofs about Conga and about the links that measure the congestion for  *)
(* it (LinkDelay), for every network of leaves and ports, every number of  *)
(* packets under way, every set of packet sizes and delays and every       *)
(* period of the load estimator.                                           *)
(*                                                                         *)
(* Conga: Provenance is inductive once it is known that the receiver's     *)
(* table has entries of real paths only, and that the degree a path was    *)
(* last seen with is one of those it was ever seen with: degrees are only  *)
(* ever added to the history, so that a report cannot become wrong on its  *)
(* way, however late it is.                                                *)
(*                                                                         *)
(* Links: the register is bounded because of what it counts ahead of time: *)
(* a bit is counted when its packet is handed over, and the timer has run  *)
(* for every bit that has been sent since.  RegisterInv says so.  IdleInv  *)
(* follows the register through the two decays that fit into two idle      *)
(* periods, and LoadInv through those of a load without a pause.  The      *)
(* order of arrival rests on OrderInv: the times left are sorted, and      *)
(* bounded by what the next packet will add up to.                         *)
(***************************************************************************)
EXTENDS Conga, LinkDelay, SequenceTheorems, WellFoundedInduction, TLAPS

TypeInv ==
  /\ net \in [Paths -> Seq(SUBSET (Int \X Int))]
  /\ last \in [Paths -> Degrees \cup {None}]
  /\ ever \in [Paths -> SUBSET Degrees]
  /\ DOMAIN route_table_ = Leaves
  /\ DOMAIN response_table_ = Leaves

(* The receiver's entries are for paths that lead to it.                   *)
EntriesOK ==
  \A d \in Leaves : \A l \in DOMAIN response_table_[d] :
    \A p \in DOMAIN response_table_[d][l] :
      <<l, d, p>> \in Paths /\ response_table_[d][l][p] \in Degrees

LastOK == \A x \in Paths : last[x] # None => last[x] \in ever[x]

CongaInv == TypeInv /\ EntriesOK /\ LastOK /\ Provenance

-----------------------------------------------------------------------------

(* A path is a pair of leaves that talk and a port of the first.           *)
LEMMA PathFacts ==
  /\ \A x \in Paths : /\ x[1] \in Leaves /\ x[2] \in Leaves /\ x[1] # x[2]
                      /\ x[3] \in Ports(x[1]) /\ x[3] \in Nat
                      /\ x = <<x[1], x[2], x[3]>>
                      /\ <<x[1], x[2]>> \in Talk
  /\ \A l, d \in Leaves : \A p \in Ports(l) :
       <<l, d>> \in Talk => <<l, d, p>> \in Paths
<1>1. \A t \in Talk : /\ t[1] \in Leaves /\ t[2] \in Leaves /\ t[1] # t[2]
                      /\ t = <<t[1], t[2]>>
  BY LeavesAssumption
<1>2. \A l \in Leaves : Ports(l) \subseteq Nat
  BY SlotsAssumption DEF Ports
<1>3. ASSUME NEW x \in Paths
      PROVE  /\ x[1] \in Leaves /\ x[2] \in Leaves /\ x[1] # x[2]
             /\ x[3] \in Ports(x[1]) /\ x[3] \in Nat
             /\ x = <<x[1], x[2], x[3]>>
             /\ <<x[1], x[2]>> \in Talk
  <2>1. PICK t \in Talk : x \in {<<t[1], t[2], p>> : p \in Ports(t[1])}
    BY DEF Paths
  <2>2. PICK p \in Ports(t[1]) : x = <<t[1], t[2], p>>
    BY <2>1
  <2> QED
    BY <1>1, <1>2, <2>2
<1>4. ASSUME NEW l \in Leaves, NEW d \in Leaves, NEW p \in Ports(l), <<l, d>> \in Talk
      PROVE  <<l, d, p>> \in Paths
  <2> DEFINE t == <<l, d>>
  <2>1. t \in Talk /\ <<l, d, p>> \in {<<t[1], t[2], q>> : q \in Ports(t[1])}
    BY <1>4
  <2> QED
    BY <2>1 DEF Paths
<1> QED
  BY <1>3, <1>4

LEMMA CongaInit == Init => CongaInv
<1> SUFFICES ASSUME Init PROVE CongaInv
  OBVIOUS
<1>1. TypeInv /\ EntriesOK /\ LastOK
  BY DEF Init, TypeInv, EntriesOK, LastOK
<1>2. ASSUME NEW x \in Paths
      PROVE  Measured(x) /\ Believed(x) /\ Carried(x)
  <2>1. x[1] \in Leaves /\ x[2] \in Leaves
    BY PathFacts
  <2>2. /\ route_table_[x[1]] = << >> /\ response_table_[x[2]] = << >>
        /\ net[x] = << >> /\ last[x] = None
    BY <2>1 DEF Init
  <2> QED
    BY <2>2 DEF Measured, Believed, Carried
<1> QED
  BY <1>1, <1>2 DEF CongaInv, Provenance

(* A packet takes along an entry of its leaf's table.                      *)
LEMMA RouteInv ==
  ASSUME CongaInv, NEW l \in Leaves, NEW d \in Leaves, NEW p, NEW rep,
         <<l, d>> \in Talk, Route(l, d, p, rep)
  PROVE  CongaInv'
<1> DEFINE x == <<l, d, p>>
           s == net[x]
<1>1. p \in Ports(l)
  BY DEF Route, Best
<1>2. x \in Paths
  BY <1>1, PathFacts
<1>3. rep \in SUBSET (Int \X Int) /\ \A r \in rep : <<d, l, r[1]>> \in Paths /\ r[2] \in ever[<<d, l, r[1]>>]
  <2>1. CASE rep = {}
    BY <2>1
  <2>2. CASE d \in DOMAIN response_table_[l]
    <3>1. PICK q \in DOMAIN response_table_[l][d] : rep = {<<q, response_table_[l][d][q]>>}
      BY <2>2 DEF Route, Reports
    <3> DEFINE y == <<d, l, q>>
               v == response_table_[l][d][q]
    <3>2. y \in Paths /\ v \in Degrees
      BY <2>2 DEF CongaInv, EntriesOK
    <3>3. y[1] = d /\ y[2] = l /\ y[3] = q
      OBVIOUS
    <3>4. v = last[y]
      BY <2>2, <3>2, <3>3 DEF CongaInv, Provenance, Measured
    <3> HIDE DEF y, v
    <3>5. q \in Int
      <4>1. y[3] \in Nat
        BY <3>2, PathFacts
      <4> QED
        BY <3>3, <4>1
    <3>7. v \in Nat /\ v # None
      BY <3>2, DegreesAssumption DEF None
    <3>6. v \in ever[y]
      BY <3>2, <3>4, <3>7 DEF CongaInv, LastOK
    <3> QED
      BY <3>1, <3>2, <3>5, <3>7, <3>6 DEF y, v
  <2> QED
    BY <2>1, <2>2 DEF Route, Reports
<1>4. s \in Seq(SUBSET (Int \X Int)) /\ net \in [Paths -> Seq(SUBSET (Int \X Int))]
  BY <1>2 DEF CongaInv, TypeInv
<1>5. net' = [net EXCEPT ![x] = Append(s, rep)]
  BY DEF Route
<1>6. /\ Append(s, rep) \in Seq(SUBSET (Int \X Int))
      /\ \A i \in DOMAIN Append(s, rep) :
           \/ i \in DOMAIN s /\ Append(s, rep)[i] = s[i]
           \/ Append(s, rep)[i] = rep
  BY <1>3, <1>4, AppendProperties
<1>7. UNCHANGED <<route_table_, response_table_, last, ever>>
  BY DEF Route
<1>8. (TypeInv /\ EntriesOK /\ LastOK)'
  BY <1>4, <1>5, <1>6, <1>7 DEF CongaInv, TypeInv, EntriesOK, LastOK
<1>9. ASSUME NEW z \in Paths
      PROVE  (Measured(z) /\ Believed(z) /\ Carried(z))'
  <2>1. Measured(z) /\ Believed(z) /\ Carried(z)
    BY DEF CongaInv, Provenance
  <2>2. Measured(z)' /\ Believed(z)'
    BY <1>7, <2>1 DEF Measured, Believed
  <2>3. CASE z = x
    <3>1. net'[z] = Append(s, rep)
      BY <2>3, <1>4, <1>5
    <3>2. z[1] = l /\ z[2] = d
      BY <2>3
    <3> HIDE DEF x
    <3> QED
      BY <1>3, <1>6, <1>7, <2>1, <2>2, <2>3, <3>1, <3>2 DEF Carried
  <2>4. CASE z # x
    <3>1. net'[z] = net[z]
      BY <2>4, <1>4, <1>5
    <3> QED
      BY <1>7, <2>1, <2>2, <3>1 DEF Carried
  <2> QED
    BY <2>3, <2>4
<1> QED
  BY <1>8, <1>9 DEF CongaInv, Provenance

(* A packet leaves the network: the rest of what travels is as before.     *)
LEMMA TailCarried ==
  ASSUME TypeInv, NEW x \in Paths, net[x] # << >>,
         net' = [net EXCEPT ![x] = Tail(@)]
  PROVE  /\ net' \in [Paths -> Seq(SUBSET (Int \X Int))]
         /\ \A z \in Paths : \A i \in DOMAIN net'[z] :
              \E j \in DOMAIN net[z] : net'[z][i] = net[z][j]
         /\ \E j \in DOMAIN net[x] : Head(net[x]) = net[x][j]
<1> DEFINE s == net[x]
<1>1. s \in Seq(SUBSET (Int \X Int)) /\ net \in [Paths -> Seq(SUBSET (Int \X Int))]
  BY DEF TypeInv
<1>2. net' = [net EXCEPT ![x] = Tail(s)]
  OBVIOUS
<1>3. s # << >>
  OBVIOUS
<1> HIDE DEF s
<1>4. /\ Tail(s) \in Seq(SUBSET (Int \X Int))
      /\ \A i \in DOMAIN Tail(s) : i + 1 \in DOMAIN s /\ Tail(s)[i] = s[i + 1]
      /\ 1 \in DOMAIN s /\ Head(s) = s[1]
  BY <1>1, <1>3
<1>5. net' \in [Paths -> Seq(SUBSET (Int \X Int))]
  BY <1>1, <1>2, <1>4
<1>6. ASSUME NEW z \in Paths, NEW i \in DOMAIN net'[z]
      PROVE  \E j \in DOMAIN net[z] : net'[z][i] = net[z][j]
  <2>1. CASE z = x
    <3>1. net'[z] = Tail(s) /\ net[z] = s
      BY <1>1, <1>2, <2>1 DEF s
    <3> QED
      BY <1>4, <1>6, <3>1
  <2>2. CASE z # x
    BY <1>1, <1>2, <1>6, <2>2
  <2> QED
    BY <2>1, <2>2
<1> QED
  BY <1>4, <1>5, <1>6 DEF s

LEMMA LoseInv ==
  ASSUME CongaInv, NEW x \in Paths, Lose(x)
  PROVE  CongaInv'
<1>1. /\ net' \in [Paths -> Seq(SUBSET (Int \X Int))]
      /\ \A z \in Paths : \A i \in DOMAIN net'[z] :
           \E j \in DOMAIN net[z] : net'[z][i] = net[z][j]
  BY TailCarried DEF CongaInv, Lose
<1>2. UNCHANGED <<route_table_, response_table_, last, ever>>
  BY DEF Lose
<1>3. (TypeInv /\ EntriesOK /\ LastOK)'
  BY <1>1, <1>2 DEF CongaInv, TypeInv, EntriesOK, LastOK
<1>4. ASSUME NEW z \in Paths
      PROVE  (Measured(z) /\ Believed(z) /\ Carried(z))'
  <2>1. Measured(z) /\ Believed(z) /\ Carried(z)
    BY DEF CongaInv, Provenance
  <2>2. Measured(z)' /\ Believed(z)'
    BY <1>2, <2>1 DEF Measured, Believed
  <2>3. Carried(z)'
    BY <1>1, <1>2, <2>1 DEF Carried
  <2> QED
    BY <2>2, <2>3
<1> QED
  BY <1>3, <1>4 DEF CongaInv, Provenance

-----------------------------------------------------------------------------
(* What arrives.                                                           *)

(* The receiver's table gets the degree on the packet's path only.         *)
LEMMA NotedFacts ==
  ASSUME NEW t, NEW l, NEW p, NEW deg
  PROVE  /\ DOMAIN Noted(t, l, p, deg) = DOMAIN t \cup {l}
         /\ \A m \in DOMAIN t : m # l => Noted(t, l, p, deg)[m] = t[m]
         /\ l \in DOMAIN t =>
              /\ DOMAIN Noted(t, l, p, deg)[l] = DOMAIN t[l] \cup {p}
              /\ \A q \in DOMAIN t[l] : q # p => Noted(t, l, p, deg)[l][q] = t[l][q]
         /\ l \notin DOMAIN t => DOMAIN Noted(t, l, p, deg)[l] = {p}
         /\ Noted(t, l, p, deg)[l][p] = deg
<1>1. CASE l \in DOMAIN t
  BY <1>1 DEF Noted, With
<1>2. CASE l \notin DOMAIN t
  BY <1>2 DEF Noted, With
<1> QED
  BY <1>1, <1>2

(* The sender's table changes on the paths that are reported.              *)
LEMMA LearnedFacts ==
  ASSUME NEW t, NEW l, NEW slots, NEW p, NEW rep
  PROVE  /\ \A m \in DOMAIN Learned(t, l, slots, p, rep) :
              m # l => m \in DOMAIN t /\ Learned(t, l, slots, p, rep)[m] = t[m]
         /\ l \in DOMAIN Learned(t, l, slots, p, rep) =>
              \A q \in slots :
                \/ \E r \in rep : r[1] = q /\ Learned(t, l, slots, p, rep)[l][q] = r[2]
                \/ l \in DOMAIN t /\ Learned(t, l, slots, p, rep)[l][q] = t[l][q]
                \/ Learned(t, l, slots, p, rep)[l][q] = 0
<1> DEFINE row == IF l \in DOMAIN t THEN t[l] ELSE [q \in slots |-> 0]
           new == [q \in slots |-> IF \E r \in rep : r[1] = q
                                    THEN (CHOOSE r \in rep : r[1] = q)[2]
                                    ELSE row[q]]
<1>1. CASE rep = {}
  BY <1>1 DEF Learned
<1>2. CASE rep # {}
  <2>1. Learned(t, l, slots, p, rep) = With(t, l, new)
    BY <1>2 DEF Learned
  <2>2. \A m \in DOMAIN With(t, l, new) : m # l => m \in DOMAIN t /\ With(t, l, new)[m] = t[m]
    BY DEF With
  <2>3. With(t, l, new)[l] = new
    BY DEF With
  <2>4. ASSUME NEW q \in slots
        PROVE  \/ \E r \in rep : r[1] = q /\ new[q] = r[2]
               \/ l \in DOMAIN t /\ new[q] = t[l][q]
               \/ new[q] = 0
    <3>1. CASE \E r \in rep : r[1] = q
      BY <3>1
    <3>2. CASE ~ \E r \in rep : r[1] = q
      BY <3>2
    <3> QED
      BY <3>1, <3>2
  <2> HIDE DEF new
  <2> QED
    BY <2>1, <2>2, <2>3, <2>4
<1> QED
  BY <1>1, <1>2

(* The packet adds the degree to its path's history and to the receiver's  *)
(* table, and its reports to the table of the leaf they are for.           *)
LEMMA RecvInv ==
  ASSUME CongaInv, NEW x \in Paths, NEW deg \in Degrees, Recv(x[1], x[2], x[3], deg)
  PROVE  CongaInv'
<1> DEFINE l == x[1]
           d == x[2]
           p == x[3]
           rep == Head(net[x])
           noted == Noted(response_table_[d], l, p, deg)
           learned == Learned(route_table_[d], l, Ports(d), p, rep)
<1>1. l \in Leaves /\ d \in Leaves /\ l # d /\ x = <<l, d, p>> /\ p \in Ports(l)
  BY PathFacts
<1>2. /\ net[x] # << >>
      /\ net' = [net EXCEPT ![x] = Tail(@)]
      /\ response_table_' = [response_table_ EXCEPT ![d] = noted]
      /\ route_table_' = [route_table_ EXCEPT ![d] = learned]
      /\ last' = [last EXCEPT ![x] = deg]
      /\ ever' = [ever EXCEPT ![x] = @ \cup {deg}]
  BY <1>1 DEF Recv
<1>3. /\ net' \in [Paths -> Seq(SUBSET (Int \X Int))]
      /\ \A z \in Paths : \A i \in DOMAIN net'[z] :
           \E j \in DOMAIN net[z] : net'[z][i] = net[z][j]
      /\ \E j \in DOMAIN net[x] : rep = net[x][j]
  BY <1>2, TailCarried DEF CongaInv
<1>4. TypeInv /\ EntriesOK /\ LastOK
  BY DEF CongaInv
<1>5. \A r \in rep : <<d, l, r[1]>> \in Paths /\ r[2] \in ever[<<d, l, r[1]>>]
  BY <1>3 DEF CongaInv, Provenance, Carried
<1>6. /\ DOMAIN noted = DOMAIN response_table_[d] \cup {l}
      /\ \A m \in DOMAIN response_table_[d] : m # l => noted[m] = response_table_[d][m]
      /\ l \in DOMAIN response_table_[d] =>
           /\ DOMAIN noted[l] = DOMAIN response_table_[d][l] \cup {p}
           /\ \A q \in DOMAIN response_table_[d][l] :
                q # p => noted[l][q] = response_table_[d][l][q]
      /\ l \notin DOMAIN response_table_[d] => DOMAIN noted[l] = {p}
      /\ noted[l][p] = deg
  BY NotedFacts, SMTT(30)
<1>7. /\ \A m \in DOMAIN learned :
           m # l => m \in DOMAIN route_table_[d] /\ learned[m] = route_table_[d][m]
      /\ l \in DOMAIN learned =>
           \A q \in Ports(d) :
             \/ \E r \in rep : r[1] = q /\ learned[l][q] = r[2]
             \/ l \in DOMAIN route_table_[d] /\ learned[l][q] = route_table_[d][l][q]
             \/ learned[l][q] = 0
  BY LearnedFacts
<1> HIDE DEF noted, learned, rep, l, d, p
<1>8. /\ last'[x] = deg /\ \A z \in Paths : z # x => last'[z] = last[z]
      /\ deg \in ever'[x] /\ \A z \in Paths : ever[z] \subseteq ever'[z]
      /\ ever' \in [Paths -> SUBSET Degrees] /\ last' \in [Paths -> Degrees \cup {None}]
  BY <1>2, <1>4 DEF TypeInv
<1>9. /\ DOMAIN response_table_' = Leaves /\ DOMAIN route_table_' = Leaves
      /\ response_table_'[d] = noted /\ route_table_'[d] = learned
      /\ \A m \in Leaves : m # d => /\ response_table_'[m] = response_table_[m]
                                    /\ route_table_'[m] = route_table_[m]
  BY <1>1, <1>2, <1>4 DEF TypeInv
<1>10. TypeInv'
  BY <1>3, <1>8, <1>9 DEF TypeInv
<1>11. LastOK'
  BY <1>4, <1>8 DEF LastOK
<1>12. ASSUME NEW e \in Leaves, NEW m \in DOMAIN response_table_'[e],
              NEW q \in DOMAIN response_table_'[e][m]
       PROVE  <<m, e, q>> \in Paths /\ response_table_'[e][m][q] \in Degrees
  <2>1. CASE e # d
    BY <1>4, <1>9, <1>12, <2>1 DEF EntriesOK
  <2>2. CASE e = d /\ m # l
    BY <1>4, <1>6, <1>9, <1>12, <2>2 DEF EntriesOK
  <2>3. CASE e = d /\ m = l /\ q # p
    BY <1>4, <1>6, <1>9, <1>12, <2>3 DEF EntriesOK
  <2>4. CASE e = d /\ m = l /\ q = p
    BY <1>1, <1>6, <1>9, <2>4
  <2> QED
    BY <2>1, <2>2, <2>3, <2>4
<1>13. EntriesOK'
  BY <1>12 DEF EntriesOK
<1>14. ASSUME NEW z \in Paths
       PROVE  (Measured(z) /\ Believed(z) /\ Carried(z))'
  <2>1. /\ Measured(z) /\ Believed(z) /\ Carried(z)
        /\ z = <<z[1], z[2], z[3]>> /\ z[1] \in Leaves /\ z[2] \in Leaves
        /\ z[3] \in Ports(z[1])
    BY PathFacts DEF CongaInv, Provenance
  <2>2. Measured(z)'
    <3>1. CASE z = x
      BY <1>6, <1>8, <1>9, <3>1 DEF Measured, l, d, p
    <3>2. CASE z # x /\ z[2] # d
      BY <1>8, <1>9, <2>1, <3>2 DEF Measured
    <3>3. CASE z # x /\ z[2] = d /\ z[1] # l
      BY <1>6, <1>8, <1>9, <2>1, <3>3 DEF Measured
    <3>4. CASE z # x /\ z[2] = d /\ z[1] = l
      <4>1. z[3] # p
        BY <1>1, <2>1, <3>4
      <4> QED
        BY <1>6, <1>8, <1>9, <2>1, <3>4, <4>1 DEF Measured
    <3> QED
      BY <3>1, <3>2, <3>3, <3>4
  <2>3. Believed(z)'
    <3>1. CASE z[1] # d
      BY <1>8, <1>9, <2>1, <3>1 DEF Believed
    <3>2. CASE z[1] = d /\ z[2] # l
      BY <1>7, <1>8, <1>9, <2>1, <3>2 DEF Believed
    <3>3. CASE z[1] = d /\ z[2] = l
      <4>1. SUFFICES ASSUME l \in DOMAIN learned
                     PROVE  learned[l][z[3]] \in ever'[z] \cup {0}
        BY <1>9, <3>3 DEF Believed
      <4>2. z = <<d, l, z[3]>> /\ z[3] \in Ports(d)
        BY <2>1, <3>3
      <4>3. CASE \E r \in rep : r[1] = z[3] /\ learned[l][z[3]] = r[2]
        BY <1>5, <1>8, <4>2, <4>3
      <4>4. CASE l \in DOMAIN route_table_[d] /\ learned[l][z[3]] = route_table_[d][l][z[3]]
        BY <1>8, <2>1, <3>3, <4>4 DEF Believed
      <4> QED
        BY <1>7, <4>1, <4>2, <4>3, <4>4
    <3> QED
      BY <3>1, <3>2, <3>3
  <2>4. Carried(z)'
    <3>1. SUFFICES ASSUME NEW i \in DOMAIN net'[z], NEW r \in net'[z][i]
                   PROVE  <<z[2], z[1], r[1]>> \in Paths /\ r[2] \in ever'[<<z[2], z[1], r[1]>>]
      BY DEF Carried
    <3>2. <<z[2], z[1], r[1]>> \in Paths /\ r[2] \in ever[<<z[2], z[1], r[1]>>]
      BY <1>3, <2>1, <3>1 DEF Carried
    <3> QED
      BY <1>8, <3>2
  <2> QED
    BY <2>2, <2>3, <2>4
<1> QED
  BY <1>10, <1>11, <1>13, <1>14 DEF CongaInv, Provenance

LEMMA CongaStep == CongaInv /\ [Next]_vars => CongaInv'
<1> SUFFICES ASSUME CongaInv, [Next]_vars PROVE CongaInv'
  OBVIOUS
<1>1. ASSUME NEW l \in Leaves, NEW d \in Leaves, NEW p \in UNION {Ports(m) : m \in Leaves},
             <<l, d>> \in Talk, \E rep \in Reports(l, d) : Route(l, d, p, rep)
      PROVE  CongaInv'
  BY <1>1, RouteInv
<1>2. ASSUME NEW x \in Paths, NEW deg \in Degrees, Recv(x[1], x[2], x[3], deg)
      PROVE  CongaInv'
  BY <1>2, RecvInv
<1>3. ASSUME NEW x \in Paths, Lose(x)
      PROVE  CongaInv'
  BY <1>3, LoseInv
<1>4. CASE UNCHANGED vars
  BY <1>4 DEF vars, CongaInv, TypeInv, EntriesOK, LastOK, Provenance, Measured,
              Believed, Carried
<1> QED
  BY <1>1, <1>2, <1>3, <1>4 DEF Next

(* Whatever the packets lose and overtake, and however many are under way, *)
(* what a leaf knows of a path was measured on that path, and the          *)
(* receiver's entry is the degree of its last packet (recv, route).        *)
THEOREM ProvenanceTheorem == Spec => []Provenance
<1>1. CongaInv => Provenance
  BY DEF CongaInv
<1> QED
  BY CongaInit, CongaStep, <1>1, PTL DEF Spec

-----------------------------------------------------------------------------
(* The links.                                                              *)

(* What RemoveAt leaves of a sequence: the elements before place i keep    *)
(* their places, those behind it move up.                                  *)
LEMMA RemoveAtProperties ==
  ASSUME NEW S, NEW s \in Seq(S), NEW i \in DOMAIN s
  PROVE  /\ RemoveAt(s, i) \in Seq(S)
         /\ Len(RemoveAt(s, i)) = Len(s) - 1
         /\ \A j \in 1 .. Len(s) - 1 :
              RemoveAt(s, i)[j] = IF j < i THEN s[j] ELSE s[j + 1]
<1> DEFINE front == SubSeq(s, 1, i - 1)
           back == SubSeq(s, i + 1, Len(s))
<1>1. Len(s) \in Nat /\ i \in 1 .. Len(s) /\ \A j \in 1 .. Len(s) : s[j] \in S
  OBVIOUS
<1>2. /\ front \in Seq(S) /\ Len(front) = i - 1
      /\ \A j \in 1 .. i - 1 : front[j] = s[j]
  <2>1. /\ front \in Seq(S) /\ Len(front) = IF 1 <= i - 1 THEN i - 1 - 1 + 1 ELSE 0
        /\ \A j \in 1 .. i - 1 - 1 + 1 : front[j] = s[1 + j - 1]
    BY <1>1, SubSeqProperties
  <2> QED
    BY <1>1, <2>1
<1>3. /\ back \in Seq(S) /\ Len(back) = Len(s) - i
      /\ \A j \in 1 .. Len(s) - i : back[j] = s[i + j]
  <2>1. /\ back \in Seq(S)
        /\ Len(back) = IF i + 1 <= Len(s) THEN Len(s) - (i + 1) + 1 ELSE 0
        /\ \A j \in 1 .. Len(s) - (i + 1) + 1 : back[j] = s[i + 1 + j - 1]
    BY <1>1, SubSeqProperties
  <2> QED
    BY <1>1, <2>1
<1>4. RemoveAt(s, i) = front \o back
  BY DEF RemoveAt
<1> HIDE DEF front, back
<1> DEFINE rest == front \o back
<1>5. /\ rest \in Seq(S) /\ Len(rest) = Len(front) + Len(back)
      /\ \A j \in 1 .. Len(front) + Len(back) :
           rest[j] = IF j <= Len(front) THEN front[j] ELSE back[j - Len(front)]
  BY <1>2, <1>3, ConcatProperties
<1> HIDE DEF rest
<1>6. ASSUME NEW j \in 1 .. Len(s) - 1
      PROVE  rest[j] = IF j < i THEN s[j] ELSE s[j + 1]
  <2>1. rest[j] = IF j <= i - 1 THEN front[j] ELSE back[j - (i - 1)]
    <3>1. Len(front) = i - 1 /\ j \in 1 .. Len(front) + Len(back)
      BY <1>1, <1>2, <1>3
    <3> QED
      BY <1>5, <3>1
  <2>2. CASE j < i
    BY <1>1, <1>2, <2>1, <2>2
  <2>3. CASE ~ (j < i)
    <3>1. j - (i - 1) \in 1 .. Len(s) - i /\ i + (j - (i - 1)) = j + 1
      BY <1>1, <2>3
    <3> QED
      BY <1>1, <1>3, <2>1, <2>3, <3>1, SMTT(30)
  <2> QED
    BY <2>2, <2>3
<1>7. Len(rest) = Len(s) - 1 /\ RemoveAt(s, i) = rest
  BY <1>1, <1>2, <1>3, <1>4, <1>5 DEF rest
<1> QED
  BY <1>5, <1>6, <1>7

-----------------------------------------------------------------------------

(* Types of the variables.                                                 *)
LinkTypeInv ==
  /\ delay_ \in Delays
  /\ transit \in Seq(Nat)
  /\ busy \in Nat
  /\ latest \in Nat
  /\ dre \in BOOLEAN
  /\ X \in Nat
  /\ decay \in 0 .. T_DRE
  /\ routing \in BOOLEAN
  /\ idle \in 0 .. 2 * T_DRE + 1

(* Bits that are counted already and still to be sent.                     *)
Ahead == IF routing THEN busy ELSE 0

RegisterInv ==
  /\ dre => X + decay - Ahead <= 2 * T_DRE
  /\ ~ dre => X = 0 /\ Ahead = 0

(* The last decay, or the last two, happened while the link was idle.      *)
IdleInv ==
  /\ idle > 0 => Ahead = 0
  /\ dre /\ Ahead = 0 /\ idle >= T_DRE - decay => X <= T_DRE
  /\ dre /\ Ahead = 0 /\ idle >= 2 * T_DRE - decay => 2 * X <= T_DRE

Sorted(s) == \A i, j \in DOMAIN s : i <= j => s[i] <= s[j]

OrderInv ==
  /\ mode = "avoid" => Sorted(transit) /\ \A i \in DOMAIN transit : transit[i] <= latest
  /\ mode # "avoid" /\ ~ changed =>
       Sorted(transit) /\ \A i \in DOMAIN transit : transit[i] <= busy + delay_

(* In the mode that holds packets back, the last one is due at most one    *)
(* delay after it has been sent.                                           *)
HeldInv ==
  /\ \E d \in Delays : latest <= busy + d
  /\ NotHeldBack

LinkInv == LinkTypeInv /\ RegisterInv /\ IdleInv /\ OrderInv /\ HeldInv

-----------------------------------------------------------------------------
(* Arithmetic of the register.                                             *)

LEMMA HalfOf ==
  ASSUME NEW x \in Nat, NEW y \in Nat, NEW t \in Nat, 2 * y <= x
  PROVE  /\ x <= 2 * t => y <= t
         /\ x <= t => 2 * y <= t
OBVIOUS

LEMMA BeforeDecay ==
  ASSUME NEW y \in Nat, NEW t \in Nat, y < t
  PROVE  ~ (0 >= t - y) /\ ~ (0 >= 2 * t - y)
OBVIOUS

-----------------------------------------------------------------------------

LEMMA LinkInitInv == LinkInit => LinkInv
<1> SUFFICES ASSUME LinkInit PROVE LinkInv
  OBVIOUS
<1>1. LinkTypeInv
  <2>1. transit \in Seq(Nat)
    BY DEF LinkInit
  <2>2. decay \in 0 .. T_DRE /\ idle \in 0 .. 2 * T_DRE + 1
    BY DreAssumption DEF LinkInit
  <2> QED
    BY <2>1, <2>2 DEF LinkInit, LinkTypeInv
<1>2. RegisterInv /\ IdleInv
  BY DreAssumption DEF LinkInit, RegisterInv, IdleInv, Ahead
<1>3. OrderInv
  BY DEF LinkInit, OrderInv, Sorted
<1>4. HeldInv
  BY SizesAssumption DEF LinkInit, HeldInv, NotHeldBack
<1> QED
  BY <1>1, <1>2, <1>3, <1>4 DEF LinkInv

(* Facts about the packet that recv() puts behind the others.              *)
LEMMA RecvTransit ==
  ASSUME LinkTypeInv, NEW size \in Sizes, transit' = Append(transit, Due(size))
  PROVE  /\ Due(size) \in Nat
         /\ transit' \in Seq(Nat)
         /\ DOMAIN transit' = DOMAIN transit \cup {Len(transit) + 1}
         /\ \A i \in DOMAIN transit : transit'[i] = transit[i] /\ transit[i] \in Nat
         /\ transit'[Len(transit) + 1] = Due(size)
         /\ \A i \in DOMAIN transit : i < Len(transit) + 1
<1>1. Due(size) \in Nat
  BY SizesAssumption DEF LinkTypeInv, Due
<1>2. transit \in Seq(Nat)
  BY DEF LinkTypeInv
<1>3. /\ Append(transit, Due(size)) \in Seq(Nat)
      /\ Len(Append(transit, Due(size))) = Len(transit) + 1
      /\ \A i \in 1 .. Len(transit) : Append(transit, Due(size))[i] = transit[i]
      /\ Append(transit, Due(size))[Len(transit) + 1] = Due(size)
  BY <1>1, <1>2, AppendProperties
<1> QED
  BY <1>1, <1>2, <1>3

(* ... and about the packet that is taken out.                             *)
LEMMA DeliverTransit ==
  ASSUME LinkTypeInv, NEW i \in DOMAIN transit, transit' = RemoveAt(transit, i)
  PROVE  /\ transit' \in Seq(Nat)
         /\ \A j \in DOMAIN transit' :
              /\ j \in DOMAIN transit /\ j + 1 \in DOMAIN transit
              /\ transit'[j] = IF j < i THEN transit[j] ELSE transit[j + 1]
<1>1. transit \in Seq(Nat)
  BY DEF LinkTypeInv
<1>2. /\ transit' \in Seq(Nat)
      /\ Len(transit') = Len(transit) - 1
      /\ \A j \in 1 .. Len(transit) - 1 :
           transit'[j] = IF j < i THEN transit[j] ELSE transit[j + 1]
  BY <1>1, RemoveAtProperties
<1>3. Len(transit) \in Nat /\ DOMAIN transit = 1 .. Len(transit)
  BY <1>1
<1>4. DOMAIN transit' = 1 .. Len(transit) - 1
  BY <1>2
<1>5. ASSUME NEW j \in DOMAIN transit'
      PROVE  /\ j \in DOMAIN transit /\ j + 1 \in DOMAIN transit
             /\ transit'[j] = IF j < i THEN transit[j] ELSE transit[j + 1]
  <2>1. j \in 1 .. Len(transit) - 1
    BY <1>4, <1>5
  <2> QED
    BY <1>2, <1>3, <2>1
<1> QED
  BY <1>2, <1>5

-----------------------------------------------------------------------------
(* recv().                                                                 *)

LEMMA LinkRecvInv ==
  ASSUME LinkInv, NEW size \in Sizes, NEW routed \in BOOLEAN, NEW deg \in 0 .. MAX_CE - 1,
         LinkRecv(size, routed, deg)
  PROVE  LinkInv'
<1>1. LinkTypeInv /\ size \in Nat \ {0} /\ busy = 0 /\ busy' = size /\ routing' = routed
  BY SizesAssumption DEF LinkInv, LinkRecv
<1>2. Ahead = 0 /\ Ahead' = IF routed THEN size ELSE 0
  BY <1>1 DEF Ahead
<1> DEFINE n == Len(transit) + 1
<1>3. /\ Due(size) \in Nat
      /\ transit' \in Seq(Nat)
      /\ DOMAIN transit' = DOMAIN transit \cup {n}
      /\ \A i \in DOMAIN transit : transit'[i] = transit[i] /\ transit[i] \in Nat
      /\ transit'[n] = Due(size)
      /\ n \in Nat /\ \A i \in DOMAIN transit : i \in Nat /\ i < n
  BY <1>1, RecvTransit DEF LinkRecv, LinkTypeInv
<1> HIDE DEF n
<1>4. LinkTypeInv'
  <2>1. dre' \in BOOLEAN /\ X' \in Nat /\ decay' \in 0 .. T_DRE
    <3>1. CASE routed
      BY <1>1, <3>1, DreAssumption DEF LinkTypeInv, LinkRecv, Counted
    <3>2. CASE ~ routed
      BY <1>1, <3>2 DEF LinkTypeInv, LinkRecv, dreVars
    <3> QED
      BY <3>1, <3>2
  <2>2. idle' \in 0 .. 2 * T_DRE + 1
    BY <1>1, DreAssumption DEF LinkTypeInv, LinkRecv
  <2>3. latest' \in Nat /\ delay_' \in Delays
    BY <1>1, <1>3 DEF LinkTypeInv, LinkRecv
  <2> QED
    BY <1>1, <1>3, <2>1, <2>2, <2>3 DEF LinkTypeInv
<1>5. RegisterInv'
  <2>1. CASE routed
    <3>1. dre' = TRUE /\ X' = X + size /\ decay' = IF dre THEN decay ELSE T_DRE
      BY <2>1 DEF LinkRecv, Counted
    <3>2. X \in Nat /\ decay \in Nat /\ T_DRE \in Nat
      BY <1>1, DreAssumption DEF LinkTypeInv
    <3>3. X + decay' <= 2 * T_DRE
      BY <1>2, <3>1, <3>2 DEF LinkInv, RegisterInv
    <3>4. Ahead' = size /\ decay' \in Nat
      BY <1>2, <2>1, <3>1, <3>2
    <3>5. X' + decay' - Ahead' <= 2 * T_DRE
      BY <1>1, <3>1, <3>2, <3>3, <3>4
    <3> QED
      BY <3>1, <3>5 DEF RegisterInv
  <2>2. CASE ~ routed
    BY <1>1, <1>2, <2>2 DEF LinkInv, RegisterInv, LinkRecv, dreVars
  <2> QED
    BY <2>1, <2>2
<1>6. IdleInv'
  <2>1. CASE routed
    <3>1. idle' = 0 /\ Ahead' # 0
      BY <1>1, <1>2, <2>1 DEF LinkRecv
    <3> QED
      BY <3>1 DEF IdleInv
  <2>2. CASE ~ routed
    BY <1>1, <1>2, <2>2 DEF LinkInv, IdleInv, LinkRecv, dreVars
  <2> QED
    BY <2>1, <2>2
<1>7. OrderInv'
  <2>1. mode' = mode /\ delay_' = delay_ /\ changed' = changed /\ delay_ \in Nat
    BY <1>1, SizesAssumption DEF LinkRecv, LinkTypeInv
  <2>2. ASSUME NEW m \in Nat, \A i \in DOMAIN transit : transit[i] <= m,
               m <= Due(size), Sorted(transit)
        PROVE  Sorted(transit') /\ \A i \in DOMAIN transit' : transit'[i] <= Due(size)
    <3>1. \A i \in DOMAIN transit' : transit'[i] <= Due(size)
      BY <1>3, <2>2
    <3>2. ASSUME NEW i \in DOMAIN transit', NEW j \in DOMAIN transit', i <= j
          PROVE  transit'[i] <= transit'[j]
      <4>1. CASE j = n
        BY <1>3, <3>1, <4>1
      <4>2. CASE j \in DOMAIN transit
        <5>1. i \in DOMAIN transit
          BY <1>3, <3>2, <4>2
        <5> QED
          BY <1>3, <2>2, <3>2, <4>2, <5>1 DEF Sorted
      <4> QED
        BY <1>3, <4>1, <4>2
    <3> QED
      BY <3>1, <3>2 DEF Sorted
  <2>3. CASE mode = "avoid"
    <3>1. latest <= Due(size) /\ latest \in Nat /\ latest' = Due(size)
      BY <1>1, <2>1, <2>3 DEF Due, Overtakes, LinkTypeInv, LinkRecv
    <3>2. Sorted(transit) /\ \A i \in DOMAIN transit : transit[i] <= latest
      BY <2>3 DEF LinkInv, OrderInv
    <3>3. Sorted(transit') /\ \A i \in DOMAIN transit' : transit'[i] <= Due(size)
      BY <2>2, <3>1, <3>2
    <3> QED
      BY <2>1, <2>3, <3>1, <3>3 DEF OrderInv, Sorted
  <2>4. CASE mode # "avoid" /\ ~ changed
    <3>1. delay_ <= Due(size) /\ Due(size) = busy' + delay_'
      BY <1>1, <2>1, <2>4 DEF Due
    <3>2. Sorted(transit) /\ \A i \in DOMAIN transit : transit[i] <= delay_
      BY <1>1, <2>1, <2>4 DEF LinkInv, OrderInv
    <3>3. Sorted(transit') /\ \A i \in DOMAIN transit' : transit'[i] <= Due(size)
      BY <2>1, <2>2, <3>1, <3>2
    <3> QED
      BY <2>1, <2>4, <3>1, <3>3 DEF OrderInv, Sorted
  <2> QED
    BY <2>1, <2>3, <2>4 DEF OrderInv
<1>8. HeldInv'
  <2>1. \E d \in Delays : Due(size) <= size + d
    BY <1>1, SizesAssumption DEF LinkInv, HeldInv, Due, LinkTypeInv
  <2>2. \E d \in Delays : latest' <= busy' + d
    <3>1. CASE mode = "avoid"
      BY <1>1, <2>1, <3>1 DEF LinkRecv
    <3>2. CASE mode # "avoid"
      <4>1. PICK d \in Delays : latest <= busy + d
        BY DEF LinkInv, HeldInv
      <4>2. latest' = latest /\ latest \in Nat /\ d \in Nat
        BY <1>1, <3>2, SizesAssumption DEF LinkRecv, LinkTypeInv
      <4>3. latest' <= busy' + d
        BY <1>1, <4>1, <4>2
      <4> QED
        BY <4>3
    <3> QED
      BY <3>1, <3>2
  <2>3. ASSUME NEW i \in DOMAIN transit'
        PROVE  \E d \in Delays, s \in Sizes : transit'[i] <= d + s
    <3>1. CASE i = n
      BY <1>1, <1>3, <2>1, <3>1, SizesAssumption
    <3>2. CASE i \in DOMAIN transit
      BY <1>3, <3>2 DEF LinkInv, HeldInv, NotHeldBack
    <3> QED
      BY <1>3, <3>1, <3>2
  <2> QED
    BY <2>2, <2>3 DEF HeldInv, NotHeldBack
<1> QED
  BY <1>4, <1>5, <1>6, <1>7, <1>8 DEF LinkInv

-----------------------------------------------------------------------------
(* A packet arrives.                                                       *)

LEMMA DeliverInv ==
  ASSUME LinkInv, NEW i \in DOMAIN transit, Deliver(i)
  PROVE  LinkInv'
<1>1. UNCHANGED <<mode, delay_, degree, busy, latest, dre, X, decay, changed, routing, idle>>
  BY DEF Deliver, dreVars, history
<1>2. LinkTypeInv /\ transit' = RemoveAt(transit, i)
  BY DEF LinkInv, Deliver
<1>3. /\ transit' \in Seq(Nat)
      /\ \A j \in DOMAIN transit' :
           /\ j \in DOMAIN transit /\ j + 1 \in DOMAIN transit
           /\ transit'[j] = IF j < i THEN transit[j] ELSE transit[j + 1]
  BY <1>2, DeliverTransit
<1>4. i \in Nat /\ \A j \in DOMAIN transit : j \in Nat
  BY <1>2 DEF LinkTypeInv
<1>5. LinkTypeInv' /\ RegisterInv' /\ IdleInv'
  BY <1>1, <1>2, <1>3 DEF LinkInv, LinkTypeInv, RegisterInv, IdleInv, Ahead
<1>6. OrderInv'
  <2>1. ASSUME NEW m, Sorted(transit), \A j \in DOMAIN transit : transit[j] <= m
        PROVE  Sorted(transit') /\ \A j \in DOMAIN transit' : transit'[j] <= m
    <3>1. \A j \in DOMAIN transit' : transit'[j] <= m
      BY <1>3, <2>1
    <3>2. ASSUME NEW j \in DOMAIN transit', NEW k \in DOMAIN transit', j <= k
          PROVE  transit'[j] <= transit'[k]
      <4> DEFINE at(l) == IF l < i THEN l ELSE l + 1
      <4>1. /\ at(j) \in DOMAIN transit /\ transit'[j] = transit[at(j)]
            /\ at(k) \in DOMAIN transit /\ transit'[k] = transit[at(k)]
        BY <1>3
      <4>2. at(j) <= at(k)
        BY <1>3, <1>4, <3>2
      <4> QED
        BY <2>1, <4>1, <4>2 DEF Sorted
    <3> QED
      BY <3>1, <3>2 DEF Sorted
  <2>2. CASE mode = "avoid"
    BY <1>1, <2>1, <2>2 DEF LinkInv, OrderInv, Sorted
  <2>3. CASE mode # "avoid" /\ ~ changed
    BY <1>1, <2>1, <2>3 DEF LinkInv, OrderInv, Sorted
  <2> QED
    BY <1>1, <2>2, <2>3 DEF OrderInv
<1>7. HeldInv'
  BY <1>1, <1>3 DEF LinkInv, HeldInv, NotHeldBack
<1> QED
  BY <1>5, <1>6, <1>7 DEF LinkInv

-----------------------------------------------------------------------------
(* The decay timer.                                                        *)

LEMMA DecayInv ==
  ASSUME LinkInv, Decay
  PROVE  LinkInv'
<1>1. UNCHANGED <<mode, delay_, transit, busy, latest, dre, changed, routing, idle>>
  BY DEF Decay, history
<1>2. LinkTypeInv /\ T_DRE \in Nat \ {0}
  BY DreAssumption DEF LinkInv
<1>3. dre /\ decay = 0 /\ decay' = T_DRE /\ X' = X \div 2
  BY DEF Decay, Halved
<1>4. X \in Nat /\ busy \in Nat /\ Ahead \in Nat /\ idle \in Nat
  BY <1>2 DEF LinkTypeInv, Ahead
<1>5. X' \in Nat /\ 2 * X' <= X
  BY <1>3, <1>4
<1>6. Ahead' = Ahead
  BY <1>1 DEF Ahead
<1>7. X <= 2 * T_DRE + Ahead
  BY <1>2, <1>3, <1>4 DEF LinkInv, RegisterInv
<1>8. LinkTypeInv'
  BY <1>1, <1>2, <1>3, <1>5 DEF LinkTypeInv
<1>9. RegisterInv'
  <2>1. X' + decay' - Ahead' <= 2 * T_DRE
    BY <1>2, <1>3, <1>4, <1>5, <1>6, <1>7
  <2> QED
    BY <1>1, <1>3, <2>1 DEF RegisterInv
<1>10. IdleInv'
  <2>1. idle' > 0 => Ahead' = 0
    BY <1>1, <1>6 DEF LinkInv, IdleInv
  <2>2. Ahead' = 0 => X' <= T_DRE
    <3>1. ASSUME Ahead = 0 PROVE X' <= T_DRE
      <4>1. X <= 2 * T_DRE
        BY <1>2, <1>7, <3>1
      <4> QED
        BY <1>2, <1>4, <1>5, <4>1, HalfOf
    <3> QED
      BY <1>6, <3>1
  <2>3. Ahead' = 0 /\ idle' >= 2 * T_DRE - decay' => 2 * X' <= T_DRE
    <3>1. ASSUME Ahead = 0, idle >= T_DRE
          PROVE  2 * X' <= T_DRE
      <4>1. X <= T_DRE
        BY <1>2, <1>3, <1>4, <3>1 DEF LinkInv, IdleInv
      <4> QED
        BY <1>2, <1>4, <1>5, <4>1, HalfOf
    <3>2. idle' >= 2 * T_DRE - decay' => idle >= T_DRE
      BY <1>1, <1>2, <1>3, <1>4
    <3> QED
      BY <1>6, <3>1, <3>2
  <2> QED
    BY <2>1, <2>2, <2>3 DEF IdleInv
<1>11. OrderInv' /\ HeldInv'
  BY <1>1 DEF LinkInv, OrderInv, Sorted, HeldInv, NotHeldBack
<1> QED
  BY <1>8, <1>9, <1>10, <1>11 DEF LinkInv

-----------------------------------------------------------------------------
(* The script changes the delay, or takes a dynamic link down.             *)

LEMMA SetDelayInv ==
  ASSUME LinkInv, NEW d \in Delays, SetDelay(d)
  PROVE  LinkInv'
<1>1. UNCHANGED <<mode, transit, busy, latest, dre, X, decay, routing, idle>>
  BY DEF SetDelay, dreVars
<1>2. delay_' = d /\ changed'
  BY DEF SetDelay
<1> QED
  BY <1>1, <1>2 DEF LinkInv, LinkTypeInv, RegisterInv, IdleInv, Ahead, OrderInv, Sorted,
                    HeldInv, NotHeldBack

LEMMA ResetInv ==
  ASSUME LinkInv, Reset
  PROVE  LinkInv'
<1>1. UNCHANGED <<mode, delay_, busy, latest, dre, X, decay, changed, routing, idle>>
  BY DEF Reset, dreVars, history
<1>2. transit' = << >>
  BY DEF Reset
<1>3. transit' \in Seq(Nat) /\ DOMAIN transit' = {}
  BY <1>2
<1>4. LinkTypeInv' /\ RegisterInv' /\ IdleInv'
  BY <1>1, <1>3 DEF LinkInv, LinkTypeInv, RegisterInv, IdleInv, Ahead
<1>5. OrderInv' /\ HeldInv'
  BY <1>1, <1>3 DEF LinkInv, OrderInv, Sorted, HeldInv, NotHeldBack
<1> QED
  BY <1>4, <1>5 DEF LinkInv

-----------------------------------------------------------------------------
(* Time passes.                                                            *)

LEMMA TickInv ==
  ASSUME LinkInv, Tick
  PROVE  LinkInv'
<1>1. /\ UNCHANGED <<mode, delay_, dre, X, changed, routing>>
      /\ transit' = [i \in DOMAIN transit |-> transit[i] - 1]
      /\ busy' = Less(busy) /\ latest' = Less(latest)
      /\ \A i \in DOMAIN transit : transit[i] > 0
  BY DEF Tick
<1>2. LinkTypeInv /\ T_DRE \in Nat \ {0}
  BY DreAssumption DEF LinkInv
<1>3. /\ busy \in Nat /\ latest \in Nat /\ idle \in Nat /\ decay \in Nat /\ X \in Nat
      /\ decay <= T_DRE /\ idle <= 2 * T_DRE + 1
      /\ Ahead \in Nat
  BY <1>2 DEF LinkTypeInv, Ahead
<1>4. /\ busy' \in Nat /\ latest' \in Nat
      /\ busy' = IF busy = 0 THEN 0 ELSE busy - 1
      /\ latest' = IF latest = 0 THEN 0 ELSE latest - 1
  BY <1>1, <1>3 DEF Less
<1>5. Ahead' = IF Ahead = 0 THEN 0 ELSE Ahead - 1
  BY <1>1, <1>3, <1>4 DEF Ahead
<1>6. dre => decay > 0 /\ decay' = decay - 1
  BY DEF Tick
<1>7. ~ dre => decay' = decay
  BY DEF Tick
<1>8. idle' = IF Ahead > 0 THEN 0 ELSE Cap(idle + 1)
  BY <1>2, <1>3 DEF Tick, Ahead, LinkTypeInv
<1>9. idle' \in 0 .. 2 * T_DRE + 1 /\ idle' <= idle + 1
  BY <1>2, <1>3, <1>8 DEF Cap
<1>10. decay' \in 0 .. T_DRE
  BY <1>2, <1>3, <1>6, <1>7
<1>11. /\ transit \in Seq(Nat)
       /\ DOMAIN transit' = DOMAIN transit
       /\ \A i \in DOMAIN transit : transit'[i] = transit[i] - 1 /\ transit[i] \in Nat
  BY <1>1, <1>2 DEF LinkTypeInv
<1>12. LinkTypeInv'
  <2>1. transit' \in Seq(Nat)
    <3>1. Len(transit) \in Nat /\ DOMAIN transit = 1 .. Len(transit)
      BY <1>11
    <3>2. \A i \in DOMAIN transit : transit[i] - 1 \in Nat
      BY <1>1, <1>11
    <3>3. transit' \in [1 .. Len(transit) -> Nat]
      BY <1>1, <3>1, <3>2
    <3> QED
      BY <3>1, <3>3, SeqDef
  <2> QED
    BY <1>1, <1>2, <1>4, <1>9, <1>10, <2>1 DEF LinkTypeInv
<1>13. RegisterInv'
  <2>1. CASE dre
    <3>1. X + decay - Ahead <= 2 * T_DRE
      BY <2>1 DEF LinkInv, RegisterInv
    <3>2. X' + decay' - Ahead' <= 2 * T_DRE
      BY <1>1, <1>2, <1>3, <1>5, <1>6, <2>1, <3>1
    <3> QED
      BY <1>1, <2>1, <3>2 DEF RegisterInv
  <2>2. CASE ~ dre
    BY <1>1, <1>5, <2>2 DEF LinkInv, RegisterInv
  <2> QED
    BY <2>1, <2>2
<1>14. IdleInv'
  <2>1. CASE Ahead > 0
    <3>1. idle' = 0
      BY <1>8, <2>1
    <3>2. dre' => decay' < T_DRE
      BY <1>1, <1>2, <1>3, <1>6
    <3>3. ASSUME dre'
          PROVE  ~ (idle' >= T_DRE - decay') /\ ~ (idle' >= 2 * T_DRE - decay')
      <4>1. decay' \in Nat /\ decay' < T_DRE
        BY <1>10, <3>2, <3>3
      <4>2. ~ (0 >= T_DRE - decay') /\ ~ (0 >= 2 * T_DRE - decay')
        BY <1>2, <4>1, BeforeDecay
      <4> QED
        BY <3>1, <4>2
    <3> QED
      BY <3>1, <3>3 DEF IdleInv
  <2>2. CASE Ahead = 0
    <3>1. Ahead' = 0
      BY <1>5, <2>2
    <3>2. ASSUME dre
          PROVE  /\ idle' >= T_DRE - decay' => idle >= T_DRE - decay
                 /\ idle' >= 2 * T_DRE - decay' => idle >= 2 * T_DRE - decay
      BY <1>2, <1>3, <1>6, <1>9, <3>2
    <3> QED
      BY <1>1, <2>2, <3>1, <3>2 DEF LinkInv, IdleInv
  <2> QED
    BY <1>3, <2>1, <2>2
<1>15. OrderInv'
  <2>1. ASSUME Sorted(transit)
        PROVE  Sorted(transit')
    BY <1>11, <2>1 DEF Sorted
  <2>2. CASE mode = "avoid"
    <3>1. \A i \in DOMAIN transit : transit[i] <= latest
      BY <2>2 DEF LinkInv, OrderInv
    <3>2. \A i \in DOMAIN transit : transit'[i] <= latest'
      BY <1>1, <1>3, <1>4, <1>11, <3>1
    <3>3. Sorted(transit')
      BY <2>1, <2>2 DEF LinkInv, OrderInv
    <3> QED
      BY <1>1, <1>11, <2>2, <3>2, <3>3 DEF OrderInv, Sorted
  <2>3. CASE mode # "avoid" /\ ~ changed
    <3>1. \A i \in DOMAIN transit : transit[i] <= busy + delay_
      BY <2>3 DEF LinkInv, OrderInv
    <3>2. delay_ \in Nat /\ delay_' = delay_
      BY <1>1, <1>2, SizesAssumption DEF LinkTypeInv
    <3>3. \A i \in DOMAIN transit : transit'[i] <= busy' + delay_
      BY <1>1, <1>3, <1>4, <1>11, <3>1, <3>2
    <3>4. Sorted(transit')
      BY <2>1, <2>3 DEF LinkInv, OrderInv
    <3> QED
      BY <1>1, <1>11, <2>3, <3>2, <3>3, <3>4 DEF OrderInv, Sorted
  <2> QED
    BY <1>1, <2>2, <2>3 DEF OrderInv
<1>16. HeldInv'
  <2>1. \E d \in Delays : latest' <= busy' + d
    <3>1. PICK d \in Delays : latest <= busy + d
      BY DEF LinkInv, HeldInv
    <3>2. d \in Nat
      BY SizesAssumption
    <3>3. latest' <= busy' + d
      BY <1>3, <1>4, <3>1, <3>2
    <3> QED
      BY <3>3
  <2>2. ASSUME NEW i \in DOMAIN transit
        PROVE  \E d \in Delays, size \in Sizes : transit'[i] <= d + size
    <3>1. PICK d \in Delays, size \in Sizes : transit[i] <= d + size
      BY DEF LinkInv, HeldInv, NotHeldBack
    <3>2. d \in Nat /\ size \in Nat
      BY SizesAssumption
    <3>3. transit'[i] <= d + size
      BY <1>11, <3>1, <3>2
    <3> QED
      BY <3>3
  <2> QED
    BY <1>11, <2>1, <2>2 DEF HeldInv, NotHeldBack
<1> QED
  BY <1>12, <1>13, <1>14, <1>15, <1>16 DEF LinkInv

-----------------------------------------------------------------------------

LEMMA LinkNextInv == LinkInv /\ [LinkNext]_linkVars => LinkInv'
<1> SUFFICES ASSUME LinkInv, [LinkNext]_linkVars PROVE LinkInv'
  OBVIOUS
<1>1. ASSUME NEW size \in Sizes, NEW routed \in BOOLEAN, NEW deg \in 0 .. MAX_CE - 1,
             LinkRecv(size, routed, deg)
      PROVE  LinkInv'
  BY <1>1, LinkRecvInv
<1>2. ASSUME NEW i \in DOMAIN transit, Deliver(i) PROVE LinkInv'
  BY <1>2, DeliverInv
<1>3. CASE Decay
  BY <1>3, DecayInv
<1>4. ASSUME NEW d \in Delays, SetDelay(d) PROVE LinkInv'
  BY <1>4, SetDelayInv
<1>5. CASE Reset
  BY <1>5, ResetInv
<1>6. CASE Tick
  BY <1>6, TickInv
<1>7. CASE UNCHANGED linkVars
  BY <1>7 DEF linkVars, dreVars, history, LinkInv, LinkTypeInv, RegisterInv, IdleInv, Ahead,
              OrderInv, Sorted, HeldInv, NotHeldBack
<1> QED
  BY <1>1, <1>2, <1>3, <1>4, <1>5, <1>6, <1>7 DEF LinkNext

(* The invariant holds in every behaviour of the link.                     *)
THEOREM LinkCorrect == LinkSpec => []LinkInv
<1>1. LinkInit => LinkInv
  BY LinkInitInv
<1>2. LinkInv /\ [LinkNext]_linkVars => LinkInv'
  BY LinkNextInv
<1> QED
  BY <1>1, <1>2, PTL DEF LinkSpec

(* Packets leave the link in the order they entered it whenever the link   *)
(* avoids reordering or its delay was never changed: LinkDelay::recv and   *)
(* the assertion of LinkDelay::handle.                                     *)
THEOREM LinkInOrder == LinkSpec => []InOrder
<1>1. LinkInv => InOrder
  <2> SUFFICES ASSUME LinkInv, mode = "avoid" \/ ~ changed,
                      NEW i \in DOMAIN transit, Arrives(i)
               PROVE  i = 1
    BY DEF InOrder
  <2>1. transit \in Seq(Nat) /\ DOMAIN transit = 1 .. Len(transit) /\ Len(transit) \in Nat
    BY DEF LinkInv, LinkTypeInv
  <2>2. i \in Nat /\ 1 \in DOMAIN transit /\ 1 <= i
    BY <2>1
  <2>3. transit[1] <= transit[i] /\ transit[1] \in Nat
    BY <2>1, <2>2 DEF LinkInv, OrderInv, Sorted
  <2>4. transit[1] = 0
    BY <2>3 DEF Arrives
  <2> QED
    BY <2>2, <2>4 DEF Arrives
<1> QED
  BY <1>1, LinkCorrect, PTL

(* avoidReordering_ never keeps a packet longer than the largest delay the *)
(* script ever set.                                                        *)
THEOREM LinkNotHeldBack == LinkSpec => []NotHeldBack
<1>1. LinkInv => NotHeldBack
  BY DEF LinkInv, HeldInv
<1> QED
  BY <1>1, LinkCorrect, PTL

(* The load register of the DRE stays within two periods and one packet.   *)
THEOREM LinkRegisterBounded == LinkSpec => []RegisterBounded
<1>1. LinkInv => RegisterBounded
  <2> SUFFICES ASSUME LinkInv PROVE X <= 2 * T_DRE + busy
    BY DEF RegisterBounded
  <2>1. X \in Nat /\ decay \in Nat /\ busy \in Nat /\ T_DRE \in Nat
    BY DreAssumption DEF LinkInv, LinkTypeInv
  <2>2. Ahead \in Nat /\ Ahead <= busy
    BY <2>1 DEF Ahead
  <2>3. CASE dre
    BY <2>1, <2>2, <2>3 DEF LinkInv, RegisterInv
  <2>4. CASE ~ dre
    BY <2>1, <2>4 DEF LinkInv, RegisterInv
  <2> QED
    BY <2>3, <2>4
<1> QED
  BY <1>1, LinkCorrect, PTL

(* Two idle periods leave at most a quarter of the largest register:       *)
(* DREAgent::decayTimeout runs at least twice in them.                     *)
THEOREM LinkIdleForgotten == LinkSpec => []IdleForgotten
<1>1. LinkInv => IdleForgotten
  <2> SUFFICES ASSUME LinkInv, idle > 2 * T_DRE PROVE 4 * X <= 2 * T_DRE
    BY DEF IdleForgotten
  <2>1. X \in Nat /\ decay \in Nat /\ idle \in Nat /\ T_DRE \in Nat
    BY DreAssumption DEF LinkInv, LinkTypeInv
  <2>2. Ahead = 0 /\ idle >= 2 * T_DRE - decay
    BY <2>1 DEF LinkInv, IdleInv
  <2>3. 2 * X <= T_DRE
    <3>1. CASE dre
      BY <2>2, <3>1 DEF LinkInv, IdleInv
    <3>2. CASE ~ dre
      BY <2>1, <3>2 DEF LinkInv, RegisterInv
    <3> QED
      BY <3>1, <3>2
  <2> QED
    BY <2>1, <2>3
<1> QED
  BY <1>1, LinkCorrect, PTL
-----------------------------------------------------------------------------
(* A loaded link shows its load.                                           *)

(* What the register shows, x + 1 with the fraction rounded up, when it    *)
(* was last decayed a ago, b bits are counted ahead, the load has lasted   *)
(* for l and no packet is larger than m.  With no decay since the load     *)
(* began, every bit is there; one decay has halved the bits before it, two *)
(* have left three quarters of a period in all.  A packet that is cut by a *)
(* decay is halved as a whole, which is what m accounts for.               *)
Shows(x, a, b, l, m) ==
  LET t == T_DRE
      Once == /\ 2 * (x + 1) >= (l - a) + (a + b)
              /\ 2 * (x + 1) >= (l - a) + 2 * (a + b) - m
      Twice == /\ 4 * (x + 1) >= (l - a - t) + 2 * t - m + 2 * (a + b)
               /\ 4 * (x + 1) >= (l - a - t) + 2 * t - m + 4 * (a + b) - 2 * m
      More == /\ 8 * (x + 1) >= 6 * t - 3 * m + 4 * (a + b)
              /\ 8 * (x + 1) >= 6 * t - 3 * m + 8 * (a + b) - 4 * m
  IN  /\ b <= m
      /\ l < a => x + 1 >= l + b
      /\ a <= l /\ l < a + t => Once
      /\ a + t <= l => Twice \/ More

(* Packets are not longer than two periods; otherwise FullSeen is trivial. *)
LargestIs(m) == m \in 0 .. 2 * T_DRE /\ \A size \in Sizes : size <= m

LoadInv ==
  /\ load \in 0 .. 2 * T_DRE + 1
  /\ ~ dre => load = 0 /\ decay = T_DRE /\ ~ routing
  /\ load > 0 \/ routing => Sizes # {}
  /\ \A m \in Nat : LargestIs(m) => Shows(X, T_DRE - decay, Ahead, load, m)

LEMMA ShowsStart ==
  ASSUME NEW x \in Nat, NEW a \in 0 .. T_DRE, NEW m \in Nat
  PROVE  Shows(x, a, 0, 0, m)
BY DreAssumption DEF Shows

(* A packet of s bits is counted when none is ahead.                       *)
LEMMA ShowsRecv ==
  ASSUME NEW x \in Nat, NEW a \in 0 .. T_DRE, NEW l \in Nat, NEW m \in Nat,
         NEW s \in Nat, s <= m, Shows(x, a, 0, l, m)
  PROVE  Shows(x + s, a, s, l, m)
BY DreAssumption DEF Shows

(* A bit is sent.                                                          *)
LEMMA ShowsTick ==
  ASSUME NEW x \in Nat, NEW a \in 0 .. T_DRE - 1, NEW l \in Nat, NEW m \in Nat,
         NEW b \in Nat \ {0}, Shows(x, a, b, l, m)
  PROVE  Shows(x, a + 1, b - 1, Cap(l + 1), m)
<1>1. T_DRE \in Nat \ {0}
  BY DreAssumption
<1>2. Shows(x, a + 1, b - 1, l + 1, m)
  BY <1>1 DEF Shows
<1>3. CASE l + 1 <= 2 * T_DRE
  BY <1>1, <1>2, <1>3 DEF Cap
<1>4. CASE l + 1 > 2 * T_DRE
  <2>1. Cap(l + 1) = 2 * T_DRE + 1 /\ a + 1 + T_DRE <= 2 * T_DRE
    BY <1>1, <1>4 DEF Cap
  <2> QED
    BY <1>1, <1>2, <1>4, <2>1 DEF Shows
<1> QED
  BY <1>1, <1>3, <1>4

(* The register is halved.                                                 *)
LEMMA ShowsDecay ==
  ASSUME NEW x \in Nat, NEW y \in Nat, x <= 2 * y + 1, NEW l \in Nat,
         NEW b \in Nat, NEW m \in Nat, m <= 2 * T_DRE, Shows(x, T_DRE, b, l, m)
  PROVE  Shows(y, 0, b, l, m)
<1>1. T_DRE \in Nat \ {0}
  BY DreAssumption
<1>2. b <= m
  BY DEF Shows
<1>3. CASE l < T_DRE
  BY <1>1, <1>2, <1>3 DEF Shows
<1>4. CASE T_DRE <= l /\ l < 2 * T_DRE
  BY <1>1, <1>2, <1>4 DEF Shows
<1>5. CASE 2 * T_DRE <= l
  BY <1>1, <1>2, <1>5 DEF Shows
<1> QED
  BY <1>1, <1>3, <1>4, <1>5

LEMMA LoadInit == LinkInit => LoadInv
<1> SUFFICES ASSUME LinkInit PROVE LoadInv
  OBVIOUS
<1>1. T_DRE \in Nat \ {0} /\ T_DRE - decay = 0 /\ Ahead = 0 /\ load = 0 /\ X = 0
  BY DreAssumption DEF LinkInit, Ahead
<1>2. ASSUME NEW m \in Nat PROVE Shows(X, T_DRE - decay, Ahead, load, m)
  <2>1. Shows(0, 0, 0, 0, m)
    BY <1>1, ShowsStart
  <2> QED
    BY <1>1, <2>1
<1> QED
  BY <1>1, <1>2 DEF LinkInit, LoadInv

LEMMA LoadRecv ==
  ASSUME LinkInv, LoadInv, NEW size \in Sizes, NEW routed \in BOOLEAN,
         NEW deg \in 0 .. MAX_CE - 1, LinkRecv(size, routed, deg)
  PROVE  LoadInv'
<1>1. /\ T_DRE \in Nat \ {0} /\ X \in Nat /\ decay \in 0 .. T_DRE /\ busy \in Nat
      /\ dre \in BOOLEAN /\ load \in Nat /\ size \in Nat
  BY DreAssumption, SizesAssumption DEF LinkInv, LinkTypeInv, LoadInv
<1>2. load' = load /\ routing' = routed /\ busy' = size /\ Ahead = 0 /\ Sizes # {}
  BY DEF LinkRecv, Ahead
<1>3. CASE routed
  <2>1. dre' = TRUE /\ X' = X + size /\ Ahead' = size
    BY <1>2, <1>3 DEF LinkRecv, Counted, Ahead
  <2>2. decay' = decay
    BY <1>3 DEF LinkRecv, LoadInv
  <2>3. ASSUME NEW m \in Nat, LargestIs(m)
        PROVE  Shows(X', T_DRE - decay', Ahead', load', m)
    <3>1. Shows(X, T_DRE - decay, 0, load, m) /\ size <= m
      BY <1>2, <2>3 DEF LoadInv, LargestIs
    <3>2. T_DRE - decay \in 0 .. T_DRE
      BY <1>1
    <3>3. Shows(X + size, T_DRE - decay, size, load, m)
      BY <1>1, <3>1, <3>2, ShowsRecv
    <3> QED
      BY <1>2, <2>1, <2>2, <3>3
  <2>4. load' \in 0 .. 2 * T_DRE + 1
    BY <1>2 DEF LoadInv
  <2> QED
    BY <1>2, <2>1, <2>3, <2>4 DEF LoadInv, LargestIs, Shows
<1>4. CASE ~ routed
  <2>1. dre' = dre /\ X' = X /\ decay' = decay /\ Ahead' = 0
    BY <1>2, <1>4 DEF LinkRecv, dreVars, Ahead
  <2>2. \A m \in Nat : LargestIs(m) => Shows(X', T_DRE - decay', Ahead', load', m)
    BY <1>2, <2>1 DEF LoadInv
  <2>3. /\ load' \in 0 .. 2 * T_DRE + 1
        /\ ~ dre' => load' = 0 /\ decay' = T_DRE /\ ~ routing'
    BY <1>2, <1>4, <2>1 DEF LoadInv
  <2> QED
    BY <1>2, <2>2, <2>3 DEF LoadInv, LargestIs, Shows
<1> QED
  BY <1>3, <1>4

LEMMA LoadDecay ==
  ASSUME LinkInv, LoadInv, Decay
  PROVE  LoadInv'
<1>1. /\ T_DRE \in Nat \ {0} /\ X \in Nat /\ busy \in Nat /\ load \in Nat
      /\ Ahead \in Nat
  BY DreAssumption DEF LinkInv, LinkTypeInv, LoadInv, Ahead
<1>2. /\ load' = load /\ routing' = routing /\ busy' = busy /\ dre' = dre
      /\ dre /\ decay = 0 /\ decay' = T_DRE /\ X' = X \div 2
  BY DEF Decay, history, Halved
<1>3. Ahead' = Ahead
  BY <1>2 DEF Ahead
<1>4. X' \in Nat /\ X <= 2 * X' + 1
  BY <1>1, <1>2
<1>5. ASSUME NEW m \in Nat, LargestIs(m)
      PROVE  Shows(X', T_DRE - decay', Ahead', load', m)
  <2>1. T_DRE - decay = T_DRE /\ T_DRE - decay' = 0 /\ m <= 2 * T_DRE
    BY <1>1, <1>2, <1>5 DEF LargestIs
  <2>2. Shows(X, T_DRE, Ahead, load, m)
    BY <1>5, <2>1 DEF LoadInv
  <2>3. PICK y \in Nat : y = X'
    BY <1>4
  <2>4. Shows(y, 0, Ahead, load, m)
    BY <1>1, <1>4, <2>1, <2>2, <2>3, ShowsDecay
  <2> QED
    BY <1>2, <1>3, <2>1, <2>3, <2>4
<1>6. /\ load' \in 0 .. 2 * T_DRE + 1
      /\ ~ dre' => load' = 0 /\ decay' = T_DRE /\ ~ routing'
      /\ load' > 0 \/ routing' => Sizes # {}
  BY <1>2 DEF LoadInv
<1> QED
  BY <1>5, <1>6 DEF LoadInv, LargestIs, Shows

LEMMA LoadTick ==
  ASSUME LinkInv, LoadInv, Tick
  PROVE  LoadInv'
<1>1. /\ T_DRE \in Nat \ {0} /\ X \in Nat /\ busy \in Nat /\ load \in Nat
      /\ decay \in 0 .. T_DRE /\ Ahead \in Nat
  BY DreAssumption DEF LinkInv, LinkTypeInv, LoadInv, Ahead
<1>2. /\ dre' = dre /\ X' = X /\ routing' = routing
      /\ busy' = IF busy = 0 THEN 0 ELSE busy - 1
      /\ dre => decay > 0
      /\ decay' = IF dre THEN decay - 1 ELSE decay
      /\ load' = IF busy > 0 /\ routing THEN Cap(load + 1) ELSE 0
  BY DEF Tick, Less
<1>3. decay' \in 0 .. T_DRE
  BY <1>1, <1>2
<1>4. CASE busy > 0 /\ routing
  <2>1. dre
    BY <1>4 DEF LoadInv
  <2>2. /\ Ahead > 0 /\ Ahead' = Ahead - 1 /\ load' = Cap(load + 1)
        /\ decay > 0 /\ decay' = decay - 1
    BY <1>1, <1>2, <1>4, <2>1 DEF Ahead
  <2>3. ASSUME NEW m \in Nat, LargestIs(m)
        PROVE  Shows(X', T_DRE - decay', Ahead', load', m)
    <3>1. Shows(X, T_DRE - decay, Ahead, load, m)
      BY <2>3 DEF LoadInv
    <3>2. T_DRE - decay \in 0 .. T_DRE - 1 /\ Ahead \in Nat \ {0}
      BY <1>1, <2>2
    <3>3. Shows(X, T_DRE - decay + 1, Ahead - 1, Cap(load + 1), m)
      BY <1>1, <3>1, <3>2, ShowsTick
    <3>4. T_DRE - decay' = T_DRE - decay + 1
      BY <1>1, <2>2
    <3> QED
      BY <1>2, <2>2, <3>3, <3>4
  <2>4. load' \in 0 .. 2 * T_DRE + 1
    BY <1>1, <2>2 DEF Cap
  <2>5. Sizes # {}
    BY <1>4 DEF LoadInv
  <2> QED
    BY <1>2, <2>1, <2>3, <2>4, <2>5 DEF LoadInv, LargestIs, Shows
<1>5. CASE ~ (busy > 0 /\ routing)
  <2>1. Ahead' = 0 /\ load' = 0
    BY <1>1, <1>2, <1>5 DEF Ahead
  <2>2. ASSUME NEW m \in Nat
        PROVE  Shows(X', T_DRE - decay', Ahead', load', m)
    <3>1. PICK y \in 0 .. T_DRE : y = decay'
      BY <1>3
    <3>2. T_DRE - y \in 0 .. T_DRE
      BY <1>1
    <3>3. Shows(X, T_DRE - y, 0, 0, m)
      BY <1>1, <3>2, ShowsStart
    <3> QED
      BY <1>2, <2>1, <3>1, <3>3
  <2>3. /\ load' \in 0 .. 2 * T_DRE + 1
        /\ ~ dre' => load' = 0 /\ decay' = T_DRE /\ ~ routing'
        /\ load' > 0 \/ routing' => Sizes # {}
    BY <1>1, <1>2, <2>1 DEF LoadInv
  <2> QED
    BY <2>2, <2>3 DEF LoadInv, LargestIs, Shows
<1> QED
  BY <1>4, <1>5

LEMMA LoadNext == LinkInv /\ LoadInv /\ [LinkNext]_linkVars => LoadInv'
<1> SUFFICES ASSUME LinkInv, LoadInv, [LinkNext]_linkVars PROVE LoadInv'
  OBVIOUS
<1>1. ASSUME UNCHANGED <<dreVars, busy, routing, load>>
      PROVE  LoadInv'
  BY <1>1 DEF LoadInv, LargestIs, Shows, Ahead, dreVars
<1>2. ASSUME NEW size \in Sizes, NEW routed \in BOOLEAN, NEW deg \in 0 .. MAX_CE - 1,
             LinkRecv(size, routed, deg)
      PROVE  LoadInv'
  BY <1>2, LoadRecv
<1>3. ASSUME NEW i \in DOMAIN transit, Deliver(i) PROVE LoadInv'
  BY <1>1, <1>3 DEF Deliver, history
<1>4. CASE Decay
  BY <1>4, LoadDecay
<1>5. ASSUME NEW d \in Delays, SetDelay(d) PROVE LoadInv'
  BY <1>1, <1>5 DEF SetDelay
<1>6. CASE Reset
  BY <1>1, <1>6 DEF Reset, history
<1>7. CASE Tick
  BY <1>7, LoadTick
<1>8. CASE UNCHANGED linkVars
  BY <1>1, <1>8 DEF linkVars, history
<1> QED
  BY <1>2, <1>3, <1>4, <1>5, <1>6, <1>7, <1>8 DEF LinkNext

(* The sizes have a largest element unless some packet is longer than two  *)
(* periods.                                                                *)
LEMMA LargestSize ==
  ASSUME Sizes # {}, \A size \in Sizes : size <= 2 * T_DRE
  PROVE  \E size \in Sizes : LargestIs(size)
<1> DEFINE rest == {2 * T_DRE - size : size \in Sizes}
<1>1. T_DRE \in Nat /\ Sizes \subseteq Nat
  BY DreAssumption, SizesAssumption
<1>2. rest \in SUBSET Nat /\ rest # {}
  <2>1. \A size \in Sizes : 2 * T_DRE - size \in Nat
    BY <1>1
  <2> QED
    BY <2>1
<1>3. PICK k \in rest : \A j \in rest : ~ (<<j, k>> \in OpToRel(<, Nat))
  BY <1>2, NatLessThanWellFounded, WFMin
<1>4. PICK size \in Sizes : k = 2 * T_DRE - size
  BY <1>3
<1>5. \A j \in rest : ~ (j < k)
  BY <1>2, <1>3 DEF OpToRel
<1>6. ASSUME NEW s \in Sizes PROVE s <= size
  <2>1. ~ (2 * T_DRE - s < 2 * T_DRE - size)
    BY <1>4, <1>5
  <2> QED
    BY <1>1, <2>1
<1>7. LargestIs(size)
  BY <1>1, <1>6 DEF LargestIs
<1> QED
  BY <1>7

LEMMA LoadIsSeen == LinkInv /\ LoadInv => FullSeen
<1> SUFFICES ASSUME LinkInv, LoadInv, load > 2 * T_DRE
             PROVE  \E size \in Sizes : 8 * (X + 1) + 3 * size >= 6 * T_DRE
  BY DEF FullSeen
<1>1. T_DRE \in Nat \ {0} /\ X \in Nat /\ decay \in 0 .. T_DRE /\ load \in Nat
  BY DreAssumption DEF LinkInv, LinkTypeInv, LoadInv
<1>2. busy \in Nat /\ Ahead \in Nat
  BY DEF LinkInv, LinkTypeInv, Ahead
<1>3. Sizes # {} /\ Sizes \subseteq Nat
  BY <1>1, SizesAssumption DEF LoadInv
<1>4. ASSUME NEW size \in Sizes, ~ (size <= 2 * T_DRE)
      PROVE  8 * (X + 1) + 3 * size >= 6 * T_DRE
  BY <1>1, <1>3, <1>4
<1>5. CASE \A size \in Sizes : size <= 2 * T_DRE
  <2>1. PICK m \in Sizes : LargestIs(m)
    BY <1>3, <1>5, LargestSize
  <2>2. PICK a \in 0 .. T_DRE : a = T_DRE - decay
    BY <1>1
  <2>3. m \in Nat /\ Shows(X, a, Ahead, load, m)
    BY <1>3, <2>1, <2>2 DEF LoadInv
  <2>4. 8 * (X + 1) + 3 * m >= 6 * T_DRE
    BY <1>1, <1>2, <2>2, <2>3 DEF Shows
  <2> QED
    BY <2>4
<1> QED
  BY <1>4, <1>5

(* A link that is busy for two periods is seen to be: the two decays in    *)
(* them (DREAgent::decayTimeout) leave three quarters of a period's load   *)
(* in the register, less three eighths of a packet.                        *)
THEOREM LinkFullSeen == LinkSpec => []FullSeen
<1>1. LinkInit => LoadInv
  BY LoadInit
<1>2. LinkInv /\ LoadInv /\ [LinkNext]_linkVars => LoadInv'
  BY LoadNext
<1>3. LinkInv /\ LoadInv => FullSeen
  BY LoadIsSeen
<1> QED
  BY <1>1, <1>2, <1>3, LinkCorrect, PTL DEF LinkSpec
=============================================================================

---------------------------- MODULE CLBProcessor ----------------------------
(***************************************************************************)
(* Two hosts running CLB (clb/clb.cc) and the CLBProcessor that each keeps *)
(* for the other (clb/clb-processor.cc).  A processor spreads the packets  *)
(* it sends over VP_SIZE virtual paths, learns from the peer's packets how *)
(* many arrived on each path and which were marked as congested, probes a  *)
(* path that has been quiet for T_RSSTIME with a train of BURST_PKTCNT     *)
(* packets, and puts the packets it receives back in order.                *)
(*                                                                         *)
(* The operators below are the member functions, as functions from a       *)
(* processor's state to its next state; the actions are the events of the  *)
(* simulator: a packet leaving the node, a packet arriving, the refresh    *)
(* timer, a loss in the network and the passing of time.                   *)
(*                                                                         *)
(* Left out, because nothing reads them: global_ca, global_response,       *)
(* flying, fresh_time, valid, pending, ece_cnt, max_ece_cnt, burst_time of *)
(* the processor, time of ca_response.                                     *)
(***************************************************************************)
EXTENDS ClbWeights, PacketQueue, FiniteSets

CONSTANTS
  Hosts,          \* the two hosts
  TICKS_PER_SEC,  \* time is counted in ticks
  T_REFRESH,      \* period of the refresh timer, in ticks
  T_RSSTIME,      \* time after which a path is probed, in ticks
  BURST_PKTCNT,   \* packets in a probe train
  MaxSend,        \* bound: packets each host sends, a function on Hosts
  MaxLoss,        \* bound: packets lost
  MaxMarks,       \* bound: packets marked on the paths to a host
  MaxNow          \* bound: length of the run, in ticks

ASSUME HostsAssumption == IsFiniteSet(Hosts) /\ Cardinality(Hosts) = 2
ASSUME TimesAssumption ==
  /\ T_REFRESH \in Nat \ {0}
  /\ T_RSSTIME \in Nat \ {0}
  /\ TICKS_PER_SEC \in Nat \ {0}
ASSUME BurstAssumption == BURST_PKTCNT \in Nat \ {0}
(* T_RSSTIME is at most a second: two packets within it are 2 packets/s.   *)
ASSUME ProbeRateAssumption == T_RSSTIME <= TICKS_PER_SEC
ASSUME BoundsAssumption ==
  MaxSend \in [Hosts -> Nat] /\ MaxLoss \in Nat /\ MaxMarks \in Nat /\ MaxNow \in Nat

VARIABLES
  now,            \* the simulator's clock
  node_table,     \* hosts that have created their CLBProcessor
  proc,           \* state of each host's processor
  net,            \* net[h][v]: packets from h on path v, in order
  lost,           \* number of packets lost
  delivered       \* history: sequence numbers passed on to each host's node

vars == <<now, node_table, proc, net, lost, delivered>>

Peer(h) == CHOOSE g \in Hosts : g # h

-----------------------------------------------------------------------------
(* Construction.                                                           *)

init_ca_record(t) ==
  [send_cnt |-> 0, recv_cnt |-> 0, send_undefined |-> 0, recv_undefined |-> 0,
   rate |-> SCALE, r_rate |-> INIT_RRATE, c_rate |-> 0, r_time |-> t,
   recv_ece_cnt |-> 0]

init_ca_response(t) ==
  [recv_cnt |-> 0, recv_ecn |-> FALSE, recv_ecn_cnt |-> 0,
   burst_pending |-> FALSE, burst_cnt |-> 0, burst_time |-> t]

NewProcessor(t) ==
  [sequence |-> 0,
   vp_map |-> [v \in VPs |-> init_ca_record(t)],
   burst_pending |-> FALSE, burst_vp |-> 0, burst_cnt |-> 0,
   ca_keys |-> {},                                  \* keys of ca_map
   ca_map |-> [v \in VPs |-> init_ca_response(t)],  \* its values
   ca_queue |-> << >>,
   buf |-> Init_PacketQueue,
   update_time |-> t]

(* Mutant: the processor is not found again.                               *)
get_node_processor_New(h) == NewProcessor(now)

(* CLB creates the processor when the first packet is sent or received.    *)
get_node_processor(h) == IF h \in node_table THEN proc[h] ELSE NewProcessor(now)

-----------------------------------------------------------------------------
(* Sending.                                                                *)

Field(p, f) == [v \in VPs |-> p.vp_map[v][f]]

(* A probe in progress pins every packet to its path.                      *)
vp_next(p) ==
  LET c == Field(p, "c_rate")
      r == Field(p, "r_rate")
  IN  IF p.burst_pending
      THEN [p |-> p, vp |-> p.burst_vp]
      ELSE [p  |-> [p EXCEPT !.vp_map =
                     [v \in VPs |-> [@[v] EXCEPT !.c_rate = Charged(c, r)[v]]]],
            vp |-> Chosen(c, r)]

(* Mutant: a row is reported once and then forgotten.                      *)
ca_next_Once(p) == [p EXCEPT !.ca_queue = IF @ = << >> THEN @ ELSE Tail(@)]

(* The rows of ca_map take turns in being reported to the peer.  (The test *)
(* ca_map.count(t) == 0 is omitted: ca_free is never called.)              *)
ca_next(p) == [p EXCEPT !.ca_queue = IF @ = << >> THEN @ ELSE Append(Tail(@), Head(@))]

(* --burst_cnt reaches 0.                                                  *)
LastOfTrain(p) == p.burst_cnt = 1

(* Mutant: a reported mark stays pending.                                  *)
Reported_Kept(row) == row

(* The row after its mark has been copied into a packet.                   *)
Reported(row) == [row EXCEPT !.recv_ecn = FALSE]

(* The state after send() and the packet's clb_row.                        *)
send(p, t) ==
  LET n == vp_next(p)
      v == n.vp
      probing == p.burst_pending /\ v = p.burst_vp
      last == probing /\ LastOfTrain(p)
      respond == p.ca_queue # << >>
      rid == IF respond THEN Head(p.ca_queue) ELSE 0
      q == [ca_next(n.p) EXCEPT
              !.sequence = @ + 1,
              !.vp_map[v].send_undefined = @ + 1,
              !.vp_map[v].r_time = IF last THEN t ELSE @,
              !.burst_cnt = IF probing THEN @ - 1 ELSE @,
              !.burst_pending = @ /\ ~ last,
              !.ca_map[rid] = IF respond THEN Reported(@) ELSE @]
  IN  [p   |-> q,
       pkt |-> [vp_id |-> v, SN_HSN |-> q.sequence,
                burst_id |-> IF probing THEN p.burst_cnt ELSE 0,
                response_en |-> respond, vp_rid |-> rid,
                vp_rcnt |-> IF respond THEN p.ca_map[rid].recv_cnt ELSE 0,
                vp_recn |-> respond /\ p.ca_map[rid].recv_ecn,
                burst_rate |-> 0]]

-----------------------------------------------------------------------------
(* Receiving, as a sender: what the peer reports about my paths.           *)

(* Mutant: the peer's total taken for the increment.                       *)
ca_record_recv_Total(ca, current_recv) == [ca EXCEPT !.recv_undefined = current_recv]

(* vp_rcnt is the peer's total for the path; a report older than the last  *)
(* refresh is ignored.                                                     *)
ca_record_recv(ca, current_recv) ==
  [ca EXCEPT !.recv_undefined =
     IF current_recv < ca.recv_cnt THEN @ ELSE current_recv - ca.recv_cnt]

(* The path whose r_time is oldest, the first of them in map order; v when *)
(* none is older than v.                                                   *)
vp_burst_get(p, v) ==
  LET t == Field(p, "r_time")
      oldest == {u \in VPs : \A w \in VPs : t[u] <= t[w]}
  IN  IF v \in oldest THEN v ELSE CHOOSE u \in oldest : \A w \in oldest : u <= w

(* Mutant: a new probe may start during a probe.                           *)
ProbeDue_Restart(p, v, t) == t - p.vp_map[v].r_time > T_RSSTIME

ProbeDue(p, v, t) == t - p.vp_map[v].r_time > T_RSSTIME /\ ~ p.burst_pending

(* A mark sets the weight to the measured rate; a path without a mark for  *)
(* T_RSSTIME starts a probe of the oldest path, one probe at a time.       *)
vp_update_rrate(p, v, recn, t) ==
  LET q == IF recn
           THEN [p EXCEPT !.vp_map[v].r_rate = p.vp_map[v].rate,
                          !.vp_map[v].recv_ece_cnt = @ + 1,
                          !.vp_map[v].r_time = t]
           ELSE p
  IN  IF ProbeDue(q, v, t)
      THEN [q EXCEPT !.burst_pending = TRUE,
                     !.burst_vp = vp_burst_get(q, v),
                     !.burst_cnt = BURST_PKTCNT]
      ELSE q

(* Mutant: probe replies are handled as data.                              *)
IsReply_Never(pkt) == FALSE

(* The reply to a probe: recognised by burst_rate > 1 packet/s.            *)
IsReply(pkt) == pkt.response_en /\ pkt.burst_rate > SCALE

TakeReply(p, pkt) ==
  [p EXCEPT !.vp_map[pkt.vp_rid].r_rate =
     IF @ < pkt.burst_rate THEN pkt.burst_rate ELSE @]

TakeResponse(p, pkt, t) ==
  IF pkt.response_en
  THEN vp_update_rrate([p EXCEPT !.vp_map[pkt.vp_rid] = ca_record_recv(@, pkt.vp_rcnt)],
                       pkt.vp_rid, pkt.vp_recn, t)
  ELSE p

-----------------------------------------------------------------------------
(* Receiving, as a receiver: what I will report about the peer's paths.    *)

ca_alloc(p, v, t) ==
  IF v \in p.ca_keys THEN p
  ELSE [p EXCEPT !.ca_keys = @ \cup {v},
                 !.ca_map[v] = init_ca_response(t),
                 !.ca_queue = Append(@, v)]

(* Packets on one path are never simultaneous: an interval shorter than a  *)
(* tick counts as a tick.                                                  *)
Elapsed(t, since) == IF t > since THEN t - since ELSE 1

ReplyPacket(v, cnt, delta) ==
  [vp_id |-> 0, SN_HSN |-> 0, burst_id |-> 0, response_en |-> TRUE,
   vp_rid |-> v, vp_rcnt |-> 0, vp_recn |-> FALSE,
   burst_rate |-> (cnt * TICKS_PER_SEC * SCALE) \div delta]

(* Mutant: an interrupted train never expires.                             *)
StartsTrain_NoExpiry(row, t) == ~ row.burst_pending

(* A probe packet starts a new train unless one is being received.         *)
StartsTrain(row, t) == ~ row.burst_pending \/ t - row.burst_time > T_RSSTIME

(* The row after a probe packet, and the reply if it completes a train.    *)
update_ca_burst(row, v, burst_id, t) ==
  IF burst_id = 0 THEN [row |-> row, reply |-> << >>]
  ELSE IF StartsTrain(row, t)
  THEN [row |-> [row EXCEPT !.burst_pending = TRUE, !.burst_cnt = 1,
                            !.burst_time = t],
        reply |-> << >>]
  ELSE [row |-> [row EXCEPT !.burst_cnt = @ + 1,
                            !.burst_pending = (burst_id # 1)],
        reply |-> IF burst_id = 1
                  THEN <<ReplyPacket(v, row.burst_cnt + 1,
                                     Elapsed(t, row.burst_time))>>
                  ELSE << >>]

(* recv_ecn is the mark of the latest packet, not of any since the last    *)
(* report.                                                                 *)
update_ca_response(row, marked) ==
  [row EXCEPT !.recv_cnt = @ + 1,
              !.recv_ecn = marked,
              !.recv_ecn_cnt = IF marked THEN @ + 1 ELSE @]

(* The state after recv(), the probe reply it sends and the packets it     *)
(* passes on to the node.                                                  *)
recv(p, pkt, marked, t) ==
  IF IsReply(pkt)
  THEN [p |-> TakeReply(p, pkt), reply |-> << >>, out |-> << >>]
  ELSE LET q == ca_alloc(TakeResponse(p, pkt, t), pkt.vp_id, t)
           b == update_ca_burst(q.ca_map[pkt.vp_id], pkt.vp_id, pkt.burst_id, t)
           r == reorder(q.buf, pkt.SN_HSN)
       IN  [p |-> [q EXCEPT !.ca_map[pkt.vp_id] = update_ca_response(b.row, marked),
                            !.buf = r.buf],
            reply |-> b.reply,
            out |-> r.out]

-----------------------------------------------------------------------------
(* The refresh timer.                                                      *)

update_ca_record(ca, delta) ==
  [ca EXCEPT !.rate = (ca.recv_undefined * TICKS_PER_SEC * SCALE) \div delta,
             !.send_cnt = @ + ca.send_undefined,
             !.recv_cnt = @ + ca.recv_undefined,
             !.send_undefined = 0,
             !.recv_undefined = 0]

expire(p, t) ==
  [p EXCEPT !.vp_map = [v \in VPs |-> update_ca_record(@[v], t - p.update_time)],
            !.update_time = t]

-----------------------------------------------------------------------------
(* The simulator's events.                                                 *)

Init ==
  /\ now = 0
  /\ node_table = {}
  /\ proc = [h \in Hosts |-> NewProcessor(0)]
  /\ net = [h \in Hosts |-> [v \in VPs |-> << >>]]
  /\ lost = 0
  /\ delivered = [h \in Hosts |-> << >>]

(* A packet leaves h's node for the peer.                                  *)
Send(h) ==
  LET s == send(get_node_processor(h), now)
  IN  /\ get_node_processor(h).sequence < MaxSend[h]
      /\ proc' = [proc EXCEPT ![h] = s.p]
      /\ node_table' = node_table \cup {h}
      /\ net' = [net EXCEPT ![h][s.pkt.vp_id] = Append(@, s.pkt)]
      /\ UNCHANGED <<now, lost, delivered>>

Marks(h) == Total([v \in VPs |-> proc[h].ca_map[v].recv_ecn_cnt])

(* The first packet on path v reaches h; a queue on the path may have      *)
(* marked it.  A probe reply leaves at once with hash key 0, on path 0.    *)
Recv(h, v, marked) ==
  LET pkt == Head(net[Peer(h)][v])
      r == recv(get_node_processor(h), pkt, marked, now)
  IN  /\ net[Peer(h)][v] # << >>
      /\ marked => Marks(h) < MaxMarks
      /\ proc' = [proc EXCEPT ![h] = r.p]
      /\ node_table' = node_table \cup {h}
      /\ net' = [net EXCEPT ![Peer(h)][v] = Tail(@), ![h][0] = @ \o r.reply]
      /\ delivered' = [delivered EXCEPT ![h] = @ \o r.out]
      /\ UNCHANGED <<now, lost>>

(* A drop-tail queue on the path drops the packet.                         *)
Lose(h, v) ==
  /\ lost < MaxLoss
  /\ net[h][v] # << >>
  /\ net' = [net EXCEPT ![h][v] = Tail(@)]
  /\ lost' = lost + 1
  /\ UNCHANGED <<now, node_table, proc, delivered>>

Due(h) == h \in node_table /\ now - proc[h].update_time >= T_REFRESH

(* CLBProcessorTimer::expire.                                              *)
Expire(h) ==
  /\ Due(h)
  /\ proc' = [proc EXCEPT ![h] = expire(@, now)]
  /\ UNCHANGED <<now, node_table, net, lost, delivered>>

(* Time passes when no timer is due.                                       *)
Tick ==
  /\ now < MaxNow
  /\ \A h \in Hosts : ~ Due(h)
  /\ now' = now + 1
  /\ UNCHANGED <<node_table, proc, net, lost, delivered>>

Next ==
  \/ \E h \in Hosts : Send(h)
  \/ \E h \in Hosts, v \in VPs, marked \in BOOLEAN : Recv(h, v, marked)
  \/ \E h \in Hosts, v \in VPs : Lose(h, v)
  \/ \E h \in Hosts : Expire(h)
  \/ Tick

Spec == Init /\ [][Next]_vars

-----------------------------------------------------------------------------
(* Properties.                                                             *)

(* The packets of h on path v that satisfy Test, counted.                  *)
Count(h, v, Test(_)) ==
  Cardinality({i \in DOMAIN net[h][v] : Test(net[h][v][i])})

IsProbeReply(pkt) == pkt.SN_HSN = 0

(* The two ends of a path agree on its traffic, whatever is lost, delayed  *)
(* or overtaken: what the sender believes to have arrived                  *)
(* (ca_record_recv, update_ca_record) has arrived, what has arrived or is  *)
(* under way has been sent, and the paths' counters add up to the sequence *)
(* number.                                                                 *)
Accounting ==
  \A h \in Hosts :
    LET p == proc[h]
        row == proc[Peer(h)].ca_map
        sent == [v \in VPs |-> p.vp_map[v].send_cnt + p.vp_map[v].send_undefined]
    IN  /\ Total(sent) = p.sequence
        /\ \A v \in VPs :
             /\ p.vp_map[v].recv_cnt + p.vp_map[v].recv_undefined <= row[v].recv_cnt
             /\ row[v].recv_cnt + Count(h, v, LAMBDA k : ~ IsProbeReply(k)) <= sent[v]

(* A congestion mark is echoed at most once: the marks the sender acted on *)
(* (vp_update_rrate), those under way to it and the one waiting to be      *)
(* reported are no more than the marks the receiver saw on the path.       *)
EchoOnce ==
  \A h \in Hosts, v \in VPs :
    LET row == proc[Peer(h)].ca_map[v]
        carried == [u \in VPs |-> Count(Peer(h), u, LAMBDA k : k.vp_recn /\ k.vp_rid = v)]
    IN  proc[h].vp_map[v].recv_ece_cnt + Total(carried)
          + (IF row.recv_ecn THEN 1 ELSE 0) <= row.recv_ecn_cnt

InFlight(h) == UNION {{net[h][v][i] : i \in DOMAIN net[h][v]} : v \in VPs}

(* A probe is a train: consecutive packets on one path, numbered down from *)
(* BURST_PKTCNT to 1, which no mark, report or new probe interrupts        *)
(* (vp_update_rrate, vp_next_at_ratio_SWRR, send).                         *)
ProbeTrain ==
  \A h \in Hosts : \A k, l \in InFlight(h) :
    k.SN_HSN > 0 /\ l.SN_HSN = k.SN_HSN + 1 =>
      IF k.burst_id > 1
      THEN l.burst_id = k.burst_id - 1 /\ l.vp_id = k.vp_id
      ELSE l.burst_id \in {0, BURST_PKTCNT}

(* Every probe reply is recognised as one by recv (burst_rate > 1), and so *)
(* never reaches the counters and the reorder buffer with its SN_HSN of 0: *)
(* a train is only completed within T_RSSTIME of its first packet.         *)
RepliesCaught ==
  \A h \in Hosts : \A k \in InFlight(h) : IsProbeReply(k) => IsReply(k)

(* The node gets the peer's packets in the order they were sent, each      *)
(* once, over paths of different delay and with probe replies in between   *)
(* (recv, reorder).                                                        *)
DeliveredInOrder ==
  \A h \in Hosts : \A i \in DOMAIN delivered[h] : delivered[h][i] = i

(* What CLB promises: either node sees the peer's packets as over one FIFO *)
(* channel.  Every step that delivers to it (recv, reorder) delivers the   *)
(* next packets of those that the peer has sent and no other, whatever     *)
(* happens in the other direction.                                         *)
Channel(h) == INSTANCE OrderedChannel WITH
  MaxSeq <- MaxSend[Peer(h)],
  sent <- proc[Peer(h)].sequence,
  delivered <- delivered[h]
Channels == [][\A h \in Hosts : [Channel(h)!Next]_(Channel(h)!vars)]_vars

(* Every path that packets have arrived on keeps its turn in being         *)
(* reported to the peer, and one turn only (ca_alloc, ca_next).            *)
RowsTakeTurns ==
  \A h \in Hosts :
    LET p == proc[h] IN
    /\ \A v \in VPs : v \in p.ca_keys <=> p.ca_map[v].recv_cnt > 0
    /\ {p.ca_queue[i] : i \in DOMAIN p.ca_queue} = p.ca_keys
    /\ Len(p.ca_queue) = Cardinality(p.ca_keys)
=============================================================================

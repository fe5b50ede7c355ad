# CLB in ns-2: a TLA+ verification project

The repository is an ns-2.35 tree with load-balancing schemes for data-centre
networks added to it: CLB (the authors' scheme), CLOVE, Hermes and Conga, and
the Tcl scripts of the experiments. This project models the repository's own
code; the vendored simulator is the environment.

## 1. The system

| part | source (`src/ns-2.35/`) | state | operations |
|---|---|---|---|
| CLB dispatcher | `clb/clb.cc` | `node_table`: one processor per peer | `recv`, `send_proc`, `recv_proc`, `get_node_processor` |
| CLBProcessor, sender side | `clb/clb-processor.cc` | `sequence`, `vp_map` (per path: counters, measured `rate`, weight `r_rate`, current value `c_rate`, `r_time`), probe in progress | `send`, `vp_next`, `vp_update_rrate`, `vp_burst_get`, `ca_record_*`, timer `expire` |
| CLBProcessor, receiver side | same | `ca_map` (per path: packets received, pending mark, train being received), `ca_queue` | `recv`, `ca_alloc`, `ca_next`, `update_ca_response`, `update_ca_burst` |
| reorder buffer | same | `reorder_value`, `PacketQueue[QUEUE_SIZE]` | `Enqueue_PacketQueue`, `Dequeue_PacketQueue`, `reorder` |
| CLBQueue | `clb/clb-queue.cc` | probe queues `bqMap`, iterator `bqIt`, common queue `q_` | `enque`, `deque`, `shrink_queue` |
| classifier hook | `classifier/classifier.cc` | - | calls the scheme, frees or keeps the packet by its return code |
| CLOVE | `clb/clove*.cc` | per path `weight`, `current_weight`, `r_time`; rows of the peer's paths that expire | `send`, `recv`, `vp_next`, `ca_next`, `ecn_truncate` |
| Hermes | `clb/hermes*.cc` | per path delay, share of marked packets, rank, load; `flow_table`; rows that fade | `send`, `recv`, `vp_next`, timer `expire` |
| Conga | `clb/conga.cc` | `route_table_` and `response_table_` of each leaf | `route`, `recv` |
| link and its load estimator | `link/delay.cc`, `link/dre.cc` | packets in transit, `latest_time_`, register `X` with its timer | `recv`, `handle`, `reset`, `decayTimeout`, `updateDRECost` |
| multipath forwarder | `classifier/classifier-mpath.cc` | flowlet table | `classify`, `balance_flowlet`, `balance_ecmp` |
| tunnel, flow classifier, CONGA agent | `apps/clb_tunnel.cc`, `apps/clb_flow_classify.cc`, `apps/conga.cc` | an earlier generation of the scheme, switched off | - |

How the parts interact. Every packet that enters or leaves a host passes through
`Classifier::recv`, which calls `CLB::recv`. A sending processor numbers the
packet, picks a virtual path by smooth weighted round robin (SWRR), writes the
path and, in turn, one row of what it knows about the opposite direction into
the packet's `clb_row`. Switches hash the path number, so packets on one path
stay in order and packets on different paths overtake each other; drop-tail
queues mark and drop. The receiving processor updates the sender half of its state
from the report, the receiver half from the packet, and hands the packet to
the reorder buffer, which passes on zero or more packets to the node. A path
without a mark for `T_RSSTIME` is probed: the next `BURST_PKTCNT` packets are
pinned to it, the receiver measures their rate and answers with a packet of its
own (port 100, `SN_HSN` 0) that the sender recognises by its rate.

The other schemes hook into the same place. CLOVE and Hermes also keep a processor per
peer, number virtual paths and report on the opposite direction in turn. Conga works on the
leaf switches: `MultiPathForwarder` asks `Conga::route` for a port, once per packet or per
flowlet; every link the packet crosses raises the congestion degree in its header to that of
its own load estimator (`LinkDelay::recv`, `DREAgent`); the far leaf stores the degree and
sends it back on a packet of its own.

What is hard. The simulator runs one event at a time, so there are no data
races: the difficulty is in the order of events and in what is in the network
between them. Reports and data overtake each other and get lost; probes overlap
reports, marks, losses and the expiry of half received trains; the reorder
buffer computes with unsigned differences and a ring of slots; the iterator of
CLBQueue survives insertions into the map; rows of CLOVE and Hermes are freed and created
again while their keys circulate; what a sender knows of a path is as old as the last report;
the script changes the delay of a link that carries packets. `PROJECT.json` lists these hazards at
their lines.

What makes each part correct:

* reorder buffer: nothing lost, duplicated or leaked; in order within its window;
  packets held back only for a missing one, and not beyond the next `QUEUE_SIZE` packets;
* SWRR: nearly the greatest value is chosen, values stay bounded, no starvation;
* feedback: the sender's counters never run ahead of the receiver's, no mark acted on
  twice, every path reported in turn;
* probes: whole trains on one path, replies never mistaken for data;
* CLBQueue: the search ends, overlooks nothing, serves the queues in turn, and no packet
  is left beside an idle link;
* CLOVE: marks are reported in turn and lost only with an expired row, reduced weights come
  back, the host sees TCP's echo only when every path is known to be congested;
* Hermes: flows do not oscillate, what is reported is fresh or fades;
* Conga: a degree belongs to the path it is filed under and the last one gets through;
* link: in order, nothing held back without end, a load estimate that is bounded, sees a full
  link and forgets an idle one;
* multipath forwarder: flowlets reorder a flow only across ports whose delays differ by more
  than the gap of a flowlet, ECMP never.

## 2. Modules

| module | models | used by |
|---|---|---|
| `PacketQueue` | the reorder buffer as operators on `[value, slot]` | `CLBReorder`, `CLBProcessor`, `PacketQueueProofs` |
| `CLBReorder` | one reorder buffer fed by a network that reorders and loses | 3 runs, `CLBReorderProofs` |
| `OrderedChannel` | abstract specification: a FIFO channel between the two nodes | `CLBReorder!ImplementsChannel`, `CLBProcessor!Channels` and their proofs |
| `Swrr` | `vp_next_at_ratio_SWRR` as operators: the loop, and a closed form | `ClbWeights`, `Clove` |
| `ClbWeights` | the initial weight, shared by the two modules that use the round robin of CLB | `CLBSwrr`, `CLBProcessor` |
| `CLBSwrr` | SWRR while marks and probe replies change the weights | run `swrr`, `CLBProcessorProofs` |
| `CLBProcessor` | two hosts with dispatcher, sender side, receiver side, reorder buffer, refresh timer, and the network between them | via `MCCLBProcessor`, `CLBProcessorProofs` |
| `CLBQueue` | the link queue with its callers `Queue::recv` and `Queue::resume` | run `queue`, `CLBQueueProofs` |
| `CaRows` | the rows a receiver keeps of its peer's paths and the queue of their keys, which CLOVE and Hermes have in the same form | `Clove`, `Hermes` |
| `Clove` | one `CLOVEProcessor`; the peer sends any report and any mark | run `clove`, `CloveProofs` |
| `Hermes` | one `HermesProcessor`; the peer sends any report | via `MCHermes`, `HermesProofs` |
| `Conga` | the tables of the leaves and the network between them | via `MCConga`, `CongaProofs` |
| `LinkDelay` | a link with its three modes and the DRE | run `link`, `CongaProofs` |
| `MultiPath` | the forwarder and the ports behind it | via `MCMultiPath`, `MultiPathProofs` |

Correspondence. Variables and record fields carry the names of the C++ members,
operators the names of the member functions; `PROJECT.json` maps each definition to its
lines. One action is one event of the simulator with everything the handler calls:
`CLBProcessor!Recv` is `CLB::recv_proc`, with the feedback, the probe and its
reply, the counters and the reordering, in the order of the code. The exception
is the loop of `CLBQueue::deque`, which is modelled round by round
(`TakeProbe`, `Skip`, `TakePlain`) because its termination is in question; no other
action is enabled while it runs.

Abstractions.

* A packet is its `clb_row`; in `CLBReorder` and in a buffer slot it is its sequence
  number. A slot's `seq` and `time` are written and never read.
* Rates are integers in units of `1/SCALE` packets per second and time is in ticks.
  `Trunc` is the conversion of a double to the code's `int max_weight`.
  `update_ca_record` and the probe rate round down to a unit. `RATE_ALPHA` is 1, so
  the new rate is the measured one.
* Intervals of zero length inside a train count as one tick: in the code two
  packets of one path never arrive simultaneously.
* `ca_map` is a function on all paths, with `ca_keys` the keys present.
* Not represented, because nothing reads it: `global_ca`, `global_response`, `flying`,
  `fresh_time`, `valid`, `pending`, `ece_cnt`, `max_ece_cnt`, debug output.
* A key of `bqMap`, a string, is its rank in the map's order. Sizes are in packets
  (`queue_in_bytes_` is false by default).
* `Clove`, `Hermes`, `LinkDelay` and `MultiPath` keep ages or times left in place of clock
  values, cut off just above the greatest value they are compared with, so that time is
  unbounded and the state space finite. In `LinkDelay` the unit is the time to send one bit,
  and the register is exactly `(int) X`.
* Weights of `Clove` are in units of `1/SCALE`; a ratio of `Hermes` is a pair of counters.
* `Conga`: the choice by `rand()` among the best ports and among the reports is any choice;
  the degree a packet arrives with is any member of `Degrees`, what `LinkDelay` computes.
  `MultiPath`: what `mpath_route` returns (a random number or Conga's port) is any key.
* The network delivers each path's packets in order, may delay them arbitrarily, mark
  and lose them. A probe reply has hash key 0 and travels on path 0.

## 3. Runs

| run | instance | shows |
|---|---|---|
| `reorder_loss` | 3 slots, 7 packets, 2 losses | buffer consistent, nothing lost or duplicated, in order within the window, through flushes in both directions; packets held back behind a lost one are passed on when a packet `QUEUE_SIZE` or more after them arrives |
| `reorder_channel` | 7 slots, 7 packets, no loss, fair | implements `OrderedChannel`, liveness included |
| `reorder_head` | 2 slots, 3 packets | violation: see Findings |
| `swrr` | 3 paths, half-packet resolution, weights 0, 1, 3, 6, 8, 3 changes, fair | near-greatest choice, bounded debt, no starvation |
| `processor_probe` | 2 paths, 3 + 2 packets, 1 loss, 4 ticks, trains of 2 | trains, replies, in-order delivery; either node sees a FIFO channel |
| `processor_feedback` | 2 paths, 3 + 2 packets, 1 loss, 2 marks per host, refresh every tick | accounting, echo of marks, turns |
| `queue` | 3 probe queues, 5 packets, limit 3 lowered to 1, threshold 2, both values of `drop_front_`, fair | no packet stuck (so the search of `deque` ends and the plain queue gets its turn), priority, turns, conservation, marks |
| `clove` | 2 paths each way, weights 6, 4, 3, 2 (full weight 6, least weight 1 packet, half-packet resolution), fair | marks reported in turn and kept, losses with expired rows spaced, echo justified, weights recover |
| `link` | sizes 1 and 3, delays 1 and 4, period 5, 3 degrees, all modes | order, bounded holding back, register bounded, full link seen, idle link forgotten |
| `conga` | 2 leaves with 2 and 1 up-links, degrees 0 and 1, 2 packets in the network, losses, fair | degrees filed under the right path; the last one gets through |
| `multipath` | 3 flows, two with the same hash, 2 ports, 3 packets under way on each, delays up to 4 gaps | packets of a flow that can overtake each other left more than a gap apart; none with ECMP |
| `hermes` | 2 paths to the peer and 1 from it, 1 flow, 3 delays, 3 ratios, bitmap of 2 | no oscillation, fresh delays, fading marks |

Why the bounds are enough. In `reorder_loss` there are more than twice as many packets as
slots, so the ring wraps and both a flush forwards and, through a late packet, one
backwards happen, followed by further arrivals; `WORD` = 32 keeps the modular comparison
with `MaxSeq < WORD - QUEUE_SIZE` as in the code. In `swrr` three changes allow a
weight to collapse, another to rise and the first to return. In `processor_probe`
three packets of one host are the packet that lets the peer report, and a
train; two of the peer let a second report arrive during the train; four ticks let a train
straddle its expiry (`T_RSSTIME` = 1). Its refresh period is longer than the run,
because the refresh touches nothing the probe reads except `rate`; `processor_feedback`
does the opposite and runs the timers but ends before a probe is due. Probes of
more than two packets, and marks during a probe, are outside these instances.
In `queue` five packets over three keys allow every order of creating, serving and
passing over the queues. In `clove` the weight 6 is cut three times until no mark cuts
it further, `T_VP_EXPIRE` = 0 lets rows expire between any two packets, and the ages are
unbounded; `T_WEIGHT_EXPIRE` above `HOLD_OFF`, as in the code, is what lets marks arrive in
every phase between two cuts. In `link` a slow packet can be followed by fast ones for several
changes of the delay, and all phases of the timer against load and silence occur. `FullSeen`
allows for three eighths of a packet: the last decay halves what the packet being sent was counted
with, bits not yet sent included. In the code (1500 bytes against 4E-5 s of 10 Gb/s) that
is about a hundredth of the period. In `conga` two packets in the network let a report overtake another on a different
port, or be lost while the other arrives; the fairness makes larger instances slow. In
`multipath` a port keeps its packets in order, a flowlet may change its port as soon as the gap
allows, and a packet may be under way for four times the gap (`MaxDelay`), so that packets of a
flow do overtake each other. (The gap is 1E-4 s in the code; the propagation of `part1.tcl` alone is
8E-5 s, and full queues add several times as much.) `hermes` has one row at the receiver, because the turns of several rows
are those of `CaRows`, checked with `clove`; one flow, because flows meet only in the load
that `vp_next` compares, which the timer and the flow itself vary.

Deadlock is checked in `swrr`, `clove`, `link`, `conga`, `multipath` and `hermes`, where
something can always happen. The other runs are bounded in the number of packets and end.

Fairness. `CLBReorder!FairSpec`: a packet that is not lost arrives (links have finite
delay). `CLBSwrr!RrFairSpec`: the node keeps sending. `CLBQueue!FairSpec`: the loop
of `deque` keeps running and the link finishes its packet; arrivals are not fair.
That `q_` gets its turn behind the probe queues follows from the end of the probes
(`MaxPkts`): with probes forever it would not. `Clove!FairSpec`: time goes on and the host
keeps sending; nothing is assumed about what it receives, so `Recovers` holds even if every
packet is marked. `Conga!FairSpec`: packets arrive unless they are lost (weak fairness); a
report that may be picked, and a packet with it that may arrive, again and again, is picked
and arrives some time (strong fairness), since `rand()` picks any entry and the network
does not lose every packet.

Every property of a passing run has a mutant in `PROJECT.json`: a definition next to
the one it replaces, commented `Mutant`, that a plausible slip in the code would
give, and that breaks the property.

### Findings

* `reorder_head`: the test for a full buffer, `seq - reorder_value > QUEUE_SIZE`,
  lets packet `reorder_value + QUEUE_SIZE` in. It takes the slot of `reorder_value`,
  is taken for it and released first. `>=` would be exact.

  With `QUEUE_SIZE` = 100000 this needs 100000 packets between two hosts while one is missing.

A remark on the same test: the difference is unsigned, so a packet older than `reorder_value`
counts as far ahead, flushes the buffer and moves `reorder_value` back. Nothing is
lost or duplicated by this (`Conserved`), but the order is lost; `InOrder` says so by its condition.

Two remarks on what the properties leave open, because the code does. A stall behind a lost packet ends
with the arrival of a packet `QUEUE_SIZE` ahead (`StallEnds`); if none is sent it does not end, since
there is no timeout. And `LinkDelay::handle` takes the first packet of `itq_` for the event that fired and
asserts `p->time_ == e->time_` (`link/delay.cc:191`): this holds as long as `delay_` is not changed
(`InOrder`), but if a script lowered `delay_` on a dynamic link (`$ns delay`, `tcl/lib/ns-lib.tcl:1668`) a
later packet's event would fire first, the assertion would be false, and with `NDEBUG`, as in the Makefile,
the wrong packet would be sent on. No script of the experiments does so.

## 4. Proofs

Every theorem holds for all values of the constants that satisfy the named assumptions of the
module, so also for the sizes of the experiments (such as 100000 slots). The bounds
of the runs (`MaxSeq`, `MaxPkts`, `MaxTransit`, ...) are any natural numbers there. An
invariant is seldom inductive as it stands; for each proof this section names the strengthening
and says what it is needed for. Sums and loops over the paths or over the slots are recursive
functions; what they compute is proved by least counterexample (`LeastNatural`), after a lemma
that the function exists (`TotalFacts`, `CourseExists`).

`PacketQueueProofs` has no theorem of its own but the lemmas about the buffer on which the next
module and `CLBProcessorProofs` rest: `UnsignedCompare` (what the modular test for a full buffer
means), `EnqueueLoads` (after the enqueue, flush or not, the buffer is in the window except
perhaps for the head slot), `RunLengthIsRun` (the dequeue loop ends), `DequeueSettles` (it
restores the window), and, put together, `ReorderSettles` and `ReorderInWindow`.

`CLBReorderProofs` (every `QUEUE_SIZE`, `WORD`, `MaxSeq`, `MaxLoss` with a non-empty buffer,
`WORD > 2 * QUEUE_SIZE` and fewer packets than `WORD - QUEUE_SIZE`):

* `TypeCorrect`, `WindowHolds`, `NeverConflict` follow from the inductive invariant `Safe`:
  types, `Window`, `NoConflict`, and that a packet in flight is not in the buffer. The
  last part is needed because an arrival finds its slot free only if no earlier
  copy sits there.
* `InOrderHolds` and `HeldOnlyForMissing` (which no run checks, because it follows from `Window`,
  `Conserved` and `InOrder`) follow from a second invariant `Ordered`,
  which adds that while arrivals stay in the window every packet from `reorder_value` on
  is in flight, lost or buffered.
* `ConservedTheorem`: `Conserved` adds up cardinalities; the inductive invariant `Once` says
  instead that the four places partition the packets and that `delivered` has no repetition.
  `FlushedAll` shows that the flush passes on exactly the buffered packets, each once, whichever
  way `reorder_value` moves; `Counted` turns the partition into the sum.
* `StallEndsTheorem`: by `Window` a packet in the buffer is after `reorder_value`, so that a packet
  `QUEUE_SIZE` or more ahead of it is beyond the buffer and flushes it; `EnqueueConserves` says
  that the flush passes on all of it.
* `ChannelInWindow`: every step of the reordering node, until an arrival falls outside the
  window, is a step of `OrderedChannel` or a stutter. It needs `Ahead` (no packet in flight is
  behind `reorder_value`). `ChannelImplemented` concludes `Spec => Channel!Spec` when no
  more packets are sent than there are slots. Beyond that it is false, by the finding above.

`CLBQueueProofs` (every number of keys, limit, threshold and run length):

* `NeverAtBeginHolds` and `NoneOverlookedHolds` follow from `SearchInv`: iterators point
  into the map; a search starts at `end()` or behind some key (`Begun`, stable under
  insertions, unlike "not at begin"); and while `deque` runs the queues from `tmpIt` to
  `bqIt` in cyclic order are empty (`Searched`).
* `TypeCorrect`, which `NoneOverlookedHolds` needs to tell probe packets from others.
* `FairTurnsHolds` from `TurnsInv`: if queue j was served while k waits, then the walk
  from `bqIt` to k does not meet j (`Meets`, in the map's cyclic order), so that j has no second
  turn before k.
* `SignalledHolds` from `Marks`, per queue: taking from the front, from the back or shrinking
  never moves an unmarked packet further back.
* `AccountedHolds` from `AccountInv`: the queues, the dropped and the sent packets are
  disjoint and no queue holds a packet twice. Each action changes one queue, and
  `OneQueueChanges` carries the sum over.

`CLBProcessorProofs` (every number of paths, probe length, period, number of packets, marks,
losses and ticks; assumption `ProbeRateAssumption`, `T_RSSTIME <= TICKS_PER_SEC`, which says that
a completed train measures more than one packet per second; in the code `T_RSSTIME` is 8 ms):

* The member functions are functions on a processor. `IsProc` is what each keeps; the
  lemmas about `send`, `recv` and `expire` say what they do to the fields, and `SendEffect`,
  `RecvEffect`, `LoseEffect` and `ExpireEffect` what that means for the network.
* `NetAlways` (`NetOK`): processors are well formed and each packet under way fits its sender: its
  number has been assigned, its report is not ahead of the row it was made from, and a packet
  numbered 0 is a probe reply with a rate above 1. `RepliesCaughtTheorem` and
  `RowsTakeTurnsTheorem` follow; the latter uses that rows, turns and rows with packets coincide.
* `ProbeTrainTheorem` from `Trains`: besides consecutive packets under way, the last packet sent
  must agree with the sender's `burst_cnt` and `burst_vp` (`Expects`), since those decide
  the next packet; reports and marks that arrive meanwhile leave them alone (`ProbeKept`).
* `AccountingTheorem` from `Accounts`, with the packets under way on each path counted (`Hits`);
  `EchoOnceTheorem` from `Echoes`. One `send` and one `recv` change one row, so that
  `TotalUpdate` gives the new totals.
* `ProcessorDelivers` (`DeliveredInOrder`) composes the numbering, the paths and the buffer, from
  `Deliveries`, for each direction: the packets passed on are those below `reorder_value`, in
  order; no sequence number is under way twice (`Unique`; the probe replies, numbered 0, are exempt
  and never get to the buffer, by `NetOK`); and no number under way was passed on or is in the buffer.
  The last part is what makes `reorder` harmless: a number met twice would be taken for one far
  ahead, and flush. As in `CLBReorder`, a host sends fewer than `WORD - QUEUE_SIZE` packets. The
  theorem has a hypothesis on the run, `[]WithinWindow`: a peer is less than `QUEUE_SIZE` packets
  ahead of `reorder_value`. It cannot be dropped, because of the finding
  above; `ShortRunDelivers` does without it when no host sends more packets than there are
  slots.
* `ProcessorChannels` (`Channels`): the same invariant shows each step to be, for either node, a
  step of `OrderedChannel` or a stutter; `ProcessorImplementsChannels` concludes
  `Spec => \A h \in Hosts : Channel(h)!Spec`. The refinement mapping takes `sent` to the peer's
  `sequence`, so that reports, marks, probes, refreshes, losses and the whole of the other
  direction are stutters.
* The round robin, on the specification `RrSpec` of `CLBSwrr`, for any set of weights:
  `LoopIsChosenTheorem` (after i rounds the loop holds the last leader among the first i paths and
  the greatest truncated value met), `NearlyGreatestTheorem` and `DebtBoundedTheorem` (the
  values add up to 0, so that some raised value is not negative, so that the chosen one is above
  `-SCALE`). The first two hold for all values and weights.

`CloveProofs` (every number of paths, weight and time limit):

* `EchoJustifiedTheorem` from `SenderInv`: a path below its full weight had a mark no longer ago
  than `r_time`.
* `ReportedInTurnTheorem` from `ReceiverInv`: no key is twice in the queue, only rows with a mark
  wait, and waits are bounded by the place in the queue; `ca_next` frees rows at the head
  and rotates the rest. `MarksKeptTheorem`, `LossesSpacedTheorem` are action
  properties from the same invariant; the second needs that a row is never older than the
  last loss on its path.

`HermesProofs` (every number of paths, flows, thresholds and limits):

* `NoReturnTheorem`: the paths a flow left since the last report are slower than its present one
  (`LeftSlower`).
* `RttFreshTheorem`, `MarksFadeTheorem`: what is reported is as good as the row it is made of.
  `RowsOK` relates the ages in a row to the time since the last packet as long as they are below
  the limits, and says that the newest bits of the bitmap are 0, one for each fading report.

`CongaProofs` (every network of leaves and ports, any number of packets):

* `ProvenanceTheorem`: inductive with `EntriesOK` (the receiver's table has entries of real paths
  only) and `LastOK`. Degrees are only ever added to a path's history, so that a report cannot
  become wrong on its way.

and the links between them (all sets of sizes and delays, every period and number of degrees), from
one inductive invariant `LinkInv`, `LinkCorrect`:

* `LinkInOrder`: the times left of the packets in transit are sorted and at most
  `latest_time_` (with `avoidReordering_`) or the rest of the packet being sent plus `delay_`.
* `LinkNotHeldBack`: `latest_time_` is at most one delay behind the packet being sent, so the
  waits do not add up.
* `LinkRegisterBounded`: the register plus the time to the next decay, less the bits counted and
  still to be sent, stays below two periods. The property alone is not inductive: just after
  a decay the register may not be as large as just before one.
* `LinkIdleForgotten`: the idle time is compared with the phase of the timer, which tells
  whether one or two decays have happened in it.
* `LinkFullSeen` from `LoadInv`: the least register that a load without a pause can have left, as
  a function of its length, the phase of the timer and the bits counted but not yet sent
  (`Shows`), before the first decay, between the first and the second, and from then on. Each
  decay rounds down and halves what was counted ahead, which is where the tolerance of the
  property comes from; the bounds are chosen so that a further decay restores them.

`MultiPathProofs` (every set of flows and ports, all hashes, any gap, any number of packets under
way for any time):

* `OvertakenByGapTheorem`: a new packet has to be compared with all packets of its flow under
  way, but the forwarder has only the record of the last one. `FlowInv` relates each packet under
  way to the record of its flow: the record is at most as old as the packet, and the packet is on the
  record's port or more than a gap old. A flowlet is ended only by a record older than the gap,
  hence when all its packets are older. `Apart`, the spacing of the packets on different
  ports, is then kept by all actions, since all ages grow together. `OnePortIfFast` is
  the special case of a network in which no packet is under way for longer than the gap: there
  a flow is never reordered.

Only model-checked:

* liveness (the fairness part of `ImplementsChannel`, `NoStarvation`, `NothingStuck`, `Recovers`,
  `Settles`), which is out of the prover's reach together with ENABLED.

The other half of each refinement, safety, is proved. Every invariant and every action property of a
passing run is a theorem.

## 5. Not modelled, and why

The tunnel, the flow classifier and the CONGA agent under `apps/` are an earlier generation
of the scheme. They are switched off: every node has `CLB_Node_` and `sLeaf_Conga_` 0
(`tcl/lib/ns-default.tcl`, lines 615 and 616), and no script of the repository sets them.
TCP and the rest of ns-2 are vendored: their traffic is arbitrary here. Debug output
changes no state. `clb-processor-burst.cc`, `-ece.cc` and `-origin.cc` are not built.
`vp_next_at_ratio`, `vp_next_at_cost`, `cost`, `vp_burst`, `vp_free` and `ca_free` of
`CLBProcessor`, `find_flowlet` of CLOVE and `ecn_truncate` of Hermes have no callers. Sequence numbers near 2^31 and 2^32 are out of reach of the
experiments and of the models. The time a probe takes to start is not a property here:
it needs unbounded time.

## 6. Plan

Done: all modules of section 2, and proofs of every safety property that the runs check. Left:

1. A composition of `Conga` with `LinkDelay`, so that degrees come from a link that the
   leaf's own choice loads; probe liveness of CLBProcessor with ages instead of clock values.
2. A property for the mark that `recv_ecn` loses between two reports (the one hazard without a
   property): it needs a statement of how many marks a report may hide.

# Verification of dual connectivity, its handover, the E2 reporting and the ray-traced channel

The repository is an O-RAN experiment: ns-3 with the mmWave/EN-DC modules
(`mmwave-LENA-oran`), an E2 agent (`e2sim-kpmv3`), a Sionna ray-tracing channel
and a FlexRIC controller. This directory models its own control logic in TLA+,
checks it with TLC and proves its safety properties with TLAPS.

## 1. Inventory of the system

| Part | Source | State | Operations | Modelled |
|---|---|---|---|---|
| A. Coordinator: `LteEnbRrc` of the LTE cell | `lte/model/lte-enb-rrc.cc` | per UE: serving cell, "set-up completed" flag, leg in use, scheduled handover event, SINR table; its `UeManager` and PDCP entities | decide (threshold or time to trigger), start a handover, switch to and from LTE, complete a handover, read the control file | yes, connection set-up and handover; not the inter-RAT handover |
| B. mmWave cells: `LteEnbRrc` and `UeManager` | same file | `m_ueMap` of contexts with a state machine, RNTI counter, IMSI map, timers | allocate an RNTI, admit or reject, set up bearers and RLCs; prepare, forward, command, release, time out | yes |
| C. X2 | `lte/model/epc-x2.cc` | links, map of forwarded tunnels | send and receive the handover messages | the messages of a secondary handover and of the first RLC set-up |
| D. UE: two `LteUeRrc` | `lte/model/lte-ue-rrc.cc` | state, cell, RNTI, leg of the PDCP | handover command, random access, connection switch | yes; not cell search, measurements and radio link failure |
| N. UE NAS and the eNB's EPC application | `epc-ue-nas.cc`, `epc-enb-application.cc` | active or not, mmWave cell of the last command | connect, retry, connect to mmWave, report the secondary cell; initial context set-up | yes, not the user plane |
| E. PDCP of the split bearer | `mc-enb-pdcp.cc`, `mc-ue-pdcp.cc` | cell and leg | switch | the leg and the cell, not the PDUs |
| F. RIC Control and the control file | `mmwave-enb-net-device.cc`, `lte-enb-net-device.cc` | set of controlled UEs, events | take a UE over, hand it over | yes |
| G. KPM reporting of a cell | `mmwave-enb-net-device.cc`, `lte-enb-net-device.cc` | subscription, PRB window, flags, events | subscribe, check, report, stop | yes, of a mmWave and of an LTE cell; not the content of the reports |
| H. E2 agent | `e2sim/src/base`, `messagerouting`, `SCTP` | socket, callbacks | receive loop, deletion, closing | the loop after E2 Setup |
| I. Sionna channel bridge | `contrib/sionna/model`, its server in Python | ns-3: cache of propagation results, positions; server: node table, clock, mode | open and close a session, look up a link, trace external nodes; serve a request | session, cache, requests, mobility and time; not the ray tracing and the numbers it yields |
| O. Sionna RT GUI bridge | relay in the server, ZMQ client, GUI | sockets, call under way; command queue, scene | send positions, time out, connect again, publish; receive, apply | yes, not the picture and not the other commands of the GUI |
| J. RLC acknowledged mode | `lte-rlc-am.cc` | windows, buffers, timers | ARQ | no, planned |
| K. GUI and data pusher | Python | | | no: display and copying of files |
| L. MAC, HARQ, schedulers, PHY | `mmwave/model` | numeric | | no: only "random access succeeds or not" is seen above it |
| M. ASN.1 codecs, scenarios, energy model, the rest of ns-3, FlexRIC and `oran-interface` | | | | no: generated, example or external code |

**How they interact.** To connect, D does random access at A, exchanges a
connection request and set-up on SRB0, and A registers the UE with the EPC (N),
which asks for its bearers; A picks the best mmWave cell and commands D to
connect; N starts D's second RRC, which connects to B in the same way, and
reports the cell and its RNTI; A asks B over X2 for an RLC per bearer, and a
reconfiguration of D splits the bearers. From there on A tells B to start a
handover over X2 (`McHandoverRequest`); source and target cell of B talk over X2 (request, acknowledgement or failure,
context release); the source commands D over the air; D does random access at
the target and confirms; the target tells A (`SecondaryCellHandoverCompleted`),
and A releases the source. A also switches the bearers between the legs, with a
message to D and one to the serving cell. F acts on A and B out of turn: the
control file on A, a RIC Control request on the source cell, on the E2 thread.
G and H share the fields of the net device between the E2 thread and the
simulator thread, without a lock. I runs under the propagation models of L: a
look-up that misses sends a request to the server and waits for the answer,
without a time limit; the answer holds results for many links, each with its own
validity, and new positions of the nodes that the server moves. Before it
answers, the server relays the positions to O, if it is told to, and waits for
each up to a second.

**What is hard.** Messages of one handover travel on different links and race
with switches, commands and timers; a handover may be rejected, may time out or
its random access may fail; a lost set-up is retried while timers of the
earlier attempt run; the decision to hand over and the event that carries
it out lie apart; two threads share unlocked fields. In I, ns-3 and the server each
have a clock and a copy of the positions, look-ahead results are for the future,
results outlive the positions they were computed for, and a simulation may end
without a word while the server lives on. In O, late answers of an earlier
call, a GUI that comes and goes, and two threads that share a queue. Each such place is listed
with its line under `hazards` in `PROJECT.json`.

**What makes each part correct.** A: it knows where the UE is whenever it
believes no handover is under way; one handover at a time; each one ends. B: one
context can hand the UE over; the target waits where the UE is sent; contexts
that are left go away with their tunnels; a connected context is one the UE
uses. Connection set-up (A, B, D, N): that of LTE ends, whatever is lost; A is told the
cell and RNTI the UE has; no bearer is sent to a cell without its RLC; the state
it ends in is the one the handover starts from. D/E: both ends of a bearer use one leg
and the serving cell. F: it does not break any of that. G: one chain of
reports, none after a stop, a window that fills again. I: each look-up gets an entry
of its link that is valid now; the server's time never goes back; the positions of
both sides are on the node's own track and agree; the server knows which nodes
are active. O: an OK answers the call under way; a frame shows the newest position known;
the simulation does not wait for the GUI for ever.

## 2. Modules

| Module | Models |
|---|---|
| `X2Network` | B's and A's messages, and the X2 links as FIFO queues between pairs of nodes (C) |
| `SecondaryCell` | abstract specification of A: serving cell, target, busy, leg |
| `SecondaryHandover` | A–F for one UE, several mmWave cells, any number of bearers |
| `MCSecondaryHandover` | its instances |
| `SecondaryHandover_proof` | what sending and taking a message does to the links of `X2Network`; theorems: types, the token, events, refinement |
| `HandoverStages_proof` | theorems: which context belongs to which stage of a handover |
| `HandoverHome_proof` | theorems: who knows where the UE is, bearers, order of messages, no assertion |
| `InitialAccess`, `MCInitialAccess` | A–E and N for one UE, until its dual connection is set up; instances |
| `InitialAccess_proof` | theorems: attachment, report, bearers, types |
| `AccessOutcome_proof` | theorems: no assertion fails, the set-up ends complete |
| `E2Reporting`, `MCE2Reporting` | G and H, instances |
| `E2Reporting_proof` | theorems |
| `SionnaChannel`, `MCSionnaChannel` | I: ns-3's cache and mobility, the server, the session between them; instance |
| `SionnaChannel_proof` | theorems |
| `GuiRelay`, `MCGuiRelay` | O: the relay, the sockets, the GUI's two threads; instance |
| `GuiRelay_proof` | theorems |

The modules meet where the code does: `InitialAccess` ends in a state of
`SecondaryHandover!Init`; `SecondaryHandover` implements `SecondaryCell`; both use
`X2Network`. RIC Control and reporting share only the agent's thread, so
`SecondaryHandover` sees RIC Control as a step of its own. `GuiRelay` begins
where `SionnaChannel!ServeRequest` has its response ready: seen from ns-3 all
that it can do is to delay the answer, and `RelayEnds` says that it does not withhold it.

### SecondaryHandover

State, by program: `last`, `setup`, `usingLte`, `hoEvent`, `e2Controlled`,
`mmCell`, `mmRnti`, `pdcp` are the coordinator's maps at the UE's entry
(`m_lastMmWaveCell`, `m_mmWaveCellSetupCompleted`, `m_imsiUsingLte`,
`m_imsiHandoverEventsMap`, `m_e2ControlledUes`, then fields of its `UeManager`);
`ueMan`, `lastRnti`, `rntiOf`, `teidFwd`, `timers` are the mmWave cells'; `ue`
and `uePdcp` the UE's; `x2`, `rrcDown`, `rrcUp`, `switchDown` messages on their
way. `asked` is a history variable: the target of the last request.
`fault` names the `NS_ASSERT` or `NS_FATAL_ERROR` that ended the simulation.
Assertions are taken as compiled in, as in the default build profile.

One action per handler: the coordinator's periodic decision (`SwitchToLte`,
`SwitchBackToMmWave`, `ThresholdHandover`, `TttBasedHandover`), the scheduled
`PerformHandover`, the external `ReadControlFile`, `ControlMessageReceived` (with
the event `PerformE2RCHO`), one `Recv...` per X2 message, the timeouts, and the
UE's steps. A handler that calls another runs it in the same step, as the code
does: everything but RIC Control runs in one simulator thread.

What is abstracted, and why it does not hide what the properties are about:

* SINR tables: each decision sees any table over four values, below the outage
  threshold, within the hysteresis, and two good ones further apart than
  `HoSinrDifference`. Radio conditions are an input.
* Time: a scheduled event happens at any later moment, so the time to trigger is
  "any delay" (`ComputeTtt` is not modelled). With `RadioMayFail = FALSE` no
  timer expires: they last 45 s, the exchange they guard milliseconds. With TRUE
  one expires at any moment, a leaving timer after the joining timer of the same
  handover, which has the same duration and starts first; and a removal scheduled by the joining timeout may come
  before the message that the same timeout sent.
* One UE. Contexts of other UEs share only the RNTI counter with it.
* PDUs: only where bearers are sent (`pdcp`, `teidFwd`, the RLC set of a context).

### InitialAccess

`ue` holds one `LteUeRrc` per leg (state, cell, RNTI, `m_connectionPending`,
`m_hasReceivedSib2`), `nas` and `retry` the NAS, `ueLeg` the leg of each bearer
at the UE; `ctx`, `lastRnti`, `rntiOf` are the maps of every cell, with one
`UeManager` per RNTI (its state, pending reconfiguration and command, bearers,
split bearers, remote RLCs); `associated`, `setup`, `usingLte`, `last`, `best`,
`sinr`, `pdcp` the coordinator's entries of the UE. `rar`, `srb0`, `srb1`, `up`,
`x2`, `s1` are messages on their way. One action per handler or timer, as above;
`SwitchToState (CONNECTED_NORMALLY)` is the operator `ConnectedNormally` in each
handler that calls it, and `SetupRemoteRlcs` is shared by the two callers of
`RecvRrcSecondaryCellInitialAccessSuccessful`. The module uses the X2 links of
`X2Network` and ends where `SecondaryHandover` begins: `SetupIsComplete` states
that its final state is one of `SecondaryHandover!Init`. What is abstracted:

* Random access responses and messages on SRB0 may be lost, up to `MaxLosses`, on
  the legs of `Lossy`. SRB1 (acknowledged RLC), X2 and S1 lose nothing. On SRB0
  messages to the UE may arrive in any order.
* The timers. T300 is 100 ms, those of the cell 15, 30 and 150 ms, all much longer
  than a message's way, so each expires only when what it waits for is lost; the
  cell's set-up timer is longer than T300, T300 longer than the EPC's answer.
* The MAC of mmWave repeats a preamble without end and never reports a failure.
* SINR values 10, -4 and -10 dB stand for: good, below the return threshold with its 2 dB
  hysteresis, and below the outage threshold of -5 dB. They change at most `MaxFades` times.
* The coordinator's decisions are modelled until `setup`: from then on they are
  `SecondaryHandover`'s. A `RrcConnectionSwitch` without bearers is omitted, since the
  UE ignores it. `m_allowHandoverTo` is
  always true, since nothing calls the function that would clear it.

### E2Reporting

`device` says which of the two net devices the cell has; `inbox`, `agent`, `open` are
`E2Sim::run_loop` and its socket; `subMap`, `params`, `valid`, `stopped`, `history` are
the fields both threads use; `sampling`, `enabled`, `checks`, `reports` the simulator
thread and its events. A callback of the E2 thread is cut where it changes a
field the other thread reads; `CheckReportingFlag` is cut between its reading
of the condition and the sampling (`DecideToReport`), since it walks over all
UEs in between. The callback of the LTE cell (`RecvLteSubscription`) is one step: it builds
and sends the first report itself, on the E2 thread, and no other thread
writes or reads the flag it tests. It has no condition and takes no samples. The calculators it
reads for the report are used by the simulator thread at the same time; their
content is not modelled. `NrGnbNetDevice` only sets its flag and sends nothing.

The race on the vector `m_prbHistory` is undefined behaviour: clearing while a
sample is being taken may take effect, be lost, or corrupt the vector (`exit =
"undefined"`); so is an index outside `MATH_CALL_BACKS`, which may crash or give
either answer. Torn reads of the four numbers of
`m_lastSubscriptionParams` are not modelled. At least one of the CU-UP, CU-CP
and DU reports is taken to be on, as by default, so a report does send.
`ProcessRicSubscriptionRequest` and the subscription map belong to
`contrib/oran-interface`, which is not in the repository; they are modelled from
their use: the map is replaced as a whole and the identifiers are returned.

### SionnaChannel

ns-3: `sim` is where `SionnaHelper` and the look-up are (ns-3 blocks in
`zmq::recv` between a request and its answer); `place` the positions of the
`SionnaMobilityModel`s, `active` the flag of external nodes, `cache`, `misses`,
`lastActive` the members of `SionnaPropagationCache`, `lookup` the last
look-up, with what it returned. The server: `mode`, `simTime`, `nodeInfo` are
`self.mode`, `self.sim_time`, `self.node_info`, and `server = "failed"` when an assertion
has ended the process. `wire` is the one message between the two: request and
reply sockets allow no other.

Actions: `Start`, `ServeInit`, `RecvInitAck`, `Destroy`, `ServeClose`, `RecvCloseAck` are the
session, `Abort` ns-3 ending in any state without closing it (a crash, or an
interrupt); `Tick` and `TraceSample` are time and the trace of external
nodes; `LookUp` is a look-up of the loss, delay or CSI of a link with the search of
the cache, `ServeRequest` the computation, with `ComputeClassic` for the modes P2P and P2MP and
`ComputeWithLookahead`, `RecvResponse` the insertion of all results and the second
search. What is abstracted:

* A position is one of a few spots on the node's own track. Two nodes at the
  same place are therefore told apart, which the code, comparing coordinates,
  would not do; nodes of the scenarios do not coincide. A walk may end on any spot.
* The coherence time of a link is the smaller one of two that its nodes have,
  with `MAX_COHERENCE_TIME` for a node without velocity, as the code computes it
  from their relative speed; losses, delays and CSI follow from positions and are left out.
* Time is an integer; the validity of a result is an interval, closed at both
  ends, as in the code.
* A simulation asks for one of the pairs of mode and `sub_mode` in `Settings`; for a negative
  number the server takes one of its own. When a transmitter has more links, look-ahead
  computes no instant (`Instants = 0`): the external nodes move, the others stay, the
  response is empty, and the look-up returns `Unreachable` and moves its nodes to the
  origin. What the ray tracer does without receivers is external: it returns, or its
  exception ends the server.
* A walk without constant speed turns look-ahead into `P2MP` for the session
  (`ns3sionna_server.py:185-192`). This is left out: it behaves as that mode does.
* Links beyond the distance that `m_optimize` allows never reach the server and change nothing.

### GuiRelay

The server's side is `_relay_response`: `relay` where it is, `todo` the nodes not sent
yet, `current` the call under way, `connection` the number of its pair of
sockets, `linger` their option, `givenUp` (history) the positions whose call
failed. `wire` and `replies` are what the sockets hold. The GUI: `queue` between its
receiving thread (`RecvPosition`, `RecvKpi`) and its frames (`Poll`), `scene` and `kpi` what it shows.
`CloseGui` and `OpenGui` may come at any moment. A position is the number of the
response it came with, so "newer" is "greater"; the instants of a look-ahead
reach the GUI as successive responses do. Messages of sockets thrown away may
still be read later, or not, and in any order with those of newer sockets;
those of one socket keep theirs.

## 3. Runs

| Run | Instance | Shows |
|---|---|---|
| `auto_ttt` | 2 cells, time to trigger, radio works, fair | no assertion fails; X2-U forwards exactly the contexts being left; every handover completes, every left context is released; the PDCP of its one bearer follows the UE |
| `three_cells` | 3 cells, time to trigger, at most two contexts created per cell | pending events fit the serving cell, RLC entities are carried along, refinement of `SecondaryCell` |
| `disturbed` | 2 cells, threshold mode, control file, failing radio | the coordinator tracks the UE, a handover is one token and one context serves, in spite of late confirmations, timeouts and commands (until an assertion stops the program, which it can: see below) |
| `ric_control` | 3 cells, RIC Control at any moment, two cells reject | one context can hand over, the UE finds its context |
| `reporting` | a mmWave or an LTE cell, up to 2 subscriptions, then deletion or shutdown, window of 3 | one chain of reports, none begins after a stop, the window never overfills and fills again |
| `initial_access` | 2 cells, 2 bearers, no loss, SINR changes twice, fair | no assertion fails, the report names the serving cell, split bearers have their RLC, the set-up ends complete, an outage at the beginning ends |
| `lossy_access` | 2 cells, one rejects, 1 bearer, 3 losses on both legs, fair | connected contexts are in use, no message misses its context, the LTE connection is established |
| `channel` | a constant, an external and a walking node, all modes, look-ahead over two instants or none, any sequence of sessions and aborts, fair | look-ups are answered, with an entry of their link valid now, or none where look-ahead has no instant; the server's time does not go back without look-ahead; nodes keep to their tracks and walkers to the time of the server; the server knows who is active |
| `gui_relay` | 2 nodes, 2 responses, the GUI closed once, any call may time out, fair | an OK answers the call under way; only a failed call can make a frame go back; the relay ends; the scene catches up |
| `stale_event`, `retry_wrong_rrc`, `stale_channel` | | disagreements of the code with its comments and assertions; quoted in `PROJECT.json` under `findings` |

Bounds. `RntiSpace` is 4 where the code has 65535: a cell allocates at most the
RNTIs that a few returns to the same cell need, and wrapping around to a free
number happens. `MaxSwitches = 1` switch command on its way to the UE: commands
are sent by decisions milliseconds apart. `FewHandovers` stops the three-cell
instance after two contexts per cell, enough for a return to every cell and a
chain over all three. The window has 3 samples instead of 10 (its filling,
trimming and refilling need two), PRB values lie below, at and above the
threshold. In `InitialAccess` 4 RNTIs allow for three attempts per cell, 6 for the
retries of three losses with contexts of earlier attempts still there; three
losses are enough to lose each kind of message once, or the same one again on the retry.
`channel` has one node of each mobility, which gives a link of every pair of kinds,
two spots per track, a coherence time of 1 below and one of 4 beyond the end of the
simulation at time 1, so entries expire, overlap and outlive it; two requests per
simulation, so that the second meets the results of the first, and as many
simulations in a row as one likes. A `sub_mode` of 4 gives look-ahead over two instants, and of 1, the default of
`SionnaHelper`, none.
`gui_relay` needs two responses for "newer" and two nodes for a relay that
is interrupted in between; connections are bounded by the calls.

Deadlock is checked in `auto_ttt` and `three_cells`. It is not in the
runs where an assertion, a fatal error or `exit` ends the program, or where
nothing is left to do after the last request, or once the UE is connected, nor in
`channel`, where the server may fail, and `gui_relay`, which stops after its last response.

Fairness. The event queue of the simulator runs every scheduled event and X2
links lose nothing (point-to-point links without an error model), so receiving
is weakly fair per link. The UE's steps are fair only when the radio works; the
coordinator's decisions and external requests are not fair at all. In `InitialAccess`
every message that is not lost arrives, timers expire, system information is
broadcast again and again and the coordinator decides every 1.6 ms, so all but losses,
fades, the cells' timers and the switch to LTE is weakly fair. In
`E2Reporting` a callback that began goes on, and the checks and the reports,
which are both scheduled periodically in simulated time, are strongly fair: the
simulator cannot run one kind of event forever without time passing the other.
In `SionnaChannel` the server answers and ns-3 reads the answer, both blocking
loops; when ns-3 looks up, moves or ends is free. In `GuiRelay` a call
ends by its answer or its time limit and an open GUI receives and polls; that it is
ever opened is not assumed.

## 4. Findings and further observations

Listed as violation runs:

* `stale_event`: a handover from the control file leaves the automatic event in
  place, whose assertion then fails;
* `retry_wrong_rrc`: when the mmWave connection fails, the NAS retries on the LTE
  RRC, which is connected and ignores it;
* `stale_channel`: when a node has moved, the entries in the cache are
  rejected for their positions (`sionna-propagation-cache.cc:263`) and a new result is
  requested, but the search after it (406) looks at the time only and returns the
  first of the rejected entries; the nodes are set back to where they were in it,
  contrary to line 89, and the next look-ups hit it until it expires, after up to 10 s.

Also met while modelling and not given a run of their own:

* after a rejection the coordinator waits for ever (`lte-enb-rrc.cc:1285-1292`);
* reports can start from samples of the previous subscription, though the
  callback clears them "for new subscription" (`mmwave-enb-net-device.cc:231`, 269);
* in threshold mode a UE that found all cells in outage when it connected is
  never told to connect: the branch meant for it (`lte-enb-rrc.cc:4231`) requires a set-up
  that was completed before;
* the failure report of a joining timeout has no receiver: `EpcX2` asserts on its
  unknown procedure code (`epc-x2.cc:592`);
* a switch to LTE while a handover is being prepared overwrites the target, and
  the RLC buffers go to the LTE cell (`lte-enb-rrc.cc:2098`, 901);
* with several bearers only the PDCP of the first one follows the UE
  (`lte-enb-rrc.cc:1922`, 1946); `BearersFollowUe` holds, and is checked, with one;
* a handover that completes on LTE leaves the two ends of a bearer on different
  legs (`lte-enb-rrc.cc:1952`), and so does an outage during the reconfiguration
  that splits the bearers (1605-1625);
* `RecvRlcSetupCompleted` starts a reconfiguration regardless of one under way
  (1469; 646 waits), so with two bearers the set-up counts as done after the first;
* a lost set-up leaves its RNTI in `m_imsiRntiMap`, and an outage decision that
  looks it up before the next attempt fails an assertion (3274);
* a lost `RrcConnectToMmWave` is never sent again (2480);
* a rejection that arrives while the UE is on LTE fails the assertion at
  `lte-enb-rrc.cc:1291`, for the same overwritten `m_targetCellId`;
* after a rejection the list of RLC requests stays empty (`lte-enb-rrc.cc:701-703`),
  and the next handover of that context sets up no RLC;
* a second RIC Control request during a handover ends in the fatal error at
  `lte-enb-rrc.cc:744`, though line 4115 announces a warning for it;
* a RIC Control request to a cell that got the UE by handover is dropped as "not
  associated yet" (`lte-enb-rrc.cc:4120`);
* when a subscription is deleted or the RIC closes the association, a report
  that is still scheduled is sent on a closed descriptor and ends the whole
  simulation by `exit` (`e2sim_sctp.cpp:241`; `e2sim.cpp:217` has a TODO on it);
* any deletion stops all reporting of the cell for good;
* with look-ahead and a walking node the clock of the server runs ahead of ns-3, the
  next request turns it back, the assertion of `update_pos` ends the server and ns-3
  waits for ever: `ServerKeepsTime` and `LookupsEnd` leave that mode out;
* with look-ahead, when the trace turns a node, the intervals of the instants do not
  join, and positions returned are those of an instant to come;
* in P2P mode, only the two nodes of a request move, but the clock goes on for
  all: a third one that walks loses the time (`WalkersKeepPace` is about P2MP);
* an external node's velocity is taken as zero when two requests have the same time,
  so its links are valid for 10 s though it moves;
* with caching off, what is in the cache is still searched after a request;
* `init_simulation_env` keeps nodes of the previous simulation; if that had others and
  ended without closing, they stay in the table, and one that
  is not at the time of the new requests fails the assertion. Run and theorem take the same nodes for all simulations;
* `SetSubMode` calls its parameter "the number of computed look-ahead CSI values"
  (`sionna-helper.h:100`); the server takes it for a number of links and divides it by that of
  the receivers (`ns3sionna_server.py:268`). With the helper's defaults, look-ahead and
  `m_sub_mode = 1` (`sionna-helper.cc:26-27`), and three nodes that is 0: links of a
  transmitter that does not walk cannot be reached, the case `EveryLookupIsAnswered`
  singles out. The repository's scenario sets `MODE_P2MP`;
* a position whose call was given up may reach the GUI late and stay until the next update.

## 5. Proofs

All theorems hold for every value of the constants allowed by the named
assumptions (`CellsAssumption`, `DrbAssumption`, `RntiAssumption`, `HandoverAssumption`, `AccessAssumption`,
`ReportingAssumption`, `ChannelAssumption`, `RelayAssumption`: finite-set and range
conditions that the attributes of the code meet; a
UE has a default bearer, so `Drbs # {}` in `AccessAssumption`) and by the assumptions
each theorem names. TLC evaluates the former in the runs.

### X2Network, SecondaryHandover

The proofs are in layers, each of which uses those before it.

1. `TypeCorrect` (`SecondaryHandover_proof`): `TypeOK`, inductive as it stands because it
   includes that a joining context knows the RNTI of its source.
2. `OneHandoverAtATime`: `HandoverToken`, without RIC Control. A handover is a
   token: coordinator's request, X2 request, joining context, completion. The
   invariant says that the token is in one place and leads where the
   coordinator asked. It is stronger than "one handover at a time", which is
   not inductive: the step that admits a request has to know that no other
   context is waiting, and the completion that nothing else is under way. The
   lemmas follow the token: `TokenRequested`, `TokenPrepared`, `TokenAdmitted`,
   `TokenCompleted`, `TokenReturned` for the steps that move it, `TokenIgnored`
   and `TokenElsewhere` for those that do not. Its first section says what sending
   and taking a message does to the messages of all links.
3. `EventsFit`: `EventFitsServingCell`, without external control, from the
   completion path cancelling events; so the assertion at `lte-enb-rrc.cc:4009` holds
   there, and the run `stale_event` shows that external control is the only cause.
   `Refinement`: `ImplementsSecondaryCell` without external control. A completion maps
   to `Complete` because the token leads to `asked`; the step needs `HandoverToken` and
   `EventFitsServingCell`.
4. `StagesFollow`, `TargetIsReady` (`HandoverStages_proof`): `TargetWaitsForUe` whoever asks for
   handovers, while the radio works. What every action may do to the
   contexts is put once into a list of effects (`CellEffect`, `UeEffect`, `CoordinatorEffect`; `StepEffects`
   says that every step has one), and the invariant `Stages`
   says which context belongs to which stage of a handover: one context serves,
   one may join, each preparation message leads from the one to the other, a
   command on the air names the one that waits. It also covers a
   failing radio without RIC Control, which the next layer needs.
5. `HomeIsKnown`, `CoordinatorKnowsUe`, `ServingContextIsUnique` (`HandoverHome_proof`):
   `CoordinatorTracksUe` without RIC Control, `OneServingContext` without RIC
   Control or without radio failures. `Home` says that the coordinator's
   cell and RNTI are those of the serving context unless the message that will correct it is on its
   way. Where a RIC and a failing radio meet, a RIC may ask a cell that gave
   up waiting, and neither is claimed.
6. `RlcIsCarried`: `ContextsHaveRlc`; `FirstBearerFollows`, `SingleBearerFollows`: `BearersFollowUe` for
   a UE with one bearer. With more, only the first one moves.
7. `MessagesInOrder`: with a working radio, messages of the coordinator find a context that
   expects them. `Order` compares places in a queue: a release comes
   before the next request, and after the switches of the context it releases.
   `LeaversForward`: `ForwardsWhileLeaving`, from it.
8. `NothingAsserts`: `NoAssertionFails` for automatic handovers between cells that admit
   the UE, with a working radio and `RntiSpace >= 4`, which leaves three RNTIs: the old
   context of a cell, one that is being left and a new one. Each
   assumption is needed: with external control, a rejection or a
   failing radio an assertion does fail (section 4).

### InitialAccess

`InitialAccess_proof` and, from the fourth on, `AccessOutcome_proof` are built in layers; only the
fourth has an assumption on losses, rejections or the radio. In `Typed`, a cell or RNTI inside a message may be absent, and
`EveryValueHasItsType` (`TypeOK`) excludes that at the end, from the others.

1. `Attachment`: for each leg, which context its cell holds and what is on its way at
   each stage of the attachment; the mmWave leg, the bearers and X2 start only
   when LTE is connected. `ContextsAreInUse`: `ConnectedContextsAreInUse`.
2. `Reporting`: there is at most one command to connect, and none after the NAS noted its cell.
   `ServingCellIsReported`: `ReportNamesServingCell`. Not inductive by
   itself: a second command would change the cell of the NAS before the
   connection is there.
3. `Bearers`: RLC set-up request, RLC, answer, reconfiguration, PDCP follow one
   another for each bearer, and each message on its way still names the
   cell and RNTI in force. `RlcsAreThere`: `SplitBearersHaveRlc`.
4. `Faults`: no assertion fails. `Attempts` counts: RNTIs are given out in order and a new
   attempt needs a loss, so the last one is bounded by the losses; `Found` says that the
   messages on the way find their context. `AccessMeetsNoAssertion`: `NoAssertionFails`, if the
   LTE cell admits the UE, `RntiSpace` is at least `MaxLosses + 3`, and nothing of
   the LTE leg is lost or no cell is ever in outage. The last assumption is
   needed: a lost LTE set-up leaves its RNTI in `m_imsiRntiMap`
   (`RemoveUe`, `lte-enb-rrc.cc:5308`), and an outage decision before the next attempt (4359) looks up the context
   that is gone, so the assertion of `GetUeManager` (3274) fails; TLC finds
   that with `Lossy = {"lte"}`, one loss and all cells in
   outage. Both passing runs meet the assumptions.
5. `Progress`: the end of the set-up. A reconfiguration that the LTE cell started is under
   way; either no RLC has been asked for or every one has been asked for, set up or told to the UE; after
   `setup` nothing turns the coordinator back to LTE. `SetupsAreComplete`:
   `SetupIsComplete`, without an assumption: what the handover model starts from is what
   the set-up ends in.

Queues are treated as sets of what is in them (`Items`); that a finite set of
bearers can be listed in order (`OrderExists`) is proved by taking a least counterexample
(`WellFoundedInduction`), since induction over sets cannot be instantiated.

### E2Reporting, SionnaChannel, GuiRelay

* `ReportingTypeCorrect`, `OneChain`, `RoomInWindow`, `NoChainAfterStop` for `E2Reporting`. The invariant
  adds that no report is scheduled before the flag is set, that the map has a
  condition while a subscription is being stored, and that a check only samples
  when the parameters are valid.
* `ServerKeepsTimeAlways`: `ServerKeepsTime`, if all simulations have the same nodes.
  The invariant `KeepsTimeInv` has three parts: `Conversation` (which message may be
  under way in which state of ns-3, and whose time a request carries), `SameNodes` (the server's table
  is empty or holds the nodes of the simulation) and `NoneAhead` (no node is ahead of ns-3,
  nor of the request under way). An aborted simulation leaves nodes with old times behind;
  they do no harm since the next `init` sets every one of them back, which is where
  the assumption is needed. `WalkersKeepTheirPace`: `WalkersKeepPace` under the same assumption.
* `ActivityIsForwardedAlways`: `ActivityIsForwarded`, in every mode, with and without
  the cache. A change of the flag empties what is searched, so a miss follows, and
  the request brings the flags; the invariant ties `lastActive` to the server's table
  between requests.
* `LookupsAreAnswered`, `TracksAreKept`, `TypesAreKept`: `EveryLookupIsAnswered`,
  `NodesKeepToTheirTracks`, `TypeOK`, for any `sub_mode`. A response has a result of the link asked for
  that is valid now, or none, when look-ahead has no instant, which `NoInstant` says of
  the server while the response is under way and as long as the look-up lasts; this goes through the loops of the server over transmitters and
  instants, which are recursive functions whose properties are again proved for a
  least counterexample.
* `OkAlwaysAnswersTheCall`: `OkAnswersTheCall`. The invariant says that of the
  sockets in use nothing but the message of the call under way is on its way.
  `TypesAreKept`: `TypeOK`. `GoesBackOnlyThen`: `GoesBackOnlyAfterFailure`, from an order on everything that is on its way
  to a frame (`WireInv`, `QueueInv`): what arrives after something newer was given up.

Every invariant and action property of the passing runs is thus a theorem, in the modes of those
runs. Only model-checked is liveness, which is out of the prover's reach
(`HandoversComplete`, `LeavingContextIsReleased`, `WindowFills`, `OutageEnds`, `LteConnects`,
`LookupsEnd`, `RelayEnds`, `SceneCatchesUp`). Neither checked nor proved:
`CoordinatorTracksUe`, `ContextsHaveRlc` and `BearersFollowUe` under RIC Control.

## 6. Not modelled

MAC and PHY (numeric, large state, seen above only as success or failure of
random access), the ray tracing itself, ASN.1 (generated), visualisation and the data pusher, scenarios, the
energy model, vendored ns-3. RLC acknowledged mode is left for later. Of parts
that are modelled: the inter-RAT handover, cell search, measurements and radio link
failure of A and D; several UEs; PDUs; the content of reports; the commands
of the GUI that do not come from the relay. Nearly all of the repository's lines
are generated codecs (several copies), ns-3 modules that do not take part, and
examples: the models are about the control logic this repository adds.

## 7. Plan

Done, in order: `X2Network`, `SecondaryCell`, `SecondaryHandover`,
`E2Reporting` for both devices, `InitialAccess`, `SionnaChannel` and `GuiRelay`, each with its
runs; the proofs of section 5.

1. Proofs of the parts of `SecondaryHandover` where RIC Control and a working radio meet
   (`CoordinatorTracksUe`, `ContextsHaveRlc`).
2. Safety parts of the liveness properties: that a fair step is possible whenever
   something is under way.
3. Numeric helpers as operators against reference definitions: `ComputeTtt`
   (`lte-enb-rrc.cc:3974`), the PRB average.
4. RLC AM window as a protocol with loss and reordering, refining a FIFO channel.

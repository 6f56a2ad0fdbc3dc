# A TLA+ verification of pp-cpp-amp

pp-cpp-amp is a peer-to-peer transport stack in C++: reliable and best-effort
datagram associations over UDP (L1, "ADP"), an authenticated key agreement and
session keys (L2, "MSH"), multiplexed channels (L3), and a link layer that dials,
accepts, elects and drops links between peers and can nest a link inside a channel
of another one (a "carrier" through a relay). This directory holds TLA+ modules
that model it, the TLC runs that check them on small instances, and TLAPS proofs
about them. All paths below are relative to the repository.

## 1. Inventory

Everything runs under one lock, `io_mu_` (`MeshRuntime::Drive` pumps datagrams, fires
timers, ticks), one turn at a time; other threads post work or wait for the lock. So a
handler is atomic, and what is concurrent are the two ends of a link, the network between
them, timers, the threads between two turns, and the order of callbacks.

| Component | State | Operations | Talks to |
|---|---|---|---|
| `L1/ReplayWindow` | last contiguous number, numbers beyond it | `Classify`, `Accept` | used by Connection and by PeerLink for carrier packets |
| `L1/Connection` | `tx_seq_rel_`, `outstanding_`, `rx_rel_`, `rx_rel_hold_`, `rx_rel_next_deliver_`, keys (`binder_`, `pre_upgrade_key_`, `protection_`), path, keepalive cadence, round-trip estimate, `closed_` | `Send`, `Tick`, `HandleDatagram`, `UpgradeBinder`, `SetProtection`, `Close`, `Abandon`, `SendKeepalive` | datagrams to its peer; `on_message_` up |
| `L1/Endpoint` | table of connections, accept settings | `Open`, `Pump`, `Tick`, `HandleDatagram`, version negotiation | the socket; Connection |
| `L2/Session` | epoch, send and receive key, previous receive key and its grace time | `SealPacket`, `OpenPacket`, `ApplyRekey` | called by Connection and PeerLink |
| `link/MshAdpHandshake` | role, transcript, what was answered | `Start`, `HandleMsh`, `MaybeComplete`, `Fail` | messages over a Connection or a carrier |
| `L3/ChannelMux` | channel table, send queues, pending handlers and data | `OpenOutbound`, `SendData`, `CloseChannel`, `ResetChannel`, `OnFrameInbound`, `Tick` | frames to the peer's mux through the link; handlers up |
| `L3/MessageReassembly`, `ChannelSession`, `ChannelBridge` | partial messages; request state; two spliced channels | `Push`, `SweepExpired`; send and receive; splice | the mux |
| `link/PeerLink` | phase, handshake, session, mux, `rekey_cb_`, lane and its backlog | establish, fail, rekey, carrier packets | Connection or carrier below, manager above |
| `link/CarrierLane` | `outstanding_`, `rx_cumulative_`, `rx_hold_` | `Wrap`, `OnAck`, `DueResends`, `OnData` | the carrier channel, PeerLink |
| `link/PeerLinkManager`, `LinkTable`, `DualDialElector`, `DialBook` | links, dial keys, presence, dials and their waiters, deferred drops | ensure, dial, accept, elect, evict, drop, tick | PeerLinks, Endpoint, user callbacks |
| `link/MeshRuntime`, `MeshPump`, `AmpStack` | driver claim, posted work, timers | `Start`, `Stop`, `Drive`, `Post`, timers | everything |

What is hard here, and what makes each part correct:

* the network loses, repeats and reorders: a stream has to be in order and exactly
  once, an acked packet must never be missing, nothing may stall without being given up;
* keys change under packets in flight, at the handshake's end and at every rekey, and
  resends are sealed anew: every packet has to stay readable by the end that needs it;
* budgets and caps (resends, windows, holds, backlogs, queues) are met while other
  things are under way: what is dropped there must not have been promised;
* two peers act at once (dual dial, both requesting a rekey, both ending a channel);
* deferred work (drops, retries, completions) meets a state that has moved on.

`PROJECT.json` lists the hazards one by one, at the line where each bites, with the
properties that cover them.

## 2. Plan and where it stands

In order of importance; 1 to 8 are done.

1. **AdpReliable** (with **ReplayWindow**, **FifoChannel**, and the proof modules):
   the reliable stream everything else stands on.
2. **AdpUpgrade**: the change from pre-session to session keys.
3. **SessionRekey**: the change of epochs.
4. **CarrierLane**: the reliable lane of nested links.
5. **ChannelMux**: two muxes over the streams of 1 and 4.
6. **LinkTable**, **DialBook**, **DualDialElector** and on them **PeerLinkManager**: one
   node's links, dials, waiters, elections, eviction and drops; **DualDial**: both ends.
7. **MeshRuntime**: the turns, queues and threads of the io lane, and burst dials.
8. **ChannelBridge**: channel sessions and the bridge that splices two of them.
9. Left: channel-open waiters of the link manager (`WhenChannelOpen`) and keepalive
   tiers; path learning, keepalive and best effort of L1; the nested handshake with its
   resends over a carrier.

How they compose: 1 and 4 implement `FifoChannel`, and 5 is built on that abstraction and
not on the detailed streams. `PeerLinkManager` extends `LinkTable` and `DialBook`, which
are operators on parts of one record; `LinkTable` and `DualDial` both extend
`DualDialElector`, so the same election is checked at one node and at two. `MeshRuntime`
sees links only through the peers they connect. The safety of 1 to 5, of `DualDial`, 7 and 8
is proved, and of `PeerLinkManager` every invariant but its `TypeOK` and, beside dials and nested links,
`VerdictsAreDue` (section 5). Theorem wanted
next: its action property `WaitersFollowTheDial`.

## 3. Modules

**FifoChannel** is the abstract specification: a stream is what was sent and the
prefix of it that was handed on.

**ReplayWindow** has `Classify` and `Accept` of `L1/ReplayWindow.cpp` as operators on a
record. The loop of `Accept` that advances over pending numbers is `EndOfRun`: the
largest number reached without a gap.

**AdpReliable** models one direction of a `Connection`. State: the sender's counter
and `outstanding_` (number to resends made), the set of packets given up; the
receiver's window, hold, next number to deliver, and the sequence its handler was
given. Actions: `Send`, `Tick(due)` (resend loop and give-up loop together, for any
set of timers that have run out), `HandleAck`, `OnMessage`, `HandleReliable` (window,
ack, hold, delivery loop), `Close`, `Abandon`, `HandleClose`. The wires are sets that
only grow: a datagram may arrive any number of times, in any order, or never.
Retransmit times (`RetransmitIntervalMs`, `NoteRttSample`) only decide which timers
have run out, and any choice is allowed. Tunables are local to an end, so the
sender's window and the receiver's are different constants. `unheard` is a history
variable: packets taken while there was no `on_message_`, which the code acks and
does not keep.

**AdpUpgrade** models both directions of an association during the handshake, with
the key each datagram goes under: plain packets under the pre-session key, acks under
the binder's key of the moment, sealed data. An end answers handshake messages as they
are delivered (`Answers`), and the peer's Finished completes it (`Completes`,
`FinishEstablishment`: `UpgradeBinder` and `SetProtection` in one call). Chunks of a
message are reliable packets in order and stand as one packet; identity checks and
failures of the key agreement, resend budgets and windows are left out.

**SessionRekey** models both directions of a session: epochs, the grace key,
`rekey_cb_`, and reliable packets that are sealed under the key of the moment when
they leave, again at each resend. `Deliver` is one round of `DeliverReliableInOrder`
with `HandleSessionControl`; nothing else happens at an end while the loop runs
(`Idle`). Callers pass a callback to `RequestSessionRekey`, as the code's do. All messages
go through the mux (`SendWire`): they leave at once, or wait in its queue until
`FlushQueued`, or are refused. Window and queue are shared with the other channels, so
which of the three is a free choice, but that a message does not overtake one of its
channel. `sent` is what the mux accepted and `out` how much of it has left; `lateAck` is a
history variable: the ends whose RekeyAck did not leave before `ApplyRekey`.

**CarrierLane** models one direction of the lane with PeerLink's use of it: `Wrap`,
`OnAck`, `DueResends` (any set of due frames; a frame out of attempts ends the link in
the same `Tick`), `OnData` (hold, release, ack, backlog, flush) and the receiver's
`FinishEstablishment`. Both ends speak the lane. The inner packets of a lane are sealed once, when wrapped;
every released one opens, since a rekey of the nested link is left out.

**ChannelMux** models the muxes at both ends of a link. State: the channel tables
(`channels_`: state, both sequence numbers, partial messages), `next_dynamic_id_`, and
per end the sending side `tx`: `send_queues_`, `send_order_`, `queued_bytes_`, the
reliable frames in flight (a stream as in `FifoChannel`; `Window` places, given back on
arrival) and the best-effort ones (a set: lost or overtaken, never repeated). Actions:
`OpenOutbound` (channel 0 by `SendCapabilityOffer`, which only the dialling end calls),
`SendSmall` and `SendLarge` (the two halves of `SendData`), `ResetChannel`,
`CloseChannel`, `DetachAllChannels`, `Receive` and `ReceiveBestEffort` (`OnFrameInbound`
and the whole of `DispatchFrame`), `Tick` (sweep, idle readers, flush). `SendWire`,
`FlushQueued` and `DropQueued` are operators on a sending side, so that one handler can
send several times. A header and a data frame's payload are one unit each; a large
message is two fragments. Which channels are best-effort is chosen in `Init`. `calls`,
`sent`, `got`, `terminal`, `swept`, `refused`, `closedBy` record what happened, for the
properties.

**DualDialElector** is the rule of `DualDialElector::Elect`: of two links to one peer,
does the new one win? Peer ids are numbers, compared as the code compares strings.

**LinkTable** and **DialBook** are operators on records, one per operation of the two
classes. A `LinkId` is never given twice, so a `LinkHandle` (id and generation) is its id.
The order in which `ForEach` walks the unordered map is not the program's to choose:
every step picks oldest first or newest first (`asc`). An address is a host name or
not; how long a backoff or a resolution lasts is left to the steps.

**PeerLinkManager** is the manager of one node, with the life cycle of its `PeerLink`s.
Every entry point holds `strand_mu_` for its length and is one step; the record `m` is
the manager and every operation an operator from one such record to the next, so that a
handler that calls others (a handshake that ends calls the election, the dial's end, the
capability exchange) is one step as in the code. Actions: the product's calls
(`CallEnsure`, `CallAbort`, `CallRegister`, `CallUnregister`, `CallRequestDrop`,
`CallNest`, `CallVerify`, `CallNetworkChanged`, `CallCloseAll`), what arrives (`Arrives`,
`CarrierArrives`, `CapabilityArrives`, `HandshakeEnds`, `Resolves`), time (`Expires`,
`ProbeEnds`), failures (`ConnectionFails`, `CarrierFails`), and `Tick` with its five
stages in the code's order: drops, candidate retries, alias adoptions, handshakes that
are refused or late, evictions. `inflight` is the keys of `inflight_associations_`, and
answering a key's waiters is taking it out. `class` says which calls a behaviour makes
(`Offers`): dials of one peer under two keys while it dials us ("dial"); one key whose
candidates hold a host name ("names"); nested links beside dials of the same peer ("nested");
accepted links and probes ("probe"). `VerifyLink` is called in all of them but "names". A
candidate that is a host name without a resolver fails as one whose resolution fails.

**DualDial** composes two nodes. A connection has a dialer and two ends, each in a phase
of its own; an end learns of the other's choice only when the connection closes or goes
silent. `beat` records every election as a pair of winner and loser. Dials are joined per
key in the code, and `BurstDial` dials one peer under several, so a node may have
`DialsAtOnce` dials of its peer under way.

**MeshRuntime** is the io lane. `io_mu_` is recursive and held for a whole turn; the model
cuts a turn at the tasks it runs and lets nobody else move in between, but for
`ClaimDriver` and `ReleaseDriver`, which take no lock. `turn` is the phases still to come
(`Drive`, `Pump` and `Tick` differ in them) and what the current phase has moved out of
its queue. A product's task makes at most one call, any of those a thread may make.
`BurstDial` from outside a turn is three steps, since it takes the lock piece by piece;
its poll, its window timer and its settlement are tasks on the three queues. The look at
`settled` in the timer's closure and the exchange in `finish` are one (`Finish`). The timers are
a set: each has the id it was given, and those that are due run in the order of their ids,
which is the order the code keeps them in.

**ChannelBridge** has two channel sessions, the bridge between them, and the channel and
link under each. Handlers run inside the call that causes them, so the operators nest as
the code's calls do: a frame of one side is written to the other, whose failed write
closes it, which calls the bridge's closed handler, which closes both. `gone` records a
call through a pointer to a mux that was no more. The constant `OneMux` says whether both
channels are of one link.

**AdpReliableProofs**, **AdpUpgradeProofs**, **SessionRekeyProofs**, **CarrierLaneProofs**,
**ChannelMuxProofs**, **PeerLinkManagerProofs**, **ChannelBridgeProofs**, **MeshRuntimeProofs**: the
theorems. The inductive invariants they use stand at the end of the modules they are about.
`PeerLinkManagerProofs` extends both modules that rest on the election of `DualDialElector`; the
names of `DualDial` (`BothInit`, `BothNext`, `BothSpec`, `TickEnd`) keep the two apart.

## 4. Runs

| Run | Checks | States | Shows |
|---|---|---|---|
| `reliable` | `InOrderExactlyOnce`, `AckedIsKept`, `SettledMeansDelivered`, `WithinLimits`, `GivesUpOldestFirst`, `ImplementsFifo`, `EventuallySettled` | 65,520 | the stream is correct |
| `upgrade` | `SettledIsTaken`, `BothUpgrade`, `EverythingSettles` | 21,492 | keys change safely under the handshake |
| `rekey` | `OneBehindHasAsked`, `QuietPathKeepsPace`, `LoneRequestCompletes` | 331,497 | a rekey is right on a path without loss, when each ack leaves at once |
| `rekey_loss` | `RekeySurvivesLoss` | violation | finding 1 |
| `lane` | `LetGoIsKept`, `ImplementsFifo`, `ReleasedOrFailed` | 4,002 | the lane is a stream, or the link ends |
| `mux` | `TypeOK`, `DataInOrder`, `NoOutOfOrder`, `TerminalOnce`, `OpensAreAnswered`, `QueueDrains`, `HalfOpenEnds` | 559,715 | channels deliver in order, drain and end |
| `mux_close` | `ClosedStaysClosed` | violation | finding 2 |
| `bridge` | `OneEndsBoth`, `ClosedLetsGo`, `MuxAliveWhenCalled` | 23,876 | spliced sessions end together and let go |
| `links` | `TypeOK`, `NamesAreLive`, `OneSessionPerPeer`, `DialsAreCounted`, `NoWaiterForgotten`, `VerdictsAreDue`, `WaitersFollowTheDial`, `HealthySessionStays` | 1,332,455 | the link manager keeps its tables, sessions and waiters |
| `links_waiters` | `WaiterHasDial` | violation | finding 3 |
| `dual_dial` | `ElectionAgrees`, `SessionSurvivesElection`, `EndsAgree` | 55,697 | crossing dials leave one shared session |
| `runtime` | `BurstsEndOnce`, `EveryBurstAnswered`, `PostedRuns` | 365,140 | work is run once and in the end |

Deadlock is checked in `runtime` only: elsewhere bounded counters run out and closed ends
stay closed. In `reliable`, `upgrade`, `rekey`, `lane` and `bridge` the type invariant is the
first conjunct of a safety invariant.

Bounds. `reliable`: four numbers, a send window of 3, a hold of 2, a replay window of
4 and one resend: enough for a full window, a full hold with and without the next
number, a packet beyond the hold, a give-up in front of live packets, and a late
handler. `upgrade`: the six handshake messages and
one data packet each way, at most two losses, at most two datagrams waiting when a
timer or the user adds one (answers and acks are never held back). `rekey`: one epoch
change with both ends free to ask, one data packet each, one loss; each message may leave
at once, wait or (an ack) be refused. A second epoch
change is outside that run: a packet rejected during the first one is as good as lost,
and finding 1 then applies. `lane`: five frames, a window of three and a single
selective bit, so that some held frames cannot be named in an ack; two attempts; a
backlog that does not fill (see the observations).
`mux`: channel 0 and one channel of either class, two messages and two endings (reset,
close, read timeout, link drop) over both ends, a window of one frame, three units of
queue, room for one accepted channel and one partial message. With these a frame waits
behind another channel's, a send and a control frame are refused, the second fragment
is refused after the first went, a channel is refused at a full table, the partial
cap is hit in both classes, and both ends end a channel at once.
`bridge`: two frames, either session `read_once` or not, sides on links of their own; all
endings are free, and each happens once at most by its nature.
`links`: one peer that dials and is dialed, one relay, an own id on either side of the
peer's; four events, each a call, an arrival or a failure, at most one of them a failure, and
any number of ticks, handshake ends and
resolutions; three links, two dials, one pending inbound link. Four events are what it
takes for a dial to meet an accepted link and a third link, and then a probe, an abort, a drop
or a second key (two dials under one key, an accepted link and a verdict among them); the
links, dials and pending links all reach their caps. `links_waiters`: as `links`,
with four links.
`dual_dial`: three connections, so that a third is dialed after two have crossed, up to two
dials of each node at a time, two links given up.
`runtime`: two threads, one of which claims the runtime; two tasks of the product, one io
tick, one burst with one address and one stop; a budget of two tasks, which the burst's
poll and one task use up. Two bursts with shared keys were checked for `BurstsEndOnce` with
one task, with the inductive invariant (2,122,360 states).

What the properties of `mux` excuse: `DataInOrder` a channel whose partial message
expired (`docs/TUNING.md` says it is dropped); the liveness properties a channel of
which a control frame was refused at the queue cap, and best-effort channels, whose
control frames nothing resends; `NoOutOfOrder` and `HalfOpenEnds` the channel of finding
2. That last excuse is needed: the reopened channel may send again, and the number its
CLOSE used up then leaves a gap that blocks it.

What the properties of `links` excuse: `OneSessionPerPeer` and `HealthySessionStays` are
about behaviours without nested links (see the observations), and the latter about links
whose drop no caller requested; `DialsAreCounted` and `WaitersFollowTheDial` are stated
with `LostDials`, the dials of finding 3. `OneEndsBoth` excuses a session its owner closed
quietly or took its handlers from, and a bridge attached to a session closed before.
`EveryBurstAnswered` and `PostedRuns` excuse what `Stop` and `CancelTimer` drop.
`VerdictsAreDue` excuses the losers an election misses (`Missed`, see the observations), and in
`HealthySessionStays` every link in `pend` counts as requested in the class "dial".
`SessionSurvivesElection` excuses behaviours in which an end gives a link up, and those in which
two parallel dials of one end are told apart differently (`Split`). `QuietPathKeepsPace` and
`LoneRequestCompletes` are about paths without loss and without late acks (`lateAck`), and
`RekeySurvivesLoss` about those without late acks: with one, data stops without any loss
(finding 1). `ClosedLetsGo` excuses handlers of a bridge that was stopped or attached to a
session closed before.

Fairness. `Endpoint::Tick` and `PeerLinkManager::Tick` are called for ever by the io
loop and time passes, so timers are weakly fair: `WF(TickAll)` in `AdpReliable` and
`CarrierLane`, `WF(Resend)` elsewhere. In `AdpReliable` and `CarrierLane` nothing is
assumed of the network, since the budget settles what the network does not. `AdpUpgrade`
and `SessionRekey` leave budgets out and instead bound the losses; a datagram
that is not lost arrives (`WF` of its receipt). In `SessionRekey` a queued message leaves in
the end (`WF(FlushQueued)`), which `EventuallySettled` and `QueueDrains` of the other runs
justify. `ChannelMux` has `WF` of `Tick` with
nothing expired (the flush alone) and of `Receive`: a reliable stream delivers while its
link is up, which the runs of `AdpReliable` and `CarrierLane` show. No timeout and no
best-effort frame is assumed to happen. Nobody is obliged to send or to rekey. In
`DualDial` hellos and handshake messages are resent, both nodes tick, and an end whose peer
has gone is found out by its Close, its timeout or its liveness window: `WF` of these steps
of each connection and of `Tick`; nobody has to dial. In `MeshRuntime` the loop's thread
drives again and again and waits for `io_mu_` if it must, and so does a thread inside
`BurstDial`: such a step is possible only between the turns of others, so it is strongly
fair (`SF` of a `Drive`, of `BurstArms`, of `BurstPolls`): a mutex that lets a waiting
thread starve for ever would break it. A turn goes on (`WF(TurnStep)`) and the clock runs
(`WF(TimePasses)`). `links` and `bridge` check safety only and assume nothing.

### Findings

1. *A loss during rekey wedges the link.* The responder of a rekey changes keys right
   after sending RekeyAck. If that datagram is lost, its resend is sealed under the new
   key, which the requester learns only from the ack. `docs/FAULT_CASES.md` N14 says
   such a loss is survived; the test it cites drops only the requester's datagrams. An ack
   that waits in the mux's queue behind a full window has the same fate without any loss, as
   the queue is sealed at send time (`ChannelMux.cpp:90`), and so has one the full queue
   refuses, since `SendData`'s result is ignored (`PeerLink.cpp:750`); with `MaxLoss` = 0
   TLC shows both against `DataGetsThrough`.
2. *A closed channel opens again.* `HandleOpenAck` sets Open whatever the state was. A
   user that closes a channel before its OPENACK has come gets it back Open when the
   OPENACK arrives, while the peer, given OPEN and CLOSE, has forgotten it. It counts as
   open and keeps its keepalive tier until the link goes;
   `src/L3/tests/channel_mux_test.cpp:102` says closing channels are no longer open.
3. *Callers wait for a dial that is no more.* `DropLinkNow` does not tell a link's
   establish callback. A dial dropped in its handshake (requested, unreachable, displaced
   by `BindDialAlias`, `CloseAllLinks`) leaves its waiters unanswered and
   `concurrent_dials_` one too high for good; so does an endpoint unregistered while its
   host name resolves, as far as the waiters go. `PeerLinkManager.h:415` says the waiters
   are completed by the dial under their key.

### Observations

Met while modelling; they are in the models unless said otherwise, and no run is kept for them.

* `Connection.cpp:31-32` says a packet in flight cannot be "too far" for the receiver's
  window. The send window counts unacked packets, not the span of their numbers, so it
  can; nothing is lost, the packet is resent.
* `PeerLink.cpp:283` drops released lane frames past 256 while the link handshakes, after
  acking them; `docs/ADR_LINK_PLANE.md` (11) says they are delivered once the mux exists.
* The loser of an election among existing links is dropped by its key
  (`PeerLinkManager.cpp:567`), where `docs/ADR_LINK_PLANE.md` (10) says drops name a link.
  If a nested link holds the key by then, the loser stays in Backoff, or the link that
  has the key is dropped. The same happens without nested links: two `EnsureAssociation` of
  one key whose first candidates fail leave the key twice in the retry queue, `Tick` dials it
  twice, and the election of the first with an accepted link drops the second. A loser that was
  missed is never judged nor evicted, and who asked `VerifyLink` about it gets no answer, though
  `PeerLinkManager.h:238-243` promises one; `VerdictsAreDue` without `Missed` fails in the
  classes "dial" and "nested". `AdoptInboundOrDropDuplicate` also looks at one existing link
  only, so a nested link can hide an ADP duplicate.
* `OnInboundConnection` may evict an idle link and then refuse the newcomer at the quota of
  pending links. The handler of channel 0 keeps the key its link had (`PeerLinkManager.cpp:1321`),
  which is stale once `BindDialAlias` gave it another.
* Two dials of one direction at once (`Split` in `DualDial`): the dialer keeps the
  older, the accepting end the newer, and both go. `EnsureAssociation` (`PeerLinkManager.cpp:671`)
  avoids it per key, not per peer. For two outbound links the comment of
  `DualDialElector.cpp:20` says the newer is preferred; the code keeps the older.
* Burst keys carry the address's index and the peer, so concurrent bursts to one peer share
  them, though `MeshRuntime.cpp:522` says they are per job. A burst that wins does not abort
  the dials it still has to a connected peer (`MeshRuntime.h:202`: "Abort losers"), and `Stop` leaves
  a burst's keys registered and its `on_done` uncalled.
* A timer moved out with its batch runs though an earlier task of the batch cancels it or
  stops the runtime.
* `ChannelSession::FailOutbound` closes the session and leaves its channel Open, without
  a word to the peer; `EnqueueOutbound` is true after a failed write.
* Two bridged sessions on one link: when the link drops, the first one's notice closes the
  other through a pointer to the mux that is gone (`PeerLinkManager.cpp:400-403`,
  `ChannelSession.cpp:43`). With `OneMux` = TRUE `MuxAliveWhenCalled` fails.

## 5. Proofs

Every theorem holds for every value of the constants that satisfies the assumptions of the
module it is about, and for no other assumption but where its statement has one. Every
inductive invariant was checked by TLC on the run's instance first.

`AdpReliableProofs`, first part, on the replay window: `EndOfRun` is the end of the run (`EndOfRunFacts`); `Accept`
keeps a window well formed (`AcceptKeepsWindow`) and in a strict window records
exactly the number accepted (`StrictAcceptSees`); `Classify` foretells `Accept`
(`ClassifyForetellsAccept`), on which the code relies when it classifies, decides to
ack, and only then accepts.

`AdpReliableProofs`, second part (naturals, the two windows not 0): `InOrderExactlyOnce` and `AckedIsKept` are not inductive. What
they rest on is a balance between the three places a number can be in: `IndInv` says
that the window is well formed; that delivery has got exactly to `nextDeliver - 1` and
holds only numbers beyond `nextDeliver` (`DeliveryInv`); that the numbers the window
has taken are exactly those delivered, held or unheard (`TakenInv`); and that every
number sent is outstanding, given up or taken, while acks on the wire name taken
numbers only (`AccountInv`). Without `AccountInv` a stale ack could remove a packet the
receiver lacks; without `TakenInv` a duplicate could be held again after its delivery.
`InitInv` and one lemma per action (`SendInv`, `TickInv`, `HandleAckInv`,
`HandleReliableInv`; `QuietInv` for the actions that move none of this state) give
`NextInv` and `IndInvHolds`. From it follow `InOrder`, `AckPromise`,
`NoQuietStall`, `LimitsKept`, the action property `GivesUpInOrder`, and
`Refinement`: every step is a `Send` or a `Deliver` of `FifoChannel` or a stutter.

`DualDialAgreement` (last part of `PeerLinkManagerProofs`), for all naturals
0 < `Low` < `High` (`NodesOK`), any set `Conns` of naturals
and any `DialsAtOnce` and `MaxGivenUp`: `BothSpec => []ElectionAgrees`. That two
ends never elect differently is not inductive, since an end's next election knows nothing
of the other end's. `GreaterDialerWins` says why it holds: in every election between links
dialed from either side, at either end and in either order, the winner is the one the
greater id dialed (`CandidateWinsCrossing`). With types, `DialedEnds` and `BeatDialed` (an
end that met a connection, or elected with it, knows its dialer) it is inductive (`DialsInv`).

`AdpUpgradeProofs`: `SettledIsTakenHolds`. An ack may be older than the change of keys, so the
invariant speaks of what is on the wire: an ack names what its sender has taken, a data
packet what its sender has sent (`WireInv`). That an end's answers never run past its
numbers needs `ProgressInv`: before the peer's Finished an end has sent exactly the handshake
packets that what it was given calls for, afterwards at least all of them.

`SessionRekeyProofs`: `OneBehindHasAskedHolds`, whatever the mux queues or refuses. Requests and
acks are delivered from the
sender's stream, possibly long after they were sent and under a key of another epoch, so the
invariant is about all that was ever sent: a control message names an epoch the sender has
reached, or is the request for its next one, to which it awaits the answer (`AskedInv`).
`NumbersInv` ties what is held or on the wire to those messages. `OnceInv` (an end asks for an
epoch once and acks it once) is what keeps the streams within `MaxSeq`, a part of `TypeOK`.

`CarrierLaneProofs`: `LetGoIsKeptHolds`, by the same balance as in `AdpReliableProofs`: every
frame wrapped is in flight or kept (`AccountInv`), and no ack on the wire, cumulative or
selective, names a frame that is not kept (`AckInv`); `HoldInv` says that
what is held waits for a frame before it, so that a release ends where the next gap begins. `Refinement` is the refinement of `FifoChannel`
under `[]BacklogHasRoom`, since the code acks and then drops a frame that finds the backlog full
(`PeerLink.cpp:283`) and the lane is no stream then. It uses `DeliveryInv`: what was released is
at the mux or in the backlog, in order and complete.

`ChannelBridgeProofs`: `OneEndsBothHolds`, `ClosedLetsGoHolds`, `MuxAliveWhenCalledHolds`.
Handlers call each other from inside, so `Good` is a predicate on any state of the two sessions
and the bridge, and a lemma for each operator says that it takes `Good` states to `Good` states,
but for the one session whose handler is running. `SessionInv` says when a session holds its mux
and its handlers, `FiredInv` that a bridge has fired exactly when it has let go of both, which
is why the nested closes end after one round. `MuxAliveWhenCalledHolds` has the hypothesis
`~OneMux`: for two channels of one link it is false (see the observations).

`MeshRuntimeProofs`: `BurstsEndOnceHolds`. That a burst is answered once is not inductive, as
its end waits on a queue between the settling and the answer. `EndInv` follows that end: it is
posted when the burst settles, is in the teardown queue or in the batch a turn has moved out of
it, in one place only, and while it is anywhere the burst has settled and has not been answered.
`BookInv` says that each registered key belongs to a burst not yet answered; `StartedInv` that
polls and windows wait only for bursts that were called, so that none settles a burst before its
keys are registered. A lemma per field written, one per operation, one per step.

`PeerLinkManagerProofs`: `NamesAreLiveHolds`, `DialsAreCountedHolds`, `OneSessionPerPeerHolds`,
`NoWaiterForgottenHolds`, `VerdictsWhereAccepted`, `HealthySessionStaysHolds`, for any addresses, caps, links, calls and
faults. A step of the manager is a chain of calls on one record, often a dozen deep, so the invariants are predicates on records and there is a lemma for
each operation.
* `Good` says that ids are given once and that keys and presences name live links that go by them
  (`TableInvHolds`). A presence is that of a link past its handshake, since
  `FinishEstablishment` may still change the peer of a dial.
* `Counted` says that every dial that is not over is counted. It is kept because a dial's callback is
  cleared before `FinishDial` counts it down: a second end of the same dial finds no callback.
* `Held` says that, where nothing is nested, each Connected link has the presence of its peer, hence
  that there is one at most. Inside a step this fails between a demotion and `RefreshPresence`;
  `HeldBut` says what holds there. `Sound` and `IndInv` put the parts together (`IndInvHolds`).
* Most operations leave the table alone (`Elsewhere`) or are `Mild`: no link comes, no dial is
  reopened, none gets Connected, and who keeps its link keeps its presence.
* `WaitInv` (`WaitInvHolds`) is for `NoWaiterForgotten` and `VerdictsWhereAccepted`. `Nesting`: who
  waits for a nested handshake waits on a link on a carrier, in its handshake and with its callback,
  so that whatever ends the link's handshake also ends the wait. In mid-step one link is excused
  (`Ending`): its handshake is over and its callback has yet to run. `Verified`: who asked for a
  link's verdict waits on one that is Connected and suspected, or that is pending a drop. An
  election drops its loser through the loser's key, which reaches the loser only if the key still
  names it: `Keyed` says that it does where links are only accepted and probed, as there no key is
  displaced. So `VerdictsAreDue` is proved for that class, with no loser missed; in the others it is
  model-checked, `Missed` excused. Most operations are `Calm` (no link enters or leaves its
  handshake and nobody new waits) or `Steady` (no key, queue or link comes or goes).
* `StayInv` (`StayInvHolds`) is for `HealthySessionStays`, where nothing is nested. `Direct`: no link
  hangs on another, so a drop takes one link and no more. `Dialed`: where links are only dialed no
  election has a winner that demotes the other. `Fading`: what is due to be dropped is no session any
  more, where no caller can ask for a session's drop (where one can, `Healthy` asks that none has).
  Most operations are `Lasting`: each Connected link stays, with its peer, connection and probe. Where
  an election ends one session it leaves an heir (`Heirs`): the loser is demoted in the step that
  brings the winner up. `Tick` drops what is pending, fails only handshakes and evicts no link that
  is up and has not failed its probe (`Fit`).
* The loops (`Tick` over keys and links, `RequestDropLink` over nested links, the two queues of
  dials) are folds. `Rounds` is the induction they need: if a loop did not keep its invariant there
  would be a least round after which it fails.

`ChannelMuxProofs`: `NoOutOfOrderHolds`, `DataInOrderHolds`, `TerminalOnceHolds`, for any number of
channels, messages and endings, any window, queue cap and cap on partial messages. A frame of a
channel may be in a send queue, in flight on the reliable stream or in the air, and a flush moves
frames from place to place, so `IndInv` speaks of the set of the frames of a channel that are on
their way (`InTransit`); that queue and stream are ordered by the numbers the frames carry
(`SideOrder`) is what remains of the sequences.
* `OpenedOnce` and `Opens` are the life of a channel: an id that can still be opened has never been
  used, and until the OPENACK has come the opener has sent no data and been given none. Without them
  a late OPENACK could set a channel back to its first numbers with data on the way.
* `Flow` is the data from one end to the other. `Numbered`: numbers and messages rise together.
  `Ahead`: nothing in transit is older than what the receiver expects. `NoGap`: every number from
  there to the sender's next is in transit; it fails once the sender has called `CloseChannel`,
  which uses a number no data frame has (the excuse in `NoOutOfOrder`). `Complete`: what was sent
  and not given is in transit up to the first gap; it outlives `CloseChannel`, so that
  `DataInOrder` needs no such excuse.
* A step changes the frames of one channel from one end (`HandledStep`, `OneStep`), or, in
  `DetachAllChannels` and `Tick`, those of all channels of an end (`AllChannels`). There is a lemma
  for each way `Flow` can change (a frame is sent, taken, refused; a record comes or goes) and one
  per action. The loops of `FlushQueued` and `ResetInTurn` are recursive functions, kept by
  `Rounds`: what holds before a loop and is kept by each round holds after it.

Only model-checked: every liveness property, since fairness and ENABLED are out of the prover's
reach; `TypeOK` of `ChannelMux`, whose bound on `tx.bytes` is about a sum over the queues and whose
bounds on numbers come from how often the model's users call (`IndInv` has the types without the
bounds); `TypeOK` and `WaitersFollowTheDial` of `PeerLinkManager`, which are about the dial book and
the waiters of a dial, of which the lemmas above say little; its `VerdictsAreDue` beside dials and
nested links; and `SessionSurvivesElection` and `EndsAgree` of `DualDial`, which are temporal.
`ChannelBridge`'s excuses are those of section 4.

## 6. Not modelled

Cryptography and byte layouts (a packet opens exactly under the key it was sealed
with, and decodes to what was encoded); sockets, clocks and the fault-injecting test
doubles (the models' network does what they do); statistics; parsing of addresses and
DNS; configuration checks; `AmpStack`, which puts the parts together.

Of modelled parts: path learning, keepalive and retransmit times of L1 (what they decide is
a free choice); the messages of a nested handshake over a carrier (one step of
`PeerLinkManager`); `WhenChannelOpen`, keepalive tiers, link events and protocol handlers of
the link manager; io ticks added or removed from inside a tick, and `RunAndWait`, of the
runtime; what a session holds in `outbound_` while a handler writes from inside `SendData`.

# Verification of the ACO routing protocol (ns-3 module `src/src/aco`)

TLA+ models of the ant-colony routing protocol for drone networks, TLC runs that
check them on small instances, and TLAPS proofs for all instances. The reference
is the C++ of `src/src/aco/model`, and of the event queue in `src/src/core/model` that
runs it; everything else in the repository is the rest of the ns-3 simulator the module
is built into.

## 1. The system

| Part | State | Operations | Modelled by |
|---|---|---|---|
| `RoutingProtocol` (`aco-routing-protocol.{h,cc}`), one per node | routing table, request queue, `m_seenAnts`, `m_requestId`, `m_discoveryStart`, `m_simulatedQueue`, one discovery timer per destination, the evaporation timer | `RouteOutput`, `RouteInput`, `RecvAco` (forward and backward ants), `SendRequest`, `RouteRequestTimerExpire`, `EvaporatePheromones`, `SendPacketFromQueue` | `AcoRouting` |
| `RoutingTable` (`aco-rtable.{h,cc}`) | map from destination to entry (flag, next hop, lifetime, pheromone, request count, ...) | lookups (each purges first), add, update, delete, purge | `AcoRTable` (operators), `AcoTable` (the class), `RouteLifecycle` (abstract) |
| `RequestQueue` (`aco-rqueue.{h,cc}`) | vector of packets with an expiry, a limit, a timeout | enqueue, dequeue, drop, purge, find, resize | `AcoRequestQueue` |
| `Neighbors` (`aco-neighbor.{h,cc}`) | vector of neighbours with expiry and hardware address, a purge timer | update, lookup, transmission error, purge, clear | `AcoNeighbors` |
| `IdCache`, `DuplicatePacketDetection` (`aco-id-cache`, `aco-dpd`) | identifiers with an expiry | is-duplicate, purge, set lifetime | `AcoIdCache`, `DuplicateFilter` (abstract) |
| AODV-style headers (`aco-packet`) | none | (de)serialisation; nothing in the protocol builds or reads them | not modelled |
| `AcoHelper`, driver `scratch/aco-test.cc`, scripts | | wiring, traffic, plots | not modelled; the driver is the environment of `AcoRouting` |
| ns-3 event queue (`default-simulator-impl`, `map-scheduler`, `simulator`) | map of events by time and uid, clock, events for the end, a list other threads fill | schedule, cancel, remove, run, stop, destroy, hand over | `DefaultSimulatorImpl`, `EventCalendar` (abstract) |
| rest of ns-3 | radio, sockets, IP, timers | | environment |

How they interact. An application's packet makes IP call `RouteOutput`. On a hit
IP sends it to the next hop; on a miss the packet is lost (its `Enqueue` is
commented out, `aco-routing-protocol.cc:197`) and, unless a timer for that
destination is running, `SendRequest` broadcasts a forward ant. A node hearing it
for the first time adds a breadcrumb and rebroadcasts it, or, as its destination,
unicasts a backward ant to the neighbour. That walks back over the breadcrumbs,
leaving pheromone and a route at each hop. The ants are UDP packets: **every
unicast ant runs `RouteOutput` of the node that sends it, inside the handler that
sends it**, so a handler can hit, miss, delete a route or start a discovery of its
own. Broadcasts to 255.255.255.255 do not.

Of its members the protocol uses the routing table only. `m_queue` is never filled. `m_nb`,
`m_dpd` and `m_rreqIdCache` are constructed (`m_nb` is also given a callback with an empty
body) and never called: no neighbour is ever listed, no identifier ever looked up. So
`AcoRequestQueue`, `AcoNeighbors`, `AcoIdCache` and `AcoTable`, like
`DefaultSimulatorImpl`, model classes under every sequence of calls their interface allows,
not what this protocol does with them; only `AcoRTable` is part of `AcoRouting`.

What is hard. The protocol has no threads: ns-3 runs one event at a time, so every
handler is atomic, which is itself a promise of the event queue, where threads do meet:
any thread may hand events over while the main one runs them. In the protocol what
interleaves is the order of events: copies of several floods, backward ants of several discoveries, frames lost or late, timers, and expiries
that nobody notices before the next lookup. State is read long after it was
written (breadcrumbs, `m_discoveryStart`, the two-stage expiry of routes), and the
table is shared by all discoveries.

What makes each part correct:

* protocol: a flood ends and each discovery has one answer; no ant is made up or
  mixed with another; a route leads to someone who had a route; following routes does
  not run in circles; a discovery brings a route while none has aged; the rate of ants is bounded;
* table: an entry lives exactly as long as it was promised, in every state, and the
  objects that copies of entries share mislead no other destination;
* event queue: events run in the order of their times and of their making, none is lost,
  doubled or run after it was withdrawn, whoever made it;
* queue: no packet is lost silently, doubled, reordered or handed over too late, and the
  limit holds;
* neighbours: a lost link is noticed once, in time, and not before its time;
* identifiers: each one is a duplicate exactly as long as it was accepted for.

`PROJECT.json` lists the hazards line by line.

## 2. The modules

* `AcoRTable` — the table as operators on a value `Table`; the time of a call is a
  parameter. Fields no routing code reads (sequence numbers, hop count, precursors, black
  list) are left out. An entry's lifetime is its absolute `m_lifeTime`; it expires
  strictly after it, first into INVALID and on a later expiry out of the map.
* `AcoTable` — the class as a state machine: the caller has one entry in hand, a copy that
  shares its `Ipv4Route` (an object of a small heap) with the entry in the map; every
  setter of a field in the model and every method of the table is an action. The operators
  are those of `AcoRTable`, on entries with a route, an interface, precursors and the
  black-list bit. Left out are the sequence number, hop count, stagnation and timers of an entry
  with their setters, and `SetRoute`, `SetOutputDevice` and `SetBadLinkLifetime`, which nothing calls.
* `AcoRouting` — all nodes together. Actions are the handlers: `AppSend` (a packet
  enters `RouteOutput`), `Receive` (dispatches to `DiscardAnt`, `RecvForwardAnt`,
  `RecvBackwardAnt`, `DeliverData`, `Forward`), `RouteRequestTimerExpire`,
  `EvaporatePheromones`, `Tick`. `RouteOutput` is an operator on a table that the caller
  has already purged and changed, which is how the nested call is part of the action
  that makes it. History variables (`ants`, `visited`, `known`, `sends`) are read by
  properties only, `sends` as the bound of the traffic as well.
* `AcoRoutingProperties` — properties of `AcoRouting`, and the inductive invariant.
* `RouteLifecycle` — abstract: one route, unknown, valid until an instant fixed when it
  was learned, or held invalid until an instant fixed when its expiry was noticed.
* `AntDiscovery` — abstract: one ant, launched once for one goal, taken up at most once by
  each node, answered by its goal in the step that takes it up.
* `AcoRequestQueue` — the queue as a set of entries numbered by acceptance, with
  `SendPacketFromQueue`'s loop. It is a component of its own: in the composed protocol
  the queue is always empty.
* `AcoNeighbors` — the neighbour list as a set of entries numbered by link.
* `AcoIdCache` — the identifier cache; `DuplicateFilter` — abstract: a filter that remembers
  everything it ever accepted and asks of each entry whether it is still alive.
* `DefaultSimulatorImpl` — the event queue and the main thread's place in it (`pc`): in the
  program's own code, in the loop of `Run`, in a handler, or inside
  `ProcessEventsWithContext`, whose three parts (test of the flag, swap, drain) are
  separate actions because another thread may push between them. `EventCalendar` —
  abstract: a list of appointments, whose first is the only one ever kept;
  `SimulatorCalendar` — the mapping.
* `AcoRoutingProofs`, `AcoLoopProofs`, `AcoRefinementProofs`, `AcoTableProofs`,
  `AcoRequestQueueProofs`, `AcoNeighborsProofs`, `AcoIdCacheProofs`, `SimulatorProofs` —
  the proofs. `MC*` — instances for TLC.

### Correspondence and abstractions

* `SeenKey(src, id) == id`: the code computes a 64-bit key from source and number and
  stores it in a `std::map<uint32_t, bool>`; the conversion keeps the low half.
* `air` is the set of frames in flight, one for each receiver of a broadcast. Equal
  frames coincide: handling the second copy of an F-ANT does nothing, and B-ANTs are
  unique (`SingleBackwardAnt`). `Radio` keeps the receivers that may be in range
  (`Link`) and, when `Lossy`, any subset of them: losses, collisions, mobility and TTL.
  Wi-Fi does not duplicate; reordering is unrestricted. With `Prompt`, a frame takes less
  than a tick; without it, any time.
* A limited broadcast has no route lookup; a unicast has (see above). The sockets carry
  the sender's address, so `ipSrc` is the previous hop.
* Pheromone is an integer, `PUnit` being 1.0. Deposits are `PUnit * TicksPerSecond \div delay`,
  a delay of nothing counting as a millisecond; evaporation multiplies by (1 - rho) with
  rho = 0.2 + 0.5 q/64 in 640ths, rounded down. What the properties depend on is the
  comparison with 0.1 in `RouteOutput`; rounding down can only weaken a route earlier,
  by less than one unit.
* Not in the state: logging, `m_totalAntsSent`, `m_rreqCount` (reset every second,
  read by nobody), precursors, the black list. Interfaces going down and addresses
  changing are empty handlers. Nodes do not restart.
* `Searching` stands for `m_addressReqTimer.find(dst)`; the timer's event erases the
  element and, as ns-3 orders events by time, time does not pass a timer that is due.
* The queue and the neighbour list report in one loop and erase in a second, by the same
  predicate; both loops are one step of the models, so that the two could diverge is shown
  by mutants only. The queue's error callback is called for every dropped entry; what it does is
  outside (the protocol registers none that calls back). Limits are at least 1:
  with 0 the code would take the front of an empty vector.
* `Neighbors`: the `close` flag is set and acted on in the same event, so it is a
  parameter of `Purge`. The ARP caches may or may not know an address at each update.
  The link-failure callback is set in the protocol's constructor and has an empty body.
* `AcoTable`: `GetAllRoutes` copies without a purge, and the caller takes up one of the
  copies. A route object is reused once no entry of the table and not the caller holds
  it (`MakeEntry` takes any that is not in the table); request counts stop at 1.
* Event queue: event *i* is the *i*-th `EventImpl` made, so the lists are sets whose front is
  the least event. The flag `m_eventsWithContextEmpty` is a plain `bool` written by one
  thread and read by another without the lock: `Look` may or may not see the write; that
  it sees it some day is left to the memory model. `DoDispose` drains the hand-overs into the
  map before it drops everything; the model drops both, without the uids that would be counted.
  `Stop(delay)` and `ScheduleNow` are `Schedule`; contexts and the number of events run
  are left out. Uids count modulo `UidMod`, and fewer events are made than that. One life
  of the simulator is modelled: an `EventId` kept beyond `Destroy` and into another `Run`
  compares with a new clock and may look pending.

## 3. The runs

Passing runs:

| Run | Instance | Shows | States |
|---|---|---|---|
| `flood` | 3 nodes in range of each other, all ask for all, loss, 2 packets, one instant | `TypeOK`, `SingleBackwardAnt`, `AntsAuthentic`, `NextHopKnewRoute`, `LoopFree`, `StormBound`, `AntsAnsweredOnce` (refinement), `OwnFloodsUnshadowed` | 28 k |
| `discovery` | 3 nodes in range of each other, one requester, no loss, 2 packets, 5 ticks, lifetimes of 4, fairness | `DiscoveryCompletes` until routes can have faded or expired, `AirFallsSilent` until they can have expired | 761 k |
| `expiry` | chain of 3, lifetimes of 2 ticks, 3 packets, 5 ticks | `IndInv`, `AntRateBounded`, `LoopFree`, `AnswersFindTheWay`, `RoutesAgeAsPromised` (refinement), `YoungHomecomings` | 514 k |
| `request_queue` | limit 2, 2 packets x 2 destinations, timeouts 0 and 1, 4 acceptances, 2 ticks | accounting, no doubles, order, limit, timeouts | 773 k |
| `neighbors` | 2 addresses, 2 hardware addresses, lifetimes 0 and 2, delay 1, 2 links, 4 ticks | timer, accounting, promises | 1.6 M |
| `id_cache` | 2 sources x 2 numbers, lifetimes 0 and 2, 3 ticks | `FiltersDuplicates` (refinement), types | 691 k |
| `table` | 2 destinations, 3 route objects, 2 interfaces, 5 calls, 4 instants | `RoutesOfTheirOwn`, `AnswersFresh`, `CopiesConfined`, types | 947 k |
| `simulator` | 3 events, delays 0 and 1, a second thread | order (refinement), accounting, the two assertions, `IsExpired`, the unlocked flag | 96 k |

Runs that end in the counterexample they are there to show (section 6):
`key_collision`, `lost_answer`, `homecoming`, `strongest`.

Why these bounds. The floods of two nodes and the nested sends need two packets at
three mutually audible nodes; loss and reordering are unrestricted there. Relays start
discoveries of their own only when routes have faded, which `expiry` reaches with three
packets, enough for a discovery, a retry and another destination: lifetimes of two ticks and
five ticks of time let a route be learned, expire, be quarantined and come back, with
timers and packets between. `discovery` has two paths, one
direct and one over a relay, so that the answer may use either, and time: the requester's
timer fires after a second and sends a second ant over existing routes, every node
evaporates once a second, and packets may come at any of the instants 0 to 5. Frames take
less than a tick there, as those of Wi-Fi take less than a second; at one instant they
arrive in any order among themselves and with the timers. Routes last 4 ticks, so that the
last instant is behind both bounds of the properties: there `DiscoveryCompletes` does fail
without its condition. The queue is full with two entries and is filled twice over; the timeouts
are below and at the distance of the instants. In `neighbors` a lifetime of 0 is shorter
and 2 longer than the timer; in `id_cache` an identifier pushed later may expire earlier. In `table`
five calls let an entry be made, added, looked up as a copy, changed through the copy and
looked up again, with four instants for it to expire twice; two keys and two next hops are
enough to file a route under the wrong one. In `simulator` three events give two in one
instant and one in the next, one of each origin, and a withdrawal between any two. `MaxSends`,
`MaxTime`, `MaxAccepted`, `MaxOpened`, `MaxCalls`, `MaxEvents` are the only bounds on behaviours; none appears in a proof except as an arbitrary natural
number. Symmetry is used where all constants of a set are interchangeable
(`flood`, the queue, the neighbours, the identifiers, the table) and only for safety. Deadlock is not
checked: with the bounds used up and no frame in flight a system has nothing to do.

Fairness. Only `discovery` assumes any: weak fairness of `Receive`, i.e. a frame the
radio has accepted reaches its receiver, which is what ns-3's event queue does
with a transmission that is not lost. There is no fairness of timers, of time or of
applications: a behaviour may stay at one instant for ever, and both properties hold there too.

Every property of a passing run is also tested against a mutant of the code's definition
(the operators marked "Mutant"), under the same configuration, and fails there.

## 4. The proofs

From the `ASSUME`d facts on constants only (types of the bounds and of `Link`,
`RreqRetries > 0`, `PUnit > 0`, queue limits at least 1, `Delay > 0`, fewer events than
uids, more route objects than destinations).

`AcoRoutingProofs`. `IndInv` is inductive (`Invariance`); `TypeOK`,
`SingleBackwardAnt`, `AntsAuthentic`, `NextHopKnewRoute` follow. None of them is
inductive alone:

* `SingleBackwardAnt`: the destination makes the only new B-ANT when it processes the
  forward ant, so one needs to know that a B-ANT in flight means its destination has
  already processed that ant (`AntsAuthentic`), that a processed ant is in the filter
  (`FilterCovers`), and that an id is not used twice (`AntsNumbered`);
* `Trail` also says that no frame is addressed to its sender, so that the sender filter of
  `RecvAco` never swallows an ant, and that a backward ant goes to its source or to somebody
  who has had a route there; both are what the theorems about answers start from;
* `NextHopKnewRoute`: a next hop is the sender of a frame, so the frames need
  the invariant too (`TrailsKnown`: who hands an ant over has, or had, a route to where it
  comes from); a B-ANT passed on through `RouteOutput` keeps it because the hit that
  sends it implies an entry for the next hop;
* `NoRetryBookkeeping` (no entry is IN_SEARCH, none counts requests) closes the branches
  of `RouteRequestTimerExpire` that would break the life of a route.

The proof splits `IndInv` in a part about nodes and a part about frames; lemmas say
what each table operator preserves, then what `RouteOutput` does on any purged table,
then there is one lemma per handler. `FloodsEnd` is the action property `StormBound`
from the same invariant.

`AcoRequestQueueProofs`. Every operation moves entries out (`Moved`) or accepts one
(`Accepts`); accounting, no doubles and order follow. `LimitHoldsUnlessLowered` proves the
limit under exactly the assumption the code needs, that the limit is never lowered: the
test of `Enqueue` is an equality, and a queue left longer than its limit only grows. `TimeoutsRespected` is the action
property on what is handed over and dropped.

`AcoNeighborsProofs`. Every operation but three is a purge of a list that accounts
for all links. The invariant that carries `SilenceIsNoticed` is `TimerRuns`: while
somebody is listed the timer runs and is set no later than `Delay` after anybody's time.

`AcoIdCacheProofs`. `CacheIsAFilter` is the refinement: time only grows, so what a purge
erases is dead in the filter as well, and the cache holds everything alive
(`RemembersAlive`). No theorem bounds lifetimes or assumes them ordered.

`AcoLoopProofs`. `AntsAreRare` needs only what a step does to the clock, to the timers and
to the ants (`SearchStep`): a running timer is a second behind every ant of its node and
destination, a stopped one behind every ant but the last (`RateInv`). `RoutesRunInNoCircle`
rests on `Tree`: as long as only *s* asks, a breadcrumb to *s* is never replaced, it is added
to a node that nobody's breadcrumb leads through yet, so breadcrumbs run in no circle; and
every other route, like the answer that brings it, runs against a breadcrumb, so a circle of
routes would be a circle of breadcrumbs. Circles are sets in which every node leads to and
is reached from another, so no induction on paths is needed. `RoutesFresh` gives the
condition its meaning: before the first lifetime is over no entry can be missing again.
The same invariants say what becomes of an answer and of a flood there, the last two being
the conditions under which findings 3 and 1 of section 6 cannot happen: `AnswersFindTheirWay` (a backward ant was handed to
somebody who has had a breadcrumb, by `Trail`, and has it still, by `Tree`; that `RouteOutput`
then finds the next hop's own route strong enough is not part of it),
`HomecomingsHelpWhileYoung` (the entry found at home is VALID, by `RoutesFresh`; any number
of askers) and `OneAskersFloodsUnshadowed`, which needs in addition that the filter holds
the keys of processed ants only (`FilterHonest`): a key of one's own number is then of
one's own ant. The two action properties rest on `Arrival`: a frame leaves the air only with
its receiver's handler.

`AcoRefinementProofs`. `RoutesLiveAsPromised`: every step of `Spec` maps, for each node
and destination, to a step of `RouteLifecycle` or a stutter. The lemmas classify a
handler's effect on an entry as handled by a purge, then aged or replaced by a fresh one.
`AntsAreAnsweredOnce`: a step is an `AntStep`: it launches at most one ant, with a new number,
and either no ant is taken up and no answer is born, or one ant is taken up by a node new to
it. From that and `IndInv` each ant maps to a step of `AntDiscovery` or a stutter.

`AcoTableProofs`. The invariant is `Filed`: an entry is under the destination that its
`Ipv4Route` names. Every method keeps entries under their keys with their routes (`Keeps`),
or puts one under the destination of its own route. Two keys then cannot share a route
(`RoutesAreTheirOwn`), and `SetNextHop` on a copy can only reach the entry of the copy's
destination (`CopiesAreConfined`). `AnswersAreFresh` needs that a purge leaves nothing that
is past its time, an invalidated entry getting a new one.

`SimulatorProofs`. In layers: uids do not wrap (`Bounded`: each event takes at most one uid,
when it is made or when it is drained); every `EventId` is where `IsExpired` takes it to be
(`Known`, with `NothingInThePast` inside); every event is in one place (`Accounted`, with the
flag); the count is that of the map (`Counted`), which needs `Known`, because `Remove` counts
down for what it finds not expired.

`EventsRunLikeACalendar`: the queue implements `EventCalendar`. The mapping `Agenda` lists
what is pending by rank: the *i*-th event is the one with *i* - 1 before it. `Precedes` orders
the map without ties, because uids differ (`Known`), so a set of events has exactly one such
list (`SortedLists`, `ListIsOneToOne`). Hence whatever removes the event at position *p* of the
list removes the *p*-th appointment and nothing else (`AgendaWithout`), and inserting one
inserts an appointment behind all that are not later (`InsertedAt`): its uid is the
largest, which is where `Bounded` comes in. `ProcessOneEvent` on a cancelled event maps to a
step of time alone, `DoDispose` to closing the calendar, everything that does not touch the
map to a stutter. One more invariant, `Handed`, says that what waits to be drained has a delay of `Delays`
and that events for the end are known by an `EventId`.

Only model-checked: `DiscoveryCompletes` and `AirFallsSilent`. They are liveness under
fairness, which is out of the prover's reach. `AnswersFindTheirWay`,
`RoutesRunInNoCircle` and `FloodsEnd` are the safety part of their argument, proved for every
network.

## 5. Not modelled

The headers of `aco-packet` (dead code: no ant is built from them), the helper, the driver
and the scripts. The tests in `src/src/aco/test` are those of ns-3's AODV module and are not
built with this one. The composition of request queue and protocol is not modelled because
the code does not have it: the `Enqueue` of `aco-routing-protocol.cc:197` is commented out.

Of ns-3 only the event queue is modelled. The repository holds all of it, some 768,000 lines
in 2,342 files (LTE, TCP, Wi-Fi, DSR, Zigbee, ...), against 3,700 of the protocol; so the
models cover nearly all of the protocol's own code and a very small share of the
repository. The driver uses, besides, mobility, UDP echo and 802.11b in ad-hoc mode: they
are the traffic and the lossy radio of `AcoRouting`. Schedulers other than the default map,
`SetScheduler` and the execution context of an event are left out; `Timer` is abstracted to
the instant it fires (`AcoRouting`, `AcoNeighbors`).

Limits of what is claimed. `LoopFree` holds while one node only has launched ants and its
first routes cannot have expired. Neither condition can go: with two nodes asking, three
discoveries are enough for their ants to overwrite each other's next hops; and with one, a
breadcrumb that expires, is erased and learned again from another neighbour can lead to a
node whose own breadcrumb leads back. `AirFallsSilent` ends with the first lifetime for that
reason: in such a circle only the TTL, which is not modelled, stops a packet.
`DiscoveryCompletes` ends four seconds after the start (or with the first lifetime, if that
is shorter): evaporation takes at most half of 1.0 each second, so three of them leave
0.125 and the fourth may leave less than the 0.1 that `RouteOutput` asks for. With the queue
nearly empty the first route fades after some ten. From then on an answer can be lost with one
asker and no loss of frames (`lost_answer`), and a homecoming ant may find an INVALID entry
(`homecoming`): no discovery is promised a route any more, only another try. The narrowing of a packet's 64-bit uid to the 32 bits
of the identifier cache (`aco-dpd.cc:21`) is abstracted: `Ids` are what the cache tells apart.

## 6. Where code and comments differ

1. Floods shadow each other (`DuplicatesOnly`): the key of `m_seenAnts` loses the source.
   One asker's floods do not (`OwnFloodsUnshadowed`), so a test with one flow shows nothing.
2. A destination's answer can be lost (`DestinationAnswers`): an
   entry for the neighbour that has faded or expired is not refreshed, the nested `RouteOutput`
   fails. In the run's trace it is INVALID.
3. A homecoming ant need not establish a route (`HomecomingEstablishesRoute`): an
   INVALID entry stays INVALID. Until the first lifetime is over it does
   (`YoungHomecomings`).
4. The strongest path is not kept (`StrongestPathKept`): the last answer wins.

Met while modelling, without a document to contradict:

* the delay of an answer is taken from `m_discoveryStart`, one instant for each node that
  every launch overwrites, so it need not be the answered ant's (line 287);
* after `SetMaxQueueLen` below the current size a queue is never trimmed again (`aco-rqueue.cc:52`);
* `Run` returns when its map is empty even if another thread has handed an event over since
  the last look; the event waits for the next `Run` (`default-simulator-impl.cc:182`), which
  also forgets a `Stop` called before it (line 180);
* a cancelled event still moves the clock when its turn comes (line 128);
* `InvalidateRoutesWithDst` goes by destination, whatever the next hop has become since the
  list was taken, and `SetNextHop` on a copy reaches the table without `Update`.

## 7. Plan

Done: the protocol with its table and the abstract discovery, the whole table class, the
queue, the neighbour list, the identifier cache, the event queue, and proofs about all of
them, the refinement of every abstract specification included. What could follow: `Timer` on
top of the event queue; the two liveness properties reduced to proved leads-to steps by
hand; and, if the code takes the `Enqueue` of line 197 up again, queue and protocol composed.

# NFD-PITless in TLA+

NFD-PITless is a variant of the NDN Forwarding Daemon in which, besides the
classical forwarder with a Pending Interest Table (PIT), there are *PIT-less*
routers, which keep no state per Interest, and *bridges*, which stand between
consumers and a core of PIT-less routers. The RIB daemon keeps routes and
programs the FIB of the forwarder through commands. This directory models the
forwarders, the tables they stand on, faces and links, the RIB daemon and the
process around them, checks the models with TLC and proves their central
invariants, and the refinement of the promise to consumers, with TLAPS.

Every module is translated from the code under `src/`; `PROJECT.json` maps each
definition to the lines it stands for.

## 1. Inventory of the system

| Component (source) | State | Operations | Hard behaviours | What makes it correct |
|---|---|---|---|---|
| Forwarding pipelines (`daemon/fw/forwarder.cpp`) | none of its own; the tables | incoming Interest and Data, loop, CS hit and miss, outgoing Interest and Data, reject, unsatisfied, finalize, unsolicited Data | timers racing packets, late and duplicate Data, faces that close while records refer to them | no timer outlives its entry, no premature expiry, one Data per Interest, loops detected, scope kept, every Interest resolved |
| PIT (`daemon/table/pit*.cpp`) | entries with in-records, out-records, two timer handles | insert, find by Data, by name, erase, records | Nonces overwritten by retransmissions | records and timers consistent |
| FIB (`daemon/table/fib*.cpp`) | next hops by prefix | longest prefix match, add and remove next hop, remove a face | faces removed between addition and use | names only faces that are up, no empty entry |
| Content Store (`daemon/table/cs*.cpp`) | Data, stale times, queues of the policy | insert, find, evict, change of policy | limits, staleness at the boundary, policy change | answers only matching and, if asked, fresh Data |
| Dead Nonce List (`daemon/table/dead-nonce-list.cpp`) | FIFO of Name and Nonce hashes, marks, capacity | add, has, mark, adjust, evict | bursts over the capacity | a Nonce is found during its lifetime |
| Strategies (`daemon/fw/*-strategy*.cpp`) | suppression interval; NCC and access: timers and measurements | decide where an Interest goes | state per entry and per prefix across route changes | never back to the sole downstream, suppression of retransmissions |
| Bridge (`daemon/fw/bridge-*.cpp`) | tables of the forwarder, its name | as the forwarder, Data matched by supporting name and renamed | several answers per entry, no out-records | consumers get what they asked for, once per Interest |
| PIT-less router (`daemon/fw/pitless-*.cpp`) | FIB, CS | forward one packet | loss, reordering, route changes, routing loops | traffic is not multiplied, drains when routes have no cycle |
| RIB (`rib/rib.cpp`, `rib-entry.cpp`) | tree of prefixes with routes, inherited routes, queue of updates | insert, erase, expire, remove face | changes by increments | the tree is the prefix tree |
| FIB updater (`rib/fib-updater.cpp`) | the updates of one batch | compute, send, answers, retries | answers of an earlier batch, timeouts, partial failure | FIB equals what the routes imply |
| RIB manager (`rib/rib-manager.cpp`) | registered faces, scheduled events | register, unregister, notifications, check of active faces | lost notifications, stale dataset | nothing leaks, the queue drains |
| Face table, FIB manager (`daemon/fw/face-table.cpp`, `daemon/mgmt/fib-manager.cpp`) | faces | add, remove, add-nexthop, remove-nexthop | – | see FIB |
| Name tree (`daemon/table/name-tree*.cpp`) | hash table with chains, the tree of entries | lookup, erase with parents, resize, longest match, enumerations | resizing inside an operation, colliding hashes | every entry is found, none is freed in use or left behind |
| Strategy choice, measurements (`daemon/table/strategy-choice*.cpp`, `measurements*.cpp`) | strategy by prefix; strategy info with lifetimes | insert, erase, effective strategy, extend, clean up | change of strategy under live entries | a strategy meets only its own info |
| NCC, access strategies (`daemon/fw/ncc-strategy.cpp`, `access-strategy.cpp`) | info on PIT entries, measurements, three kinds of timers | triggers, timeouts | timers against Data, lost faces, strategy change | every next hop is tried; assertions hold |
| NDNLP (`daemon/face/ndnlp-*.cpp`, `ethernet-face.cpp`) | partial messages by sender, clean-up events | slice, reassemble, clean up | loss, duplication, reordering, wrap of sequence numbers, restarts | fragments fit the MTU, only whole packets come out |
| Faces, channels, face manager (`daemon/face/*`, `daemon/mgmt/face-manager.cpp`) | face objects, maps of channels, face table, pending connections | create, accept, connect, fail, destroy, close if idle | both ends connecting at once, a timeout racing the handler of its attempt, uninitialized mark of use | maps agree, one outcome per command, idle faces go |
| Stream face (`daemon/face/stream-face.hpp`) | send queue, input buffer, socket, queued handlers | send, receive, shut down in two steps | handlers queued before the shutdown | order and completeness of both directions |
| Remote registrator (`rib/remote-registrator.cpp`) | registered names, refresh events, commands in flight | register, unregister, refresh, retry, redo | overlapping commands, lost hub | one refresh per name, registrations heal |
| Daemon, configuration (`daemon/main.cpp`, `nfd.cpp`, `rib/nrd.cpp`, `core/config-file.cpp`) | settings, two threads, `nrdIo` | start, reload, stop, failure of either thread | failure of one thread at any point of the other, reload half-way | serves one whole file, ends when stopped |
| Hub discovery (`tools/ndn-autoconfig/`) | two counters, commands in flight | three stages, connect, register | overlapping runs | a discovery ends |
| RIB status publisher, other managers, core library, other tools | see `PROJECT.json` | | | not modelled (section 7) |

The components run in single-threaded event loops: the forwarder inside the
ns-3 simulator (the code records delays with `ns3::Simulator::Now`) or in the
io_service of the daemon, the RIB daemon in a loop and thread of its own. What
interleaves is therefore handlers: packets, timer events, commands, answers and
notifications. An action of a module is one handler from its first to its last
line; only `Daemon`, which has both threads, cuts finer.

Interaction: faces hand packets to a forwarder (signals connected in
`FaceTable::addImpl`); a forwarder reads FIB, CS, PIT and strategy and schedules
timers bound to PIT entries; the FIB manager changes the FIB; closing a face
removes it from all FIB entries. The RIB daemon sends FIB commands to NFD, gets
answers or timeouts, and hears of destroyed faces by notification or by fetching
the face dataset.

The hazards, each at its line with the property that covers it, are listed in
`PROJECT.json`.

## 2. Modules

```
PitEntry  Fib  Cs                 Rib
     \     |   /                   |
      Forwarder ---- PendingInterests (abstract)   FibUpdater   Fib
              \                          \        /
             BridgeForwarder              RibManager
                     |      PITlessForwarder
                     PITlessNetwork

NameTree -- NameTables --+
ContentStore             |                  Faces  StreamFace  RemoteRegistrator
DeadNonceList  Ndnlp ----+-- MCTables       Daemon  Autoconfig ---- MCParts
Strategies ----------------- MCStrategies

Forwarder -- ForwarderProofs -- ForwarderSafetyProofs -- BridgeProofs (BridgeForwarder)
PITlessNetwork -- NetworkProofs     RibManager -- RibProofs     Faces -- FacesProofs
RemoteRegistrator, Ndnlp, StreamFace, Daemon -- PartsProofs
Strategies, ContentStore -- StrategiesProofs
```

The first group is composed: the forwarder with its tables and the promise it
implements, the bridge on top of it, a network with both, and the RIB daemon with
NFD's side of its commands. The modules of the second group share no state with
one another; `MCTables` and `MCParts` start in one of them and stay there.

* **PitEntry** – records of a PIT entry, Nonce lookup, scope rules and the choice
  of the Interest to forward (`pit-entry.cpp`, `compare_pickInterest`).
* **Fib** – a function from prefixes to functions from faces to costs; longest
  prefix match, first next hop by cost.
* **Cs** – a function from cached Data to stale time and unsolicited flag. Which
  matching Data a lookup returns is left open; eviction may take any entry.
* **Forwarder** – the pipelines. `timers[k]` holds the scheduler events bound to
  the entry of key `k`, separately from the handles the entry has, so that an
  event that can no longer be cancelled is visible. A key is a name with
  MustBeFresh, the part of the Selectors the tables distinguish. Strategies
  best-route, best-route2 (with exponential suppression), multicast and
  client-control are operators that yield the faces to send to or a rejection.
  Histories: `credit` (Interests received minus Data sent, per face) and
  `forwarded` (Nonces sent upstream and not yet answered). `wantNewNonce` is
  never set by any strategy of the repository and is left out.
* **PendingInterests** – what a forwarder promises: a set of pending requests;
  Data is delivered only to a pending request that it matches, which it ends.
* **BridgeForwarder** – extends Forwarder with the pipelines the bridge redefines:
  Data is looked up by supporting name, renamed before it is cached and sent; no
  out-records; no timer after a CS hit.
* **PITlessForwarder** – the two pipelines of a router, as operators from FIB and
  CS to the packets sent.
* **PITlessNetwork** – one bridge, routers, producers (external) and links as a bag
  of packets: delivered in any order, lost, with routes that change.
* **Rib** – entries, routes and the tree; **FibUpdater** – the computation of FIB
  updates and inherited routes; **RibManager** – the daemon: queue, batches,
  answers, timeouts, retries, expirations, destroyed faces, and NFD's side of the
  commands. `SendBatch` is the tail of every handler that calls
  `sendBatchFromQueue`: the guard `Waiting` of all other actions keeps anything
  from happening before it.
* **NameTree** – buckets with chains in order, the tree with its vectors of children
  and `m_nItems`; hashes are given for components and combined as in the code
  (XOR), and pass through a 32-bit type when the table is resized. **NameTables** –
  FIB, PIT, strategy choices and measurements as users of the tree, with the
  clearing of strategy info and the lifetimes of measurements. Both have RECURSIVE
  walks and are for TLC only.
* **ContentStore** – the ordered table, `findLeftmost` and `findRightmost` as they
  walk it, both policies with their queues and scheduled moves, changes of limit;
  `evictEntries` is a recursive function, one eviction after the other. The policy is
  a choice of the initial state, as `Cs::setPolicy` is for an empty store. A packet
  is its full name, components are numbers in canonical order.
  It is the store that `Cs` abstracts from, which may lose any entry at any time.
* **DeadNonceList** – the queue with its marks, the counts of marks and the capacity
  control; `rate` is the traffic, which may change.
* **Ndnlp** – slicing with the octets each field takes, reassembly by sender and
  message, clean-up, over a link that loses, duplicates and reorders. A payload is
  the packet, the offset and the number of its octets.
* **Strategies** – the NCC and the access strategy on one PIT entry with the
  measurements of its name and of the parent; durations are left open, so that
  timers run in any order.
* **Faces** – face objects from creation to failure, the maps of the channels, the
  face table and notifications, create commands with connections under way. An
  attempt to connect is a record from `connect` until its handler has run: the
  operation ends (`ConnectCompletes`, external), which queues the handler; the timeout
  closes the socket, which aborts an operation that has not ended and recalls no
  handler that is queued. Such a handler then runs with the result it was queued
  with: an error is reported a second time, and for a success `createFace` asks the
  closed socket for its remote endpoint, which throws (`ended`: no handler runs any
  more). The scheduler is the simulator's (`core/scheduler.cpp`), so that a timeout
  that was cancelled does not run. The branch for Boost 1.54 alone
  (`tcp-channel.cpp:177-182`), in which a socket without a remote endpoint is a failure,
  is left out.
  **StreamFace** – one face at the level of asynchronous operations and queued
  handlers; what the peer sends is given by the offsets at which its elements end.
  `oversize` is the reason given when the face fails for a packet that is too large.
* **RemoteRegistrator** – the entries, refresh events and commands in flight as bags.
* **Daemon** – the configuration file as a sequence of sections, handed to their
  handlers one by one up to one that throws, and both threads. Of the tables section
  there are the limit of the Content Store and the strategy choices, which are all
  looked at (`hasStrategy`) before the first is inserted, so that no insertion fails;
  of the general section only whether it can be read. The exit codes for a user or
  group that does not exist, and commands that set or unset a strategy, are left out.
* **Autoconfig** – the stages as operators from a state to the states they may lead
  to; answers under way are counted by kind.
* **MCForwarder, MCBridge, MCPITlessNetwork, MCRib, MCNameTables, MCTables,
  MCStrategies, MCParts** – instances for TLC.
* **ForwarderProofs, ForwarderSafetyProofs, BridgeProofs, NetworkProofs, RibProofs,
  FacesProofs, StrategiesProofs, PartsProofs** – theorems (section 4).

Abstractions. Names are short sequences; Data is a name with a freshness; faces
and Nonces are model values. One clock tick is the straggler time of 100 ms. The
RIB's index by face (`m_faceMap`) is derived from the routes. Validation of
commands and responses to the requester are left out. A pointer that
`getRouteWithSecondLowestCostByFaceId` returns dangles; what it reads is a choice
between the routes it may have pointed to and nothing usable; so is the mark of
recent use of a UDP face, which its constructor leaves uninitialized. Names in the
first group have no repeated component, where the longest prefix match is what it
says (run `name_lpm`). External code is modelled from its use: Boost.Asio (an
operation completes at any time, cancelling does not remove queued handlers), the
scheduler, producers, the hub.

## 3. Runs

Passing runs (2 workers, at most about two minutes each):

| Run | Question | Bounds |
|---|---|---|
| `forwarder_retx` | Timers, records, Nonces and flow balance of one name under retransmission with two Nonces and two lifetimes, a missing lifetime, Data that is late, duplicate or longer than the Interest, face failures and route changes | 3 faces, 4 arrivals up to time 2, clock to 4; 1.2 million states |
| `forwarder_promise` | The forwarder implements `PendingInterests` and resolves every pending Interest; /localhost stays on the node and the FIB on faces that are up, with multicast and client control, faces that are created late and fail | /a, the root and a /localhost name, 3 faces, 3 arrivals; 0.4 million states |
| `bridge_edge` | The bridge keeps the timer discipline and the promise under the names consumers use | two consumers, one core face, 4 arrivals |
| `network_line` | Conservation of packets, names end to end, the core drains | two routers whose routes change, a producer, one loss |
| `rib_levels` | The FIB built by increments equals the FIB the routes imply, on three nested prefixes with inheritance, a capture route and a face that is destroyed | 5 commands, 4 faces |
| `rib_faces` | Expiring routes stay covered, the queue drains, a lost notification is made up for | two nested prefixes, 3 commands, one timeout, one lost notification, queue of at most one waiting command |
| `tables` | The name tree under resizing and strategy changes; the Content Store under both policies; the capacity control of the Dead Nonce List; fragmentation | 2 to 8 buckets, names of two components; 5 packets, limits 2 and 3, five lookups; 3 rates, one change; two senders, MTUs 30 and 260, two packets, one copy, one restart; 0.17 million states |
| `strategies` | Timers of NCC and access against Data, retransmission, lost faces and a strategy change | two upstreams, 3 Interests, 3 timers, one change; 0.14 million states |
| `parts` | Faces, one stream face, the remote registrator, the two threads, the discovery | 2 faces, 2 commands, channels of TCP and UDP or of WebSocket and Unix that listen; a buffer of 3 octets, 2 packets of up to two blocks; 5 changes of the RIB, one failure, one retry; eleven files, 2 edits; 2 multicast faces, 2 runs; 0.2 million states |

Why the bounds are enough: a timer or record goes wrong by a sequence of arming,
replacing and firing, which takes two or three arrivals and one expiry;
retransmission needs two Nonces and three faces (two downstreams, one upstream);
a RIB inheritance case needs an ancestor, the entry and a descendant, and a
command for each plus two changes. The hash table starts at its smallest size, so
that three names enlarge it and their erasure shrinks it; the MTU of 260 has
packets on both sides of the length from which a TLV length takes three octets. The
sequence numbers of 64 bits do not wrap while a face lives; in the run they have the
17 bits that two packets of the largest number of fragments need, and do not wrap
either. Two faces are the least with which
an endpoint can get a second one, and two runs of the discovery the least that
overlap. Channels share only the face table, so that two of them at a time
(`Listeners`) meet every race for an id or an endpoint; the idle timeout counts only as
zero or not. The files of `parts` differ in their sections, in what these grant and
choose, in the section that is bad and in what comes before it. The Dead Nonce List has the code's smallest capacity and number of marks
per lifetime, with a lower initial and largest capacity and eviction limit, so that
the rates of the run need the capacity to rise and to fall. Arrivals stop before the clock does, so that
every timer can fire. `CHECK_DEADLOCK FALSE` appears where the clock and the
arrivals are bounded and the system may rest, and in `rib_faces`, where a failed
assertion or a command that NFD refuses ends the daemon (`fault`); a RIB daemon
that runs never rests, because the face dataset is fetched for ever. In `tables` a sender restarts only when its
fragments are gone (`RestartsQuickly = FALSE`): see the observations.

Every property has a mutant in `PROJECT.json`: a changed definition under which
TLC finds the property violated.

### Properties

* `TypeOK`; `TimerDiscipline`: the scheduled events of an entry are exactly those
  it holds handles of, at most one of them armed, the unsatisfy timer due when the
  last in-record expires; an erased entry has none. `NoPrematureExpiry`: an entry
  with an unexpired in-record goes only after a rejection. `FlowBalance`: a face
  gets at most one Data per Interest and is owed what its in-records say.
  `UnansweredNonceRemembered`: a Nonce sent upstream is found in an out-record or
  the Dead Nonce List until it expires or is overwritten.
* `FibFacesUp`, `LocalhostConfined`.
* `ImplementsPromise`, `BridgeImplementsPromise`: refinement of `PendingInterests`.
  `PendingDrains`: liveness.
* `PacketConservation`, `NamesRestored`, `CoreDrains`.
* `TreeIsPrefixTree`, `FibMatchesRib`, `QueueDrains`, `LostNoticeRecovered`.
  `ExpiryCovered`: a route that expires has its event or an update that erases it,
  on the condition `BatchEnded` that no batch starts with commands of an earlier one
  under way, which is what `fib-updater.hpp:65` says and a failed batch may break
  (see the observations).
* `NameTreeSound`: hash table and tree agree, the tree holds the names in use and
  their prefixes and no other, clean-ups come when promised. `MatchesAreLongest`:
  lookups by hash against the definition. `InfoIsOfEffectiveStrategy`.
* `QueuesMatchTable`: the queues of a policy partition the table and moves are
  scheduled for the right entries; `FreshDataLast`: order of eviction;
  `LookupIsSelective`: lookup against its definition. `LifetimeSettles`: under a
  constant rate the capacity settles (liveness).
* `SlicesFit`, `DeliveredWhole`: fragmentation.
* `AssumptionsHold`: what the strategies assert, but for the two assertions that can
  fail (see below); `EveryHopTried` (liveness), of next hops that a timer is to try.
* Faces: `MapsAgree`; `EveryRequestAnswered`: every create command is answered, unless
  an exception ends the daemon first, and its answers do not contradict each other
  (`OneOutcome`: one answer, or the failure twice); `IdleFacesClose`, where the channel
  has an idle timeout.
* StreamFace: `SendQueueHeld`; `ElementsDispatched`: what has arrived is dispatched, and
  the face fails for a packet that is too large only if the next element is longer
  than the buffer.
* `OneRefresh`, `RegistrationHeals` (RemoteRegistrator); `ServesWholeFile`: the limit,
  the privileges and the strategy choices of the last file that was accepted are in
  force; choices of earlier files stay for other prefixes; `ProcessEnds` (Daemon);
  `DiscoveryEnds` (Autoconfig).

### Fairness

`FairSpec` asks that the clock advances and that due timers fire: the simulator
runs every scheduled event and then moves time on; a timer that is due blocks the
clock. Nothing is assumed about packets. `FairNetSpec` asks that links deliver
what they do not lose. `FairRibSpec` asks that the event loop runs what is
scheduled and that NFD answers (the number of timeouts is bounded, as the code
gives up with an exception after `MAX_NUM_TIMEOUTS`).

In `tables`, time passes and due events of the Dead Nonce List run. In
`strategies`, scheduled events run and a PIT entry without in-records goes. In
`parts`: a connection attempt ends, as its timeout is scheduled with it; the idle
timer of each face fires; commands to the hub end for each name and verb, and
refresh timers fire; each thread goes on when it can; and whatever the discovery
waits for is answered or times out, which `Controller` and Interest lifetimes
guarantee. Errors, reloads, signals, peers and commands are never assumed.

### Where code and comments disagree

Three runs show a statement of the repository violated by what the code does;
`PROJECT.json` quotes the statement.

* `rib_timeout`: a removal that times out is retried as an addition.
* `name_lpm`: with a repeated component the hashes of a name and of a shorter
  prefix are equal, and the longest prefix match returns the shorter one.
* `runner_failure`: if the RIB manager fails before the main thread has looked at
  `nrdIo`, the process neither serves nor ends.

Further cases met while modelling, which the models contain and the passing runs
avoid by their choice of requests or by the wording of a property:

* A retransmission over the same face overwrites the Nonce of the out-record
  without adding it to the Dead Nonce List (`pit-entry.cpp:167`), and a bridge,
  having no out-records, adds none at all: two Interests of one name on a ring of
  bridges overwrite each other's in-record Nonce.
* The loop pipeline leaves a PIT entry without a timer (`forwarder.cpp:91`); so
  does the bridge's CS hit (`bridge-forwarder.cpp:177`).
* A route registered again with another capture flag leaves
  `m_nRoutesWithCaptureSet` unchanged (`rib.cpp:114`).
* A route on a face the prefix inherits does not remove the inherited record, so
  that erasing the ancestor's route removes the next hop of the prefix's own
  route (`fib-updater.cpp:424`); a change of cost adds a second inherited record.
* Unregistering the more costly of two routes on one face removes the face from
  the FIB (`fib-updater.cpp:176`); raising the cost above the other's without
  child-inherit reads a null pointer (`fib-updater.cpp:486`).
* A route inserted after the destruction of its face was handled stays
  (`rib-manager.cpp:619`); a face registered while the dataset was fetched is
  taken for destroyed (`rib-manager.cpp:710`).
* An expiration that fires while the renewal of its route is queued erases the
  renewed route (`rib-manager.cpp:300`); an unregistration whose removal timed out
  and was retried as an addition on a face that closed leaves a route without its
  expiration (`fib-updater.cpp:168`), which is why `ExpiryCovered` speaks of faces
  that are up.
* `compare_pickInterest` picks the first incoming Interest, not the last
  (`forwarder.cpp:201` and 220).
* PIT-less routers on a cycle of routes forward one Interest for ever
  (`pitless-forwarder.cpp:113`; `pitless-strategy.hpp:59` says "is not looped").
* Unregistering the only route of a prefix, if it captures and an ancestor has
  child-inherit routes, fails an assertion (`rib.cpp:457`).
* A batch that fails while commands of it are in flight lets the next one start
  (`fib-updater.cpp:297`, against `fib-updater.hpp:65`); late answers are counted for
  the new batch and may insert the route of the failed one, or end the new batch
  before its own commands are answered; a route inserted by that may be one whose
  expiration has fired already, and then stays for ever. The attempt to prove
  `ExpiryCovered` without its condition showed this case.
* Content Store: with a full name, ChildSelector and MustBeFresh the rightmost
  lookup walks past the beginning of the table (`cs.cpp:161-191`); the lookups of
  `tables` are without that combination. `detachQueue` leaks the EntryInfo.
* Dead Nonce List: `mark` does not store its event, so that the destructor cannot
  cancel it; at rate 0 the list stays above its capacity until it is next used.
* NDNLP: sequence numbers restart at 0 when a face is created again, so that
  fragments of two packets may be put together if fewer than the clean-up time has
  passed; the expiry event of a reassembler is not cancelled with its face.
* NCC: Data does not cancel the propagate timer when the parent's name belongs to
  another strategy, as `beforeSatisfyInterest` returns from its loop
  (`ncc-strategy.cpp:203`); the handle of a timer is overwritten without cancelling it, and after a
  strategy change a timer meets an entry without the info that
  `ncc-strategy.cpp:132` says is guaranteed; so does an assertion of the access
  strategy with the measurements of another one.
* Faces: when the timeout of a connection attempt runs after the attempt has ended and
  before its handler, the command is told of the failure twice if it had failed
  (`tcp-channel.cpp:194`), and if it had succeeded the handler goes on with the closed
  socket and throws (`tcp-channel.cpp:102`), which ends the daemon.
* Faces: after an error of accept or receive a channel does not listen any more;
  a handler of a stream face that runs between the shutdown and `deferredClose` may
  start another operation, whose own handler then comes after the face was freed,
  against the comment at `stream-face.hpp:326`. `FaceManager::onConfig` refuses every
  face_system section while the RIB manager finds NFD by it.
* Remote registrator: a registration that succeeds after its prefix was erased
  stays; a prefix erased while the hub is away is registered again; prefixes
  inserted before the hub connects are never registered; a refresh that fails is
  not repeated. `RegistrationHeals` is about names that were registered. When the hub
  comes back, `redoRegistration` signs with the registered name
  (`remote-registrator.cpp:431`), where the registration before was signed with the
  identity, which may be longer than that name by its last component; whether the hub
  accepts this is outside of the model, in which a refusal is a failure like others.
* Daemon: `CommandValidator` resets its rules in a dry run too; a reload has no dry
  run, so that a bad file ends the daemon; strategy choices that are no longer in
  the file stay, as nothing erases them (`tables-config-section.cpp:174-183`).
* Autoconfig: a hub that cannot be connected to ends the tool although stages are
  left; the result -1 of the resolver is not tested.

## 4. Proofs

Each theorem holds for every value of the constants that the named assumptions
allow. These say how constants are typed and what the environment of the code
guarantees, and TLC evaluates them in every run.

| Module | Theorem | States |
|---|---|---|
| ForwarderProofs | `TypeCorrect` | `Spec => []TypeOK` |
| | `TimersDisciplined` | `Spec => []TimerDiscipline` |
| | `PrematureExpiryExcluded` | `Spec => NoPrematureExpiry` |
| | `FibNamesUpFaces` | `Spec => []FibFacesUp` |
| ForwarderSafetyProofs | `UnansweredNoncesRemembered` | `Spec => []UnansweredNonceRemembered` |
| | `LocalhostStaysLocal` | `Spec => []LocalhostConfined` |
| | `FlowBalanced` | `Spec => []FlowBalance` |
| | `PromiseImplemented` | `Spec => ImplementsPromise` |
| BridgeProofs | `BridgeTimersDisciplined` | `BridgeSpec => []TimerDiscipline` |
| | `BridgePromiseImplemented` | `BridgeSpec => BridgeImplementsPromise` |
| NetworkProofs | `NamesAreRestored` | `NetSpec => []NamesRestored` |
| | `PacketsAreConserved` | `NetSpec => []PacketConservation` |
| RibProofs | `TreeStaysPrefixTree` | `RibSpec => []TreeIsPrefixTree` |
| | `ExpiryStaysCovered` | `RibSpec => ExpiryCovered` |
| FacesProofs | `MapsAlwaysAgree` | `FacesSpec => []MapsAgree` |
| | `OneOutcomeOnly` | `FacesSpec => []OneOutcome`, the safety part of `EveryRequestAnswered` |
| | `PersistentFacesKept` | the safety part of `IdleFacesClose` |
| StrategiesProofs | `StrategiesAssumeRightly` | `StSpec => []AssumptionsHold` |
| | `QueuesAlwaysMatch` | `CsSpec => []QueuesMatchTable` |
| | `FreshDataGoesLast` | `CsSpec => FreshDataLast` |
| PartsProofs | `RefreshedOnce` | `RrSpec => []OneRefresh` |
| | `GivenUpOnlyUnneeded` | the safety part of `RegistrationHeals` |
| | `FragmentsFit` | `LpSpec => []SlicesFit` |
| | `PacketsDeliveredWhole` | `LpSpec => []DeliveredWhole`, if `~ RestartsQuickly` |
| | `SendQueueIsHeld` | `SfSpec => []SendQueueHeld` |
| | `ElementsAreDispatched` | `SfSpec => []ElementsDispatched` |
| | `FileServedWhole` | `DaemonSpec => []ServesWholeFile` |
| | `NrdIoIsAlive` | `DaemonSpec => []NrdIoAlive`, the safety part of `ProcessEnds` |

**Forwarder.** The inductive invariant is `IInv == TypeOK /\ TimerDiscipline`.
Neither part is inductive alone: an entry's timers are well typed only if the
records they are computed from are, and cancelling the two handles clears
`timers[k]` only if the events are exactly those handles (lemma `CancelClears`).
The operators on a cell (an entry with its events) are handled by lemmas:
cancelling clears, arming the unsatisfy or straggler timer on a cleared cell
restores the discipline (`UnsatisfyArmed`, `StragglerArmed`), records keep their
types, and replacing one cell keeps the discipline of the others (`CellReplaced`).
There is then one lemma per action, collected in `InvariantStep`.
`PrematureExpiryExcluded` follows from `IInv`: an entry is erased only by a timer
that fires; an unsatisfy timer fires when the last in-record has expired, a
straggler timer of a satisfied entry only when it has no in-records.

**Forwarder, towards the network.** One lemma per pipeline says what it does to the
records of the PIT; the theorems use these and `IInv`. `UnansweredNonceRemembered`
is inductive with `IInv`. `LocalhostConfined` needs `RecordsConfined` (what is sent
goes to faces with records). `FlowBalance` needs `Balance`: the credit of a face is
at least the *number* of keys it has an in-record for, as Data may answer several
at once, and the PIT is finite, so that these can be counted. `PromiseImplemented`
maps in-records to pending Interests and shows every action to be a step of
`PendingInterests` or a stutter, on the ground of `IInv` and of what the Content
Store may hold.

**Bridge.** `BInv` adds to `IInv` that no entry has an out-record and what the
Content Store holds. The lemmas about cells are those of the forwarder; the
pipelines the bridge redefines have their own. `BridgeAssumption`: Data carries
both names.

**Network.** `NInv` says what may be on any link and in any router's store: Data
with two names, Interests for keys that consumers asked for. The proof then has
one lemma for the bridge and one for a router, and none that depends on the shape
of the network. `PacketsAreConserved` counts the copies of packets on the links
(`Copies`: each copy is an element of its own, so that a finite set is counted and
not a bag summed); `CountOK` says that there are finitely many, and a step takes
one copy off and puts at most one on, or puts on what the bridge sends and counts it
as injected. `NetworkAssumption`: the core is behind finitely many non-local faces.

**RIB.** `TreeIsPrefixTree` is proved from facts about prefixes of sequences and
about the closest one among finitely many (`IsParent`), for `Rib::insert`, which takes
over the children that belong below the new entry, and `Rib::erase`, which hands
them on. `ExpiryStaysCovered` rests on `ExpiryInv`: an event id is carried by one
route in one place only (the RIB, the queue or the batch: `OneCarrier`), a route
that waits in the queue has its event or an erasure behind it, and all commands
under way are of one batch. `RibManagerAssumption`: requests are well typed and
`NoName`, `NoEvent` are no name and no event.

**Faces.** `WorldOK` is split into what the table owes to the faces, but for those
on their way into it, and what the maps of the channels owe to them, because
handlers go through worlds in which the two do not agree yet. `FInv` adds the
attempts under way (`RequestsOK`): each is for a command of its own, which has not been
answered while the socket is open, and has been told of the timeout, and of nothing
else, once it is closed. This is what makes `OneOutcome` inductive: a handler that was
queued before the timeout can only repeat the failure, as one that would tell of a
face throws.

**Strategies.** `AssumptionsHold` is not inductive: a handle left standing for an
event that is gone could come to stand for another that gets the same EventId, and
cancel it. `StInv` says that every handle of the entry stands for nothing or for an
event of its own kind, that ids are unique and that one is left to give out. That
NCC does not count below zero holds because the face an Interest was just sent to
has an out-record, so that the best and the previous face, if both are counted, are
two next hops. `StrategiesAssumption`: next hops are faces.

**Content Store.** `QueuesMatchTable` says that the queues partition the table, not
which queue an entry is in, nor that its event has the time left after which it is
stale. `CsInv` says both: unsolicited entries, and only they, are in the unsolicited
queue, entries of the stale queue are due, and under LRU there is one queue. Within
an operation an entry is in the table and in no queue yet, or in no queue any more;
`Kept(s, pol, D)` is the invariant for the packets `D` that are in one, and each of
`attachQueue`, `detachQueue`, `insertToQueue` and the erasure has a lemma about how it
changes `D`. Evictions are followed one by one (`Evicted(s, t, k)`): after `k` of them
`k` entries are gone, and if one of them was fresh and asked for, the other two queues
are empty, from which `FreshDataGoesLast` follows. Lookups take part only as uses of
an entry, so that the theorems do not rest on the search.
`ContentStoreAssumption`: limits are positive, freshness periods are times.

**Parts.** The events of the remote registrator are exactly those its entries know
of (`RrInv`); a prefix is given up only when no entry needs it, because the longest
identity for a prefix is unique (`OneIdentity`). `FragmentsFit` bounds the octets of
each field of a fragment, the count and index being 16-bit numbers;
`LinkAssumption`: the MTU leaves room for a payload. `SfInv` relates the queue, the
octets written and the handlers in line: blocks written but for the one whose
handler has not run are those before the front of the queue. `InputOK` does the same
for the input: the octets taken are those of the elements dispatched, of the buffer
and of the read whose handler is in line, of which there is at most one. `TooLargeOK`
adds that a face that failed for a packet that is too large has no read under way or
in line, so that the element it failed for stays the next one: the buffer is full and
nothing could be taken from it, so that this element is longer than the buffer.

`TransferInv` follows every message on its way through the receiver: the fragments
under way and the parts in the stores are those of packets that were sent, a store
has the parts that arrived under the message identifier that belongs to one packet,
as the ranges of sequence numbers of different packets do not meet, and the times
a packet was delivered, with one more for a fragment that a store still holds, are
at most the times that fragment arrived.
`TransferAssumption`: a packet has at most 65535 fragments (one of
`MAX_NDN_PACKET_SIZE` octets has fewer), and sequence numbers suffice for the
fragments of all packets, as 64 bits do. The theorem is for senders that restart only
when their old fragments are gone; without this hypothesis it is false (section 3,
NDNLP).

`DaemonInv` says that a thread that serves has accepted the file it loaded as a
whole. `process` is a recursive function over the sections; that it exists, and that
what it returns has the privileges, the limit and the strategy choices of the last
section of each kind if no handler threw, is shown for a least section for which it
would not (`ProcessSettles`); that a section with two choices for one prefix is refused
is needed for all its choices to be in force (`ChosenInForce`). The other part is about the two threads: the
pointer to an io_service is set only while the thread that owns it has not ended.

Only model-checked, and why:

* Liveness (`PendingDrains`, `CoreDrains`, `QueueDrains`, `LostNoticeRecovered`,
  `LifetimeSettles`, `EveryHopTried`, `ProcessEnds`, `DiscoveryEnds`, the liveness
  parts of `EveryRequestAnswered`, `IdleFacesClose`, `RegistrationHeals`): fairness is
  out of the prover's reach.
* `LookupIsSelective`: the search is recursive over a sorted sequence, and with a full
  name, ChildSelector and MustBeFresh it does not hold (section 3).
* `NameTreeSound`, `MatchesAreLongest`, `InfoIsOfEffectiveStrategy`: their modules use
  RECURSIVE and bitwise operators.
* `FibMatchesRib`: it does not hold outside the requests of `rib_levels` (section 3).

## 5. How to run

In this directory: `tlc -config ForwarderRetx.cfg MCForwarder` and likewise for
the other configurations (the run table of `PROJECT.json` names module and
configuration); `tlapm ForwarderProofs.tla`, and likewise for the other seven
modules of section 4, for the proofs.

## 6. Plan

Modelled, most important behaviour first: the forwarder with its tables, the
promise and the proofs of `IInv`; the bridge; PIT-less routers and the network; the
RIB daemon; the name tree and the tables on it; Content Store policies and Dead
Nonce List; NCC and access strategies; NDNLP; faces and channels; the remote
registrator; the daemon; the discovery.

Left: that `ContentStore` implements `Cs` as a refinement; multicast UDP and
Ethernet faces beside the transfer of fragments.

Theorems left: a type invariant of the RIB manager that covers the computation of
FIB updates, as a base for `FibMatchesRib` on flat RIBs; `LookupIsSelective` for
leftmost lookups, which takes a theory of the order of names; the name tree, once its
walks are recursive functions.

## 7. Not modelled

Set-up of sockets and of packet capture, multicast faces and DNS resolution of
faces; TLV encoding except the sizes of fragments; the effects of the general and log
sections, privileges of the process, logging; signing, parsing and validation of single commands, the
internal face and responses; datasets other than the active faces; the CityHash
function; network monitoring; the other command line tools, which send a command
and print the answer; the multicast strategy of PIT-less routers, which multiplies
packets by intent and serves as a mutant; the ns-3 delay callbacks. None of these
keeps state across events that a property could be about.

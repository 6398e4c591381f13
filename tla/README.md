# A TLA+ model of adq

adq answers a query over the data of many clients ("meters") without showing the
query server, or any other meter, whose data is whose. The server asks; every
meter has its contribution blindly signed, sends it through an overlay to a few
proxies, the proxies agree on what they received, and aggregation trees add it up.
This directory holds TLA+ models of that protocol, TLC runs that check them on
small instances, and proofs, checked by TLAPS, for every value of the constants.

Paths below are relative to `src/`; `core/` stands for `include/adq/core/`, where
`*_impl.hpp` files are in `core/detail/`.

## 1. The system

### Components

| component | state | operations | what makes it correct |
|---|---|---|---|
| Overlay arithmetic (`src/util/Overlay.cpp`) | none (memo tables) | gossip target and predecessor of a round, aggregation group, tree parent and children, proxies | predecessor and target are inverse; every pair of nodes meets; groups partition the meters and each has one tree; a proxy is in every group and never oneself |
| Path search (`src/util/PathFinder.cpp`) | none | `find_paths`: independent paths through the overlay | a path is always found, paths share no node, a message on a path arrives within the phase |
| `ProtocolState` (`core/`) | phase, round, timers, messages waiting, going out and kept for later, values, helpers below | start_query, signature response, overlay message, ping, aggregation message, round timeout | nodes move through the rounds together without losing a message; nobody waits for ever; all proxies accept the same values |
| `QueryClient` (`core/`) | none of its own | dispatch: handle now, keep, or drop | keeps exactly what is needed later |
| `CrusaderAgreementState` (`core/`) | signatures per value, phase 1 finished | the messages and the ends of both phases | proxies of a value come to the same decision |
| `TreeAggregationState` (`core/`) | children needed and heard, intermediate sum | initialize, child message, send | every contribution of the group counted once |
| `QueryServer` (`core/`) | query number, results so far, results kept, batch, timeout, meters signed for | start_query(-ies), signature request, aggregate, timeout | a result has a quorum and belongs to its query; queries end, in order |
| Timers (`src/util/LinuxTimerManager.cpp`) | handles, callbacks, cancelled IDs | register, cancel, callback thread | a cancelled timer does not fire; a registered one does |
| `NetworkManager` (`core/`) | a socket and buffers for each peer | send, accept, read a size, read a body, dispatch, shutdown | what is handled is what the peer has sent; what is sent arrives, whole, in order and once |
| Messages and serialization (`include/adq/messaging/`, `include/adq/mutils-serialization/`) | none | measure, write, read | what is read is what was written, whatever lies behind it; a buffer of `bytes_size()` is filled exactly |
| Cryptography (`core/CryptoLibrary.hpp`, `src/openssl/`) | keys, one blinding secret | blind, sign, verify, encrypt, onions | sizes fit; only the next hop opens a layer; a signature comes out valid if all goes in order |
| Configuration, data source, utilities, example application, vendored code | | | no protocol behaviour of their own |

### Interaction

Each process has a network thread, which calls the `handle_message` of its
`QueryClient` or `QueryServer`, and a timer thread, which calls the callbacks of
timers; the application calls the server from a third. Processes talk through
messages only: server to meter (`QueryRequest`, `SignatureResponse`), meter to
server (`SignatureRequest`, the `AggregationMessage` of a group's root), and meter
to meter (overlay messages, pings, aggregates).

A query at a meter goes through SETUP (blind signature), SHUFFLE (onions to the
proxies), AGREEMENT (two phases), AGGREGATE, and back to IDLE. SHUFFLE and
AGREEMENT advance in overlay rounds. In each round a node sends one batch to its
gossip target, the last message of which is marked final, and it ends the round
when the final message of its gossip predecessor has come, when a timeout finds
that the predecessor has answered no ping, or when a ping to it cannot be sent. No
clock or barrier keeps the nodes in step.

### What is hard here

* rounds: messages for later rounds and queries, handled out of a buffer by a
  recursion that itself ends rounds;
* timers: a callback may run after it was cancelled (`LinuxTimerManager.cpp:107`),
  or be registered over a live one, and touches the state of a later round or query;
* failures: a crash or a silent node in a protocol in which everyone waits for someone;
* queries that overlap: the server goes on by timeout while the clients are still
  busy, so messages of the last query reach the next one;
* connections: two meters may connect to each other at once, a connection may break
  between the size and the body of a message, and sockets are looked up by peer;
* bytes: headers, counts and padding that the writer and the reader must take for
  the same size; an answer that meets the secret of another query;
* arithmetic: group sizes, tree positions, powers of two modulo a prime, limits of
  the path search against the length of a phase, 32-bit timer delays.

`PROJECT.json` lists the hazards, each at its line, with the properties that cover it, or
a note that says what is not covered.

## 2. The modules

| module | models |
|---|---|
| `Overlay` | `Overlay.cpp`, as operators with the code's integer semantics |
| `PathFinder` | `PathFinder.cpp`; its two loops are recursive functions on records of the variables they change |
| `MCOverlay` | checks both over a family of systems; its state is the system and the round |
| `CrusaderAgreementState`, `TreeAggregationState` | the two helper classes, as records and operators on them |
| `ProtocolState` | the clients: `ProtocolState` and `QueryClient`, with network, timers and the server's side of SETUP. EXTENDS the two modules above |
| `MCProtocolState` | systems of 3 and 5 nodes for it |
| `QueryServer`, `MCQueryServer` | the server, with its groups as environment |
| `QueryService` | abstract: what `QueryServer.hpp` promises the application; `QueryServer` implements it |
| `TimerManager` | abstract: what `TimerManager.hpp` promises; `LinuxTimerManager` implements it |
| `LinuxTimerManager`, `MCLinuxTimerManager` | the signal handler, its queue, the tables and the callback thread |
| `NetworkManager`, `MCNetworkManager` | sockets, frames and completion handlers of several nodes |
| `Serialization`, `Messages` | the bytes of values; the message classes, as types for it |
| `CryptoLibrary` | envelopes, onions, signatures and blind signatures on those bytes |
| `Contribution`, `MCContribution` | one meter's contribution, as bytes, from the server's request to the second proxy; EXTENDS the three above |
| `Overlay_proofs`, `MCOverlay_proofs` | theorems about the overlay and the path search; the second states those of the run for every system |
| `ProtocolState_proofs`, `ProtocolRounds_proofs`, `ProtocolSums_proofs` | theorems about the clients; each EXTENDS the one before, the first `Overlay_proofs` |
| `QueryServer_proofs`, `LinuxTimerManager_proofs`, `NetworkManager_proofs` | theorems about the others |

### ProtocolState

Every variable is a function from nodes and carries the member's name;
`timer_armed`, `stray_timers` and `timeout_committed` stand for the timer manager,
`*_net`, `signature_requests` and `from_server` for the network.

| action | code |
|---|---|
| `QueryRequestArrives` | `QueryClient::handle_message(QueryRequest)`, `start_query` |
| `SignatureResponseArrives` | `handle_signature_response`, and the multicast to the proxies |
| `OverlayArrives` | the dispatch of overlay messages and `handle_overlay_message` |
| `FinishShuffle`, `FinishPhase1`, `FinishAgreement`, `ContinueOverlay` | one call of `end_overlay_round`, `common_end_overlay_round` and `send_overlay_message_batch` included |
| `AggregationArrives`, `DrainAggregation` | the dispatch of aggregates; the loop over the buffered ones in `start_aggregate_phase` |
| `PingArrives`, `TimerExpires`, `RoundTimeout` | `handle_ping_message`; the callback thread; `handle_round_timeout` |
| `ServerStartsQuery`, `ServerSigns`, `Crash` | the server's side of SETUP; a process ends |

*Recursion.* `end_overlay_round` calls `common_end_overlay_round`, which handles
the buffered messages of the new round, which may end it too. The recursive call
is the last thing that matters, so it is a program counter: `pc[n] = "end_round"`
says that the call is due. As long as one is due, no handler starts anywhere
(`Quiet`), so that a handler is atomic with all its calls and its steps add no
interleavings the program does not have.

*A stale signature.* The answer to a request of an earlier query does not unblind
with the secret of the present one. `unblinds` compares the query of the answer
with the node's; if they differ, `unblind_signature` throws, nothing catches it,
and the node ends (`alive`). `Contribution` has the arithmetic behind this.

*Data.* A contribution is the meter that made it, a signature is its signer, an
aggregate is the set of contributions in it, beside the `num_contributors` the
code counts. A path is a constant (`Route`); what `find_paths` returns is studied
in `PathFinder` with the real sizes. The messages of one batch that belong to the same
query are one record, because the receiver treats them alike.

*Timers.* `timer_armed` is the timer that `round_timeout_timer` names,
`stray_timers` counts live ones that it no longer names, `timeout_committed` is
the moment between the check for cancellation and the callback.

*Assumed of the network*: what `NetworkManager::send` is given for a live node
arrives once, in any order among overlay and aggregation messages, and in order
between the server and one meter (one connection). Only the send of a ping may
report a failure: the send of overlay messages always returns success
(`NetworkManager_impl.hpp:182-207`). The check of `QueryClient` that an aggregate
comes from its own group always holds, for parents are in the group. What is read
is taken to be what was sent. **These two are assumptions, not results:**
`NetworkManager` does not deliver every message (section 3, `network`) and
`SignedValue` does not survive its own serialization (`signed_value`). The runs of
`ProtocolState` show what the protocol does on a network and a codec that do.

### QueryServer

| action | code |
|---|---|
| `AppStartsQuery`, `AppStartsQueries` | `start_query`, `start_queries` called by the application |
| `ResultArrives` | `handle_message(AggregationMessage)`, with the `end_query` and the `start_query` it may call |
| `TimerExpires`, `QueryTimeout` | the callback thread; the callbacks of both timers |
| `GroupReports` | external: the root of a group sends its result |

`timer_arms` is the arithmetic of `register_timer`: with 32 bits, and with
`timer_settime` refusing a `tv_nsec` of a second or more. A timer it refuses never
fires. With 29 meters and F = 1, as in the run, both timers are armed: the short
one with its 400 ms, the long one, of 8800 ms, with the 210 ms that are left of
them modulo 2^32 ns. For other sizes, 29 meters
with the F = 5 the code computes among them, the long timer is not armed at all: a
query ends only because its first result arms the short one, and one that no group
answers never ends. That is why `EveryQueryEnds` asks for one group that answers. Handlers are atomic here
although three threads run them without a common lock.

*What it implements.* `QueryService` has no messages, timers or threads: queries
run one at a time, a batch in its order, the next of a batch starting only when
the application has been told of the one before, and what it is told is that the
query failed or a value that a quorum reported for one query. It leaves out how
often the application is told of a query: a timer that was cancelled too late may
tell it twice. `QueryServer!Service` maps its variables to the server's.

### LinuxTimerManager

| action | code |
|---|---|
| `CreateTimer`, `StoreHandle`, `StoreCallback`, `ArmTimer`, `ReturnId` | the steps of `register_timer`, which takes no lock; in between, the other threads and the signals go on |
| `cancel_timer` | `cancel_timer`, under the mutex |
| `timer_signal_handler` | a timer expires: its identifier is queued and the semaphore posted |
| `Dequeue`, `StartCallback`, `DropCancelled`, `CallbackReturns` | the callback thread, one action for each part between its locks |
| `Destroy` | the destructor up to `join`, which ends with the thread |

Callbacks register and cancel timers themselves (thread `"callback"`).
`ArmTimer` may be refused, as `timer_settime` does with too long a delay, which
the code does not look at. With `Serial = TRUE` the two threads do not register at
the same time. The program does not ensure this (a server callback and the
application may both register), so the run does not cover overlapping registrations.
With `Serial = FALSE` TLC finds two timers under one identifier, and the callback thread
ended by `at()`. The theorems do without `Serial`: they hold until two timers carry one
identifier, and say when that can happen. A timer counts as
registered for `TimerManager` when its callback is in the table.

### Serialization, Messages, CryptoLibrary, Contribution

`Serialization` reads and writes values by their type, over bytes, as the overloads
of `bytes_size`, `to_bytes`, `post_object` and `from_bytes` do, with the real
widths: an `int` for the number of elements, two bytes for a type tag, one for a
pointer. `Messages` gives each message class its members in the order written.
Reading takes its buffer with whatever lies behind the message in it.

`CryptoLibrary` keeps what the code computes: the layout of an envelope, the size
of its buffer, the order in which an onion is built, what is blinded and unblinded
with which secret, what is refused. OpenSSL is external, and stands for primitives small enough to
compute with: a cipher that shifts bytes, a digest that adds them up, RSA modulo
187. Nothing here is about strength.

`Contribution` puts them together for one meter, the server and two proxies:
`QueryRequestArrives` (blind), `ServerSigns`, `SignatureResponseArrives` (unblind,
build the onion), `OverlayArrives` (each hop and the proxies), `FinishShuffle` (sign
for the other proxy), beside messages of every other class (`Background`). An
exception that nothing catches is `thrown`. Bound: the SignedValue takes a path of one
hop, which `find_paths` returns when the other proxy can be reached directly. On a path
with a relay, the relay ends first, which is the run `relay`.

### NetworkManager

| action | code |
|---|---|
| `Send`, `SendFails`, `PingFails` | the overloads of `send`, with `initialize_socket`; a failed asynchronous write is noticed later, a failed ping at once |
| `Accept` | `handle_accept` and the next `do_accept`: an entry that exists is kept, the new socket is lost |
| `handle_size_read`, `handle_size_read_error` | the same with `start_body_read` |
| `handle_body_read`, `handle_body_read_error` | the same with `receive_message`; no read is started for a next message |
| `handle_write_complete` | the error branch; the other one only logs |
| `ReadCompletes`, `ReadFails`, `Break` | external: asio and TCP |
| `shutdown` | `shutdown` |

A node's thread runs one completion handler at a time, in order; other threads may
send between any two. Destroying a socket cancels its reads, whose handlers then
run with an error. A node has one buffer of each kind for a peer, whatever reads
it has started: a read puts its words there when it ends, and a body that is awaited
twice may be put where the buffer was before it was resized (`Fill`). A word stands for `sizeof(size_t)` bytes, a message for one
word, and a write puts its whole buffer into the connection. As the code assumes,
a socket of `initialize_socket` is connected and an accepted peer is found in the table of
addresses. (In the code that constructor of an asio socket binds the address
locally, and the peer's port is an ephemeral one.)

## 3. The runs

| run | instance | properties |
|---|---|---|
| `overlay` | 11 systems of 11 to 53 meters, rounds up to 110 | `PowersOfTwo` `PredecessorSendsToMe` `EveryNodeIsMet` `ProxyIsSomeoneElse` `ChildrenAndParentAgree` `OneTreePerGroup` `EveryPathIsFound` `PathsAreIndependent` `PathsFitIntoAPhase` |
| `query` | 5 nodes, 3 groups, no failures | `NoMessageIsLate` `ShuffleDelivers` `ProxiesAgree` `ResultsAreComplete` `EveryGroupReports` |
| `crash` | 3 nodes, two may crash, one stray timer | `OverlayTerminates` |
| `timeouts` | 3 nodes, one crash, one node pings, one stray timer | `TypeOK` `BufferedIsAhead` `RoundTimerCovers` |
| `two_queries` | 3 nodes, 2 queries, one node may reject them | `OnlyGenuineContributions` `SignatureOnlyInSetup` |
| `server` | 29 meters, F = 1, 3 groups of which two may be silent, 2 queries, 2 values | `ResultHasQuorum` `QueriesEndInOrder` `EveryQueryEnds` `ImplementsQueryService` |
| `timers` | 4 timers, registrations do not overlap | `TypeOK` `CallbackThreadSurvives` `ImplementsTimerManager` `EveryArmedTimerEnds` `ShutdownCompletes` |
| `contribution` | one meter, 2 queries, paths of 1 to 3 hops, 3 records, 2 blinding factors, 5 other messages | `ArrivesUnchanged` `WritesItsSize` `CiphertextFits` `OnlyTheNextHopOpens` `ProxyGetsContribution` `ContributionIsAccepted` `ThrowsForOldQueryOnly` |
| `network` | 2 meters and the utility, 4 sends, 3 connections, one of which may break, one meter may stop | `TypeOK` `OnlyHandlesWhatWasSent` `FirstSendOrNothing` `FirstFrameIsHandled` |

The properties are stated in words above their definitions. What `network` shows is
less than the other models assume. Whatever a node handles from a peer, the peer has
sent to it. As long as two nodes have made one connection and no ping was sent on
it, what is handled is what was sent first, whole and once; later frames are never
read. A ping (whose frame is a single word, for `send` overwrites its size) makes the
receiver take the next frame for its body. A second connection, which crosses the
first or replaces it, starts a second read of a size on the entry of the peer, and
from then on sizes and bodies may be taken for each other.

`OnlyGenuineContributions` reads off a node's state what it has done in a query: it has
contributed if it is past SETUP, and it has received what is in `proxy_values`. Both are
forgotten with the next query, so of an earlier one than the node's own the property asks
only that the proxies are the meter's. It holds although `start_query` leaves messages of the
last query behind, and although an aggregate of the last query may be added to one of the
present: such a contribution keeps its query number.

`ArrivesUnchanged` and `WritesItsSize` are about the frames that travel; the
SignedValue inside of one is encrypted. What becomes of it is the run `signed_value`.
An AgreementValue wraps a SignedValue and is misread in the same way; no run sends one.

### Runs that end in a counterexample

These state what a comment of the code says; the code does otherwise.
`PROJECT.json` quotes the lines for each.

| run | property | what happens |
|---|---|---|
| `signed_value` | `SignaturesVerify` | `SignedValue` writes the number of signatures as a `size_t` and reads an `int`: the receiver finds signer 0 and a shifted signature, and rejects the value. No value can be accepted by a second proxy that gets it over the network |
| `double_count` | `NothingCountedTwice` | a parent with more buffered aggregates than it expects, because a child crashed after sending, sends its aggregate, goes on in its loop, adds its own values again and sends a second one |
| `relay` | `RelaysSurvive` | a node on the path of a `PathOverlayMessage` tries to decrypt it, fails, and ends |

### Expectations that are not met

Other properties of the modules that TLC refutes; they are not runs. Each can be
seen by checking it with the instance named.

| property | instance | what happens |
|---|---|---|
| `ProtocolState!OneQueryPerAggregate` | 3 nodes, `LastQuery = 1` | a client in AGGREGATE adds an aggregate of the previous query: its query number is looked at only in other phases |
| `ProtocolState!OverlayTerminates` | 3 nodes, `MaySkip = {2}`, one query | a client whose filter rejects the query stays silent but answers pings: its successor waits for ever |
| `ProtocolState!EveryRoundIsAnnounced` | 3 nodes with `MCProxiesFew`, `LastQuery = 1` | a message of the last query, left in `waiting_messages`, takes the place of the empty final message of a round; its receiver may wait in that round for ever |
| `QueryServer!ResultIsOfItsQuery` | `server`, `AppWaits = FALSE` too | results of query 0 that arrive in query 1 make the quorum of query 1 |
| `QueryServer!PatientUntilFirstResult` | `server` | a query that has just begun gets the short timeout between results |
| `LinuxTimerManager!CallbackThreadSurvives`, `ImplementsTimerManager` | `Serial = FALSE` | two threads take the same `next_id` |
| `NetworkManager!HandledInOrder` | `Overtaking` with CONSTRAINT `InTurn`, `MaxBreaks = 0`, `MayStop = {}` | no connection breaks, but crossing ones do: a node destroys the socket of the one it accepts second, the peer's writes to it fail, and the handler of each failed write erases whatever entry there is by then. A later connection is read while what was sent on an earlier one still waits |
| `NetworkManager!EverySendIsHandled` | `TwoRounds`, `MaxBreaks = 0`, `MayStop = {}` | the second frame on a connection is never read; of crossing connections each end may read the one the other does not write to |

### Bounds, and why they are enough

* `MCOverlay`: sizes from the table of prime moduli that the code accepts, each
  with small and large numbers of groups, so that the last two groups are even,
  uneven and as small as the code permits. Powers of two modulo a prime with
  primitive root 2 repeat after one less than the size, so 110 rounds cover the
  period of every size twice. Paths are searched in five systems of up to 29
  meters, which is the smallest the code sets up by itself (F = 5), from every
  source and round, for three selections of proxies (lowest, highest, mixed).
* `MCProtocolState`: `init_failures_tolerated` sets F to ceil(log2(n)), and the
  smallest system it allows has 29 meters in 11 groups, out of reach. The instances keep the
  protocol and scale the parameters by hand: `Log2N` and `FailuresTolerated` are
  0 or 1, so that `PhaseRounds` is 1 or 4; groups, proxies and routes are
  given. Five nodes in three groups have trees with and without children, proxies of one and of
  several values, values with enough and with too few proxies, direct and indirect
  paths. Three nodes are enough for everything about rounds and timers, where a
  node has one predecessor and one successor in a round, and these change.
* `LastQuery = 1`: two queries let everything of an old query meet a new one.
* `MaxStrayTimers = 1`: a second stray timer does what the first does.
  `MaxTimeouts = 0` in these runs: a node with a live predecessor does not give it
  up. `Pinging` names the nodes whose pings are followed; for the others the
  predecessor is taken to answer if it lives.
* `EverybodyAlive` (a CONSTRAINT of `two_queries`): what comes after a stale
  signature has ended a node is not followed; the step that ends it is checked.
* `MCQueryServer`: three groups are 2F + 1 for F = 1; two queries, alone or as a batch.
* `MCLinuxTimerManager`: of four timers one can run its callback, one wait in the
  queue, one be cancelled and one be registered, all at once.
* `MCContribution`: RSA modulo 11 * 17, signatures of 8 bytes, keys of 3, vectors
  of 2, blocks of 4: lengths of plain texts fall on, before and after the end of a
  block. Records hold negative numbers, strings and sets. Two blinding factors and salts,
  two queries, so that every answer may meet every secret.
* `MCNetworkManager`: two meters that send to each other, so that their connections
  cross; three connections, so that one made after a break meets leftovers
  of the one before; one break and one stop.

Deadlock is not checked: a query, a contribution or the traffic ends, and then nothing is left to do.

### Fairness

`ProtocolState!Fairness` is weak fairness of the network thread of each node (once
with pings left out and once for pings: a node that is pinged for ever must not
starve its other messages), of its timer thread, and of the server. The code's
threads block only on their queues; TCP delivers to a live process; an armed timer
fires. Nothing is assumed of the order. `QueryServer!Fairness` says the same of
the server's threads, that the application has queries to start, and that groups
outside `Silent` report, which is what the clients' protocol is for.
`LinuxTimerManager!Fairness`: armed timers expire, the callback thread runs, and a
callback that is registering a timer gets through with it. Callbacks return; that
is up to the program's handlers, which never block. `NetworkManager!Spec`: each
node's `run()` executes the handlers there are, and what has arrived is read.
Nothing makes a thread send, cancel, shut down or call the destructor.

## 4. The proofs

All theorems hold for any number of meters, groups, proxies, routes, queries and
bounds. They rest on the named assumptions of the modules. The strongest of these say
of a system's size what the proofs need of the primes of `PrimeModuli.hpp`: that it
is odd (`OddAssumption`, `SystemsAssumption`) and, for the properties named below, that 2 is a
primitive root of it (`RootAssumption`). The latter is what the table is for
(`include/adq/util/Overlay.hpp:78-81`), and true of each of its 1000 numbers; that a size is
prime is not needed. `SystemsAssumption` also wants at least one failure tolerated, as
`init_failures_tolerated` makes it for two meters or more: with a single group
`pick_proxies` writes in front of its vector (`Overlay.cpp:110`). Four kinds of theorems
state a hypothesis of their own (below): most of those about timers speak of the time
in which no two carry one identifier, one about the server of how the application uses it, one
about connections of there being one and no ping, and those about queries without failures of
there being none, of every process being alive and, where needed, of paths that fit.

* `QueryServer_proofs`. `ResultHasQuorum` is not inductive alone: a result must be
  traced to reports. `IInv` adds types, that every result counted was reported
  (`ResultsWereReported`), and that nothing arrives and no timer runs before the
  first query (`NothingBeforeFirstQuery`). Reports are only added, so a quorum once
  there stays (`QuorumIsStable`), and `end_query` picks a value found F + 1 times
  among results of different groups (`OutcomeHasQuorum`). Theorems:
  `ServerInvariant`, `ServerTypeCorrect`, `ResultsHaveQuorum`. From the same
  invariant, `ServerImplementsService`: each action maps to an action of
  `QueryService` or a stutter, with `EndQueryTells` for the `end_query` inside two of them.
  `QueriesInOrder` adds `BatchIsAhead`: what was told is not later than the current
  query, and what waits in the batch is later. It assumes `AppWaits`, an application
  that starts no query before it has heard of all the others: `start_query` takes the
  place of the current query at once, so one that does not wait may overtake a batch.
* `LinuxTimerManager_proofs`, whatever threads call `register_timer`, also at the same
  time. Once an identifier names two timers it always will (`UniqueBefore`), so what
  holds until then can be shown step by step, with `IdentifiersAreUnique` before and after
  the step. That it names one timer is not enough alone: `Inv` relates
  where each thread is in `register_timer` to what the tables and the
  kernel hold (`RegisterInv`, `StageInv`), each kernel timer to its entries
  (`TimerInv`), and the callback thread's variable to both (`LoopInv`). Theorems:
  `TimersInvariant`, `ThreadSurvives`, and `TimersImplementInterface`, the refinement of
  `TimerManager`, all as long as identifiers are unique. `OnlyOverlapsDuplicate` says what ends
  this: nothing but a thread that creates a timer while another is between its own
  `timer_create` and its increment of `next_id`. A program whose
  registrations do not overlap therefore has all three. `TimersTypeCorrect`
  holds even with identifiers handed out twice: `next_id` lags behind
  by as many registrations as are under way (`NextIdLags`).
* `NetworkManager_proofs`, in three layers. `SocketsInv`: an entry of `sockets_by_id`
  is an open socket of a connection with that peer (`EntryInv`), reads wait only on
  entries (`ReadsInv`), what waits to be accepted is open and no entry (`BacklogInv`).
  This is `NetworkTypeCorrect`. `MessagesInv`: each message in a connection or in a
  buffer for a peer was sent by that peer to this node. This is what makes the shared
  buffers harmless (`OnlySentIsHandled`): bodies may be mixed up, senders may not.
  `OneConnectionInv`: between two nodes with one connection and no ping, one thing at a
  time is under way at the end that accepts (`StageInv`), and what arrives, the two
  buffers and the handlers hold as much of the first frame as that stage has read
  (`FrameInv`). The theorem is `FirstSendIsHandled`. A second connection, or a ping, is
  never undone, so the hypothesis of `OneConnectionInv` held in the state before
  (`NextOnlyAdds`). TLC has checked the three as invariants of `Crossing` and
  `Overtaking` too.
* `ProtocolState_proofs`. `SignatureOnlyInSetup` needs to know what is under way
  between a node and the server: in `from_server[n]` a signature comes right after a
  query, or the node waits for it in SETUP (`SignatureFollowsQuery`); as long as the
  server may still sign for a node, the last thing it sent to the node is the query
  (`MayStillSign`). `ControlInv` says so for each
  node that takes part in every query (`SetupInv`), together with what couples
  phase, rounds, `pc` and timers (`LocalInv`). Theorems: `ControlTypeCorrect`,
  `ControlInvariant`, `SignaturesStayInSetup`, `TimersCover`, and for buffers
  `OverlayTypeCorrect`, `BufferStaysAhead`. Nodes in `MaySkip` are outside: after a
  rejected query, signatures of two older requests may follow each other.
  `AggregationTypeCorrect` needs that the loop over buffered aggregates always finds
  one (`DrainHasMessage`), and `TypeCorrect` is the whole of `TypeOK`; that a target
  is always a node comes from `Overlay_proofs`.
  `ContributionsAreGenuine` assumes nothing about failures. What
  makes it inductive is `GenuineInv`: every body anywhere leads (`leads_to`) to a proxy of
  a meter that has contributed, carries only signatures of proxies that received the
  value, and is where it should be by its round (`BodiesInv`); what a proxy holds (`ValuesInv`) and
  each sum (`SumInv`) likewise; and queries reach a node in order (`QueuesInv`), so that
  what a node's state tells of a query is never taken back (`Onward`, `Grows`). Each action
  is shown to leave everything genuine judged by the state before it; `GenuineLift`
  carries that over to the state after it. The paths must end at the proxies
  (`RoutesAssumption`), which `FoundPathsAreDisjoint` says of those `find_paths` returns. TLC has checked
  `GenuineInv` on `two_queries` and `timeouts`.
* `Overlay_proofs`. Of the groups: the two computations of them, by division and as
  ranges, agree. Of the trees: parent and children are inverse, stay in the group, and a
  parent is a smaller node (`ParentIsNode`), so there are no cycles and a least
  element argument (`Induction`) goes down a tree. Of the rounds: `mod_pow` is a
  `while` loop over two variables; the model has it as a recursive function on
  records, `LoopExists` and `LoopResult` show that what holds of its start and is kept by its body holds of
  its result, and what is kept is being invertible: powers of two are, modulo an odd number. So an offset is
  never 0 (`OffsetInRange`), no node is its own target, and the node that waits
  for another is the one it sends to (`PredecessorSends`, `TargetWaits`). More of the
  same loop, started with any result and any base (`power`): it is linear in the
  result (`PowerLinear`), one more in the exponent is one more factor (`PowerNext`), so
  exponents add up and multiply (`PowerAdds`, `PowerOfPower`). These need two values of
  the exponent at once, its half and itself, and go by `Induction` over it.
* `MCOverlay_proofs`, for every system that satisfies the two assumptions and every
  round. Of the overlay, from the lemmas above: `PredecessorsSend`,
  `GroupsAreRanges` (groups computed by
  division and as ranges agree), `ProxiesAreOthers`, `ParentsKnowTheirChildren`, `GroupsAreTrees`.
  Of the powers of two: as they are all n - 1 numbers below n, they
  return to 1 after n - 1 rounds and not before (`RootPeriod`, by counting: a map between
  two sets of one size that reaches all is one to one). So exponents may be reduced modulo
  n - 1, that of round -1 too (`OffsetsArePowers`), and any n - 1 rounds in
  succession have all offsets (`WindowOfOffsets`): `AllNodesAreMet`, `NodesAreMet`. Of the path search:
  what holds of `find_path`'s loop all along is that each infected node has a path
  which the gossip graph has in this order of rounds, and which avoids the excluded nodes (`Infects`,
  kept by `InfectsOn`). Hence `SearchFindsPaths`: what is returned leads to the
  target, before the last round. Of `find_paths`'s loop: the paths so far
  share no node and all their nodes are in use (`FoundSoFar`, kept by
  `FoundSoFarIsKept`). Hence `FoundPathsAreDisjoint` and, since the proxies differ from each other and
  from the source (`ProxiesDiffer`), `PathsDoNotMeet`.
* `ProtocolRounds_proofs`, about one query in which nobody crashes, rejects the query or is given
  up while alive (`NoFailures`), over any routes, for as long as every process is alive
  (`EverybodyAlive`). With failures the properties do not hold. Without crashes a process
  ends only of a message of AGREEMENT that it should pass on (run `relay`), so for routes
  of one hop in AGREEMENT the theorems speak of the whole query, as the run `query` does.
  `find_paths` returns longer ones too; for these they speak of SHUFFLE, where onions are
  relayed, and of what comes before the first relay of AGREEMENT handles such a
  message. After that the code guarantees nothing of the kind: with the routes of `relay` TLC finds
  `NoMessageIsLate` violated once the relay has ended. `ShuffleIsLongEnough` and `ProxiesAreOfOneMind` also
  assume `RoutesFit`: a route ends at its proxy and, sent on at each hop in the first
  round whose target is the next one, arrives before the phase ends. In the program that is what `find_paths` and the
  length of a phase are for (`PathsFitIntoAPhase`). TLC evaluates `NoFailures` and `RoutesFit` for the
  instances of `query` and `relay` (`HypothesesAssumption` in `MCProtocolState`), so they can be met.
  TLC has checked the four properties on `relay` too, with the CONSTRAINT `EverybodyAlive`.
  `RoundsInv`: of a node's messages of one round there is one, and it is final
  (`MessagesInv`); what is in the network or a buffer is for a round its receiver is not
  done with (`ComingInv`); and a node is done with a round only after its predecessor of
  that round has entered it (`AheadInv`), for it is that one's message that ends the round.
  So none is sent for a round that is over, which is `MessagesInTime`.
  `DeliveryInv` follows every contribution and every signature along its schedule:
  before its round it waits at its hop (`Leaves`), from then on it is on its way to the
  next one (`Travels`), and by the end of the round it has come (`PassedHasCome`). Each
  proxy has signed what it got, and holds the signatures that have come (`SignedInv`). At
  the end of phase 1 it so has the signatures of all proxies with enough signatures
  (`EnoughIsAcceptable`, `AcceptableIsEnough`), which is what the others have too.
* `ProtocolSums_proofs`, with the same hypotheses (`NoFailures`, `RoutesFit`, and every process
  alive). `GroupsReportAll`: what a root
  sends to the server is what its group has accepted, each value once. `SumsInv` has a
  ghost `T`: for each node, the children whose sums are in its own. A sum holds
  those of its `T` and, once sent, the node's own values; the number received is the size of
  `T` (`Part`). Sums that are not both part of a third share no value
  (`Apart`), so adding them counts nothing twice. A sum
  that has been sent stays as it was and is under way only once (`Flight`). A node that
  sends has heard all its children (`AllAreTaken`), and by induction down the tree the root has
  all of its group (`RootHasAll`). TLC has checked `SumsInv`, with `T` computed, on `query`.

Only model-checked:

* liveness (`OverlayTerminates`, `EveryGroupReports`, `EveryQueryEnds`,
  `EveryArmedTimerEnds`, `ShutdownCompletes`, `FirstFrameIsHandled`), which TLAPS
  cannot prove with fairness;
* that the path search succeeds in time (`EveryPathIsFound`, `PathsFitIntoAPhase`), which
  depends on particular sizes and on the limits chosen for them. It does not follow from
  those limits: with L = ceil(log2(n)) = F the search may use (2 L + 1) L + 3 rounds, and
  a phase of AGREEMENT has 2 L + L^2 + 1. `RoutesFit` is
  therefore a hypothesis of the theorems that need it, and not derived;
* `Contribution` and what it is built of: `Serialization` is recursive over types
  (RECURSIVE operators), which the provers cannot reason about.

## 5. Not modelled

* The strength of cryptography, key files and `hash.cpp`: reading and writing of
  PEM files and calls of one OpenSSL function, without state.
* Serialization contexts, reads without a copy (`context_ptr`), the debugging
  build with type names in the buffers. `bytes_size` of a vector of PODs calls
  `back()` on an empty vector (`SerializationSupport.hpp:237`), which is undefined
  behaviour that yields the right size in practice; the model takes that size.
* Connections at the level of addresses and ports; writes that are split up;
  what is read after a word has been taken for a size that is none (`Misread`
  stands for all of it).
* The contents of records and the application's functions; `FixedPoint`.
* Lying meters and servers.
* Races between the threads of one process inside a handler of `ProtocolState` or
  `QueryServer`, and on the `std::map`s of the timers.
* Configuration, logging and printing, the example application, the `ini` parser.

## 6. Plan

Done, in this order: overlay arithmetic and paths; client protocol with its helper
classes; server; invariants and first proofs; timers and their refinement; the
query service and its refinement; serialization, cryptography and the way of a
contribution; the network; proofs about server, timers and network; proofs about
the overlay's arithmetic and its paths, about queries without failures (rounds, delivery, agreement, sums), and about
what counts in spite of failures. Next:

1. Proofs: what remains true of rounds when nodes fail.
2. A finer-grained server, whose handlers interleave.
3. The composition of the server with the clients, in place of `GroupReports`,
   and of `ProtocolState` with the network as it is.
4. Crashes in AGGREGATE, and a run that merges `timeouts` and `two_queries`.

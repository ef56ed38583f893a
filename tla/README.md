# Verification of lan-relay

lan-relay is a Windows program that offers one proxy port (SOCKS5 and HTTP) on the
local network and sends everything out of another adapter, usually a PPPoE dial-up.
This directory holds TLA+ modules for its parts, TLC configurations that check them on
small instances, and TLAPS proofs.

Reading order: `Supervisor`, `UdpSession` with `UdpAssoc`, `Connection`, `Outbound`,
`Tunnel` with `Pipe`, `Adapters` with `Selection`, `StartUp`, `Codec`. The proofs about
module `X` are in `XProofs`; `MC*.tla` and `MC*.cfg` hold the instances.

## 1. The system

| Component | State | Operations | Talks to |
| --- | --- | --- | --- |
| Adapter selection (`netmon`) | none | `FetchAdapters`, `findByCfg`, `pickLAN`, `pickWAN`, `changed` | the monitor |
| Adapter monitor (`netmon.Monitor`) | atomic snapshot, callback list under a mutex, `stopped` | `Run`, `refresh`, `OnChange`, `WaitReady`, `Stop` | calls main's callbacks on its own goroutine |
| Start-up and shutdown (`main.go`) | `clash-android.yaml`, channels `restart` (capacity 1) and `quit` | registration of callbacks, `writeClashConfig`, signal handling | monitor, serveAll |
| Listeners (`serveAll`, `mixed.Serve`) | two listeners, the accept loop's `acceptDone` | listen, retry, serve, rebuild, quit | reads the snapshot, consumes `restart` |
| Mixed port and handlers (`mixed.Handle`, `socks5`, `httpproxy`) | the connection, its `bufio.Reader`, its deadlines, the dialled connection | sniff, negotiate, authenticate, request, dial, answer | `outbound.dial`, `relay.Pipe` |
| UDP session (`socks5.udpAssoc`) | two sockets, pinned client, asked targets, last activity, `closed` | control reader, watchdog, two pumps, tear-down | resolver |
| TCP tunnel (`relay.Pipe`) | two connections, two buffers, `done` | copy, half-close, close both | statistics |
| Outbound (`main.outbound`, `bind`) | none of its own | `dial`, `udpEgress`, `control` | snapshot, resolver, the kernel's adapters |
| DNS resolver | cache with expiry, server index | `Lookup`, `nextServer` | snapshot, outbound control |
| Firewall rules and configuration file | rules, file: they outlive the process | `Load`, `WriteDefault`, `Ensure`, `ManualCommand` | netsh, the user |
| SOCKS5 codec | none | `readTarget`, `writeTarget`, `writeReply`, `unwrapUDP`, `wrapUDP` | handlers, UDP session |
| Clash text, status page, `relayprobe` | none | formatting; a manual test client | |

What is hard in it:

* four goroutines (main, monitor, `serveAll`, accept loop) share a snapshot that is read
  without a lock, a callback list that grows while the monitor runs, and a channel that
  holds one token;
* a UDP session has five goroutines, any three of which may end it at the same moment;
* a tunnel has two goroutines that have to stop each other when the peers are silent,
  reset, or do not read;
* deadlines set for one phase of a connection outlive it unless they are cleared;
* one buffered reader is handed from phase to phase and then left behind;
* dials, queries and sessions use a snapshot that lags behind the kernel by up to a poll,
  while a lookup of seconds lies between reading it and binding to it;
* lookups overlap on one cache entry and one rotation counter;
* firewall rules and the configuration file outlive the process, which may be stopped
  anywhere, and a rule is recognised by its name only.

What makes each part correct: the listener follows the LAN address and is never rebuilt
without cause; the selection gives usable adapters and does not flip; each client request
gets one verdict after admission and leaks nothing; a UDP session serves its own client
and the remotes it asked, and ends completely; a tunnel delivers a prefix of what was
sent and ends completely; nothing is dialled from anywhere but the exit, nor with an
expired address; what the firewall lacks is reported; what the codec takes apart it puts
together again. `PROJECT.json` lists the hazards line by line, with the
properties that catch them or the reason why none does.

## 2. Modules and code

### Adapters, Selection
`Adapters` holds `netmon.go:24-252` and `changed` as operators over an enumeration, a
sequence of adapter records. An address keeps its kind (private, public, self-assigned,
loopback, unspecified), a name keeps the verdicts of the two name expressions, and a
configuration string is the record of what it matches in each of the four passes of
`findByCfg`.

A slice the code collects is the set of the positions it took from the enumeration. `Less`
is the comparison of the three `sort.Slice` calls, and `Heads` what may come first after a
sort that is not stable: every candidate that no other one is less than. So `PickLAN` and
`PickWAN` give sets of possible choices and `Snapshots` a set of possible snapshots; that
there is only one, the same for every order of the enumeration, is a property
(`SelectionIgnoresOrder`) which fails as soon as `Less` leaves ties among candidates
(`LessLoosely`). It speaks of `auto` and of configured strings that match one adapter in the
pass that decides; with an ambiguous string `findByCfg` takes the first match and the order
does decide. Ties among other adapters are in the pool: tunnels without IPv4 share index 0.
`Selection` builds every enumeration the way `FetchAdapters` does, one adapter after the
other.

What is chosen has a usable address (`ChosenIsUsable`), but the listener and the dialers use
`LANIP` and `WANIP`, the first address that is not 0.0.0.0, which may be a self-assigned one
that stands before the usable one (`Uplink` of the pool has such a list). No property says
that the address used is usable, because the code does not make it so.

### Supervisor
One action per piece of a goroutine between two accesses to shared state.

| Goroutine | Actions |
| --- | --- |
| `Monitor.Run` | `Refresh` (enumerate, choose, store), `CopyCallbacks`, `CallClash`, `CallRestart`, `CallsDone`, `MonitorStops` |
| `main` | `RegisterClash`, `EvaluateSnapshot`, `WriteFirstClash`, `RegisterRestart`, `SpawnServeAll`, `Signal`, `StopMonitor`, `Exit` |
| `serveAll` | `TakeSnapshot`, `Listen`, `RetryOnToken/Timer/Quit`, `ListenAdmin`, `Rebuild`, `ServeQuits`, `JoinAcceptor` |
| `mixed.Serve` | `AcceptFails`, `AcceptorEnds` |
| environment | `AdaptersChange`, `PortChanges` |

The evaluation of the argument of main's `writeClashConfig(..., mon.Snapshot())` and the
write are separate actions, because the monitor may call its callback in between. A write
of the file is one step: the mixture of two concurrent writes is not modelled, a failed
write may leave the file unchanged or useless. A failed enumeration changes nothing. The
history variable `unanswered` counts stored changes of the LAN address less consumed
tokens. `WaitReady` returns on readiness or after two minutes, so `RegisterClash` has no
guard. `Selected` is the set of snapshots the selection can make of each enumeration, computed
once. `ensureFirewall`
shares nothing with the listeners and is in `StartUp`.

### UdpSession, UdpAssoc
`UdpSession` is what a session promises, in six variables and without goroutines: the
first sender owns it, only the owner is served, only hosts it asked for are passed on, and
nothing moves once it is over. `UdpAssoc` implements it (`SessionSpec`): `phase` is computed
from the handler's position, the sockets and `closed`, `owner` is `clientAddr`, `asked` is
`targets`.

`UdpAssoc` is `handleUDPAssociate` and `udpAssoc`.

| Goroutine | Actions |
| --- | --- |
| handler | `OpenClient`, `OpenEgress`, `ReplyFails`, `Start`, `RunEnds`, `ExpireControl`; its deferred calls `CloseEgress`, `CloseClient` |
| control reader | `ControlEnds`, `ControlClosesClient`, `ControlClosesEgress` |
| watchdog | `WatchdogFindsIdle`, `WatchdogCloses`, `WatchdogClosesClient`, `WatchdogClosesEgress`, `WatchdogEnds` |
| `clientToEgress` | `UpReceives`, `UpReadFails`, `UpSeesClosed`/`UpSeesOpen`, `UpTouches`, `UpPins`, `UpResolves`, `UpStores`, `UpSends`, `UpSendFails` |
| `egressToClient` | `DownReceives`, `DownReadFails`, `DownSeesClosed`/`DownSeesOpen`, `DownTouches`, `DownFilters`, `DownAddresses`, `DownWrites`, `DownWriteFails` |
| environment | `Tick`, `ClockStep`, `PeerLeaves` |

Each action makes one access to what the goroutines share, with two exceptions: `touch` reads
the clock and stores it in one step, and `UpPins` loads and stores `clientAddr` in one step,
which only this pump writes. So the tear-down may come between the look at `closed` and the
touch, the pin, the lookup, the store or the send: a session may be pinned and its targets may
grow when it is already over (`UdpSession` allows both), and one datagram of each pump may
still go out (`LateAtMostOnce`). Likewise a pump may touch between the watchdog's look at
`lastActive` and its close, which ends a session with fresh traffic; `TeardownHasACause` says
that the watchdog had found the session idle, not that it still is.

`closeOnce.Do(close(closed))` is the assignment `closed' = TRUE`: `sync.Once` is taken at its
word, and no property claims that the channel is closed once. There are two clocks: deadlines
are monotonic, `lastActive` is a wall-clock second and the wall clock may step. An endpoint
keeps the form Go has it in, four bytes or IPv4-mapped, because `udpAddrPort` unmaps and the
target set depends on it. Any datagram may arrive at any time, which covers loss, duplication
and reordering; a read or a send may fail while the socket is open, and the pump that met the
error gives up alone.

### Connection
One connection from `Accept` to the end of its handler. The client's bytes are units, one
per parsing step, which move from the socket (`arrived`) to the reader (`br`) in prefixes
of any length, as `bufio` reads them. A unit out of its place is read as what its bytes say:
a request without a greeting begins with 5, goes to SOCKS5 and is taken for a greeting.
Clients follow scripts (`MCScripts`) but send whenever they like, ahead of the answers too.

`Leave` is a return statement, `Unwind` the deferred calls that follow it. Whether the
dialled connection is closed then is the variable `deferred`, which the three functions that
dial set after the dial (`server.go:175`, `httpproxy/server.go:67`, `99`); `Pipe` closes it
as well, and all ways that do not reach `Pipe` depend on the deferral (`RemoteReleased`).

Deadlines and the contexts of the dials (`server.go:165`, `httpproxy/server.go:58`, `91`) are
countdown timers. The network may let a dial succeed or fail at any time (`Dialled`), or
never do either: the handler is only owed the end of the dial when the context's timer is 0,
so that `SetUpEnds` rests on the contexts being there (`DialAtLeisure` is the variant without
them).

A UDP request ends in the state `udp`, where `UdpAssoc` takes over; after `tunnel`, `Pipe`
has the details. `AdmittedFirst` is about SOCKS5: the HTTP side of the same port never asks
for credentials, although `README.md:53` calls the setting the proxy's authentication.
`TCPActive` and `ConnsTotal`, which nothing reads but the status page, are left out.

### Pipe, Tunnel
`relay.Pipe` with both copy goroutines and the peers. A stream is its length: TCP keeps
the order. Writes need a reading peer, so they carry no fairness. `Tunnel` is the promise:
what comes out is a prefix of what went in, and nothing comes out after the end; `Pipe`
implements it with `got <- wrote` and `over` when both of our ends are closed.

### Outbound
`outbound.dial`, `udpEgress` and `control` with the resolver. `os` is the exit as the
kernel has it, `snap` the one in the monitor's snapshot; `Redial` and `Poll` move them.
A goroutine's record `d[p]` follows one dial, one egress socket or one lookup:

| Code | Actions |
| --- | --- |
| `outbound.dial` (TCP) | `BeginDial` (reads and keeps the snapshot), the resolver's actions, `BindDial`, `DialEnds` |
| `udpEgress` | `BeginEgress`, `BindEgress` |
| a UDP session's lookup | `BeginResolve`, the resolver's actions |
| `resolver.Lookup` | `CacheHit`, `CacheMiss`, `Answered`, `StoreAnswer`, `LookupFails` |
| the resolver's dialler | `Draw` (`nextServer`), `Control` (`outbound.control`), `QueryFails` |

`Bound` is what `bind.Control` achieves: `IP_UNICAST_IF` takes an index the kernel knows,
and otherwise fails softly; `Owned` is what the local address adds for TCP. A socket that is
neither bound nor held by its local address is `loose`: the routing table decides. `calm`
and `steady` are history: the exit has not changed since the attempt began; no one else drew
a server since the lookup began. The counter of draws wraps around at `Cycle`, a common
multiple of the lengths of the lists, where its remainders go on as if it had not; the
code's counter (`resolver.go:35`) is an `atomic.Int64`, whose end no process lives to see.
Simplifications: steps take no time but waiting does (`Tick`); one name stands for all; the
queries for A and AAAA of a lookup are one sequence of attempts, so `EveryServerIsAsked`
speaks of servers and not of record types, and since it only speaks of a lookup beside which
no one drew, nothing is claimed of lookups that draw in turn; attempts are not timed against
each other: each wait ends by fairness, which stands for its own timer (5 s for a query, 20 s
for a dial), so that `DialsEnd` shows a bound on the attempts and not the overlap of timers;
each lookup asks on its own, although `net.Resolver` may let concurrent
lookups of a name share one query. `negCacheTTL` is declared in the code and used nowhere:
failures are not cached.

### StartUp
What outlives a run: `relay-config.yaml` and the firewall's rules. `Launch`, `Load` (with
`normalize`), `RuleFound`, `RuleAdded`, `AddFails`, `NotElevated` (one turn of `Ensure`'s
loop each, at position `at` of the rules wanted), `Serve`, and `Stop` at any
point; the user edits the file, generates it, deletes rules and runs the printed commands.
netsh is external: its `show` fails for a missing rule and for any other reason alike, its
`add` may fail. The table keeps for each rule name the ports that rules of this name open:
`Ensure` looks at the name, the properties at the port. `granted` (rules whose port an
elevated run left open), `blind` (names netsh failed to show) and `deleted` (names the user
deleted during the run) are history.

`MissingIsReported` says that by a relay that serves, every port it needs is open or its rule
reported, and names the only exceptions: a rule of that name for another port, a rule behind
a failed addition (`Ensure` returns there, and of the rules after it nothing is said), and a
rule deleted since. The first one contradicts what the package says of itself (section 5).
`OpenedStaysOpen` says what is left of "one run as administrator".

### Codec
`readTarget`, `writeTarget`, `writeReply`, `unwrapUDP`, `wrapUDP`, and `relayprobe`'s
`readReply` and `unwrapProbe`, byte by byte over the datagram `b`, which grows by a byte in
each step. The radix of a byte, the lengths of addresses and the prefix of mapped ones are
constants. A host is what Go's string for it denotes: a mapped IPv6 address is an IPv4 one,
and a name that spells an address (`Spelling`) is that address, as `ParseIP` has it. The
probe's `writeTarget` is the relay's with its cases in another order. A name longer than a
byte can say would be cut by `writeTarget`; it only arises on the probe's command line and
is left out.

## 3. Runs

| Run | Instance | What it shows |
| --- | --- | --- |
| `select` | 11 adapters, enumerations up to 3, 7 x 7 configurations | chosen adapters are usable; the order and the sort's ties make no difference; removing an unchosen adapter changes nothing; dial-up wins and never listens |
| `supervisor` | 3 enumerations, 2 changes, status page on, disk may fail | no lost restart, no rebuild without cause, no listener left over, Clash file at most as old as start-up; the listener ends up on the current LAN address |
| `udp` | 2 senders (symmetric), 1 host, 2 datagrams each way, clock to 3 | sockets released, answers pass, at most one late datagram per pump, tear-down has a cause, implements `UdpSession` |
| `udp_ends` | 1 sender, 1 host, 1 datagram each way, clock to 3 | every goroutine ends |
| `udp_deadline` | 2 senders, 2 hosts, symmetry | **violated** `DocumentedTeardown`: the 15 s handshake deadline ends a live UDP session |
| `pipe` | 3 bytes each way | bytes accounted for, a clean end after the last byte, implements `Tunnel`, both goroutines end |
| `half_close` | as `pipe` | **violated** `EOFIsPassedOn`: the end of one direction ends the other |
| `conn` | 15 scripts, credentials on and off, timers 3/4/6 | one verdict, admission first, what was dialled is closed, no cut tunnel, no hanging set-up |
| `conn_early` | as `conn` | **violated** `StreamIntact`: data sent along with the request is left in the reader |
| `outbound` | 1 TCP dial, 1 UDP session, 2 exits, 2 attempts, 60 s in 2 ticks | connections stay on the exit, no address older than 60 s, a failing lookup has asked every server, dials end |
| `startup` | 2 listen ports, 1 admin port | ports and period are never 0; a closed port is reported, with three exceptions; a port an elevated run left open needs no other |
| `codec` | all datagrams up to 10 bytes, radix 6 | round trip, a cut datagram keeps its target, the probe agrees |

Why the bounds suffice. Two changes of the environment let one restart be under way while
the next is due, which is all a channel of capacity one can tell apart; three are no new
case because tokens coalesce. The three enumerations of `supervisor` are home, another
lease, and a redial on top. None of them lacks a LAN adapter: its loss at run time is not part
of what the run shows of `ListenerFollowsLAN`, which moreover claims an open listener only and
not that its accept loop is alive (`AcceptFails`). The safety properties are proved for any
set of enumerations. Three adapters hold
two that compete for a side and one for the other side or a bystander; the theorems hold for
any number of them. Two senders are the pinned one and
the stranger; a host is a stranger until it is asked for, and hosts do not interact, so one
is both; two datagrams of a pump let the second meet what the first one left, and one tear-down
lie between them. Who sent a datagram decides only whether it goes on, so that one sender and
one datagram each way do for `udp_ends`. 15 s and 120 s are 1
and 2 ticks, and 15, 20 and 30 s are 3, 4 and 6: their order, which is what matters, is
kept. Three bytes let one be delivered, one be held and one be unread. The two exits of
`outbound` share their address and differ in the index, which is the case in which only one
of the two bindings fails; one of them has servers of its own, so that the list changes
under a lookup (with lengths 1 and 2, hence a `Cycle` of 2); a TCP handler beside a UDP
session already overlap in cache and counter. Rules are independent of each other but for
the order of the loop, and two ports let a setting change under a rule. Radix 6 is the least
that holds the protocol's codes; ten bytes hold every form of address with a payload behind
it, and every place to cut them: an IPv6 address that is mapped, and names that spell an
IPv4 address, an IPv6 address or a mapped one. The senders of `udp` and the senders and hosts
of `udp_deadline` are interchangeable, hence the symmetry; no run with liveness uses it.

The larger runs: `udp` 3.7 million states, `startup` 2.1 million, `supervisor` 630,000,
`udp_ends` 420,000; `select` has 54,000, `conn` 21,000. With four adapters `select` would have
over 400,000, each to be compared with all its permutations.

No run switches the deadlock check off: where a component really ends, an explicit stuttering
action (`Ended`, `Over`, `Finished`) says so.

Each property has a mutant, a faulty variant of one action or operator defined beside it
("Faulty variant" in the modules), that violates it.

### Fairness
Goroutines that can run do run: weak fairness for each goroutine, as Go's preemptive
scheduler gives. `Supervisor` counts the poll ticker and the five-second timer as able to
fire, and assumes that enumerations do not fail for ever. `Connection` adds that time
passes; a dial ends by its context at the latest, and nothing makes it end earlier. In
`UdpAssoc` a pump owes no read while its socket is open. In `Outbound` every dial
proceeds, because each of its waits has a timer (5 s for a query, 20 s for a dial); the exit
need not stay nor come back. Nothing else is assumed: no one has to send, answer, read or
leave, and no signal has to come. `EndsCompletely` is the one property with a further
premise, which it states itself: the peers go on reading (`PeersRead`). Without it a
direction can be stuck in a write for good, for no deadline is left on a tunnel.

## 4. Proofs

Every safety invariant and action property of the passing runs is a theorem, and so are
both refinements: they hold for every value of the constants under the named assumptions,
which TLC evaluates in each run. Each module proves one inductive invariant
(`SupervisorProofs` one per property, on top of the types), by
a lemma per goroutine or per handler and a step per action, and takes its theorems from it.

| Module | Theorems (property) | Assumptions |
| --- | --- | --- |
| `SupervisorProofs` | `TypeCorrect`, `RestartNeverLost` (`NoLostRestart`), `RebuildsAreCaused` (`RebuildsNeedAChange`), `ListenersReleased` (`NoLeftovers`), `ClashLagIsBounded` (`ClashLagsOnlyFromStartUp`) | the switches are Boolean, the number of changes a natural number |
| `UdpAssocProofs` | `SessionTypes`, `AtMostOneLate` (`LateAtMostOnce`), `SocketsAreReleased`, `AnswersAlwaysPass`, `TeardownIsCaused`, `UdpAssocImplementsSession` (`SessionSpec`) | 0 < handshake limit < idle limit; `NoClient` is no client |
| `PipeProofs` | `PipeTypes`, `BytesAreAccounted`, `PipeImplementsTunnel` (`TunnelSpec`) | the number of bytes is a natural number |
| `ConnectionProofs` | `ConnectionTypes`, `VerdictsAreSingle`, `DialsAreAdmitted`, `RemotesAreReleased`, `SilenceIsLateness`, `TunnelsOutliveHandshakes` | scripts are sequences of units; timers are not 0 |
| `OutboundProofs` | `OutboundTypes`, `SocketsStayOnExit`, `CachedAddressesAreRecent`, `RotationReachesEveryServer` | there is a built-in server; `Cycle` is a multiple of the lengths of the lists |
| `StartUpProofs` | `StartUpTypes`, `MissingRulesAreReported`, `OpenedPortsStayOpen` | ports are numbers other than 0 (a setting may still be 0), the defaults among them |
| `SelectionProofs` | `SelectionTypes`, `ChoiceIsUsable`, `DialUpCarries`, `OrderIsIgnored`, `OthersDoNotMatter` | an adapter has an index of its own, or the index 0 and no IPv4 address |
| `CodecProofs` | `NothingIsLost` (`RoundTrip`), `CutOffGoesNowhereElse`, `ProbeMeansTheSame` (`ProbeAgrees`) | the radix exceeds 5; an address has at least a byte; what a name spells has the length of an address |

The arguments:

* **Supervisor.** `TypeOK` is inductive by itself because it contains the order of the
  start-up: the callback list is a function of main's position, and `serveAll` exists from
  `running` on. `NoLostRestart` is inductive relative to it: a refresh that moves the LAN
  address makes the callback pending, since by then both callbacks are registered; it stays
  pending until the token is in the channel; and `serveAll` takes the token only on its
  way to a new snapshot. `RebuildsNeedAChange` needs `Owed` (tokens in the channel or on
  their way are covered by stored changes), `NoLeftovers` what is open at each position of
  `serveAll`, and `ClashLagsOnlyFromStartUp` the write that is under way. The selection is
  opaque here: the theorems hold whatever `Snapshots` returns.
* **UdpAssoc.** `SessionInv` adds to the types: how handler, goroutines, sockets and
  channel go together (`LifeInv`: no goroutine before `Start`, sockets closed only after the
  channel is); why a goroutine may close (`CauseInv`: the deadline is still the
  handshake's, the first touch was made, and a watchdog about to close has seen the idle time
  pass); what each pump knows where it stands (`UpInv`, `DownInv`), whatever has been torn
  down meanwhile; and that a pump which has sent a late datagram, or is past the look at a
  channel that is closed by now, will not get past it again (`LateInv`). `AnswersPass` rests
  on the pumps' knowledge: from the pin on a datagram is the pinned client's, at `send` its
  target is stored. For the refinement every action is matched with a step of `UdpSession` or
  a stutter; `PhaseMeans` says which phases a position of the handler allows.
* **Pipe.** `PipeInv` ties the bytes counted, written and held to the position of each copy
  loop, makes a clean direction one that has no more bytes to come, and counts in `dones`
  the directions that are past their signal. Hence no direction writes once both
  ends are closed, which is what `Tunnel` forbids.
* **Connection.** Every unit of the client's stream is in one place at most (`StreamInv`).
  `ControlInv` says at each point of the three handlers which deadlines are set, which
  answers have been given, that a granted login lies behind every request taken in
  while credentials are configured, and that a dialled connection which is not closed has its
  close deferred (`Deferred`), which `Unwind` then makes good. Since clients send ahead, the
  login has to hold from the moment the request is awaited, not from the dial; and the
  tunnel's freedom of deadlines needs that the write timer is SOCKS's alone.
* **Outbound.** `OutboundInv` holds of each goroutine's record separately (`RecordOK`), so
  that `OneMoves` reduces a step of one goroutine to its own record, while `NoLongerSteady`
  and `NoLongerCalm` handle what it does to the others. An entry's age and the time it has
  left add up to `TTL`. For the rotation, `Drawn` names the indexes of the last n draws from
  the remainder of the counter; `SuccMod` and `NextServerMod` show that the remainder counts
  on through the wrap-around, and `FullRound` that n draws with n at least the length leave
  no index out. A list longer than the attempts of `net.Resolver` (`dns_servers` may have
  any length) is not asked to its end; the property says so.
* **StartUp.** `NoneForgotten`: each rule of the configuration before the position `Ensure`
  has come to is `Settled`, that is, its port is open, or it is told of, or one of the three
  exceptions holds. The rules wanted have different names (`AtMostOne`), so that what happens
  to one does not unsettle another. `manual` is empty while elevated, and what an elevated run
  granted stays until the user deletes it.
* **Selection.** The invariant is that an enumeration lists adapters of the pool, each once.
  `PickLANIs` and `PickWANIs` say what the sets of possible choices are in terms of sets of
  adapters instead of positions: the `Best` of a set, which no other one is less than. An
  adapter with an IPv4 address has an index of its own (`UsableHasIndex`), so `Less` is a
  strict order without ties among candidates and the best one is unique; it exists because
  indexes are natural numbers (`BestExists`). `OrderIsIgnored` follows, since a permutation
  leaves the set of adapters alone (`PermutedIs`). `OthersDoNotMatter` compares the enumeration
  with and without a position: `FirstInRemoved` and `FindByCfgRemoved` say that the first
  hit stays the first if it is not the one removed, `BestKept` the same of the best one.
* **Codec.** `Says(d, atyp, a, x, y, t)` relates a datagram to what it says: address type,
  address, the port's bytes, payload. Both readers return its `Meaning` (`Unwrapped`,
  `ProbeUnwrapped`); whatever they take apart said something (`RelayTakes`, `ProbeTakes`);
  and what `wrapUDP` writes of a host says that host (`WrittenSays`), whichever of the three
  spellings it came in. The properties follow without looking at bytes again.

`PipeInvariant`, `SessionInvariant`, `OutboundInvariant`, `StartUpInvariant`,
`ConnectionInvariant` and `DatagramInvariant` are the inductive
invariants as theorems of their specifications.

Only model-checked: liveness (`ListenerFollowsLAN`, `TeardownCompletes`, `EndsCompletely`,
`SetUpEnds`, `DialsEnd`), for TLAPS has no support for fairness here; and
the three violations of section 5, which are single behaviours.

## 5. What the code does otherwise than its texts say

Three disagreements are runs (`expect: violation`), quoted in `PROJECT.json`. The following
are only noted, each beside the property that says what does hold.

* `main.go:107`: the Clash file "is rewritten with the adapters". Main evaluates its
  snapshot before its write and after the callback is registered, so that it can overwrite
  a newer file; `ClashLagsOnlyFromStartUp` says that this is the only way the file lags.
* `netmon.go:164, 203`, `README.md:105`: a configured adapter comes first, the rules are
  for `auto`. `findByCfg` returns nil for `auto` and for an adapter that is not there
  alike, so that a configured exit that is hung up is replaced by another adapter.
* `README.md:68`: every outbound socket is bound to the exit. The sockets of DNS queries and
  of UDP sessions are left to the routing table if the exit's index changed and the monitor
  has not seen it, and an open UDP session keeps the index it began with; see `StaysOnExit`.
* `server.go:38`: authentication is on when both user name and password are set. The code
  (and `Connection`) has it on when either is.
* `config.go:35`, `README.md:52`: `allow_cidrs` restricts the clients. Nothing reads it.
* `README.md:53`: credentials protect the proxy. They protect its SOCKS5 half; an HTTP client
  of the same port is never asked (`TakeHTTPRequest`).
* `firewall_windows.go:3`: the package makes sure that the proxy's ports are let through, and
  `README.md:107` sends the user whose phone cannot connect to one run as administrator. Two
  things stand against it. A rule is looked for by its name only (`firewall_windows.go:71`):
  after a change of `listen_port` or `admin_port` the old rule is found, nothing is added nor
  reported, and the new port stays closed (`RuleFound`; an exception in `MissingIsReported`).
  And the UDP rule is for `listen_port` (`main.go:283`), while a UDP session waits for its
  client on a port the system chooses (`server.go:201`), which no rule opens.

## 6. Not modelled

* The Clash text (`clashconf`), a template; credentials are not quoted for YAML there. What
  is modelled is the address it is generated for and when the file is written.
* The status page's HTML and JSON, and `TCPActive`, `UDPActive` and `ConnsTotal`, which
  only it reads. Its listener is in `Supervisor`.
* YAML parsing, the log file, the text of messages.
* `relayprobe` beyond its codec: a manual client whose dialogue has no concurrency.
* The HTTP message format: a request is one unit of `Connection`, headers are not looked at.
* `net.Resolver`, netsh, the kernel's adapters and the network are external actions, modelled
  by what the code relies on.

## 7. Plan

Every component but those of section 6 is modelled, every property that is not a
liveness property proved. What may be added:

1. The handler of `Connection` and the session of `UdpAssoc` share the deadlines of one
   connection; an abstract specification of a connection (one request, one verdict, then
   relayed data) would state once what both of them promise.
2. Progress invariants behind the liveness properties, as far as they are safety: which
   goroutine can move in each state of a tear-down (`TeardownCompletes`), so that only the
   fairness argument is left to TLC.
3. The hazards without a property are those for which neither code nor documents promise
   anything; they wait for a decision of the project.

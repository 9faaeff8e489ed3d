# Tollgate in TLA+

Tollgate is a filtering proxy and DNS forwarder in Rust, run inside an iOS packet
tunnel, with an app in Swift. This directory models its stateful parts in TLA+,
checks them with TLC on small instances, and proves the invariants of eight of them
with TLAPS for every value of the constants.

## The system

All of the core's network work runs on one current-thread tokio runtime that the
engine owns (`tollgate-ffi/src/engine.rs`). Other threads call into it through the
FFI: the packet loop (`handle_packets`), the path observer and `wake`
(`reset_connections`), the app's messages (`reload_lists`, `forget_pins`, `stop`),
and the dispatch queue of the Swift resolver for local names (`complete_local`,
`set_network`). What a reset or a completion may interrupt is decided by locks,
atomics and awaits, and this is where the models are fine-grained. The app is a
second process: it controls the tunnel, compiles lists and makes the root
certificate, and shares files and a VPN configuration with the tunnel. iOS may end
either process between any two steps.

| Part | Source | Module |
|---|---|---|
| Pin learning | `policy/src/policy.rs` | `PinLearning`, `PinLearningProofs` |
| One DoH upstream | `dns/src/doh.rs` | `DohUpstream`, `DohUpstreamProofs` |
| DoH resolver | `dns/src/doh.rs` | `DohResolver`, `ResolveService` (abstract), `DohResolverProofs` |
| Host lookups of the proxy | `dns/src/lookup.rs`, `engine.rs` | `HostLookups` |
| Local network names | `dns/src/handler.rs`, `engine.rs`, `LocalNameResolver.swift` | `LocalNames`, `LocalNamesProofs` |
| DNS forwarding, start and stop | `dns/src/handler.rs`, `engine.rs` | `DnsForwarding` |
| DNS blocklist | `filter/src/{domain_rules,domain_set,exempt}.rs` | `DomainRules` |
| Wildcard patterns | `filter/src/wildcard.rs` | `Globs`, `PatternIndex` |
| Upstream connection pool | `mitm/src/upstream.rs` | `UpstreamPool`, `UpstreamPoolInv`, `UpstreamPoolSteps`, `UpstreamPoolProofs` |
| Client connections | `mitm/src/{proxy,connect,idle,sink,intercept}.rs` | `ClientConnections`, `ClientConnectionsProofs` |
| CONNECT and TLS handshake | `mitm/src/{connect,hello,rewind,flight,intercept}.rs` | `Handshake` |
| Intercepted requests | `mitm/src/{request,websocket,filtering,body,upstream}.rs` | `Requests` |
| Tunnels, WebSockets, cut connections | `mitm/src/{tunnel,websocket,cut,connect,upstream}.rs` | `Relays` |
| Tunnel controller | `TunnelController.swift`, `ContentView.swift`, `PacketTunnelProvider.swift` | `TunnelControl` |
| List updates | `ListUpdater.swift`, `filter/src/compile.rs` | `ListUpdates` |
| Compiled lists into the engine | `TunnelController.swift`, `engine.rs` | `ListHandover` |
| Saved pins | `engine.rs`, `controls.rs` | `PinsFile`, `AppFilesProofs` |
| Root certificate files | `tollgate-ffi/src/ca.rs` | `CaFiles`, `AppFilesProofs` |

How they interact: `DnsForwarding` sends local names to `LocalNames` and blocks what
`DomainRules` says; `DomainRules` looks patterns up as if one by one, which
`PatternIndex` shows the index does. `HostLookups` uses the resolver as
`ResolveService` describes it, and `DohResolver` is shown to implement
`ResolveService`; its waits are the queries of `DohUpstream`. `Requests` sends
through the pool (`UpstreamPool`), on connections whose end is `ClientConnections`'
and whose start is `Handshake`'s; both teach `PinLearning`, whose pins `PinsFile`
saves. `ListUpdates` writes the files that `ListHandover` brings into the engine.
`TunnelControl` starts and stops the tunnel in which all of this runs.

`PROJECT.json` lists every component, the lines each definition translates, and the
hazards of the code with the properties that cover them.

## Modules

**PinLearning.** One variable per table of `Learning`, plus the wall clock `now` and
a history variable `cause` (which rule taught a host's latest pin). Every operation
of `Policy` that changes the tables runs under one mutex and is one action:
`record_client_rejection`, `learn_upstream_untrusted`, `record_silent_refusal`,
`record_intercepted_handshake`, `on_network_change` and `forget_pins`, each with the
purge of expired pins it starts with and with `make_room`, whose choice among
equally old entries is left open because the hash map's order decides it.
`SteadySpec` has a clock that only moves forward; `Spec` adds a clock that can be
set to any of `ClockSettings`. The vectors of `(host, time)` are sets: neither their
order nor a repeated entry changes what the code does. `u64` saturation is left out:
Unix seconds are far from the limits.

**DohUpstream.** One `Upstream`. `running` is the query that has the runtime thread,
and a query gives it up only at an await (`Waiting` positions). `reset_connections`
comes from another thread and falls between any two atomic operations or lock
sections, so each of those is an action. The network answers, breaks or stays
silent as it likes; the deadlines are actions. `began`, `attempts`, `raced` and the
`epoch` and `began` of a mark are history.

**DohResolver** and **ResolveService.** A call of `resolve` takes a permit of
`MAX_IN_FLIGHT` or returns `Busy`, orders the upstreams (those up first; a
reset under way may or may not have come to each when it is looked at), and tries them
in turn; a down upstream
that is due gets a background probe. A reset that runs during a query may itself make
it fail, and what began before the reset marks nothing. `ResolveService` knows only callers: running,
refused, answered, failed or dropped. `ImplementsService` is the refinement.

**HostLookups.** Callers asking for the same name share a lookup; a leader that gives
up drops its sender, and one of those waiting leads next. Lookups wait for a turn,
then query A and AAAA at once. The DNS forwarder's tasks are beside them, so that
the split of `MAX_IN_FLIGHT` is checked.

**LocalNames.** A query for a local name goes from `handle_packet` through a batch,
under the `local_jobs` lock into a lookup, over the Swift dispatch queue to the
network's resolver, and back through `complete_local`. Answers are reduced to the
network that gave them. `TakeEngine` and `Stop` are the two halves of
`takeAndStopEngine`.

**DnsForwarding.** `handle_packet` for other names: blocked, found in the cache, or
sent to the bounded queue; `forward`'s tasks; `complete`; `reload_lists`; `start` and
`stop`, each start with its own queue and runtime thread. A `stop` called on that
thread itself cannot join it and returns with its tasks still there (`unjoined`).
Cache entries are known by `cache_key`; one may go at any time.

**Globs**, **DomainRules**, **PatternIndex.** Names and patterns are sequences of
bytes, since the matcher and the index walk them byte by byte. `DomainRules` reads
lines in any order, with exemptions, badfilter and the limits, writes the file and
looks hosts up; `AdblockMeans` and `HostsRule` are the reference: what the lines
read say of a host. `PatternIndex` builds the two tries node by node into flat arrays
and looks hosts up in them; its reference is trying every pattern.

**UpstreamPool.** `Pool::send` from checkout to the end of the response body. An
action is what a task does between two awaits; only `Reset` comes from another
thread. A request dials at most once, so a connection, its permit and its slot are
named by the request that dialled it. `Looks` is one turn of `checkout`'s loop.
`Host::ready` is a count of wake-ups on their way. Time is reduced to `worn`, the
pooled connections that are too old or whose streams stall.

**ClientConnections.** Which slot a CONNECT gets (intercepted, blocked,
passed through), how it waits, how the longest idle connection is asked to close,
and how `idle::serve` ends a connection. `Tick` advances time once every due timer
and notification has been handled; the durations keep the order of the source.
Requests in flight on a connection are counted as none or some. A client whose blocked
CONNECT waits may hang up. Once a connection was asked to close, its idle time is no
longer kept: nothing reads it then.

**Handshake.** The ClientHello read in pieces, its replay through `Rewind`, and
`FlightWatch` following the records of the acceptor's flight, several messages to a
record or several records to a message, in writes that end anywhere; then what the
failed handshake is reported as. The flights are those of rustls (external).

**Requests.** Requests of several connections of one origin, interleaved at their
awaits: blocked, misdirected, answered, failed, or upgraded to a WebSocket; what is
learned from the error, what the client is answered and whether its connection is
asked to close; the permit a WebSocket or a body holds. Other connections teach the
policy about the host and have it forgotten again.

**Relays.** Tunnels, WebSockets and pooled connections: `until_path_gone` with its
second check, `copy_until_idle`, and a pooled connection's socket that is cut while
hyper's task may be asleep in a read or a write. The cut and that task share one
thread, so a poll (register the waker, read the flag, ask the socket) is one step. A
WebSocket subscribes to resets before both sides are upgraded and reads the first one
only after (`joins`). An address disappears before the reset that announces it or less than
`PATH_RECHECK` after. Only relays that had subscribed when the reset came are owed
an end by it.

**TunnelControl.** `start`, `stop`, `restartIfRunning` and `load`, each suspended at
its awaits; the flag in UserDefaults that says a restart turned Connect On Demand
off; HTTPS filtering and the record of suspect pins. Of iOS it assumes: a save
succeeds or throws, `startVPNTunnel` may throw, Connect On Demand starts a tunnel
whenever none runs, and the provider's process ends after `stopTunnel` completed.
Reading the status and removing the pins is one main-actor turn. The history
`unseen` marks a manager that a failed load left unset while a tunnel runs (the
record is then cleared although pins may come), and `lost` a flag that a load took
without getting its save done (see Findings) or that a second restart took when both
its load and its save failed; the invariants except these cases, which the code does
not handle. Nor does it tell who turned Connect On Demand off: the VPN may be turned off
in Settings at any time, and a start, a restart past its load or the flag of an
interrupted restart then turns it on again. `wanted` is "unsure" from there, and
`OnDemandAsAsked` says nothing of it. A restart goes by the configuration it loaded,
which a later load may or may not have replaced. A `config.json` that cannot be saved
leaves HTTPS filtering as it was, with the pins' record set if the certificate was the
reason.

**ListUpdates**, **ListHandover.** A run of `ListUpdater` with its downloads, the
compile's two files written one after the other, and its bookkeeping, while settings
are edited; then `listsUpdated`, whose overlapping calls share one task, and
`reload_lists`, which reads two files that a compile may be replacing. The app may end
between two writes of one turn: `lists.json` and the mark of the change, the two of
`recordAttempt`, the corrections and the end of the mark. An edit whose mark was cut off
(`unmarked`) is not noticed until the next edit or run; `FilesStandForSettings` excepts
it. The controller of `ListHandover` goes by `status`, its copy of the connection's,
which is `.invalid` until a load and may lag behind; older statistics, used when the
tunnel does not answer, may say anything. `missed` marks what the code gives up on, and
`NoListsForgotten` excepts it until the engine is replaced or gets the lists: the app
ended, or its compile failed after `engine.dat`; a tunnel was taken to be off, or still
starting after a restart, because `status` was behind (the comment "off: the next start
loads the new files" does not hold for it); a restart was not made; a reload failed, or
was answered by a provider that had no engine yet (before the first unlock).

**PinsFile**, **CaFiles.** Writers on several threads under a lock, writes that fail,
processes that end, and a second process that edits or reads the files. In `PinsFile`,
`raced` marks an edit by the app that a launching tunnel did not see; the invariants
except it. The pins' `learned_at` times are left out.

## Model checking

Each `MC` module names model values and sets; the `.cfg` files choose among them.
Four `MC` modules hold several machines that share no variable: `machine`, chosen in
the initial state, says which one runs, the others stay where they begin, and so one
run explores each on its own. Times are for two workers.

| Run | Machines | Shows | States |
|---|---|---|---|
| `PinLearningSteady` | PinLearning | `ListsMatchPins`, `NoBurstOfPins` | 953 000, 80 s |
| `PinLearningClock` | PinLearning | `PinTables`, `AlertPinsKept` | 747 000, 80 s |
| `DohUpstream` | DohUpstream | `ResetsHold`, `QueriesEnd` | 291 000, 70 s |
| `DohResolver` | DohResolver, HostLookups | `FailsOnlyIfAllFail`, `ImplementsService`, `ComesBack`; `NeverBusy`, `OneLeader`, `LookupsEnd` | 169 000, 3 min |
| `LocalNamesJobs` | LocalNames | `EachQueryOnce`, `KeptArrivedHere`, `QueriesAnswered` | 285 000, 95 s |
| `DnsForwarding` | DnsForwarding, DomainRules, PatternIndex | `RepliesFit`, `AnsweredUnlessStopped`; `BlocksWhatTheListsSay`, `LimitsKept`; `FindsWhatMatches` | 138 000, 3 min |
| `UpstreamPool` | UpstreamPool | `ConnectionsAccounted`, `SentOnce`, `HandedOutAfterReset`, `RequestsEnd` | 204 000, 2 min |
| `ClientConnections` | ClientConnections | `SlotsAccounted`, `PutOffOnlyIfFull`, `AskedEnds` | 113 000, 90 s |
| `Requests` | Requests, Handshake | `AnswersFit`; `NothingLost`, `RefusalsReal` | 187 000, 40 s |
| `Relays` | Relays | `CheckAhead`, `DeadRelaysEnd`, `HealthyGoOn` | 249 000, 3 min |
| `App` | TunnelControl, ListHandover, ListUpdates, PinsFile, CaFiles | `RecordOutlivesPins`, `OnDemandAsAsked`; `NoListsForgotten`, `CallersReturn`; `FilesStandForSettings`; `PinsKept`; `RootKept` | 1 022 000, 3 min |
| `TunnelControlPause` | TunnelControl | violation, see Findings | |

Each property's comment says what it claims. Several are conjunctions that include
the module's type invariant:

* `PinTables`: the tables stay within their limit, hold nothing pending for a pin,
  and the lists take back their own pins only, however the clock is set.
* `ResetsHold`: no mark of an earlier reset count stays; old attempts neither mark
  nor share outside two named windows; generations identify connections; at most
  three attempts.
* `OneLeader`: one leader per lookup, and nobody waits on a lookup nobody makes.
* `EachQueryOnce`: no query is answered twice or lost, and the two tables of lookups
  agree (the `expect` in `engine.rs` cannot fail).
* `RepliesFit`: a query handled after its name was blocked never gets an upstream's
  answer, DNSSEC records only go to those who asked for them, and once `stop` has
  returned, unless the runtime's own thread called it, no task of that start is left that
  could reply.
* `BlocksWhatTheListsSay`: a host is blocked exactly if the reference says so; an
  exempt host is left alone.
* `LimitsKept`: the pattern limits are kept and used, exceptions first.
* `FindsWhatMatches`: nodes are queued in the order they are numbered, the arrays fit
  and are sorted, and a lookup finds what trying every pattern would.
* `ConnectionsAccounted`: one place per HTTP/1.1 connection, idle or in use by one
  request; permits conserved; the limit of HTTP/1.1 origins; no wake-up lost there. Where
  the servers of an origin choose different protocols, a request woken for an idle
  HTTP/1.1 connection may take the shared HTTP/2 one instead, and the next to wait is
  woken only when a slot is left; that it is served in the end is part of `RequestsEnd`.
* `AnswersFit`: a client is told to retry only where the host was to be passed through
  when it was told (the pin may be gone again before it does);
  what a blocked request gets depends on its sender alone; a page sees a failure as
  one; an answer given once the host is passed through closes the connection, unless
  it upgraded a WebSocket; permits are accounted for.
* `DeadRelaysEnd`: a relay whose address left ends, and so does a silent tunnel;
  `HealthyGoOn`: no other does by the proxy's doing.
* `AskedEnds`: a connection asked to close does, if time and again nothing is in flight
  on it.
* `OnDemandAsAsked`: a tunnel the user turned off stays off, and a restart that was
  interrupted is remembered; the exceptions are above.
* `CallersReturn`: if no message to the tunnel and no call into iOS hangs for ever
  (`send` has no deadline), every call of `listsUpdated` returns.
* `FilesStandForSettings`: what is compiled stands for the settings or a run is due,
  also when a list could not be had.
* `RootKept`: a certificate on disk has its key next to it, the root the user may have
  installed is the one on disk, and the tunnel never reads parts of two pairs.

**Bounds.** Every bound is a constant named `Max...`, or a limit of the code made
small enough to be reached.

* `PinLearning`: `MaxClock` bounds the steady clock, `ClockSettings` the readings it
  may be set to, `MaxPerSecond` the connections counted in one second. The windows are
  one to four seconds in the order the code's constants have (`WindowAssumption`), with
  bursts of two or three hosts and tables of two or three entries.
* `DohUpstream`: two queries, so that one may share or discard what the other opened,
  one reset; the proofs are for any number. The two are alike, so the one polled first is
  called `q1`.
* `DohResolver`: two upstreams and one whose URL is refused, two calls, one permit, one
  reset. `HostLookups`: three callers for one name, one for another, one address; four
  permits of which half are the lookups'.
* `LocalNames`: four queries, one lookup at a time of two queries, batches of two, one
  change of network.
* `DnsForwarding`: the same name asked three times, once with the DO bit (of the two without,
  which are alike, the one handled first is called `before`); a queue of one and one task;
  two starts, one reload. `DomainRules`: any three of 14 adblock rules and a hosts line, in any order, two patterns at most of which one without literal ends;
  nine hosts are looked up. `PatternIndex`: each pattern of up to four bytes over a
  letter, star and dot alone, and two or three of eight that share heads and tails.
* `UpstreamPool`: three requests for one HTTP/1.1 origin, two for one whose servers choose
  different protocols, or three for an origin each; three are needed for one to take the
  slot that a second waits for and leave it with an idle connection.
* `ClientConnections`: three connections for one slot of each kind; `MaxLate` bounds the
  requests that come at the moment a connection is asked to close.
* `Requests`: two requests of one HTTP/2 connection, one upgrade on HTTP/1.1, one permit.
  `Handshake`: a hello of two units, headers of two, a message buffer of two.
* `Relays`: two relays of three kinds, two links, two resets.
* `App`: `TunnelControl` with three taps of the user and two kills; `ListHandover` with
  three compiles, a kill of the app or a restart of the phone, and two ends of the
  tunnel; `ListUpdates` with two
  edits, three runs, a kill; `PinsFile` with three changes, two starts, one failed write,
  one end; `CaFiles` with two callers, three pairs, three failures.

**Deadlock** is checked wherever something can always happen: `PinLearning`,
`DohResolver` and `HostLookups`, `UpstreamPool`, `ClientConnections`, `Relays`. The
other models end when every query, request or file is done or a bound is used up.

**Fairness.** Nothing is assumed of the network unless said so.

* `DohUpstream`: the runtime goes on with the query that has the thread and polls every
  new one; timers fire (`tokio::time::timeout` covers every wait of an attempt); a
  `reset_connections` call finishes. Strong fairness is needed because the thread may be
  busy with another query each time a deadline is due; a single-threaded runtime returns
  to its timers after each task.
* `DohResolver`: calls go on, since each of their waits has a deadline; probes end; marks
  expire; a reset finishes. `HostLookups`: a lookup's wait ends, by its answer or by
  `LOOKUP_TIMEOUT`.
* `LocalNames`: `handle_packets` returns, the dispatch queue runs what is queued, and a
  lookup ends (a 2 s timer is set in `begin`).
* `DnsForwarding`: the packet loop and the runtime go on, a resolve ends, a start ends.
* `UpstreamPool`: a task that is ready is polled, with fair semaphores and a fair mutex;
  `connect` and `global_permit` have deadlines; the reaper has a period; idle
  connections grow old; a connection whose senders are gone ends. That a server answers
  or the connection fails, and that a body ends or is dropped, is assumed of the
  environment: the code sets no deadline on either.
* `ClientConnections`, `Relays`: due timers and notifications are handled, and time
  passes. That requests in flight end is not assumed (`AskedEnds` has it as a premise):
  the proxy sets no deadline on an origin's answer or its body.
* `ListHandover`: the controller takes its own steps, its wait for a restarted tunnel
  has an end, and a compile that began ends. Of iOS and the tunnel nothing is assumed;
  `CallersReturn` has it as a premise that their answers come.

## Proofs

Each proof module extends its component and TLAPS and proves its theorems for any
values of the constants that satisfy the named assumptions. `AppFilesProofs` has two
components: it extends `PinsFile` and instantiates `CaFiles`.

`PinLearningProofs`, for `Spec` (the clock may be set) and any hosts, windows and
limits; `PinTablesHold` is the conjunction of the first three:

* `TakesBackOwnPins`, from `OwnLists`: a listed entry is no later pin of another rule.
  The invariant speaks of all entries, not only those of live pins, because an expired
  pin's entry stays and its time can be reached again.
* `TablesBounded` and `PinnedHasNothingPending`, from `TablesInv`: `make_room` leaves
  room, and every table operation inserts at most one host after it.
* `TypeOK`, from `TypeInv` and `TablesInv`; the bound on pending refusals needs that a
  host reaching `SILENT_REFUSALS` leaves the table in the same step.
* `AlertPinsKept`, an action property, from `OwnLists` and one lemma per operation on
  which pins it may drop.

For `SteadySpec`, whose clock only moves forward:

* `ListsMatchPins`, from `SteadyInv`: no table holds a time of the future (`TimesPassed`),
  and every pin that is still within a rule's window is in that rule's list.
* `NoBurstOfPins`, from the same, with `RefusalsNoted`: the host of each pin that a silent
  burst would take back is still noted as refused within the window, so that it is counted
  before one is added, and the burst takes its pins back in the step that completes it.

`DohUpstreamProofs`, for any queries, resetting threads and resets; `ResetsHoldHolds`
is the conjunction:

* `TypeOK`, with the scheduling invariant: the running query is the only one at an
  active position, and only registered queries are notified.
* `NoStaleMark`, from `MarkInv`: a mark is of the present count, or a reset has yet to
  clear it, or the query that set it has yet to check again.
* `GenerationIdentifies`, from `GenInv`: the slot's generation is never below a query's,
  and equal generations mean the same connection.
* `HoldsUnlessRaced`, from `MarkInv` and `RaceInv`, which says of each position of a
  query, as long as no reset began in one of the two windows, how the count it read
  relates to the connection it holds.
* `AttemptsBounded`, from `AttemptsInv`: by its position and by whether a reset has
  stopped it, how many attempts a query can have made.

`AppFilesProofs`, on `PinsFile`, for any hosts and any number of changes, starts, failures
and ends: `PinsKept` and `NeverOlder` (no save replaces newer pins with older ones) from
one invariant. What the file will hold next is with the save that has the lock (`Held`) or
with the app (`Edits`); both are at least as new as the file and lack what is gone. `saved` follows the file during a write too (`Follows`),
and without an engine nothing is in memory (`Memory`).

`AppFilesProofs`, on `CaFiles`, for any callers: `RootKept`, from what a caller that has generated a pair
knows (`Inside`: no certificate is on disk, and at its second write the key on disk is
its own) and what `load_ca` knows between its two reads (`Reading`: the certificate it
has read is the one on disk).

`DohResolverProofs`, for any callers, upstreams and resets:

* `FailsOnlyIfAllFail`: an upstream that a running call has not tried yet is ahead of it
  in `todo`, and every other one was in trouble since the call began, or a reset ran
  while it was tried. `todo` begins with
  every upstream because what `order` returns covers them all, whatever marks it saw.
* `ImplementsServiceSafely`: the initial states and every step are initial states and
  steps of `ResolveService`. It needs that the permits left and the running calls add up
  to `MAX_IN_FLIGHT`, so that `Busy` is returned exactly when that many run.

`LocalNamesProofs`, for any queries, limits and changes of network:

* `EachQueryOnce`: a query is in one place, because no two jobs of the batch, of a lookup
  or in the hands of `complete_local` are for the same query, no two of these hold the same
  query, and a query that is in one of them has no reply yet. The two tables agree in the
  strong sense that each is the inverse of the other.
* `KeptArrivedHere`: a job carries the network it arrived on, and the answers kept are
  cleared when that changes.

`ClientConnectionsProofs`, for any connections, limits and durations in the order that
`connect.rs` asserts: `SlotsAccounted`. The permits of a kind and the connections that hold
one add up to its limit (`CountsInv`); nobody is in a queue twice, and who is in one waits
(`QueuesInv`), so that the permit `Release` passes on goes to a connection without one
(`OwnersInv`); and a connection that was asked to close is open and marked until it ends
(`AskedInv`), so that `reclaim_longest_idle` does not pick it again.

`UpstreamPoolSteps` and `UpstreamPoolProofs`, for any requests, origins, limits and number
of resets. The actions are long, since each is all a task does between two awaits, so the
proof has two halves, between which `UpstreamPoolInv` keeps the definitions.
`UpstreamPoolSteps` shows that every step is of one of some fifteen kinds (`Kinds`, lemma
`StepIs`): what it does to one request or connection, to the pools (they only shrink; or
one connection is returned, with a wake-up; or one is dialled) and to the permits. A reset
that `hosts()` has yet to apply, the reaper and the loop of `checkout` are dealt with
there. `UpstreamPoolProofs` shows that each kind preserves each part of the inductive
invariant `Inv`, which TLC checked beforehand for up to four requests (not one of the runs
above). Both assume `Counts`, what they use of cardinalities, which `CountsHold` proves
from the theorems on finite sets and `PoolAssumption`:

* `SentOnce`, from `SentInv`: a request that has no response yet was not sent, or once and
  may go out again on a new connection only.
* `HandedOutAfterReset`, an action property, from `PoolsInv`: what is pooled and open was
  pooled after the resets that the table has seen, and `hosts()` empties a table that has
  not seen them all.
* `ConnectionsAccounted`, from the rest. `OnceInv`: an open HTTP/1.1 connection is idle at
  one place of one origin or held by one request, never both. `PermitsInv` and `LimitsInv`:
  who holds a permit, a slot or the dial lock, by where it is. `H1Inv`: at an HTTP/1.1
  origin whatever connects or is open has a slot, because nobody has one while the protocol
  is unknown but the request with the dial lock. `WakeInv`: there is a wake-up for each idle
  connection or for each request that waits; `NoLostWakeup` alone is not inductive, since
  one wake-up may be used up while two connections are idle.

Only model-checked: the liveness properties, and `ImplementsService` with its fairness;
`PutOffOnlyIfFull`, which counts ticks along a chain of connections that were asked; and
the invariants of the other modules. What `glob_matches` and the tries compute for every
input would need induction over sequences, which is out of the prover's reach.

## Findings

`TunnelControlPause`: `restoreOnDemandAfterInterruptedRestart` removes the flag before it
saves the configuration (`TunnelController.swift:130`). When the app is killed during the
save, or the save throws, Connect On Demand stays off and nothing is left that says so.
`TunnelController.swift:42`: "If the app is suspended or killed before the restart turns
it back on, the next load does".

The models also name these cases, in which the code does something other than a comment
says; the properties except each of them explicitly, and hold otherwise:

* `policy.rs:647-648`, "other pins are kept": after the clock was set back, an upstream
  pin learned at the same reading as an expired silent one is still in the `silent` list
  and is taken back by a silent burst (`TakesBackOwnPins` claims it of the upstream list
  and of alert pins; `ListsMatchPins`, with a steady clock, of all).
* `doh.rs:140-142` and `241-243`: a reset between the epoch check and the slot lock leaves
  an old connection in the slot; one between `open_sender` and the epoch read lets an
  attempt on the old connection mark the upstream down. `HoldsUnlessRaced` shows that
  these two windows are the only ones.
* `LocalNameResolver.swift:98-99`: a query that joins a lookup begun on the previous
  network has that network's answer kept on the new one (`KeptArrivedHere` speaks of
  where the query arrived).
* `upstream.rs:685-686`: a dial begun before a reset stores its failure after the reset
  cleared the last one (line 1000), and a request begun after the reset fails with it
  without dialing.
* `upstream.rs:3-4` promises the connection limit to every HTTP/1.1 origin; one that spoke
  HTTP/2 before can exceed it, since `checkout` then dials without a slot.
* `request.rs:94-101` describes what a client gets for a failure; a failed WebSocket dial
  is answered with 502 whatever failed (`websocket.rs:46`).

## Not modelled

* Byte formats: DNS messages and packets (`wire.rs`, `packet.rs`, `answer.rs`), the
  blocklist file's layout and its validation on loading, list syntax detection.
* Cryptography and set-up: issuing certificates, the configuration profile, TLS, TCP.
* Matching of URL rules, which is the adblock library's; `classify` and host patterns of
  the policy, which are lookups in tables that do not change.
* The TTLs and the LRU order of the answer cache; statistics, events and logs; the clock
  readings of `common`.
* The accept loop's back-off and the shutdown of client connections; path observation,
  memory reports and waiting for protected data in the packet tunnel provider.
* In `ListUpdates`: seeding the built-in caches, and two lists with the same address. In
  `DomainRules`: names over the length limits, hosts lines that repeat a name, and two
  names with one hash.
* The app's screens, and the development proxy.

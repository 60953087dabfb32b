# TLA+ models of wantasticd

wantasticd is the agent of the Wantastic overlay network: a WireGuard-based
daemon that keeps a tunnel to a tenant server (the coordinator), negotiates
direct paths to other devices, can share its internet access or its LAN, and is
managed over a USP-like control protocol (WUSP) that travels inside the tunnel.

This directory holds TLA+ specifications of the parts whose correctness depends
on interleavings, failures and order, the TLC configurations that check them on
small instances, and TLAPS proofs of what matters most. Paths below are relative
to the repository; `device/wireguard-go/device` is short for
`src/internal/device/wireguard-go/device`.

## 1. The system and its parts

| Part | State it keeps | Operations | What is hard |
|---|---|---|---|
| WUSP control fragments (`wusp_fragments.go`, `control_fragments.go`) | assemblies by (peer, message ID), bytes charged per peer | cut, pad, reassemble, expire | loss, reordering, ID reuse, a budget charged and released in several places |
| P2P client (`p2p_client.go`) | peers by ID, sessions by peer and by nonce, a key index, destinations for the packet path; WireGuard peers and their routes | peer lists, punch relays, punches, promotion, teardown, maintenance | six kinds of goroutine; every WireGuard call happens after the lock was released; IDs are recycled |
| P2P NAT strategies (`p2p_nat.go`) | a spray limiter | candidate ports, pacing | one spray at a time |
| Exit-node sharing (`exitnode.go`, `exitnode/nat.go`, `exitnode/state.go`) | offer, installed NAT, state file, guard flag | opt in, opt out, repair, start, stop | host state outlives the process; an engine outlives its tunnel in the hands of a caller |
| Local-access sharing (`local_access.go`) | a flag, published routes, firewall rules | enable, disable, route updates | shares the forwarding switch with exit sharing |
| Exit-node client (`exitnode.go` 550-1173, `exitnode/routes.go`) | chosen exit, its grant, installed routes with their gateway, phase | use, clear, reconcile, activate, deactivate, panic breaker | many host commands and one save; the physical gateway, the peer's addresses and the permission change under it; waiters that read current state |
| Agent and tunnel lifecycle (`main.go`, `agent.go`, `connection.go`, `device.go`) | running flags, workers, what is to be undone | Start, Stop, Connect, Disconnect, account switch, self-update | Start and Stop from several goroutines; flags that survive one and not the other; a worker that stops the agent |
| USP replay window (`agent/usp.go`, `wusp/read_replay.go`) | requests under way and replies kept, by identity | begin, wait, complete, abort, expire, evict, resend parts | a goroutine per request; a repeat may meet its original at any point; limits on entries and bytes |
| USP data-model cache (`agent/usp_cache.go`) | the last snapshot in memory and on disk, sweep flags, timers | collect, set, patch, sweep, warm up, reload | sweeps take tens of seconds and store over what was written meanwhile |
| USP operations, subscriptions and streams (`agent/usp*.go`, `wusp/*`) | transfers, subscriptions | operate, notify, transfer | windows, resends, cancellation |
| DNS manager, port mapping, updater, accounts and authentication | small state machines around I/O | refresh, renew, switch, install | timeouts and retries, partial failure |
| Codecs, generated data model, telemetry, CLI, installers | none of interest | | |

How they interact: the WireGuard receive path hands WUSP payloads to
`consumeWUSPPayload` and punches to the P2P client's queue; the P2P client
configures WireGuard peers through IPC and moves /32 routes between relay and
direct peers; `Device.Start` starts the P2P client and the exit engine and
`Device.Stop` stops them; the local API and the controller call
`Device.SetExitOffer`; exit sharing and local access both switch IP forwarding.
An exit and its users talk through TUN control messages; the client part of the
engine shares its lock, loop and state file with the sharing part. A WUSP request
is reassembled from fragments, goes through the replay window to the agent, and
is mostly answered from the data-model cache; its reply is cut into fragments
again. `main` owns the agent, the agent owns the device and the workers, and the
local API lets users take the tunnel down and up in between.

`PROJECT.json` lists every part with its status, and the hazards of the code at
the line where they bite.

## 2. Modules

| Module | What it models |
|---|---|
| `WuspFragments` | senders, the network, the receiver's reassembly and budget |
| `MCWuspFragments` | instances with scaled sizes |
| `Sums` | sums of a function over a finite set: the lemmas two proof modules use |
| `WuspFragmentsProofs` | the budget, the charges, and what is handed up, proved |
| `P2PClient` | the client's locked table, its goroutines, the WireGuard peers and routes |
| `MCP2PClient` | instances: stable and recycled IDs, the coordinator's key among the devices |
| `P2PClientProofs` | consistency of the table, fresh indexes, kept entries; sessions, validations and activations while IDs are stable, proved |
| `ExitShare` | exit sharing and local-access sharing on a Linux host with iptables, tunnel starts and stops, crashes |
| `MCExitShare` | instances |
| `ExitShareProofs` | the guard follows the offer, and what exit sharing leaves on the host, proved |
| `ExitClient` | using an exit node on a Linux host: calls, loop, host commands, messages, panics, crashes |
| `MCExitClient` | instances |
| `ExitClientProofs` | types, recorded routes, fail-open and the default route, proved |
| `AnswerOnce` | abstract specification: what a controller that repeats requests may rely on |
| `UspReplay` | the replay window with its handlers and a controller; implements `AnswerOnce` |
| `MCUspReplay` | instances |
| `UspReplayProofs` | types, open executions, unmixed replies, limits and the refinement, proved |
| `UspCache` | the data-model cache: callers, sweeps, timers, file, device |
| `MCUspCache` | instances |
| `UspCacheProofs` | types and every safety property of the cache, proved |
| `AgentLifecycle` | main, agents, devices, workers and API calls over the life of the process |
| `MCAgentLifecycle` | instances |
| `AgentLifecycleProofs` | types, settled devices and released hosts, proved |

### WuspFragments

`SendWUSP` and `ReplyControlPayload` cut a message into frames and put them into
`net`, a set: packets may be lost or overtaken but not duplicated, because
WireGuard's replay filter drops duplicates. `Receive` takes one packet and prunes
expired assemblies, `Consume` is the locked section of `consumeWUSPPayload`:
expiry, the two budget checks, a count mismatch, completion. `Restart` resets a
sender's message counter as a new process does. A frame carries the number of
the message it was cut from and the size it was cut to as history fields; no byte
of the wire does.

Abstractions: payload bytes are counted, not stored; compression is disabled in
the code and left out; the cap on the number of fragments is left out because a
message at the cap exceeds the budget anyway; the tunnel MTU exceeds the
datagram budget, so padding is always to the full multiple. The sizes in the
instances are scaled (datagram 8, header 4, padding 4 for 1200, 23 and 16). The
budget of an answer comes with its request and may be any size from 24 to 1200
(`RequestedResponseMaxControlPayload`); the instance has one that is a multiple of
the padding and one that is not.

### P2PClient

`tab` is what `P2PClient.mu` guards; one locked section is one action. What the
code does after an unlock is an action of the thread that does it:

- `ListBegin`, `ListEntry`, `ListEnd`: `handlePeerList`, entry by entry, with
  `Renumber` and `Rebuild` as in `renumberPeerLocked` and `rebuildIndexesLocked`;
- `RelayIgnored`, `RelayRefused`, `RelayJoins`, `RelayStarts`, then `Schedule`:
  the paths of `handlePunchRelay`;
- `HandlePunch`, `Prepare`: an authenticated punch, the WireGuard candidate and
  the promotion queue with its overflow;
- `PunchEnds`: the punch loop at its deadline or when told to stop;
- `TakeJob`, `Validated`, `ValidationTimeout`, `Activate`, `Commit`,
  `FailDirectPromotion`, `DropOrphanCandidate`: `promotionWorker`;
- `MaintenancePass`, `MaintenanceTeardown`: `maintenanceLoop`;
- `Remove`, `Restore`: `RemovePeer` and `restoreRelayRoute` after an unlock;
- `Handshake`: a completed WireGuard handshake.

Abstractions: a comparison of the clock with a threshold is a choice where the
code compares, so every timing is covered, impossible ones included; VPN
addresses are identified with keys; registration, names, keepalives, attempt
gates, `Close` and the NAT plans are left out; `TryP2P` may be called at any time,
which covers the attempt queue; the double-checked lookups of `HandlePunch` are
one section; an entry without a key has no address, so it is no destination and its
teardown moves no route (the code still knows the address). `rebuildIndexesLocked`
iterates a Go map, and which of two entries with the same key wins depends on the
iteration, so `Rebuild` is a set of tables.

A list may name an ID or a key twice, and its entries, like relays, come with a key
or without. A listed zero key passes the check for recycled IDs
(`p2p_client.go:735`), and line 765 overwrites the key of the entry, active or not:
that step is in `ListEntry`. What follows from it is not small. The active entry may
learn a key again, from a later list (any key, the coordinator's too) or from a relay
that joins the running attempt; the latter returns without
`rebuildIndexesLocked`, so the learned key is in no index until the next rebuild.
`learned`, a history variable, holds such keys, and `OneEntryPerKey` and
`IndexesFresh` except them. `Heard` is the test of a relay for an established peer.

### ExitShare

A device has one engine for each start of its tunnel (`st[g]`), and `exit` is
the current one. Three kinds of thread use engines: `Callers` run
`SetExitOffer`, `Loop` is the reconcile loop (`ensureNAT`), `Tunnel` runs
`Agent.Start`, `Connect`, `Disconnect` and `Agent.Stop`. A caller keeps the
engine it fetched (`gen`), so it may go on with one that was stopped. A section
under `e.mu` is one action, except that `disableNATLocked` reads
`localAccessShared` in one step and changes the host in the next (`Drop`,
`Move`), as local access does not take that lock. `rules`, `fwd`, `lan` and
`uplink` are the host and `disk` the state file: they survive `Crash`.

Four variables belong to the specification and not to the program. `base` is the
forwarding switch before the daemon first ran. `wish` is the last choice the user
was told is in force. `late` records that a call went on with an engine that was
no longer in charge, `lost` that the process ended while the file did not tell
how to undo what was on the host. The last two delimit what the code keeps from
what it does not: `GuardNeedsOffer` and `NothingLingers` are stated for behaviours
that avoid those situations, and the properties of section 4 say what happens in
them. The actions change the history and never read it.

Abstractions: the iptables backend on Linux; all rules of a plan are one element
of `rules`, the plan's uplink; the client side of the engine and the announcements
to peers are the subject of `ExitClient`; the userspace exit is left out; `DisableLocalAccess` by the
advertiser worker is part of `Stop(TRUE)`, which waits for the workers;
`Agent.Stop` is serialised with `Connect` and `Disconnect` (in the code it does
not take their mutex: `AgentLifecycle`). `SetExitOffer` is not called during
`Agent.Start`: the local API opens at its end, but the controller's path
(`exitnode_wusp.go:122`) is there once the device is up, so in the code such a call can
race the rest of the start; the model has that race in `Connect`, which starts the
device in the same way while callers are served. `Agent.Stop` of a device that is
already down only ends the process and is left out; the rule change and the save of
`Move` are one step, as a crash between the two is one that `lost` excepts already. The
legacy configuration flag is covered by an initial file that offers.

### ExitClient

`e` is the part of `exitEngine` that `UseExitNode` and `reconcileClient` work
with, `disk` the part of the state file that belongs to it. `lock` is `e.mu`: when
it is held it says what its holder has still to do on the host. `activateLocked`
and `deactivateLocked` are cut between host commands (`Install`, `InstallFails`,
`Activated`; `DropSplit`, `TakeBack`, `DropRest`, `DropNAT`), so that an event of the
environment can come between them; the rest of the function that called them is in
`After` and `Leaves`. A group of deletions by `deleteRoutesLocked` is one step when it
comes to its end. It does three things that a single step would hide, and all are
modelled: any of its commands may fail, which is logged, and the route is forgotten all
the same (`Forgets`, and so for `DisableNAT`, whose error is ignored, and for
`cleanupStale`); a panic or a crash may come after any of them (`Pending`), and
`e.st.Routes` changes only after the last, so the engine then still records routes that
are gone. `ActivatePanics` is the same for the deletions of `activateLocked`.

- `UseExitNode`, `Use`, `Wait`, `WaitClears`: `UseExitNode` up to the lock, under
  it, its waiting loop, and the `ClearExitNode` a refused one calls;
- `ReconcileUnused`, `ReconcileStandby`, `ReconcileBackoff`, `Activate`,
  `ActivateFails`: the paths of `reconcileClient`, with `NextPhase` of
  `classify.go` and `PlanClientRoutes` of `routes.go`;
- `Panic`, `ActivatePanics`, `RecordTickPanic`, `TickEnds`, `QueryDirectPeers`:
  `runTick` and its breaker;
- `Start` with `cleanupStale`, `Stop`, `Crash`;
- `HandleRequest`, `HandleStatus`, `AnnounceOffer`: `handleControl` and
  `announceOffer`, on both sides of `net`, whose messages are lost and overtake
  each other.

Bypass routes remember the gateway they were installed with, since `ip route del`
with another gateway removes nothing. `owner` is the WireGuard peer that has
0.0.0.0/0: giving it to one takes it from another, a new punch resets it.
History: `lost` is what a crash found on the host and not in the file and what a
failed deletion left there, until it is installed or removed again; `shaken`
that a tick of this process panicked.

Abstractions: Linux commands; the two halves of the split default are one route,
as are the IPv6 rejects; errors of `IpcSet` are left out (in `activateLocked` one leads
to the same retry as a failed route; installing the routes has not begun);
clock comparisons (request interval, back-off, waiting time) are choices; calls do
not outlive their engine (that is `ExitShare`'s subject); the kernel removes the
routes of a TUN device when `Device.Stop` closes it or the process dies; a message sent while `MaxNet`
messages are under way is lost.

### UspReplay and AnswerOnce

A handler of `handleFrameFromPeer` takes a request from `asks` and goes one way
through `beginControlReplay`: `Mismatch`, `Join`, `Miss` or `Begin`; each begins with
the removal of what has expired. `Complete` and `Abort` are `completeControlReplay`
(with `trimReadReplayLocked`) and `abortControlReplay`, `Wake` and `GiveUpWaiting` the
two ends of a wait. Executions are numbered, and the number stands for the entry,
its `ready` channel and the content of the reply. Where the code takes the oldest
entry and several are equally old, any of them may go.

`AnswerOnce` has no table, clock, sizes or messages: an identity is new, open or
kept; what is open is neither forgotten nor carried out again, and every answer is
the one of the last execution. `Abs` maps an absent entry to "new", an entry
without frames to "open" and one with frames to "kept".

Abstractions: the controller is external and modelled from the comments of
`read_replay.go` (repeat, list what is missing, give up after a miss); a lost
request leaves no trace; the 5 s deadline is a guard on the clock, and the reply
of an execution that exceeds it is an error that is kept and sent like any other;
every reply has all `Parts`; `HandleRequest` itself, which may go on after the
deadline, is not part of the model. Requests whose method is not replayable do
not come near the table.

### UspCache

`Begin`, `CollectDevice`, `ReadPrevious`, `Save`, `Store` and `Finish` are
`beginRefresh` and `refreshOwned`, cut where the lock is given up or the outside
world is called. `CollectMiss`, `EnsureSnapshot`, `CollectWoken` and `CollectGivesUp`
are `Collect` on a cold cache; `Set`, `DeleteOrAdd`, `PatchSet`, `PatchFile` and
`RefreshAfterMutation` the writes with the timer of `SettleFires`; `PatchInbox` is the
patch of a modem operation; `Crash` ends the process and loads the file.

Abstractions: a message has three fields (a writable parameter, the cellular rows
with the discovery state, the SMS inbox); values are the number of the write they
come from; a collection reads the device at one moment; the device applies a write
before the settle timer fires, which is what the delay of four seconds is for;
errors of `backend.Set` change nothing and are left out; the change observer, the
status file, `refreshSoon` (the same as a mutation without a timer) and the choice
between the two refresh periods are left out.

### AgentLifecycle

Every `agent.New` makes a generation with its device. `Main` is `runAgent` with
`startAgentWithRetry` and `switchAccount` (their mutex keeps them apart), `Users` are
calls of the local API, `Updater` is the worker of `runUpdateChecker`, which is the
only worker that does more than wait for the end; `Advertiser` disables local
access when it ends. Start and Stop of the device are called by all of them and
cut where they give up `d.mu` or call the host. `raced` is history: the generations
whose `Stop` met an API call or an update.

Abstractions: the toggle of the API is a connect or a disconnect; the name of the
TUN interface is exclusive, as for the kernel, and `CreateTUN` fails for no other
reason (such a failure leaves nothing behind); `DisableLocalAccess` is one step;
the shutdown of the API server does not wait for calls for ever; `MaxGens` bounds
retries and switches together, and reaching it ends the process as `maxRetries`
does.

## 3. Runs

Passing runs:

| Run | Checks | Bounds and why they suffice |
|---|---|---|
| `fragments` | `BudgetKept`, `Accounted`, `JoinedOnlyByReuse`, `PaddingOnlyAtEnd` | one peer (entries and charges are kept by peer and never meet those of another), three messages of one to three fragments, a restart, and replies that reuse an ID; what the device sends by itself is cut to full datagrams (8), a reply to a budget whose datagrams are padded (7): two messages overlap, a third takes the freed room, the budget is below three messages, so both refusals happen; the clock passes the TTL |
| `p2p_stable` | `SessionIsAttempt`, `EstablishedIsActivated`, `ValidationStopsLoop` | one peer, two sessions, two workers, a queue of one: an old and a new attempt overlap in every way |
| `p2p_recycled` | `OneEntryPerKey`, `SessionsIndexed`, `IndexesFresh`, `CoordinatorNeverDirect`, `ActiveNeverLost` | two IDs and two keys in any combination, and for one of the IDs also the coordinator's key or none, in relays and in lists: a device changes its ID, an ID its device, two devices swap, an active entry loses its key and gets another; one attempt, which any of that may hit |
| `p2p_live` | `SessionsEnd`, `PathRepaired` | one peer, two sessions, one worker |
| `exit_share` | `GuardNeedsOffer`, `RulesRecorded`, `NothingLingers` | two callers and two calls, so that opt-in and opt-out overlap; three starts, a Disconnect, an Agent.Stop and a crash, so that a call can hold an engine that was stopped and a clean stop can follow a crash; one failed installation, one host event. Removing a rule and writing the file succeed here (`Faulty` is FALSE): the code reports such a failure and forgets the rule, so nothing is promised about it |
| `exit_live` | `OfferServed` | a call, a reconnect, a failed installation, two host events, failing removals and saves, local access shared |
| `exit_client` | `HostRecorded`, `FailOpen`, `DefaultReturned`, `SplitGoesFirst` | two exits and two calls (use, switch, use again, clear), two faults of any kind at any command (a breaker of two panics trips, a crash follows a failed route or a failed deletion, a panic falls between two deletions), one change of a path, the list, an offer or the uplink |
| `exit_client_live` | `HostRecorded`, `UnusedLeavesHost`, `WithdrawnIsLeft`, `AstrayEnds` | one exit, two gateways, so that routes are re-pinned; two messages under way, so that an answer and an announcement overtake each other; a breaker of one panic |
| `usp_replay` | `TypeOK`, `OpenKept`, `Bounded`, `Unmixed`, `AnswersOnce` | three identities (two reads and a write) in a table of two, three handlers, three executions and three requests, two request contents, replies of two fragments that fit, exceed the limit of one reply, or exceed the limit of all together; reads expire before the others |
| `usp_cache` | `Owed`, `SingleFlight`, `InboxKept`, `AbsentStays`, `ColdServed`, `WritesSeen` | two callers, the warm-up and one background sweep (no two run at once), two events of any kind: two writes, a write and a failure, an inbox and a restart, a modem that disappears and is unknown. The invariants were also checked with three events |
| `agent` | `Settled`, `Released`, `SignalEnds` | two API users, three calls, two agents (a retry or a switch), one failing host operation, one update, local access allowed |

The P2P runs check deadlock as well. The others do not: when the bounded number
of messages, calls or events is used up, or the process has ended, those systems
have nothing to do.

Where a property excludes a situation, the exclusion is what the code does not
keep, and section 4 says what happens there: `HostRecorded` without what a crash or
a failed deletion lost, `FailOpen`, `SplitGoesFirst`, `AstrayEnds` and
`UnusedLeavesHost` without a split default whose deletion failed, `DefaultReturned`
without panics, `PaddingOnlyAtEnd` without the budgets that are padded,
`ActiveNeverLost` without a peer list that takes the key of an active entry, the
properties of `p2p_stable` and `p2p_live` with peer lists that name their keys,
`Unmixed` without a controller that repeats a request too early, `InboxKept` without
a patch in the middle of a sweep's end, `Settled` and `Released` without calls that
meet `Agent.Stop`.

Fairness. `p2p_live`: list merging, scheduling and preparing are straight code
(weak fairness). Punch loops have deadlines, promotion has a validation timeout,
cleanups run to their end and maintenance ticks for ever; these compete for the
lock and may be disabled again and again by the control worker, and Go's mutex
does not starve a waiter, hence strong fairness. No fairness is assumed of the
coordinator, the peers or handshakes. `exit_live`: calls return, the loop ticks
every two seconds, the daemon is started; weak fairness is enough as the number
of competing calls is bounded. Nothing makes the user reconnect. That
installations eventually succeed is the bound `MaxFailures`; an engine that is
stopped, or an uplink that is lost, ends the obligation. `exit_client_live`: the
loop ticks, locked sections end, and the query of every direct peer is repeated
for ever (a ticker); a message that is sent again and again gets through at last
(strong fairness of its delivery). `usp_cache`: started goroutines run, timers
fire, a collection ends by its deadline, the device applies what it accepted;
nothing is assumed of callers or of the periodic refresh, so `WritesSeen` does not
rest on it. `agent`, `agent_update`: Go runs every goroutine that can run; signals,
updates and calls need not come.

The violation run is a disagreement of the code with a sentence of its own
comments (quoted in `PROJECT.json`, "findings"):

| Run | Property | What happens |
|---|---|---|
| `agent_update` | `UpdateRestarts` | `performSelfUpdate` runs in a worker of the agent and calls `Stop`, which waits for the workers: the process keeps running the old binary without its workers until a signal comes. `SignalEnds` in `agent` shows that a signal still ends it |

## 4. Further deviations

These are stated in the modules and no configuration lists them. TLC finds each
violated when its name is added to the configuration given, with the constants
changed as noted.

| Property | Configuration | What happens |
|---|---|---|
| `Unmixed` (`WuspFragments`) | `fragments` | a sender restarts (or a reply takes the ID of a message) while fragments with that ID are pending, and two messages are joined; `control_fragments.go:161` refuses only other mixtures |
| `PaddingStripped` | `fragments` | the header has no size, although `send.go:154` says so; WireGuard's padding is delivered with the message. The decoders accept zeros at the end, so this matters only for `NoPaddingInside` |
| `NoPaddingInside` | `fragments` | a request names a response budget that is no multiple of 16 (`usp_transport.go:67-86` takes any from 24 to 1200): every full fragment of the answer is padded, and the zeros end up inside the reassembled message |
| `PathNotClobbered` | `p2p_stable` | `RemovePeer` of an old attempt hits the path a new one has just established. It does not last: `PathRepaired` |
| `RouteNeedsHandshake` | `p2p_stable` | the peer is removed between the observed handshake and its activation, which creates it again with the route. It does not last: `PathRepaired` |
| `NoOrphanCandidate` | `p2p_stable` | an obsolete promotion leaves its candidate to a newer session, whose timeout removes nothing (`p2p_client.go:1882`) |
| `SessionIsAttempt`, `EstablishedIsActivated`, `ValidationStopsLoop` | `p2p_recycled`, also with `Lists <- Recycling` | recycled IDs and a relay with another key: one key's handshake establishes another key's entry; the validation ends without stopping the punch loop (`p2p_client.go:733`, `:1263`) |
| `ActiveKeepsKey` | `p2p_recycled` | "Do not let a recycled ID silently replace an active authenticated session" (`p2p_client.go:733`): a listed zero key passes that check and the entry loses its key while it is tried or established (`:735`, `:765`). With `Lists <- Recycling`, where every entry has a key, it holds |
| `JoinsIndexed` | `p2p_recycled` | after that a relay joins the running attempt and teaches the entry its key without a rebuild (`p2p_client.go:1057`, `:1104`): the key is in no index, and a list that renumbers the device makes a second entry |
| `ServerPeerKept` | `p2p_recycled` | an active entry that lost its key is listed with the coordinator's: the end of its promotion or of its path calls `RemovePeer` with the key of the relay (`p2p_client.go:1873`, `:1976`) |
| `SessionsEnd`, `PathRepaired` | `p2p_live` with `Lists <- Stable` | the same zero key: an attempt that lost its key is failed by a relay without a key, its session is then promoted, and the promotion ends in `dropOrphanCandidate`, where nobody stops the punch loop; an established entry without a key is failed by a relay without a key, whose teardown is dropped (`p2p_client.go:1045`, `:1072`), and the route stays with a peer that never shook hands |
| `OptOutHolds` | `exit_share` | the loop drops the lock before `enableOffer`, the user opts out and gets the answer, the loop opts in (`exitnode_guard.go:14`) |
| `LocalAccessRestored` | `exit_share` with `AllowLocalAccess = TRUE` | `Device.Stop` removes the rules and leaves `localAccessShared` set; the next Connect finds nothing to do (`connection.go:25`) |
| `NoNATWhileDown` | `exit_share` | a call that fetched the engine before Disconnect installs its rules afterwards |
| `CrashCleaned` (`ExitShare`) | `exit_share` | a crash between `EnableNAT` and the save, then a start on another uplink: nobody knows the first rules |
| `LocalAccessForwards` | `exit_live` | the NAT is moved between local access's switch and its flag, the new installation fails, forwarding ends off |
| `CrashCleaned` (`ExitClient`) | `exit_client` | a crash between the first route and the save at the end of `activateLocked`: the pinned routes stay, although the file is kept so that "a crashed daemon's leftovers can be removed" (`state.go:12`) |
| `ServerKeepsDefault` | `exit_client` | a panic after the exit was given 0.0.0.0/0 and before the first route is recorded: the next activation finds the exit as its owner, and "normal routing restored" (`exitnode.go:309`) leaves the server without it |
| `NormalRoutingRestored` | `exit_client` | the deletion of the split default fails, which is logged (`exitnode.go:1120`); the route is forgotten, the pass logs "Normal routing restored" (`:1171`) and reports standby, and nothing deletes it before the next activation or the end of the TUN device |
| `ActiveSends` | `exit_client` | a panic after the split default was deleted and before `e.st.Routes` is written (`exitnode.go:1125`): the next activation finds it recorded, does not install it and reports "active" without it |
| `RefusalClearsRefuser` | `exit_client` with two callers | a waiting `UseExitNode` sees a refusal, another call chooses another exit, and the first clears that one (`exitnode.go:696`) |
| `NeverMixed` | `usp_replay` | a read whose reply is too large to keep is repeated while fragments are on their way: it is carried out again and the controller holds fragments of both (`usp.go:470`) |
| `SameWords` | `usp_replay` | a waiter is woken after its entry was removed and the identity was used with other contents; it is answered with the reply to those (`usp.go:455`) |
| `InboxNeverLost` | `usp_cache` | an inbox patched between a sweep's read of the memory and its store is overwritten (`usp_cache.go:290`) |
| `AbsentStaysForGood` | `usp_cache` with `MaxEvents = 3` | a patch writes an older snapshot to the file after a sweep found no modem; a restart brings the rows back (`usp_cache.go:355`) |
| `ColdIsEmpty` | `usp_cache` | a patch before the first sweep makes the cache count as warm, and `Collect` serves that one field (`usp_cache.go:62`) |
| `FileAgrees` | `usp_cache` | `Patch` writes the file after it has released the lock: an older state may be written last (`usp_cache.go:158`) |
| `SharedIsShared` | `agent` | the same as `LocalAccessRestored`, seen from the agent |
| `StoppedIsDown` | `agent` | `Agent.Stop` does not take `tunnelMu`: a Connect that has read `running` starts the device again after it was stopped |
| `FailedIsGone` | `agent` | a start that fails after the interface was created leaves it; the next attempt of `startAgentWithRetry` fails in `CreateTUN` |

## 5. Proofs

`BudgetHolds` (`WuspFragmentsProofs`): `Spec => [](TypeOK /\ BudgetKept)` for every
set of peers, all sizes allowed by `FragmentAssumption` and all bounds. The
budget is inductive together with the types; the work is in showing that what
`DropBytes` releases leaves a natural number, that every frame cut is well formed
(`CountPositive`, `PaddingNat`, `FramesType`) and that both charges are checked.

`OneMessage` and `PaddingLast` (`WuspFragmentsProofs`): `Spec => []JoinedOnlyByReuse`
and `Spec => []PaddingOnlyAtEnd`, under the same assumption, which has that the size of
a full datagram is a multiple of the padding (1200 and 16) and nothing of the kind for
the budgets of answers: the second theorem says of which messages the padding is only
at the end, for every budget a request may name. Both say something of the message just
handed up, so the invariant `Parcels` follows every fragment from its cut to its
assembly:

- `Cut`: the index is below the count, and only the last fragment is padded, or one
  that was cut to a padded budget;
- `Numbered`, `Once`: IDs of a sender that has not restarted are counted up, so two
  fragments under one ID are of one message unless the ID was used twice;
- `Slots`: an assembly holds fragments of its peer, ID and count, each at its index,
  and `received` is their number; that makes a complete one have every index, by the
  cardinality of an interval;
- `Whole`: what these give for the message in the hands of `wuspHandler`.

`ChargesExact` (`WuspFragmentsProofs`): `Spec => []Accounted`, under the same
assumption. `BudgetKept` bounds the counter of a peer; this says that the counter is
true: it is the sum over the peer's incomplete messages, each of these is charged for
its slots and the data in them, and none is complete. The invariant `Ledger` adds that
the table of assemblies is finite, and rests on `IInv` and `Parcels`: a new assembly
adds a summand (`HeldSplit`), a fragment stored in an empty slot changes the summand of
its key alone (`HeldRest`), and what completion, expiry, a count mismatch or a refusal
releases is the summand that goes. `Slots` is needed there: a slot filled twice would
be charged twice and summed once.

`Sums`: what a sum over a finite set is, one element less, one more, over a part.
`SumFunctionOnSet` of the community modules is a recursive function picked by CHOOSE,
so that such a function exists is itself a lemma (`TotalsExist`). The library's
induction theorems cannot be instantiated by the provers, but its least-element theorem
can: the strict subset ordering on the subsets of a finite set is well founded
(`FS_StrictSubsetOrderingWellFounded`, `WFMin`), so a property that fails for some
subset fails for a smallest one (`Smallest`), and the step to a smaller set refutes that.

`TableConsistent` (`P2PClientProofs`):
`Spec => [](TypeOK /\ OneEntryPerKey /\ SessionsIndexed /\ CoordinatorNeverDirect)`
for all IDs, keys, nonces, workers, queue sizes and session bounds, whatever the
coordinator sends, zero keys included. None of the three is inductive. The invariant
`IInv` adds:

- `KeysIndexed`: the key index leads from every entry's key to that entry.
  `renumberPeerLocked` finds the entry to move through the index, so a missing
  index entry would make a second entry for the key. It is for the keys that no joining
  relay taught an entry (`Plain`);
- `EntriesKeyed`: an absent entry has no key;
- `MapsAgree`: session numbers in the maps were handed out before, so a new
  session is not mistaken for an old one, and a session has a key that is not the
  coordinator's;
- `SessionsPending`, `ServerHidden`, and `JobsKeyed` for jobs in the queue and in
  the hands of threads, which use their key after the lock is gone.

That an active entry has a key, and not the coordinator's, is not part of it, since a
listed zero key breaks that (`ActiveKeepsKey`); `CoordinatorNeverDirect` holds all the
same, because the sections that negotiate test the key each on its own. Each operation
on the table has a lemma; each action then cites the lemmas of the operations it calls.
The corollaries `OneEntry` and `CoordinatorHidden` state two of the conjuncts by
themselves.

`IndexesAgree` and `ActiveKept` (`P2PClientProofs`): `Spec => []IndexesFresh` and
`Spec => ActiveNeverLost`, again for any coordinator. Both follow from `IInv`: for
the first, `Rebuild` is shown to be idempotent and to depend on the entries alone,
and every section that leaves the indexes alone to leave alone what they are
computed from; for the second, every operation is shown to keep or move an entry
that is tried or established, but for the list entry without a key.

`AttemptsLive`, `ValidationEnds`, `OwnKeyEstablished` (`P2PClientProofs`):
`StableIDs => (Spec => ...)` for `SessionIsAttempt`, `ValidationStopsLoop` and
`EstablishedIsActivated`. `StableIDs` says of the pairs a coordinator may send, in relays
and lists, that an ID always comes with the same key and a key with the same ID, and
that a list names the key (a relay need not); the instance of `p2p_stable` meets it. It
is not a convenience: with recycled IDs, or with lists without keys, TLC refutes each of
the three (section 4). The inductive invariant `Steady` has

- `Assigned`: an entry has the key the coordinator assigns to its ID;
- `Live`, `Ended`: a session in the map is a live attempt, and one that is out of
  the map has been told to stop;
- `JobsSteady`: the ID, session and key that a job carries from one locked section
  to the next still belong together, whatever happened in between.

`Queued` (a punch loop belongs to a session that was created) is proved beside it,
since a new session must not find a loop under its number.

`GuardHolds` (`ExitShareProofs`): `Spec => [](TypeOK /\ GuardNeedsOffer)` for every
set of callers and uplinks and all bounds, with or without local access and
failing host commands, from `ShareAssumption` (the threads are different, the
missing uplink is none). `GuardNeedsOffer` is not inductive: a start publishes a
new engine while the guard keeps its value. The invariant adds

- `TunnelInv`: no engine is current while a start loads the file and cleans up,
  so the guard is closed there; from the publication to the end of the start
  the engine of the tunnel thread is the current one; a stopping engine stays in
  charge until `Halt` has closed the guard;
- `CallersInv`, `LoopInv`: where callers and the loop may be, and that they hold
  an engine there;
- `OffInv`: the end of the process leaves no thread, no loop and a closed guard.

One lemma per action shows that the invariant is preserved.

`RulesTraced` and `CleanStop` (`ExitShareProofs`): `~Faulty => (Spec => []RulesRecorded)`
and `~Faulty => (Spec => []NothingLingers)`. `~Faulty` is the instance in which removing
a rule and writing the file succeed: the code logs such a failure and forgets the
rule, and TLC refutes both properties without the hypothesis. Installations may
fail, and crashes come at any point. `ShareAssumption` adds that the missing NAT is
not one of the records. The invariant `HostInv` relates every engine, the file and
the host at every place of every thread:

- `Traced`, `AtRest`: rules on the host are recorded by an engine or, while there is
  no process or it has not read its file, by the file;
- `Sole`: unless a call outlived its engine, the one engine with a record is the
  current one, the one being stopped or the one that takes over the file (`Owner`);
- `Held`, `Undone`: a thread that holds `e.mu` over two steps is alone and finds the
  record it has read; a record without an offer is about to be removed;
- `Fresh`: an engine that was not started has no record and no user;
- `Switch`, `Forwarding`: forwarding that was on before the daemon stays on, and the
  next `DisableNAT` brings the switch back to what it was; `Unshared`: without local
  access nothing else touches it.

`ExitClientProofs`: `HostKnown` (`HostRecorded`), `FailsOpen` (`FailOpen`),
`DefaultGoesBack` (`DefaultReturned`), `SplitFirstHolds` (`SplitGoesFirst`) and
`TypeCorrect`, for every set of callers, exits, addresses and gateways and any number
of calls, faults, events and messages, from `ClientAssumption` (threads are different,
missing values are no values) and `UnlockedAssumption` (a free lock is no work).
`HostRecorded` needs, beside the types, only that the lock is held while the engine
is up. The invariant `IInv` adds for the others

- `SplitKnown`, `SplitGone`, `Adds`: a split default on the host is in the engine's
  record or was lost, and until a tick panics one in the record is on the host; a
  deactivation forgets it before it goes on, and an activation that comes to its end
  has it in the record;
- `PhaseKept`, `Gatewayed`: the phase is "active" only for a chosen exit and never
  during a back-off; an activation has a gateway to pin to;
- `DefaultKept`, `NoDefault`: until a tick panics the engine has nothing of an exit or
  remembers who had 0.0.0.0/0;
- `Holder`, `Loops`: who holds the lock, for what, and what the loop and the calls do
  meanwhile.

The steps between host commands are actions, and a panic or a crash may cut a group of
deletions short, so the invariant speaks of every half-finished activation and
deactivation a crash, a panic or an event can meet. `Deletes` is the lemma about a
group of deletions of which any may fail.

`TypeCorrect`, `OpenKeptHolds`, `Implements` (`UspReplayProofs`):
`Spec => []TypeOK`, `Spec => []OpenKept` and `Spec => AnswersOnce`, for all
identities, contents, handlers, sizes, limits and bounds, from `ReplayAssumption`;
the assumption that matters is that a request's deadline (5 s) does not exceed the
lifetime of an entry, without which an execution under way could expire. `OpenKept`
is not inductive; the invariant `IInv` is `TypeOK` with

- `Active`: a handler that is not idle holds a request;
- `Owned`: an execution under way has its entry, with its own number and
  contents and without frames; its handler is before its deadline, and the entry
  does not expire before that deadline;
- `Alone`: no two handlers carry out the same identity;
- `Served`: an entry without frames has a handler that carries it out;
- `Latest`: an entry holds the last execution of its identity, which is what
  makes an answer from the table the answer `AnswerOnce` asks for.

The refinement is proved action by action: `Begin` is `Begin`, `Complete` is `End`
(with the trimmed and the too large), `Abort` is `Fail`, `Wake` is `Again` or a
stutter, and the removals that come with `Mismatch`, `Join` and `Miss` are `Forget`.

`UnmixedHolds` (`UspReplayProofs`): `Spec => []Unmixed`, with `IInv` and `Orderly`: for
a read that the controller repeats only when nothing of it is under way, everything
it holds and everything on its way to it is of the last execution (`OneRun`), and
at any time a request, a handler or an answer of it exists, and only one of the
three (`OneAtATime`), so that a new execution begins only when the controller holds
nothing or asks for the parts of one that is still kept.

`BoundedHolds` (`UspReplayProofs`): `Spec => []Bounded`, with the same assumption, of
which it needs that one reply's limit does not exceed the limit of all. With the types
and a finite table (`Within`) it is inductive. Only two actions can break it: `Begin`
adds an entry after one was evicted from a full table, and holds no bytes; `Complete`
keeps a reply and trims, and when every other read had to go the one that is left was
admitted by the limit of one reply. `CompletesAlways` adds that the trimming always has
a result, although it is specified by what it leaves (`Trimmed`): the smallest set of
reads, closed under age, that leaves the rest within the limit.

`UspCacheProofs`: `OneSweep` (`SingleFlight`), `NoWriteForgotten` (`Owed`),
`InboxSurvives` (`InboxKept`), `NoResurrection` (`AbsentStays`), `ColdIsServed`
(`ColdServed`) and `TypeCorrect`, for every set of callers and sweepers and any number
of events, from `CacheAssumption` (the threads are different, the missing value is no
value). `SingleFlight` is inductive with the types; the others say something of the
memory that a goroutine's buffer may be about to change, so the invariant says
what every buffer holds at every place: `Carried` (which fields a collection and a
patch have), `LastWrite` and `Promised` (the last write is in the buffer of somebody
who will still ask for a sweep, or a sweep is due, or memory has it),
`InboxCarried`, `AbsentCarried`, `Warmed`. `Promised` is stronger than `Owed` at one
place: a goroutine of `refreshAsync` that finds a sweep running returns at once, so
its promise counts only while none runs.

`AgentLifecycleProofs`: `DeviceSettled` (`Settled`), `StopReleases` (`Released`) and
`TypeCorrect`, for every set of users and workers, any number of agents, calls,
updates and faults, with and without local access, from `LifecycleAssumption` (the
threads are different). Neither is inductive. The argument: in a generation whose
`Stop` met nobody, one thread at a time is inside `Start` or `Stop` of the device
(`OneInside`): users hold `tunnelMu` (`Holder`), and calls exist only while main waits
(`ApiUp`, `CallsUp`, `MainRuns`, `UpdaterRaces`). Hence what the device has recorded
follows the host at every place of that thread (`Recorded`, `Phases`, `EnableRuns`), a
generation main has left is down (`Down`), and local-access rules on the host have
somebody who will remove them (`Shared`). `Roles` says where each thread can be.

Only model-checked: the liveness properties, which are outside the prover's reach
with their fairness, and `UpdateRestarts`, which is a violation. Every invariant and
every action property of a passing run is a theorem.

## 6. Plan

Done: the fragments, the P2P client, exit sharing and exit use, the replay window
with its abstract specification, the data-model cache, the life of the agent, and
the proofs of their safety properties. Next, in this order:

1. `UspTransfer`: windows, resends and deadlines of `usp_stream.go` against an
   abstract transfer that is whole or fails.
2. `LocalAccess`: the consuming side, routes by owner, partial failure of
   `syncLocalAccessRoutes` and its race with `Device.Stop`.
3. The DNS manager's failover, port-mapping leases, the updater's swap.
4. `PunchSpray`: the limiter against an abstract lock.

## 7. Not modelled

Third-party code (the WireGuard protocol, netstack), generated code (the data
model, which is two fifths of all lines), codecs, the platform backends and
hardware telemetry that turn the output of tools and modems into data-model
values, system-call wrappers, the command line and the installers: they are
sequential translations or I/O, without a state of their own that several actors
share. `PROJECT.json` gives the reason for each part.

----------------------------- MODULE ExitClient -----------------------------
(***************************************************************************)
(* The client side of exit-node mode on a Linux host (exitEngine in        *)
(* exitnode.go): choosing an exit, asking it for permission, sending the   *)
(* internet traffic through it and undoing all of that.                    *)
(*                                                                         *)
(*   Callers  UseExitNode, with its waiting loop, and ClearExitNode        *)
(*   Loop     runTick every two seconds, with its panic guard and breaker  *)
(*   Tunnel   startExitEngine and stopExitEngine                           *)
(*                                                                         *)
(* `lock' is e.mu: Unlocked, or what its holder has still to do on the     *)
(* host.  A group of deletions is one step, but a crash or a panic may     *)
(* come after any of them, and the engine's record of the group changes    *)
(* only at its end; a deletion that fails is forgotten all the same.       *)
(* `net' holds the control messages between this device and the exits:     *)
(* they may be lost and overtake each other.  The host and the state file  *)
(* survive the process.                                                    *)
(***************************************************************************)
EXTENDS Naturals, FiniteSets

CONSTANTS
  Callers, Loop, Tunnel,
  Addrs, NoAddr,        \* VPN addresses of devices that may be exits
  Keys, NoKey,          \* their public keys
  Server,               \* the coordinator's key
  Gateways, NoGateway,  \* physical default routes
  ServerDefault,        \* config.Server.AllowedIPs holds 0.0.0.0/0
  Giveup,               \* exitTickPanicGiveup
  Unlocked,
  MaxCalls,             \* bound: calls of UseExitNode and ClearExitNode
  MaxFaults,            \* bound: stops, crashes, panics and failing commands
  MaxEvents,            \* bound: changes of peers, paths, offers and gateways
  MaxNet                \* bound: control messages under way

ASSUME ClientAssumption ==
  /\ Loop \notin Callers /\ Tunnel \notin Callers \cup {Loop}
  /\ NoAddr \notin Addrs /\ NoKey \notin Keys /\ Server \notin Keys \cup {NoKey}
  /\ NoGateway \notin Gateways
  /\ ServerDefault \in BOOLEAN /\ Giveup \in Nat \ {0}
  /\ MaxCalls \in Nat /\ MaxFaults \in Nat /\ MaxEvents \in Nat /\ MaxNet \in Nat

VARIABLES
  up,       \* the tunnel runs and has an engine
  e,        \* the client part of exitEngine
  lock,     \* e.mu
  tick,     \* the loop: "idle", "busy", "end", "panic"
  call,     \* the calls
  disk,     \* the state file
  bypass,   \* host: the gateway each endpoint is pinned to
  split,    \* host: the split default routes into the tunnel
  reject,   \* host: the IPv6 reject routes
  masq,     \* host: the client masquerade rules
  uplink,   \* host: the physical default route
  owner,    \* WireGuard: the peer that has 0.0.0.0/0
  path,     \* WireGuard and P2P: "none", "stale" or "live", for each key
  listed,   \* P2P: the key the coordinator lists for each address
  offers,   \* the exits: Offer && NAT != nil
  net,      \* control messages under way
  lost,     \* history: what a crash or a failed deletion left on the host unrecorded
  shaken,   \* history: a tick of this process panicked
  n         \* the bounded counters

host == <<bypass, split, reject, masq, uplink>>
peers == <<owner, path, listed, offers>>
vars == <<up, e, lock, tick, call, disk, host, peers, net, lost, shaken, n>>

Base == IF ServerDefault THEN Server ELSE NoKey

Dests == Keys \cup {Server}   \* the endpoints the tunnel's own UDP goes to

\* exitnode.Route; the two halves of a split default are one route.
Route == [kind : {"bypass"}, dst : Dests] \cup [kind : {"tunnel", "reject"}]
Pin(d) == [kind |-> "bypass", dst |-> d]
Split == [kind |-> "tunnel"]
Reject == [kind |-> "reject"]
Masquerade == [kind |-> "masquerade"]   \* the client NAT, beside the routes

Answers == {"yes", "no", "unknown"}
Phases == {"off", "pending", "active", "standby"}
Threads == Callers \cup {Loop, Tunnel}

Engine == [use : Addrs \cup {NoAddr}, key : Keys \cup {NoKey}, granted : BOOLEAN,
           offered : [Keys -> Answers], phase : Phases, allowed : BOOLEAN,
           backoff : BOOLEAN, panics : 0 .. Giveup, disabled : BOOLEAN,
           routes : SUBSET Route, gw : Gateways \cup {NoGateway}, nat : BOOLEAN,
           had : BOOLEAN]

File == [use : Addrs \cup {NoAddr}, routes : SUBSET Route,
         gw : Gateways \cup {NoGateway}, nat : BOOLEAN, had : BOOLEAN]

\* exitnode.State, the part of the engine that is saved.
Saved(s) == [use |-> s.use, routes |-> s.routes, gw |-> s.gw, nat |-> s.nat, had |-> s.had]

\* The engine of a new start: cleanupStale has emptied what was installed.
Fresh(f) == [use |-> f.use, key |-> NoKey, granted |-> FALSE,
             offered |-> [k \in Keys |-> "unknown"],
             phase |-> IF f.use # NoAddr THEN "standby" ELSE "off",
             allowed |-> FALSE, backoff |-> FALSE, panics |-> 0, disabled |-> FALSE,
             routes |-> {}, gw |-> f.gw, nat |-> FALSE, had |-> FALSE]

NoFile == [use |-> NoAddr, routes |-> {}, gw |-> NoGateway, nat |-> FALSE, had |-> FALSE]

\* A call: where it is, and (until it has the lock) the peer resolveTarget found.
Call == [pc : {"idle", "use", "wait", "refused", "clear"}, addr : Addrs \cup {NoAddr},
         key : Keys \cup {NoKey}]
At(pc) == [pc |-> pc, addr |-> NoAddr, key |-> NoKey]
Idle == At("idle")

\* What the holder of the lock does: "add" routes, or deactivateLocked in the
\* steps "split", "owner", "rest" and "nat"; then the rest of its function, `next'.
Rest == {"unused", "phase", "retry", "switch", "clear", "stop"}
Work == [by : Threads, at : {"add"}, todo : SUBSET Route, save : BOOLEAN]
          \cup [by : Threads, at : {"split", "owner", "rest", "nat"}, next : Rest,
                phase : Phases]

ASSUME UnlockedAssumption == Unlocked \notin Work

Message == [key : Keys, op : {"use", "query", "release"}]
             \cup [key : Keys, offered : BOOLEAN, granted : BOOLEAN]

Counters == [calls : 0 .. MaxCalls, faults : 0 .. MaxFaults, events : 0 .. MaxEvents]

Init ==
  /\ up = FALSE
  /\ e = Fresh(NoFile)
  /\ lock = Unlocked /\ tick = "idle"
  /\ call = [c \in Callers |-> Idle]
  /\ disk = NoFile
  /\ bypass = [d \in Dests |-> NoGateway]
  /\ split = FALSE /\ reject = FALSE /\ masq = FALSE
  /\ uplink \in Gateways
  /\ owner = Base
  /\ path = [k \in Keys |-> "none"]
  /\ listed \in [Addrs -> Keys] /\ \A a, b \in Addrs : listed[a] = listed[b] => a = b
  /\ offers = [k \in Keys |-> TRUE]
  /\ net = {} /\ lost = {} /\ shaken = FALSE
  /\ n = [calls |-> 0, faults |-> 0, events |-> 0]

Count(c) == n' = [n EXCEPT ![c] = @ + 1]

\* SendTUNControl to some of the exits; a full network loses the message.
Send(ms) == net' = IF Cardinality(net \cup ms) <= MaxNet THEN net \cup ms ELSE net

HasPeer(k) == k \in Keys /\ path[k] # "none"   \* LookupPeer
-----------------------------------------------------------------------------
(* Host commands: RouteAddCmd and RouteDelCmd on Linux, and DisableNAT.  A   *)
(* route through the physical gateway is deleted only if the gateway named   *)
(* is the one it uses.                                                       *)

OnHost ==
  {Pin(d) : d \in {d \in Dests : bypass[d] # NoGateway}}
    \cup (IF split THEN {Split} ELSE {})
    \cup (IF reject THEN {Reject} ELSE {})
    \cup (IF masq THEN {Masquerade} ELSE {})

Rules(nat) == IF nat THEN {Masquerade} ELSE {}

Pinned(rs, g) == [d \in Dests |-> IF Pin(d) \in rs THEN g ELSE bypass[d]]
Unpinned(rs, g) == [d \in Dests |-> IF Pin(d) \in rs /\ bypass[d] = g THEN NoGateway ELSE bypass[d]]

AddRoute(r) ==
  /\ bypass' = Pinned({r}, e.gw)
  /\ split' = (split \/ r = Split)
  /\ reject' = (reject \/ r = Reject)

DelRoutes(rs, g) ==
  /\ bypass' = Unpinned(rs, g)
  /\ split' = (split /\ Split \notin rs)
  /\ reject' = (reject /\ Reject \notin rs)
  /\ masq' = (masq /\ Masquerade \notin rs)

\* What is deleted is forgotten, whether its command succeeds or not: an error
\* is logged at most.  What is `gone' leaves the host by itself.
Forgets(rs, gone, g) ==
  \E bad \in SUBSET (rs \cap OnHost) :
    /\ DelRoutes((rs \ bad) \cup gone, g)
    /\ lost' = (lost \cup bad) \ gone
    /\ IF bad = {} THEN UNCHANGED n ELSE n.faults < MaxFaults /\ Count("faults")
-----------------------------------------------------------------------------
(* deactivateLocked *)

\* Nothing to undo: the early return.
Clean == e.routes = {} /\ ~e.nat /\ ~e.allowed

Deactivate(t, next, phase) ==
  lock' = [by |-> t, at |-> "split", next |-> next, phase |-> phase]

Bypasses(rs) == {r \in rs : r.kind = "bypass"}

\* Mutant: every route goes at the end.
DropSplitLate ==
  /\ lock # Unlocked /\ lock.at = "split"
  /\ lock' = [lock EXCEPT !.at = "owner"]
  /\ UNCHANGED <<up, e, tick, call, disk, host, peers, net, lost, shaken, n>>

\* The split default and the IPv6 reject go first ...
DropSplit ==
  /\ lock # Unlocked /\ lock.at = "split"
  /\ Forgets(e.routes \ Bypasses(e.routes), {}, e.gw)
  /\ e' = [e EXCEPT !.routes = Bypasses(@)]
  /\ lock' = [lock EXCEPT !.at = "owner"]
  /\ UNCHANGED <<up, tick, call, disk, uplink, peers, net, shaken>>

\* Mutant: 0.0.0.0/0 is taken from the exit and given to nobody.
NobodyGets == IF owner \in Keys THEN NoKey ELSE owner

Returned == IF e.had THEN Server ELSE IF owner \in Keys THEN NoKey ELSE owner

\* ... then 0.0.0.0/0 goes back to whoever had it ...
TakeBack ==
  /\ lock # Unlocked /\ lock.at = "owner"
  /\ owner' = Returned
  /\ e' = [e EXCEPT !.allowed = FALSE, !.had = FALSE]
  /\ lock' = [lock EXCEPT !.at = "rest"]
  /\ UNCHANGED <<up, tick, call, disk, host, path, listed, offers, net, lost, shaken, n>>

\* What the caller of deactivateLocked does with the lock still held.
Chosen(s, c) ==
  IF s.use = call[c].addr THEN s
  ELSE [s EXCEPT !.use = call[c].addr, !.key = call[c].key, !.granted = FALSE,
                 !.disabled = FALSE, !.panics = 0, !.offered[call[c].key] = "unknown",
                 !.backoff = FALSE, !.phase = "off"]

Cleared(s) ==
  [s EXCEPT !.use = NoAddr, !.key = NoKey, !.granted = FALSE, !.disabled = FALSE,
            !.panics = 0, !.phase = "off"]

\* Mutant: a failed activation leaves the phase alone.
AfterKeepsPhase(s, w) ==
  CASE w.next \in {"unused", "stop", "phase"} -> s
    [] w.next = "retry"  -> [s EXCEPT !.backoff = TRUE]
    [] w.next = "switch" -> Chosen(s, w.by)
    [] w.next = "clear"  -> Cleared(s)

After(s, w) ==
  CASE w.next \in {"unused", "stop"} -> s
    [] w.next = "phase"  -> [s EXCEPT !.phase = w.phase]
    [] w.next = "retry"  -> [s EXCEPT !.backoff = TRUE, !.phase = "standby"]
    [] w.next = "switch" -> Chosen(s, w.by)
    [] w.next = "clear"  -> Cleared(s)

\* releaseLocked tells the exit.
Release == IF HasPeer(e.key) THEN Send({[key |-> e.key, op |-> "release"]}) ELSE UNCHANGED net

Leaves(t, w) ==
  /\ tick' = IF t = Loop THEN "end" ELSE tick
  /\ call' = IF t \in Callers
             THEN [call EXCEPT ![t] = IF w = "switch" THEN At("wait") ELSE Idle]
             ELSE call
  /\ up' = (up /\ t # Tunnel)

\* ... then the other routes ...
DropRest ==
  /\ lock # Unlocked /\ lock.at = "rest"
  /\ Forgets(e.routes, {}, e.gw)
  /\ e' = [e EXCEPT !.routes = {}]
  /\ lock' = [lock EXCEPT !.at = "nat"]
  /\ UNCHANGED <<up, tick, call, disk, uplink, peers, net, shaken>>

\* The tunnel that has stopped closes its TUN device: its routes go with it.
WithTun(t) == IF t = Tunnel THEN {Split} ELSE {}

\* ... and the masquerade, and the file is written.
DropNAT ==
  /\ lock # Unlocked /\ lock.at = "nat"
  /\ Forgets(Rules(e.nat), WithTun(lock.by), e.gw)
  /\ e' = After([e EXCEPT !.nat = FALSE, !.granted = @ /\ lock.next # "clear"], lock)
  /\ disk' = Saved(e')
  /\ IF lock.next \in {"switch", "clear"} THEN Release ELSE UNCHANGED net
  /\ Leaves(lock.by, lock.next)
  /\ lock' = Unlocked
  /\ UNCHANGED <<uplink, peers, shaken>>
-----------------------------------------------------------------------------
(* UseExitNode and ClearExitNode *)

\* Device.exit is gone as soon as stopExitEngine begins.
Serving == up /\ (lock # Unlocked => lock.by # Tunnel)

\* resolveTarget looks the address up before the lock is taken.
UseExitNode(c, a) ==
  /\ Serving /\ call[c] = Idle /\ n.calls < MaxCalls /\ Count("calls")
  /\ listed[a] # NoKey
  /\ call' = [call EXCEPT ![c] = [pc |-> "use", addr |-> a, key |-> listed[a]]]
  /\ UNCHANGED <<up, e, lock, tick, disk, host, peers, net, lost, shaken>>

Use(c) ==
  /\ lock = Unlocked /\ call[c].pc = "use"
  /\ \/ /\ e.use \notin {NoAddr, call[c].addr} /\ ~Clean
        /\ Deactivate(c, "switch", "off")
        /\ UNCHANGED <<e, call, disk, net>>
     \/ /\ e.use \in {NoAddr, call[c].addr} \/ Clean
        /\ e' = Chosen(e, c)
        /\ disk' = Saved(e')
        /\ IF e.use \in {NoAddr, call[c].addr} THEN UNCHANGED net ELSE Release
        /\ call' = [call EXCEPT ![c] = At("wait")]
        /\ UNCHANGED lock
  /\ UNCHANGED <<up, tick, host, peers, lost, shaken, n>>

Refused == e.key # NoKey /\ e.offered[e.key] = "no"

\* One turn of the waiting loop: it ends when no exit is chosen any more, when
\* the exit now chosen refuses, or (with it active, or late) at any turn.
Wait(c) ==
  /\ lock = Unlocked /\ call[c].pc = "wait"
  /\ IF (e.use # NoAddr \/ e.disabled) /\ Refused
     THEN call' = [call EXCEPT ![c] = At("refused")]
     ELSE call' = [call EXCEPT ![c] = Idle]
  /\ UNCHANGED <<up, e, lock, tick, disk, host, peers, net, lost, shaken, n>>

\* ClearExitNode, called by the user or by a refused UseExitNode.
Clear(c) ==
  /\ lock = Unlocked
  /\ IF ~Clean
     THEN /\ Deactivate(c, "clear", "off")
          /\ call' = [call EXCEPT ![c] = At("clear")]
          /\ UNCHANGED <<e, disk, net>>
     ELSE /\ e' = Cleared(e)
          /\ disk' = Saved(e')
          /\ Release
          /\ call' = [call EXCEPT ![c] = Idle]
          /\ UNCHANGED lock
  /\ UNCHANGED <<up, tick, host, peers, lost, shaken>>

ClearExitNode(c) ==
  /\ Serving /\ call[c] = Idle /\ n.calls < MaxCalls /\ Count("calls")
  /\ Clear(c)

WaitClears(c) ==
  /\ call[c].pc = "refused"
  /\ Clear(c)
  /\ UNCHANGED n
-----------------------------------------------------------------------------
(* runTick: reconcileClient, then the query, then resetTickPanics *)

CanTick == up /\ tick = "idle" /\ lock = Unlocked

\* Mutant: nothing is undone once no exit is chosen.
NothingToUndo == FALSE

Leftover == e.routes # {}

\* No exit is chosen: routes that are still recorded are removed.
ReconcileUnused ==
  /\ CanTick /\ e.use = NoAddr
  /\ IF Leftover
     THEN Deactivate(Loop, "unused", "off") /\ tick' = "busy"
     ELSE tick' = "end" /\ UNCHANGED lock
  /\ UNCHANGED <<up, e, call, disk, host, peers, net, lost, shaken, n>>

Exit == listed[e.use]   \* discoveredByIP

\* What a pass learns: a grant is for one key and one direct path.
Seen(s) ==
  IF Exit = NoKey THEN s
  ELSE [s EXCEPT !.key = Exit,
                 !.granted = @ /\ s.key = Exit /\ path[Exit] # "none"]

NextPhase(s) ==
  CASE Exit = NoKey -> "standby"
    [] s.offered[Exit] = "no" -> "standby"
    [] path[Exit] # "live" -> "standby"
    [] ~s.granted -> "pending"
    [] OTHER -> "active"

\* The exit is asked for permission, at most every exitRequestEvery.
Request(s) ==
  \/ UNCHANGED net
  \/ Exit # NoKey /\ HasPeer(Exit) /\ ~s.granted /\ Send({[key |-> Exit, op |-> "use"]})

\* Anything short of a live, confirmed path means normal routing.
ReconcileStandby ==
  /\ CanTick /\ e.use # NoAddr
  /\ NextPhase(Seen(e)) # "active"
  /\ Request(Seen(e))
  /\ IF e.routes # {} \/ e.allowed
     THEN /\ e' = Seen(e)
          /\ Deactivate(Loop, "phase", NextPhase(Seen(e)))
          /\ tick' = "busy"
     ELSE /\ e' = [Seen(e) EXCEPT !.phase = NextPhase(Seen(e))]
          /\ tick' = "end"
          /\ UNCHANGED lock
  /\ UNCHANGED <<up, call, disk, host, peers, lost, shaken, n>>

\* After a failed activation the next one waits.
ReconcileBackoff ==
  /\ CanTick /\ e.use # NoAddr
  /\ NextPhase(Seen(e)) = "active"
  /\ e.backoff
  /\ e' = Seen(e) /\ tick' = "end"
  /\ UNCHANGED <<up, lock, call, disk, host, peers, net, lost, shaken, n>>

BackoffEnds ==
  /\ up /\ lock = Unlocked /\ e.backoff
  /\ e' = [e EXCEPT !.backoff = FALSE]
  /\ UNCHANGED <<up, lock, tick, call, disk, host, peers, net, lost, shaken, n>>

\* PlanClientRoutes: every endpoint of the tunnel, the split default, the reject.
Plan ==
  {Pin(d) : d \in {Server} \cup {k \in Keys : HasPeer(k) \/ \E a \in Addrs : listed[a] = k}}
    \cup {Split, Reject}

\* The physical default route, or the last one that was known.
Gateway == IF uplink # NoGateway THEN uplink ELSE e.gw

\* Bypass routes of a gateway that is no longer the default route.
Repinned(g) == IF g # e.gw THEN Bypasses(e.routes) ELSE {}

Obsolete(g) == Repinned(g) \cup (e.routes \ Plan)

\* Mutant: the gateway is replaced before the old routes are deleted.
OldGatewayLate(g) == g

OldGateway(g) == e.gw

\* Mutant: the exit is given 0.0.0.0/0 with the first route only.
AssertedOnce == IF e.routes = {} THEN Exit ELSE owner

Asserted == Exit

\* activateLocked up to the first route: the gateway, obsolete routes, and the
\* exit's 0.0.0.0/0, which its peer must own before traffic is sent its way.
Activate ==
  LET g == Gateway
      s == Seen(e)
      kept == s.routes \ Obsolete(g)
  IN /\ CanTick /\ e.use # NoAddr
     /\ NextPhase(s) = "active" /\ ~e.backoff
     /\ g # NoGateway
     /\ Forgets(Obsolete(g), {}, OldGateway(g))
     /\ e' = [s EXCEPT !.routes = kept, !.gw = g,
                       !.had = IF e.routes = {} THEN owner = Server ELSE @,
                       !.allowed = @ \/ owner # Exit]
     /\ owner' = Asserted
     /\ lock' = [by |-> Loop, at |-> "add", todo |-> Plan \ kept,
                 save |-> e.routes = {} \/ e.routes \ Repinned(g) # kept]
     /\ tick' = "busy"
     /\ UNCHANGED <<up, call, disk, uplink, path, listed, offers, net, shaken>>

\* No physical default route is known, and none ever was: nothing is installed.
ActivateFails ==
  /\ CanTick /\ e.use # NoAddr
  /\ NextPhase(Seen(e)) = "active" /\ ~e.backoff
  /\ uplink = NoGateway /\ e.gw = NoGateway
  /\ e' = [Seen(e) EXCEPT !.backoff = TRUE, !.phase = "standby"]
  /\ tick' = "end"
  /\ UNCHANGED <<up, lock, call, disk, host, peers, net, lost, shaken, n>>

Rank(r) == CASE r.kind = "bypass" -> 1 [] r.kind = "tunnel" -> 2 [] OTHER -> 3

Adding(r) ==
  /\ lock # Unlocked /\ lock.at = "add"
  /\ r \in lock.todo /\ \A x \in lock.todo : Rank(r) <= Rank(x)

Install(r) ==
  /\ Adding(r)
  /\ AddRoute(r)
  /\ e' = [e EXCEPT !.routes = @ \cup {r}]
  /\ lock' = [lock EXCEPT !.todo = @ \ {r}, !.save = TRUE]
  /\ lost' = lost \ {r}
  /\ UNCHANGED <<up, tick, call, disk, masq, uplink, peers, net, shaken, n>>

Critical(r) == r = Split \/ r \in {Pin(Server), Pin(e.key)}

\* A route that cannot do without ends the activation; others are skipped.
InstallFails(r) ==
  /\ Adding(r) /\ n.faults < MaxFaults /\ Count("faults")
  /\ IF Critical(r)
     THEN Deactivate(Loop, "retry", "standby")
     ELSE lock' = [lock EXCEPT !.todo = @ \ {r}]
  /\ UNCHANGED <<up, e, tick, call, disk, host, peers, net, lost, shaken>>

\* The masquerade for hosts behind this device (it may fail, which is only
\* logged), the save, and the phase.
Activated ==
  /\ lock # Unlocked /\ lock.at = "add" /\ lock.todo = {}
  /\ \/ /\ ~e.nat /\ masq' = TRUE /\ lost' = lost \ {Masquerade}
        /\ e' = [e EXCEPT !.nat = TRUE, !.phase = "active"] /\ UNCHANGED n
     \/ /\ ~e.nat /\ n.faults < MaxFaults /\ Count("faults")
        /\ e' = [e EXCEPT !.phase = "active"] /\ UNCHANGED <<masq, lost>>
     \/ /\ e.nat
        /\ e' = [e EXCEPT !.phase = "active"] /\ UNCHANGED <<masq, lost, n>>
  /\ disk' = IF lock.save THEN Saved(e') ELSE disk
  /\ lock' = Unlocked /\ tick' = "end"
  /\ UNCHANGED <<up, call, bypass, split, reject, uplink, peers, net, shaken>>

\* The rest of the tick: now and then every direct peer is asked.
TickEnds ==
  /\ tick = "end" /\ lock = Unlocked
  /\ e' = [e EXCEPT !.panics = 0]
  /\ tick' = "idle"
  /\ UNCHANGED <<up, lock, call, disk, host, peers, net, lost, shaken, n>>

\* Mutant: the peers are never asked again.
QueryNobody ==
  /\ tick = "end" /\ lock = Unlocked
  /\ e' = [e EXCEPT !.panics = 0]
  /\ tick' = "idle"
  /\ UNCHANGED <<up, lock, call, disk, host, peers, net, lost, shaken, n>>

QueryDirectPeers ==
  /\ tick = "end" /\ lock = Unlocked
  /\ e' = [e EXCEPT !.panics = 0]
  /\ tick' = "idle"
  /\ Send({[key |-> k, op |-> "query"] : k \in {k \in Keys : HasPeer(k)}})
  /\ UNCHANGED <<up, lock, call, disk, host, peers, lost, shaken, n>>

\* What the group of deletions under way removes: it is all recorded until the
\* group is done.
Pending ==
  IF lock = Unlocked THEN {}
  ELSE CASE lock.at = "split" -> e.routes \ Bypasses(e.routes)
         [] lock.at = "rest"  -> e.routes
         [] lock.at = "nat"   -> Rules(e.nat)
         [] OTHER -> {}

\* A host command panics, after some of the deletions of its group; the lock is
\* released on the way out ...
Panic ==
  /\ tick = "busy" /\ lock # Unlocked /\ lock.by = Loop
  /\ lock.at = "add" => lock.todo # {}
  /\ n.faults < MaxFaults /\ Count("faults")
  /\ \E gone \in SUBSET Pending : DelRoutes(gone, e.gw)
  /\ lock' = Unlocked /\ tick' = "panic" /\ shaken' = TRUE
  /\ UNCHANGED <<up, e, call, disk, uplink, peers, net, lost>>

\* ... as it does in the deletions of activateLocked: one call removes the
\* bypass routes of the old gateway, then each obsolete route has its own.
\* `forgot' is of the calls that are done, `now' of the one that panics.
ActivatePanics ==
  /\ CanTick /\ e.use # NoAddr
  /\ NextPhase(Seen(e)) = "active" /\ ~e.backoff /\ Gateway # NoGateway
  /\ n.faults < MaxFaults /\ Count("faults")
  /\ \E forgot \in SUBSET Obsolete(Gateway) :
       \E now \in SUBSET (Obsolete(Gateway) \ forgot) :
         /\ \/ forgot = {} /\ now = Repinned(Gateway)
            \/ Repinned(Gateway) \subseteq forgot /\ Cardinality(now) = 1
         /\ \E gone \in SUBSET (forgot \cup now) :
              /\ DelRoutes(gone, e.gw)
              /\ lost' = lost \cup ((forgot \ gone) \cap OnHost)
         /\ e' = [Seen(e) EXCEPT !.routes = @ \ forgot]
  /\ tick' = "panic" /\ shaken' = TRUE
  /\ UNCHANGED <<up, lock, call, disk, uplink, peers, net>>

\* ... and recordTickPanic gives the exit up after Giveup of them in a row.
RecordTickPanic ==
  LET m == e.panics + 1
  IN /\ tick = "panic" /\ lock = Unlocked
     /\ tick' = "idle"
     /\ IF m >= Giveup /\ e.use # NoAddr
        THEN /\ e' = [e EXCEPT !.use = NoAddr, !.key = NoKey, !.granted = FALSE,
                               !.disabled = TRUE, !.phase = "off", !.panics = 0]
             /\ disk' = Saved(e')
        ELSE /\ e' = [e EXCEPT !.panics = IF m > Giveup THEN Giveup ELSE m]
             /\ UNCHANGED disk
     /\ UNCHANGED <<up, lock, call, host, peers, net, lost, shaken, n>>
-----------------------------------------------------------------------------
(* startExitEngine, stopExitEngine, a crash *)

\* Mutant: what a crashed run left is forgotten.
StaleForgotten == {}

Stale == disk.routes \cup Rules(disk.nat)

\* cleanupStale removes what the file records.  WireGuard starts without peers.
Start ==
  /\ ~up
  /\ up' = TRUE
  /\ Forgets(Stale, {}, disk.gw)
  /\ e' = Fresh(disk)
  /\ disk' = Saved(e')
  /\ owner' = Base /\ path' = [k \in Keys |-> "none"]
  /\ net' = {} /\ shaken' = FALSE
  /\ UNCHANGED <<lock, tick, call, uplink, listed, offers>>

\* The loop has ended.  Calls under way are left to ExitShare.
Stop ==
  /\ CanTick /\ \A c \in Callers : call[c] = Idle
  /\ n.faults < MaxFaults /\ Count("faults")
  /\ IF Clean
     THEN /\ up' = FALSE /\ disk' = Saved(e)
          /\ DelRoutes(WithTun(Tunnel), e.gw) /\ lost' = lost \ WithTun(Tunnel)
          /\ UNCHANGED <<lock, uplink>>
     ELSE Deactivate(Tunnel, "stop", "off") /\ UNCHANGED <<up, disk, host, lost>>
  /\ UNCHANGED <<e, tick, call, peers, net, shaken>>

\* s tells how to remove r.
Recorded(r, s) ==
  IF r = Masquerade THEN s.nat
  ELSE r \in s.routes /\ (r.kind = "bypass" => bypass[r.dst] = s.gw)

\* The kernel removes the TUN device and the routes into it.  A group of
\* deletions may be cut short; the file still records all of it.
Crash ==
  /\ up /\ n.faults < MaxFaults /\ Count("faults")
  /\ up' = FALSE
  /\ e' = Fresh(NoFile) /\ lock' = Unlocked /\ tick' = "idle"
  /\ call' = [c \in Callers |-> Idle]
  /\ \E gone \in SUBSET Pending : DelRoutes(gone \cup {Split}, e.gw)
  /\ lost' = {r \in OnHost' : ~Recorded(r, disk)} /\ shaken' = FALSE
  /\ UNCHANGED <<disk, uplink, peers, net>>
-----------------------------------------------------------------------------
(* handleControl, here and on the exits *)

\* The exit answers a request.
HandleRequest(m) ==
  /\ "op" \in DOMAIN m
  /\ net' = (net \ {m}) \cup {[key |-> m.key, offered |-> offers[m.key],
                               granted |-> m.op = "use" /\ offers[m.key]]}
  /\ UNCHANGED <<up, e, lock, tick, call, disk, host, peers, lost, shaken, n>>

Answer(s, m) ==
  [s EXCEPT !.offered[m.key] = IF m.offered THEN "yes" ELSE "no",
            !.granted = IF m.key = s.key /\ s.use # NoAddr
                        THEN m.granted \/ (m.offered /\ @) ELSE @]

HandleStatus(m) ==
  /\ "offered" \in DOMAIN m /\ up /\ lock = Unlocked /\ HasPeer(m.key)
  /\ net' = net \ {m}
  /\ e' = Answer(e, m)
  /\ UNCHANGED <<up, lock, tick, call, disk, host, peers, lost, shaken, n>>

\* Lost on the way; one that has arrived waits for the lock and is not.
Lose(m) ==
  /\ lock = Unlocked
  /\ net' = net \ {m}
  /\ UNCHANGED <<up, e, lock, tick, call, disk, host, peers, lost, shaken, n>>

\* An exit's user changes his mind; announceOffer, in a goroutine of its own,
\* tells the direct peers.
AnnounceOffer(k) ==
  /\ n.events < MaxEvents /\ Count("events")
  /\ offers' = [offers EXCEPT ![k] = ~@]
  /\ IF HasPeer(k)
     THEN Send({[key |-> k, offered |-> offers'[k], granted |-> FALSE]})
     ELSE UNCHANGED net
  /\ UNCHANGED <<up, e, lock, tick, call, disk, host, owner, path, listed, lost, shaken>>
-----------------------------------------------------------------------------
(* The environment: P2P, the coordinator, the network *)

Connects(k) ==
  /\ up /\ path[k] # "live" /\ \E a \in Addrs : listed[a] = k
  /\ path' = [path EXCEPT ![k] = "live"]
  /\ UNCHANGED <<up, e, lock, tick, call, disk, host, owner, listed, offers, net, lost, shaken, n>>

\* A path goes stale, its peer is removed, or a new punch resets the peer's
\* allowed addresses.
PathChanges(k, p) ==
  /\ up /\ HasPeer(k) /\ n.events < MaxEvents /\ Count("events")
  /\ path' = [path EXCEPT ![k] = p]
  /\ owner' = IF p # "stale" /\ owner = k THEN NoKey ELSE owner
  /\ UNCHANGED <<up, e, lock, tick, call, disk, host, listed, offers, net, lost, shaken>>

\* An address leaves the peer list or goes to another device.
ListChanges(a, k) ==
  /\ n.events < MaxEvents /\ Count("events")
  /\ listed[a] # k
  /\ listed' = [b \in Addrs |-> IF b = a THEN k ELSE IF listed[b] = k THEN NoKey ELSE listed[b]]
  /\ UNCHANGED <<up, e, lock, tick, call, disk, host, owner, path, offers, net, lost, shaken>>

\* The kernel may remove the routes through a gateway that is gone.
UplinkChanges(g) ==
  /\ n.events < MaxEvents /\ Count("events")
  /\ g # uplink
  /\ uplink' = g
  /\ bypass' \in {bypass, [d \in Dests |-> IF bypass[d] = uplink THEN NoGateway ELSE bypass[d]]}
  /\ UNCHANGED <<up, e, lock, tick, call, disk, split, reject, masq, peers, net, lost, shaken>>

Tick == ReconcileUnused \/ ReconcileStandby \/ ReconcileBackoff \/ Activate \/ ActivateFails

Held ==
  \/ DropSplit \/ TakeBack \/ DropRest \/ DropNAT \/ Activated
  \/ \E r \in Route : Install(r)

Calls(c) == Use(c) \/ Wait(c) \/ WaitClears(c)

Next ==
  \/ Tick \/ Held \/ BackoffEnds \/ TickEnds \/ QueryDirectPeers \/ RecordTickPanic
  \/ Panic \/ ActivatePanics
  \/ \E r \in Route : InstallFails(r)
  \/ \E c \in Callers : Calls(c) \/ ClearExitNode(c) \/ \E a \in Addrs : UseExitNode(c, a)
  \/ Start \/ Stop \/ Crash
  \/ \E m \in net : HandleRequest(m) \/ HandleStatus(m) \/ Lose(m)
  \/ \E k \in Keys :
       \/ AnnounceOffer(k) \/ Connects(k)
       \/ \E p \in {"none", "stale", "live"} : PathChanges(k, p)
       \/ \E a \in Addrs : ListChanges(a, k)
  \/ \E a \in Addrs : ListChanges(a, NoKey)
  \/ \E g \in Gateways \cup {NoGateway} : UplinkChanges(g)

Spec == Init /\ [][Next]_vars

(* The loop ticks for ever and its queries are repeated; calls and locked     *)
(* sections end; a message sent again and again gets through at last.         *)
Fairness ==
  /\ WF_vars(Tick) /\ WF_vars(Held) /\ WF_vars(TickEnds) /\ WF_vars(RecordTickPanic)
  /\ SF_vars(QueryDirectPeers)
  /\ \A k \in Keys :
       /\ SF_vars(\E m \in net : m.key = k /\ HandleRequest(m))
       /\ SF_vars(\E m \in net : m.key = k /\ HandleStatus(m))

FairSpec == Spec /\ Fairness
-----------------------------------------------------------------------------
(* Types of the engine, the lock, the host and the messages. *)
TypeOK ==
  /\ up \in BOOLEAN /\ e \in Engine
  /\ lock \in Work \cup {Unlocked}
  /\ tick \in {"idle", "busy", "end", "panic"}
  /\ call \in [Callers -> Call]
  /\ disk \in File
  /\ bypass \in [Dests -> Gateways \cup {NoGateway}]
  /\ split \in BOOLEAN /\ reject \in BOOLEAN /\ masq \in BOOLEAN
  /\ uplink \in Gateways \cup {NoGateway}
  /\ owner \in Keys \cup {Server, NoKey}
  /\ path \in [Keys -> {"none", "stale", "live"}]
  /\ listed \in [Addrs -> Keys \cup {NoKey}]
  /\ offers \in [Keys -> BOOLEAN]
  /\ net \subseteq Message /\ shaken \in BOOLEAN
  /\ lost \subseteq Route \cup {Masquerade}
  /\ n \in Counters

(* Every route and rule on the host can be removed by somebody who knows it:  *)
(* the running engine, with the gateway the route was installed with, or the  *)
(* state file when nothing runs.  There are two exceptions, both of the code: *)
(* what a crash found on the host and not yet in the file (activateLocked     *)
(* saves once, at its end), and what a failed deletion left, which            *)
(* deleteRoutesLocked and deactivateLocked forget after logging the error.    *)
HostRecorded ==
  \A r \in OnHost : Recorded(r, IF up THEN e ELSE disk) \/ r \in lost

(* Fail-open: a pass of the loop that does not report "active" has left no    *)
(* split default on the host but one whose deletion failed                    *)
(* (NormalRoutingRestored), whatever else failed or panicked on the way; and  *)
(* one that reports "active" has it in place, unless a tick of this process   *)
(* panicked (ActiveSends).                                                    *)
FailOpen ==
  tick = "end" /\ lock = Unlocked =>
    /\ split => e.phase = "active" \/ Split \in lost
    /\ e.phase = "active" => split \/ shaken

(* Traffic sent into a tunnel where no exit owns 0.0.0.0/0. *)
Astray == split /\ owner \notin Keys

(* The engine takes 0.0.0.0/0 away from an exit only after the split default  *)
(* is gone: whatever it does, it does not lead traffic astray itself, unless  *)
(* the split default's own deletion failed before.                            *)
SplitGoesFirst ==
  [][Astray' /\ owner \in Keys /\ Split \notin lost => UNCHANGED <<e, lock>>]_vars

(* Traffic led astray by a new punch or a removed peer does not stay so:      *)
(* activateLocked asserts 0.0.0.0/0 on every pass, or the pass fails open.    *)
(* A split default whose deletion failed is not looked at again.              *)
AstrayEnds == Astray ~> ~Astray \/ Split \in lost

(* When nothing of the exit is left in the engine, 0.0.0.0/0 is with the peer *)
(* that had it before; a panic during an activation can make the engine       *)
(* forget who that was (ServerKeepsDefault).                                  *)
DefaultReturned ==
  up /\ lock = Unlocked /\ e.routes = {} /\ ~e.allowed /\ ~shaken => owner = Base

(* What a user or the breaker gave up leaves the host: recordTickPanic leaves *)
(* the routes to the next tick.  It tries once: a split default whose         *)
(* deletion failed stays.                                                     *)
UnusedLeavesHost ==
  up /\ e.use = NoAddr ~>
    ~up \/ e.use # NoAddr \/ (e.routes = {} /\ (split => Split \in lost))

(* An exit that withdrew its offer loses its users, although announcements    *)
(* are lost or overtaken by an older grant: the query repairs that.           *)
WithdrawnIsLeft ==
  \A k \in Keys : ~offers[k] ~> offers[k] \/ ~(split /\ owner = k)

(* What the breaker's log line says: normal routing is restored, and with it  *)
(* the server's 0.0.0.0/0.                                                    *)
ServerKeepsDefault ==
  up /\ lock = Unlocked /\ tick = "end" /\ e.use = NoAddr => owner = Base

(* What deactivateLocked's log line says: normal routing is restored. *)
NormalRoutingRestored ==
  tick = "end" /\ lock = Unlocked /\ e.phase # "active" => ~split

(* What activateLocked's log line says: the internet traffic goes through the *)
(* exit.                                                                      *)
ActiveSends == tick = "end" /\ lock = Unlocked /\ e.phase = "active" => split

(* A call gives up an exit only because that exit refused. *)
RefusalClearsRefuser ==
  [][\A c \in Callers :
       call[c].pc = "refused" /\ call'[c].pc # "refused" /\ up' /\ e.use # NoAddr => Refused]_vars

(* The purpose of the file, in the comment of exitnode.State: the leftovers   *)
(* of a crashed daemon can be removed.                                        *)
CrashCleaned == up /\ lock = Unlocked /\ e.use = NoAddr /\ tick = "end" => OnHost = {}
=============================================================================

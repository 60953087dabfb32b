----------------------------- MODULE ExitShare -----------------------------
(***************************************************************************)
(* The sharing side of exit-node mode on a Linux host (exitEngine in       *)
(* exitnode.go, the iptables backend of exitnode/nat.go), together with    *)
(* local-access sharing, which needs the same IP forwarding switch.        *)
(*                                                                         *)
(* A device keeps one engine per start of the tunnel.  Callers fetch the   *)
(* engine and use it later, so one that was stopped meanwhile may still be *)
(* used: `gen' is the engine a thread holds.                               *)
(*   Callers  SetExitOffer, from the local API and from the controller     *)
(*   Loop     the reconcile loop of the current engine (ensureNAT)         *)
(*   Tunnel   Agent.Start, Connect, Disconnect and Stop, serialised        *)
(* e.mu is held by a thread at "drop" or "move"; every other section that  *)
(* takes it is one action.  What is on disk and on the host survives the   *)
(* process, the rest does not.                                             *)
(***************************************************************************)
EXTENDS Naturals, FiniteSets

CONSTANTS
  Callers, Loop, Tunnel,
  Uplinks, NoUplink,    \* interfaces that may carry the default route
  NoNAT,
  AllowLocalAccess,     \* config.AllowLocalAccess
  Faulty,               \* removing a rule or writing the state file may fail
  MaxStarts,            \* bound: engines
  MaxStops,             \* bound: Disconnect
  MaxQuits,             \* bound: Agent.Stop
  MaxCrashes,           \* bound: crashes of the process
  MaxOffers,            \* bound: calls of SetExitOffer
  MaxFailures,          \* bound: failed installations of the NAT rules
  MaxEvents             \* bound: firewall reloads and uplink changes

ASSUME ShareAssumption ==
  /\ Loop # Tunnel /\ Loop \notin Callers /\ Tunnel \notin Callers
  /\ NoUplink \notin Uplinks /\ NoNAT \notin [uplink : Uplinks, prev : BOOLEAN]
  /\ AllowLocalAccess \in BOOLEAN /\ Faulty \in BOOLEAN
  /\ MaxStarts \in Nat /\ MaxStops \in Nat /\ MaxQuits \in Nat /\ MaxCrashes \in Nat
  /\ MaxOffers \in Nat /\ MaxFailures \in Nat /\ MaxEvents \in Nat

Threads == Callers \cup {Loop, Tunnel}
Gens == 1 .. MaxStarts
NoGen == 0

VARIABLES
  proc,     \* "off" (never started, or stopped), "on", "crashed"
  running,  \* Device.running
  exit,     \* Device.exit: the current engine
  loop,     \* the engine whose reconcile loop runs
  st,       \* exitEngine.st of each engine
  allow,    \* exitGuard.allow
  disk,     \* the state file
  shared,   \* Device.localAccessShared
  rules,    \* host: the uplinks our NAT rules are installed for
  fwd,      \* host: ip_forward
  base,     \* host: ip_forward before the daemon first ran
  lan,      \* host: the local-access rules
  uplink,   \* host: the interface of the default route
  thr,      \* what each thread is doing
  wish,     \* history: the last answer SetExitOffer gave, or the saved choice
  lost,     \* history: the process ended while the file was behind the host
  late,     \* history: a call went on with an engine that had been stopped
  n         \* the bounded counters

device == <<proc, running, exit, loop, st, allow, disk, shared>>
host == <<rules, fwd, base, lan, uplink>>
vars == <<device, host, thr, wish, lost, late, n>>

\* NATState: the uplink of the plan and PrevForward.
NATState == [uplink : Uplinks, prev : BOOLEAN]
State == [offer : BOOLEAN, nat : NATState \cup {NoNAT}]

PC == {"idle", "load", "cleanup", "enable", "disable", "drop", "move", "save",
       "share", "shared", "halt", "unshare"}

\* What a fresh process knows.
NoState == [g \in Gens |-> [offer |-> FALSE, nat |-> NoNAT]]

\* A thread: the engine it uses, the localAccessShared it read, the uplink it
\* found, and (Tunnel) whether its call is one of the Agent and may end it.
Thread == [pc : PC, gen : Gens \cup {NoGen}, keep : BOOLEAN, to : Uplinks \cup {NoUplink},
           quit : BOOLEAN]

Idle == [pc |-> "idle", gen |-> NoGen, keep |-> FALSE, to |-> NoUplink, quit |-> FALSE]

Counters == [starts : 0 .. MaxStarts, stops : 0 .. MaxStops, quits : 0 .. MaxQuits,
             crashes : 0 .. MaxCrashes, offers : 0 .. MaxOffers,
             failures : 0 .. MaxFailures, events : 0 .. MaxEvents]

Init ==
  /\ proc = "off" /\ running = FALSE /\ exit = NoGen /\ loop = NoGen
  /\ st = NoState
  /\ allow = FALSE /\ shared = FALSE
  /\ disk \in [offer : BOOLEAN, nat : {NoNAT}]
  /\ rules = {} /\ base \in BOOLEAN /\ fwd = base /\ lan = FALSE
  /\ uplink \in Uplinks
  /\ thr = [t \in Threads |-> Idle]
  /\ wish = disk.offer /\ lost = FALSE /\ late = FALSE
  /\ n = [starts |-> 0, stops |-> 0, quits |-> 0, crashes |-> 0,
          offers |-> 0, failures |-> 0, events |-> 0]

At(t, pc) == thr[t].pc = pc
Goto(t, pc) == thr' = [thr EXCEPT ![t].pc = pc]
Done(t) == thr' = [thr EXCEPT ![t] = Idle]
Enter(t, pc, keep) == thr' = [thr EXCEPT ![t].pc = pc, ![t].keep = keep]
Count(c) == n' = [n EXCEPT ![c] = @ + 1]

Free(g) == \A t \in Threads : thr[t].gen = g => thr[t].pc \notin {"drop", "move"}

\* The engine in charge of the guard: the current one, or the one being stopped.
Current == IF At(Tunnel, "halt") THEN thr[Tunnel].gen ELSE exit

\* History: was this done with an engine that is no longer in charge?
Late(g) == late' = (late \/ g # Current)
-----------------------------------------------------------------------------
(* The host: EnableNAT, DisableNAT *)

\* Mutant: the rules stay when the plan is dropped.
NeverRemoved(ns, left) == rules

\* DisableNAT removes the rules and restores forwarding if it was off before;
\* a removal that fails leaves the rules behind.
Removed(ns, left) == rules \ (IF left THEN {} ELSE {ns.uplink})

\* The switch after DisableNAT, which leaves it to local access if told so.
Restored(ns, keep) == IF ns.prev \/ keep THEN fwd ELSE FALSE

\* DefaultGateway finds the interface of the default route.
UplinkFound == uplink # NoUplink

Recorded(s) == IF s.nat = NoNAT THEN {} ELSE {s.nat.uplink}

\* The file does not tell how to undo what is on the host.
Behind ==
  \/ rules \ Recorded(disk) # {}
  \/ fwd # base /\ (disk.nat = NoNAT \/ disk.nat.prev)

\* The NAT state EnableNAT returns for uplink u when forwarding is at f.
Applied(u, f) == [uplink |-> u, prev |-> f]
-----------------------------------------------------------------------------
(* enableOffer *)

EnableAgain(t) ==
  LET g == thr[t].gen
  IN /\ At(t, "enable") /\ Free(g)
     /\ st[g].offer /\ st[g].nat # NoNAT
     /\ wish' = (wish \/ t \in Callers)
     /\ Goto(t, "save")
     /\ UNCHANGED <<device, host, lost, late, n>>

EnableOffer(t) ==
  LET g == thr[t].gen
  IN /\ At(t, "enable") /\ Free(g)
     /\ ~(st[g].offer /\ st[g].nat # NoNAT)
     /\ UplinkFound
     /\ st' = [st EXCEPT ![g] = [offer |-> TRUE, nat |-> Applied(uplink, fwd)]]
     /\ allow' = TRUE
     /\ rules' = rules \cup {uplink}
     /\ fwd' = TRUE
     /\ wish' = (wish \/ t \in Callers)
     /\ Goto(t, "save")
     /\ Late(g)
     /\ UNCHANGED <<proc, running, exit, loop, disk, shared, base, lan, uplink, lost, n>>

\* No default route, or EnableNAT fails and rolls back what it applied.  Only
\* the loop returns without saving.
EnableFails(t) ==
  LET g == thr[t].gen
  IN /\ At(t, "enable") /\ Free(g)
     /\ ~(st[g].offer /\ st[g].nat # NoNAT)
     /\ \/ ~UplinkFound /\ UNCHANGED <<rules, n>>
        \/ /\ UplinkFound /\ n.failures < MaxFailures
           /\ Count("failures")
           /\ rules' \in {rules, rules \ {uplink}}
     /\ IF t = Loop THEN Done(t) ELSE Goto(t, "save")
     /\ UNCHANGED <<device, fwd, base, lan, uplink, wish, lost, late>>

Enable(t) == EnableAgain(t) \/ EnableOffer(t) \/ EnableFails(t)

\* save, with its own hold of the lock.
Save(t) ==
  LET g == thr[t].gen
  IN /\ At(t, "save") /\ Free(g)
     /\ disk' = st[g] \/ (Faulty /\ disk' = disk)
     /\ loop' = IF t = Tunnel THEN g ELSE loop
     /\ IF t = Tunnel /\ AllowLocalAccess THEN Goto(t, "share") ELSE Done(t)
     /\ Late(g)
     /\ UNCHANGED <<proc, running, exit, st, allow, shared, host, wish, lost, n>>
-----------------------------------------------------------------------------
(* SetExitOffer *)

\* The API opens at the end of Agent.Start and serves until the end of Stop.
SetExitOffer(c, on) ==
  /\ At(c, "idle") /\ proc = "on" /\ ~thr[Tunnel].quit
  /\ exit # NoGen
  /\ n.offers < MaxOffers /\ Count("offers")
  /\ thr' = [thr EXCEPT ![c].pc = IF on THEN "enable" ELSE "disable", ![c].gen = exit]
  /\ UNCHANGED <<device, host, wish, lost, late>>

\* Mutant: the guard stays open.
DisableLeavesGuard(c) ==
  LET g == thr[c].gen
  IN /\ At(c, "disable") /\ Free(g)
     /\ st' = [st EXCEPT ![g].offer = FALSE]
     /\ wish' = FALSE
     /\ Enter(c, IF st[g].nat # NoNAT THEN "drop" ELSE "save", shared)
     /\ Late(g)
     /\ UNCHANGED <<proc, running, exit, loop, allow, disk, shared, host, lost, n>>

\* disableOffer closes the guard, then disableNATLocked reads whether local
\* access still needs forwarding ...
Disable(c) ==
  LET g == thr[c].gen
  IN /\ At(c, "disable") /\ Free(g)
     /\ st' = [st EXCEPT ![g].offer = FALSE]
     /\ allow' = FALSE
     /\ wish' = FALSE
     /\ Enter(c, IF st[g].nat # NoNAT THEN "drop" ELSE "save", shared)
     /\ Late(g)
     /\ UNCHANGED <<proc, running, exit, loop, disk, shared, host, lost, n>>

\* ... and removes the rules.
Drop(c) ==
  LET g == thr[c].gen
  IN /\ At(c, "drop")
     /\ \E left \in {FALSE, Faulty} : rules' = Removed(st[g].nat, left)
     /\ fwd' = Restored(st[g].nat, thr[c].keep)
     /\ st' = [st EXCEPT ![g].nat = NoNAT]
     /\ Goto(c, "save")
     /\ UNCHANGED <<proc, running, exit, loop, allow, disk, shared, base, lan, uplink, wish, lost, late, n>>
-----------------------------------------------------------------------------
(* ensureNAT, every exitEnsureEvery *)

Ready(g) == At(Loop, "idle") /\ loop = g /\ g # NoGen /\ Free(g)

\* Mutant: the loop keeps the uplink it started with.
NeverMoved(g) == FALSE

Moved(g) == st[g].nat # NoNAT /\ uplink \notin {NoUplink, st[g].nat.uplink}

EnsureMove(g) ==
  /\ Ready(g) /\ Moved(g)
  /\ thr' = [thr EXCEPT ![Loop] = [@ EXCEPT !.pc = "move", !.gen = g, !.keep = shared, !.to = uplink]]
  /\ UNCHANGED <<device, host, wish, lost, late, n>>

\* The rules leave the old uplink and are installed for the new one, or not.
Move ==
  LET g == thr[Loop].gen
      to == thr[Loop].to
      off == Restored(st[g].nat, thr[Loop].keep)
  IN /\ At(Loop, "move")
     /\ \E left \in {FALSE, Faulty} :
          \/ /\ rules' = Removed(st[g].nat, left) \cup {to}
             /\ fwd' = TRUE
             /\ st' = [st EXCEPT ![g].nat = Applied(to, off)]
             /\ UNCHANGED n
          \/ /\ n.failures < MaxFailures /\ Count("failures")
             /\ rules' \in {Removed(st[g].nat, left), Removed(st[g].nat, left) \ {to}}
             /\ fwd' = off
             /\ st' = [st EXCEPT ![g].nat = NoNAT]
     /\ disk' = st'[g] \/ (Faulty /\ disk' = disk)
     /\ Done(Loop)
     /\ UNCHANGED <<proc, running, exit, loop, allow, shared, base, lan, uplink, wish, lost, late>>

\* EnsureNAT: rules somebody else removed come back.
EnsureRepair(g) ==
  /\ Ready(g) /\ st[g].nat # NoNAT /\ ~Moved(g)
  /\ st[g].nat.uplink \notin rules
  /\ \/ /\ rules' = rules \cup {st[g].nat.uplink}
        /\ disk' = st[g] \/ (Faulty /\ disk' = disk)
        /\ UNCHANGED n
     \/ /\ n.failures < MaxFailures /\ Count("failures")
        /\ UNCHANGED <<rules, disk>>
  /\ UNCHANGED <<proc, running, exit, loop, st, allow, shared, fwd, base, lan, uplink, thr, wish, lost, late>>

\* Offered but not installed: the lock is dropped and enableOffer called.
EnsureRetry(g) ==
  /\ Ready(g) /\ st[g].nat = NoNAT /\ st[g].offer
  /\ thr' = [thr EXCEPT ![Loop].pc = "enable", ![Loop].gen = g]
  /\ UNCHANGED <<device, host, wish, lost, late, n>>

EnsureNAT == \E g \in Gens : EnsureMove(g) \/ EnsureRepair(g) \/ EnsureRetry(g)
-----------------------------------------------------------------------------
(* The tunnel: Device.Start, Device.Stop, startExitEngine, stopExitEngine *)

Begin(quit) == thr' = [thr EXCEPT ![Tunnel] = [Idle EXCEPT !.pc = "load", !.quit = quit]]

\* Agent.Start of a new process.
Boot ==
  /\ proc # "on" /\ n.starts < MaxStarts
  /\ proc' = "on" /\ running' = TRUE
  /\ wish' = disk.offer
  /\ Begin(TRUE)
  /\ UNCHANGED <<exit, loop, st, allow, disk, shared, host, lost, late, n>>

\* Agent.Connect after a Disconnect.
Connect ==
  /\ proc = "on" /\ ~running /\ At(Tunnel, "idle") /\ n.starts < MaxStarts
  /\ running' = TRUE
  /\ Begin(FALSE)
  /\ UNCHANGED <<proc, exit, loop, st, allow, disk, shared, host, wish, lost, late, n>>

\* startExitEngine reads the state file ...
StartLoad ==
  LET g == n.starts + 1
  IN /\ At(Tunnel, "load")
     /\ Count("starts")
     /\ st' = [st EXCEPT ![g] = disk]
     /\ thr' = [thr EXCEPT ![Tunnel].pc = "cleanup", ![Tunnel].gen = g]
     /\ UNCHANGED <<proc, running, exit, loop, allow, disk, shared, host, wish, lost, late>>

\* Mutant: the leftovers of the previous run stay.
StartWithoutCleanup ==
  LET g == thr[Tunnel].gen
  IN /\ At(Tunnel, "cleanup")
     /\ st' = [st EXCEPT ![g].nat = NoNAT]
     /\ exit' = g
     /\ Goto(Tunnel, IF st[g].offer THEN "enable" ELSE "save")
     /\ UNCHANGED <<proc, running, loop, allow, disk, shared, host, wish, lost, late, n>>

\* ... cleanupStale removes the NAT recorded in it, and the engine is published.
StartCleanup ==
  LET g == thr[Tunnel].gen
  IN /\ At(Tunnel, "cleanup")
     /\ IF st[g].nat = NoNAT
        THEN UNCHANGED <<rules, fwd>>
        ELSE /\ \E left \in {FALSE, Faulty} : rules' = Removed(st[g].nat, left)
             /\ fwd' = Restored(st[g].nat, FALSE)
     /\ st' = [st EXCEPT ![g].nat = NoNAT]
     /\ exit' = g
     /\ Goto(Tunnel, IF st[g].offer THEN "enable" ELSE "save")
     /\ UNCHANGED <<proc, running, loop, allow, disk, shared, base, lan, uplink, wish, lost, late, n>>

\* EnableLocalAccess: nothing to do when the flag is set; otherwise forwarding
\* and the rules, or forwarding and an error, which ends Agent.Start.
Share ==
  /\ At(Tunnel, "share")
  /\ \/ /\ shared
        /\ Done(Tunnel)
        /\ UNCHANGED <<running, exit, host, n>>
     \/ /\ ~shared
        /\ fwd' = TRUE /\ lan' = TRUE
        /\ Goto(Tunnel, "shared")
        /\ UNCHANGED <<running, exit, rules, base, uplink, n>>
     \/ /\ ~shared /\ n.failures < MaxFailures /\ Count("failures")
        /\ fwd' \in {fwd, TRUE}
        /\ IF thr[Tunnel].quit
           THEN running' = FALSE /\ exit' = NoGen /\ Enter(Tunnel, "halt", shared)
           ELSE Done(Tunnel) /\ UNCHANGED <<running, exit>>
        /\ UNCHANGED <<rules, base, lan, uplink>>
  /\ UNCHANGED <<proc, loop, st, allow, disk, shared, wish, lost, late>>

\* The flag follows the rules.
Shared ==
  /\ At(Tunnel, "shared")
  /\ shared' = TRUE
  /\ Done(Tunnel)
  /\ UNCHANGED <<proc, running, exit, loop, st, allow, disk, host, wish, lost, late, n>>

\* Disconnect (quit = FALSE) and Agent.Stop, whose advertiser disables local
\* access before the device stops.
Stop(quit) ==
  /\ proc = "on" /\ running /\ At(Tunnel, "idle")
  /\ IF quit
     THEN n.quits < MaxQuits /\ Count("quits")
     ELSE n.stops < MaxStops /\ Count("stops")
  /\ running' = FALSE /\ exit' = NoGen
  /\ IF quit /\ shared
     THEN shared' = FALSE /\ lan' = FALSE
     ELSE UNCHANGED <<shared, lan>>
  /\ thr' = [thr EXCEPT ![Tunnel] = [Idle EXCEPT !.pc = "halt", !.gen = exit, !.quit = quit,
                                                 !.keep = shared']]
  /\ UNCHANGED <<proc, loop, st, allow, disk, rules, fwd, base, uplink, wish, lost, late>>

\* stopExitEngine: the loop has ended, the rules go, the guard closes, and the
\* choice is saved.
Halt ==
  LET g == thr[Tunnel].gen
  IN /\ At(Tunnel, "halt") /\ At(Loop, "idle") /\ Free(g)
     /\ loop' = NoGen
     /\ IF st[g].nat = NoNAT
        THEN UNCHANGED <<rules, fwd>>
        ELSE /\ \E left \in {FALSE, Faulty} : rules' = Removed(st[g].nat, left)
             /\ fwd' = Restored(st[g].nat, shared)
     /\ st' = [st EXCEPT ![g].nat = NoNAT]
     /\ allow' = FALSE
     /\ disk' = st'[g] \/ (Faulty /\ disk' = disk)
     /\ Goto(Tunnel, "unshare")
     /\ UNCHANGED <<proc, running, exit, shared, base, lan, uplink, wish, lost, late, n>>

\* The rest of Device.Stop; the flag stays set.  The process ends with the Agent.
Unshare ==
  /\ At(Tunnel, "unshare")
  /\ lan' = (lan /\ ~thr[Tunnel].keep)
  /\ IF thr[Tunnel].quit
     THEN /\ proc' = "off" /\ shared' = FALSE /\ allow' = FALSE
          /\ st' = NoState
          /\ lost' = (lost \/ (late /\ Behind))
          /\ thr' = [t \in Threads |-> Idle]
     ELSE /\ Done(Tunnel)
          /\ UNCHANGED <<proc, shared, allow, st, lost>>
  /\ UNCHANGED <<running, exit, loop, disk, rules, fwd, base, uplink, wish, late, n>>
-----------------------------------------------------------------------------
(* The environment *)

Crash ==
  /\ proc = "on" /\ n.crashes < MaxCrashes /\ Count("crashes")
  /\ proc' = "crashed" /\ running' = FALSE /\ exit' = NoGen /\ loop' = NoGen
  /\ allow' = FALSE /\ shared' = FALSE
  /\ st' = NoState
  /\ thr' = [t \in Threads |-> Idle]
  /\ lost' = (lost \/ Behind)
  /\ UNCHANGED <<disk, host, wish, late>>

\* Somebody reloads the firewall: our rules are gone.
FirewallReload ==
  /\ rules # {} /\ n.events < MaxEvents /\ Count("events")
  /\ rules' = {}
  /\ UNCHANGED <<device, fwd, base, lan, uplink, thr, wish, lost, late>>

UplinkChange ==
  /\ n.events < MaxEvents /\ Count("events")
  /\ uplink' \in (Uplinks \cup {NoUplink}) \ {uplink}
  /\ UNCHANGED <<device, rules, fwd, base, lan, thr, wish, lost, late>>
-----------------------------------------------------------------------------
EngineStep(t) == Enable(t) \/ Save(t)
CallerStep(c) == EngineStep(c) \/ Disable(c) \/ Drop(c)
LoopStep == EngineStep(Loop) \/ EnsureNAT \/ Move
TunnelStep ==
  \/ EngineStep(Tunnel) \/ StartLoad \/ StartCleanup \/ Share \/ Shared \/ Halt \/ Unshare

Next ==
  \/ \E c \in Callers : CallerStep(c) \/ \E on \in BOOLEAN : SetExitOffer(c, on)
  \/ LoopStep
  \/ TunnelStep
  \/ Boot \/ Connect \/ \E quit \in BOOLEAN : Stop(quit)
  \/ Crash \/ FirewallReload \/ UplinkChange

Spec == Init /\ [][Next]_vars

\* Calls return, the loop ticks; Boot is what a service manager does.
Fairness ==
  /\ WF_vars(Boot) /\ WF_vars(TunnelStep) /\ WF_vars(LoopStep)
  /\ \A c \in Callers : WF_vars(CallerStep(c))

FairSpec == Spec /\ Fairness
-----------------------------------------------------------------------------
\* The values the engine, the host and the threads take.
TypeOK ==
  /\ proc \in {"off", "on", "crashed"}
  /\ running \in BOOLEAN /\ allow \in BOOLEAN /\ shared \in BOOLEAN
  /\ exit \in Gens \cup {NoGen} /\ loop \in Gens \cup {NoGen}
  /\ st \in [Gens -> State] /\ disk \in State
  /\ rules \subseteq Uplinks
  /\ fwd \in BOOLEAN /\ base \in BOOLEAN /\ lan \in BOOLEAN
  /\ uplink \in Uplinks \cup {NoUplink}
  /\ thr \in [Threads -> Thread]
  /\ wish \in BOOLEAN /\ lost \in BOOLEAN /\ late \in BOOLEAN
  /\ n \in Counters

\* The guard of the receive path is open only for an engine that offers, whatever
\* SetExitOffer calls, stops and the loop's retries interleave, as long as no call
\* outlives its engine (exitGuard.allow against exitEngine.st.Offer).
GuardNeedsOffer == allow /\ ~late => Current # NoGen /\ st[Current].offer

\* Every NAT rule on the host is known to some engine, even a stopped one, or to
\* the state file, so that somebody can remove it (enableOffer, ensureNAT,
\* disableNATLocked, cleanupStale).
RulesRecorded ==
  proc = "on" /\ ~lost
    => rules \subseteq (UNION {Recorded(st[g]) : g \in Gens}) \cup Recorded(disk)

Stopped == proc = "off" /\ At(Tunnel, "idle")

\* A daemon that stopped cleanly left no rule and the forwarding it found, also
\* after earlier crashes, if none hit while the file was behind the host and no
\* call outlived its engine (stopExitEngine, cleanupStale, restoreForwarding).
NothingLingers ==
  Stopped /\ ~lost /\ ~late => rules = {} /\ (~AllowLocalAccess => fwd = base)

Offering(g) == ~late /\ loop = g /\ running /\ st[g].offer /\ uplink # NoUplink

Served(g) ==
  /\ st[g].nat # NoNAT /\ st[g].nat.uplink = uplink
  /\ uplink \in rules /\ fwd /\ allow

\* An engine that offers ends up with its rules on the current uplink, after
\* firewall reloads, uplink changes and failed installations (ensureNAT).
OfferServed == \A g \in Gens : Offering(g) ~> (Served(g) \/ ~Offering(g))

-----------------------------------------------------------------------------
(* What the code's comments promise and the code does not keep *)

\* What SetExitOffer(false) answered stays true until somebody opts in again
\* (exitnode_guard.go: the guard enforces the opt-in).
OptOutHolds == ~wish /\ (\A c \in Callers : At(c, "idle")) => ~allow

\* With the tunnel down and nothing under way, no NAT rule lingers (Device.Stop).
NoNATWhileDown ==
  proc = "on" /\ ~running /\ (\A t \in Threads : At(t, "idle")) => rules = {}

\* A daemon that stopped cleanly after a crash left no rules (state.go).
CrashCleaned == Stopped => rules = {}

\* Local-access rules have forwarding (disableNATLocked keeps it for them).
LocalAccessForwards == shared /\ lan => fwd

\* Once the tunnel is back, local access that counts as shared is installed
\* (Agent.Connect).
LocalAccessRestored == running /\ At(Tunnel, "idle") /\ shared => lan
=============================================================================

--------------------------- MODULE AgentLifecycle ---------------------------
(***************************************************************************)
(* The life of the daemon (cmd/wantasticd/main.go, agent/agent.go,         *)
(* agent/connection.go, Start and Stop of device/device.go): main starts   *)
(* an agent, stops it on a signal or to switch accounts, the local API     *)
(* connects and disconnects the tunnel, workers run until the agent stops, *)
(* and one of them replaces the binary and stops the agent itself.         *)
(*                                                                         *)
(* Every Agent with its Device is a generation.  Threads share the         *)
(* Device's fields and the host; a step of a thread ends where the code    *)
(* gives up a lock, calls the host or waits.                               *)
(***************************************************************************)
EXTENDS Naturals, FiniteSets

CONSTANTS
  Users,         \* concurrent calls of the local API
  Plain,         \* workers that only wait for the end (health, DNS, claims, USP)
  Main, Updater, Advertiser, Nobody,
  AllowLocalAccess,
  MaxGens,       \* bound: agents created (maxRetries, account switches)
  MaxCalls,      \* bound: API calls
  MaxUpdates,    \* bound: updates installed
  MaxFaults      \* bound: host operations that fail

ASSUME LifecycleAssumption ==
  /\ IsFiniteSet(Users) /\ IsFiniteSet(Plain)
  /\ {Main, Updater, Advertiser, Nobody} \cap (Users \cup Plain) = {}
  /\ Users \cap Plain = {}
  /\ Main \notin {Updater, Advertiser, Nobody}
  /\ Updater \notin {Advertiser, Nobody} /\ Advertiser # Nobody
  /\ AllowLocalAccess \in BOOLEAN
  /\ MaxGens \in Nat \ {0} /\ MaxCalls \in Nat /\ MaxUpdates \in Nat /\ MaxFaults \in Nat

VARIABLES
  proc,      \* the process: "up", "exited" or "fatal"
  signal,    \* a signal has arrived: the context is cancelled
  gens,      \* generations created
  goal,      \* what main is doing: "run", "exit", "switch" or "back"
  agent,     \* Agent: running, stopCh, the WaitGroup, the API server
  dev,       \* Device: running, nativeTun, what it has recorded
  host,      \* the operating system
  tunnelMu,  \* the thread that holds it
  thr,       \* the threads
  raced,     \* history: generations whose Stop met another call
  n          \* the bounded counters

vars == <<proc, signal, gens, goal, agent, dev, host, tunnelMu, thr, raced, n>>

Gens == 1 .. MaxGens
Threads == {Main, Updater} \cup Users
Workers == Plain \cup {Updater} \cup (IF AllowLocalAccess THEN {Advertiser} ELSE {})

Agent == [running : BOOLEAN, stopping : BOOLEAN, wg : SUBSET Workers, api : BOOLEAN]

\* `rules' stands for systemRoutes and tenantFirewallRules, `shared' for localAccessShared.
Device == [running : BOOLEAN, tun : BOOLEAN, rules : BOOLEAN, engine : BOOLEAN, shared : BOOLEAN]

\* Interfaces, routes and firewall rules, and exit engines, by generation;
\* local-access rules.
Host == [tuns : SUBSET Gens, rules : SUBSET Gens, engines : SUBSET Gens, sharing : BOOLEAN]

Labels == {"idle",
           "boot", "s_begin", "s_tun", "s_up", "s_rules", "e_os", "e_flag",
           "a_local", "a_go", "a_undo", "a_busy", "a_failed", "up",
           "p_begin", "p_wait", "p_api", "p_done",
           "t_begin", "t_take", "t_undo",
           "c_check", "c_local", "c_done", "d_check"}

\* A thread: where it is, its agent, where to go after the Start or Stop of the
\* device, where to go when that fails, and what Stop has taken from the device.
Thread == [at : Labels, gen : Gens, ok : Labels, bad : Labels,
           took : [rules : BOOLEAN, shared : BOOLEAN]]

Nothing == [rules |-> FALSE, shared |-> FALSE]
New == [at |-> "idle", gen |-> 1, ok |-> "idle", bad |-> "idle", took |-> Nothing]

NewAgent == [running |-> FALSE, stopping |-> FALSE, wg |-> {}, api |-> FALSE]
NewDevice ==
  [running |-> FALSE, tun |-> FALSE, rules |-> FALSE, engine |-> FALSE, shared |-> FALSE]

Init ==
  /\ proc = "up" /\ signal = FALSE /\ gens = 0 /\ goal = "run"
  /\ agent = [g \in Gens |-> NewAgent]
  /\ dev = [g \in Gens |-> NewDevice]
  /\ host = [tuns |-> {}, rules |-> {}, engines |-> {}, sharing |-> FALSE]
  /\ tunnelMu = Nobody
  /\ thr = [t \in Threads |-> IF t = Main THEN [New EXCEPT !.at = "boot"] ELSE New]
  /\ raced = {}
  /\ n = [calls |-> 0, updates |-> 0, faults |-> 0]

\* The thread goes on at l.
Goto(t, l) == thr' = [thr EXCEPT ![t].at = l]
At(t, l) == proc = "up" /\ thr[t].at = l

\* Device.Start or Device.Stop is called: go on at `ok', or at `bad' on error.
Call(t, l, ok, bad) == thr' = [thr EXCEPT ![t].at = l, ![t].ok = ok, ![t].bad = bad]

Fault == n.faults < MaxFaults /\ n' = [n EXCEPT !.faults = @ + 1]
-----------------------------------------------------------------------------
(* Device.Start *)

StartBegin(t) ==
  LET g == thr[t].gen IN
  /\ At(t, "s_begin")
  /\ IF dev[g].running
     THEN Goto(t, thr[t].ok) /\ UNCHANGED dev
     ELSE Goto(t, "s_tun") /\ dev' = [dev EXCEPT ![g].running = TRUE]
  /\ UNCHANGED <<proc, signal, gens, goal, agent, host, tunnelMu, raced, n>>

StartFails(t, l) ==
  /\ dev' = [dev EXCEPT ![thr[t].gen].running = FALSE]
  /\ Goto(t, l)
  /\ UNCHANGED <<proc, signal, gens, goal, agent, tunnelMu, raced>>

\* CreateTUN: an interface of that name may exist already, from this device or
\* from another one of the process.
StartTun(t) ==
  LET g == thr[t].gen IN
  /\ At(t, "s_tun")
  /\ \/ /\ host.tuns = {}
        /\ host' = [host EXCEPT !.tuns = {g}]
        /\ dev' = [dev EXCEPT ![g].tun = TRUE]
        /\ Goto(t, "s_up")
        /\ UNCHANGED <<proc, signal, gens, goal, agent, tunnelMu, raced, n>>
     \/ /\ host.tuns # {}
        /\ StartFails(t, thr[t].bad)
        /\ UNCHANGED <<host, n>>

\* applyConfig and Up; an error leaves the interface behind.  Main tells a busy
\* port from other errors.
StartUp(t) ==
  /\ At(t, "s_up")
  /\ \/ /\ Goto(t, "s_rules")
        /\ UNCHANGED <<proc, signal, gens, goal, agent, dev, host, tunnelMu, raced, n>>
     \/ /\ Fault
        /\ \E l \in {thr[t].bad} \cup (IF t = Main THEN {"a_busy"} ELSE {}) : StartFails(t, l)
        /\ UNCHANGED host

\* Routes and firewall rules, the P2P client, port mapping, the exit engine.
StartRules(t) ==
  LET g == thr[t].gen IN
  /\ At(t, "s_rules")
  /\ host' = [host EXCEPT !.rules = @ \cup {g}, !.engines = @ \cup {g}]
  /\ dev' = [dev EXCEPT ![g].rules = TRUE, ![g].engine = TRUE]
  /\ Goto(t, thr[t].ok)
  /\ UNCHANGED <<proc, signal, gens, goal, agent, tunnelMu, raced, n>>
-----------------------------------------------------------------------------
(* EnableLocalAccess: `ok' is where to go after it. *)

EnableOS(t) ==
  LET g == thr[t].gen IN
  /\ At(t, "e_os")
  /\ \/ /\ dev[g].shared
        /\ Goto(t, thr[t].ok)
        /\ UNCHANGED <<host, n>>
     \/ /\ ~dev[g].shared
        /\ host' = [host EXCEPT !.sharing = TRUE]
        /\ Goto(t, "e_flag")
        /\ UNCHANGED n
     \/ /\ ~dev[g].shared
        /\ Fault
        /\ Goto(t, thr[t].bad)
        /\ UNCHANGED host
  /\ UNCHANGED <<proc, signal, gens, goal, agent, dev, tunnelMu, raced>>

EnableFlag(t) ==
  /\ At(t, "e_flag")
  /\ dev' = [dev EXCEPT ![thr[t].gen].shared = TRUE]
  /\ Goto(t, thr[t].ok)
  /\ UNCHANGED <<proc, signal, gens, goal, agent, host, tunnelMu, raced, n>>
-----------------------------------------------------------------------------
(* Device.Stop *)

StopBegin(t) ==
  LET g == thr[t].gen IN
  /\ At(t, "t_begin")
  /\ IF dev[g].running
     THEN Goto(t, "t_take") /\ dev' = [dev EXCEPT ![g].running = FALSE]
     ELSE Goto(t, thr[t].ok) /\ UNCHANGED dev
  /\ UNCHANGED <<proc, signal, gens, goal, agent, host, tunnelMu, raced, n>>

\* Mutant: the local-access rules are forgotten.
TakenHalf(d) == [rules |-> d.rules, shared |-> FALSE]

Taken(d) == [rules |-> d.rules, shared |-> d.shared]

\* stopPortMapping, then what is to be undone is taken from the device;
\* localAccessShared stays set.
StopTake(t) ==
  LET g == thr[t].gen IN
  /\ At(t, "t_take")
  /\ thr' = [thr EXCEPT ![t].at = "t_undo", ![t].took = Taken(dev[g])]
  /\ dev' = [dev EXCEPT ![g].rules = FALSE]
  /\ UNCHANGED <<proc, signal, gens, goal, agent, host, tunnelMu, raced, n>>

\* The exit engine, the rules, the routes, local access and the interface.
StopUndo(t) ==
  LET g == thr[t].gen
      took == thr[t].took IN
  /\ At(t, "t_undo")
  /\ host' = [tuns |-> IF dev[g].tun THEN host.tuns \ {g} ELSE host.tuns,
              rules |-> IF took.rules THEN host.rules \ {g} ELSE host.rules,
              engines |-> IF dev[g].engine THEN host.engines \ {g} ELSE host.engines,
              sharing |-> host.sharing /\ ~took.shared]
  /\ dev' = [dev EXCEPT ![g].tun = FALSE, ![g].engine = FALSE]
  /\ thr' = [thr EXCEPT ![t].at = thr[t].ok, ![t].took = Nothing]
  /\ UNCHANGED <<proc, signal, gens, goal, agent, tunnelMu, raced, n>>
-----------------------------------------------------------------------------
(* Agent.Stop *)

Calling(g) == \E u \in Users : thr[u].at # "idle" /\ thr[u].gen = g

\* Mutant: a second call waits for the workers as well.
SecondStopWaits == "p_wait"

\* Where Stop goes on when the agent is not running any more.
SecondStop == "p_done"

AgentStopBegin(t) ==
  LET g == thr[t].gen IN
  /\ At(t, "p_begin")
  /\ IF agent[g].running
     THEN /\ agent' = [agent EXCEPT ![g].running = FALSE, ![g].stopping = TRUE]
          /\ Goto(t, "p_wait")
     ELSE Goto(t, SecondStop) /\ UNCHANGED agent
  /\ raced' = IF Calling(g) \/ t = Updater THEN raced \cup {g} ELSE raced
  /\ UNCHANGED <<proc, signal, gens, goal, dev, host, tunnelMu, n>>

\* wg.Wait, then the device is stopped without tunnelMu.
AgentStopWait(t) ==
  /\ At(t, "p_wait")
  /\ agent[thr[t].gen].wg = {}
  /\ Call(t, "t_begin", "p_api", "p_api")
  /\ UNCHANGED <<proc, signal, gens, goal, agent, dev, host, tunnelMu, raced, n>>

\* Shutdown waits for the calls that are being served, or gives up on them.
AgentStopAPI(t) ==
  /\ At(t, "p_api")
  /\ agent' = [agent EXCEPT ![thr[t].gen].api = FALSE]
  /\ Goto(t, "p_done")
  /\ UNCHANGED <<proc, signal, gens, goal, dev, host, tunnelMu, raced, n>>
-----------------------------------------------------------------------------
(* Main: startAgentWithRetry, runAgent, switchAccount *)

Exit(how) ==
  /\ proc' = how
  /\ UNCHANGED <<signal, gens, goal, agent, dev, host, tunnelMu, thr, raced, n>>

AttemptsLeft == gens < MaxGens

\* agent.New and the beginning of Agent.Start.
Boot ==
  LET g == gens + 1 IN
  /\ At(Main, "boot")
  /\ AttemptsLeft
  /\ gens' = g
  /\ agent' = [agent EXCEPT ![g].running = TRUE]
  /\ thr' = [thr EXCEPT ![Main] = [New EXCEPT !.at = "s_begin", !.gen = g,
                                              !.ok = "a_local", !.bad = "a_failed"]]
  /\ UNCHANGED <<proc, signal, goal, dev, host, tunnelMu, raced, n>>

\* "failed to start agent after %d attempts"
GiveUp == At(Main, "boot") /\ ~AttemptsLeft /\ Exit("fatal")

StartLocal ==
  /\ At(Main, "a_local")
  /\ IF AllowLocalAccess THEN Call(Main, "e_os", "a_go", "a_undo") ELSE Goto(Main, "a_go")
  /\ UNCHANGED <<proc, signal, gens, goal, agent, dev, host, tunnelMu, raced, n>>

StartUndo ==
  /\ At(Main, "a_undo")
  /\ Call(Main, "t_begin", "a_failed", "a_failed")
  /\ UNCHANGED <<proc, signal, gens, goal, agent, dev, host, tunnelMu, raced, n>>

\* The workers and the API start.
StartGo ==
  LET g == thr[Main].gen IN
  /\ At(Main, "a_go")
  /\ agent' = [agent EXCEPT ![g].wg = Workers, ![g].api = TRUE]
  /\ thr' = [thr EXCEPT ![Main].at = "up", ![Updater] = [New EXCEPT !.gen = g]]
  /\ goal' = "run"
  /\ UNCHANGED <<proc, signal, gens, dev, host, tunnelMu, raced, n>>

\* "address already in use": the next port is tried with a new agent; the
\* Stop of the old one finds it not running.
StartBusy ==
  /\ At(Main, "a_busy")
  /\ agent' = [agent EXCEPT ![thr[Main].gen].running = FALSE]
  /\ Goto(Main, "boot")
  /\ UNCHANGED <<proc, signal, gens, goal, dev, host, tunnelMu, raced, n>>

\* Another error ends the daemon, or makes switchAccount go back.
StartFailed ==
  /\ At(Main, "a_failed")
  /\ \/ /\ goal = "switch"
        /\ goal' = "back"
        /\ agent' = [agent EXCEPT ![thr[Main].gen].running = FALSE]
        /\ Goto(Main, "boot")
        /\ UNCHANGED <<proc, signal, gens, dev, host, tunnelMu, raced, n>>
     \/ goal # "switch" /\ Exit("fatal")

Signal ==
  /\ proc = "up" /\ ~signal
  /\ signal' = TRUE
  /\ UNCHANGED <<proc, gens, goal, agent, dev, host, tunnelMu, thr, raced, n>>

Leave(why) ==
  /\ At(Main, "up")
  /\ goal' = why
  /\ Goto(Main, "p_begin")
  /\ UNCHANGED <<proc, signal, gens, agent, dev, host, tunnelMu, raced, n>>

Shutdown == signal /\ Leave("exit")
Switch == Leave("switch")

\* Stop has returned: the process ends, or the other account starts (or the
\* old one when the store refuses the other).
Stopped ==
  /\ At(Main, "p_done")
  /\ \/ goal = "exit" /\ Exit("exited")
     \/ /\ goal = "switch"
        /\ goal' \in {"switch", "back"}
        /\ Goto(Main, "boot")
        /\ UNCHANGED <<proc, signal, gens, agent, dev, host, tunnelMu, raced, n>>
-----------------------------------------------------------------------------
(* Workers *)

\* A worker returns once the context is cancelled or stopCh is closed.
Ending(g) == signal \/ agent[g].stopping

WorkerEnds(g, w) ==
  /\ proc = "up" /\ w \in agent[g].wg /\ Ending(g)
  /\ w = Updater => thr[Updater].at = "idle"
  /\ agent' = [agent EXCEPT ![g].wg = @ \ {w}]
  /\ IF w = Advertiser /\ dev[g].shared
     THEN /\ host' = [host EXCEPT !.sharing = FALSE]
          /\ dev' = [dev EXCEPT ![g].shared = FALSE]
     ELSE UNCHANGED <<host, dev>>
  /\ UNCHANGED <<proc, signal, gens, goal, tunnelMu, thr, raced, n>>

\* performSelfUpdate: the binary is replaced and the worker stops the agent.
Update ==
  /\ At(Updater, "idle")
  /\ \E g \in Gens : Updater \in agent[g].wg /\ g = thr[Updater].gen
  /\ n.updates < MaxUpdates
  /\ n' = [n EXCEPT !.updates = @ + 1]
  /\ Goto(Updater, "p_begin")
  /\ UNCHANGED <<proc, signal, gens, goal, agent, dev, host, tunnelMu, raced>>

\* os.Exit(0)
UpdateExit == At(Updater, "p_done") /\ Exit("exited")
-----------------------------------------------------------------------------
(* The local API; the toggle is one or the other *)

APICall(u) ==
  \E g \in Gens, l \in {"c_check", "d_check"} :
    /\ At(u, "idle") /\ agent[g].api
    /\ n.calls < MaxCalls
    /\ n' = [n EXCEPT !.calls = @ + 1]
    /\ thr' = [thr EXCEPT ![u] = [New EXCEPT !.at = l, !.gen = g]]
    /\ raced' = IF agent[g].stopping THEN raced \cup {g} ELSE raced
    /\ UNCHANGED <<proc, signal, gens, goal, agent, dev, host, tunnelMu>>

\* Mutant: the calls are not serialised.
LockNobody(u) == UNCHANGED tunnelMu

Lock(u) == tunnelMu = Nobody /\ tunnelMu' = u

Connect(u) ==
  LET g == thr[u].gen IN
  /\ At(u, "c_check")
  /\ Lock(u)
  /\ IF agent[g].running /\ ~dev[g].running
     THEN Call(u, "s_begin", "c_local", "c_done")
     ELSE Goto(u, "c_done")
  /\ UNCHANGED <<proc, signal, gens, goal, agent, dev, host, raced, n>>

ConnectLocal(u) ==
  /\ At(u, "c_local")
  /\ IF AllowLocalAccess THEN Call(u, "e_os", "c_done", "c_done") ELSE Goto(u, "c_done")
  /\ UNCHANGED <<proc, signal, gens, goal, agent, dev, host, tunnelMu, raced, n>>

Disconnect(u) ==
  /\ At(u, "d_check")
  /\ Lock(u)
  /\ IF dev[thr[u].gen].running
     THEN Call(u, "t_begin", "c_done", "c_done")
     ELSE Goto(u, "c_done")
  /\ UNCHANGED <<proc, signal, gens, goal, agent, dev, host, raced, n>>

Reply(u) ==
  /\ At(u, "c_done")
  /\ tunnelMu' = Nobody
  /\ Goto(u, "idle")
  /\ UNCHANGED <<proc, signal, gens, goal, agent, dev, host, raced, n>>
-----------------------------------------------------------------------------
\* Device.Start, EnableLocalAccess and Device.Stop, whoever called them.
DeviceStep(t) ==
  \/ StartBegin(t) \/ StartTun(t) \/ StartUp(t) \/ StartRules(t)
  \/ EnableOS(t) \/ EnableFlag(t)
  \/ StopBegin(t) \/ StopTake(t) \/ StopUndo(t)

AgentStop(t) == AgentStopBegin(t) \/ AgentStopWait(t) \/ AgentStopAPI(t)

MainStep ==
  \/ Boot \/ GiveUp \/ StartLocal \/ StartUndo \/ StartGo \/ StartBusy \/ StartFailed
  \/ Shutdown \/ Stopped
  \/ DeviceStep(Main) \/ AgentStop(Main)

UpdaterStep == AgentStop(Updater) \/ DeviceStep(Updater) \/ UpdateExit

UserStep(u) ==
  Connect(u) \/ ConnectLocal(u) \/ Disconnect(u) \/ Reply(u) \/ DeviceStep(u)

WorkerStep == \E g \in Gens, w \in Workers : WorkerEnds(g, w)

Next ==
  \/ MainStep \/ UpdaterStep \/ WorkerStep
  \/ \E u \in Users : UserStep(u) \/ APICall(u)
  \/ Signal \/ Switch \/ Update

Spec == Init /\ [][Next]_vars

\* Go runs every goroutine that can run; signals, updates, switches and calls
\* need not come.
FairSpec ==
  /\ Spec
  /\ WF_vars(MainStep) /\ WF_vars(UpdaterStep)
  /\ \A g \in Gens, w \in Workers : WF_vars(WorkerEnds(g, w))
  /\ \A u \in Users : WF_vars(UserStep(u))
-----------------------------------------------------------------------------
(* Properties *)

(* Types of the process, the agents and devices it has made, the host they    *)
(* share and the threads; startAgentWithRetry makes no more attempts than it  *)
(* may and every lock has one holder.                                         *)
TypeOK ==
  /\ proc \in {"up", "exited", "fatal"} /\ signal \in BOOLEAN
  /\ gens \in 0 .. MaxGens /\ goal \in {"run", "exit", "switch", "back"}
  /\ agent \in [Gens -> Agent] /\ dev \in [Gens -> Device] /\ host \in Host
  /\ tunnelMu \in Users \cup {Nobody}
  /\ thr \in [Threads -> Thread]
  /\ raced \subseteq Gens
  /\ n \in [calls : 0 .. MaxCalls, updates : 0 .. MaxUpdates, faults : 0 .. MaxFaults]

\* Nobody is inside Start or Stop of the device of generation g.
Quiet(g) ==
  \A t \in Threads : thr[t].gen = g =>
    thr[t].at \notin {"s_tun", "s_up", "s_rules", "t_take", "t_undo"}

\* Unless Agent.Stop meets a call of the API, the device says that it runs
\* exactly when its routes, firewall rules and exit engine are in place: two
\* calls never leave half of a tunnel, and an error leaves no rules.
Settled ==
  \A g \in Gens \ raced : Quiet(g) =>
    IF dev[g].running
    THEN g \in host.tuns \cap host.rules \cap host.engines
    ELSE g \notin host.rules \cup host.engines

\* When Agent.Stop has returned to main without meeting a call of the API or
\* an update, no routes, firewall rules, exit engine or local-access rules are
\* left on the host, whatever was connected, disconnected or failed before.
Released ==
  thr[Main].at = "p_done" /\ raced = {} =>
    host.rules = {} /\ host.engines = {} /\ ~host.sharing

\* A signal ends the process, even when the update worker is stuck in Stop.
SignalEnds == signal ~> proc # "up"
-----------------------------------------------------------------------------
(* What the comments of the code say and the code does not do *)

\* "Exit the process so supervisor (e.g. systemd) restarts it with new binary"
\* (agent.go:333): Stop waits for the worker that calls it.
UpdateRestarts == thr[Updater].at = "p_begin" ~> proc # "up"

\* "Connect brings the tunnel back up after Disconnect, including the
\* local-access routes" (connection.go:26): Device.Stop removes the rules and
\* leaves localAccessShared set, so EnableLocalAccess returns at once.
SharedIsShared ==
  \A g \in Gens : Quiet(g) /\ dev[g].running /\ dev[g].shared => host.sharing

\* Stop leaves the device down: it does not take tunnelMu, and a Connect that
\* has read `running' before starts the device again afterwards.
StoppedIsDown ==
  \A g \in Gens :
    thr[Main].at = "p_done" /\ thr[Main].gen = g => ~dev[g].running /\ g \notin host.rules

\* A start that failed leaves nothing: the interface of a device that did not
\* come up stays and CreateTUN of the next attempt fails.
FailedIsGone ==
  \A g \in Gens : Quiet(g) /\ ~dev[g].running => g \notin host.tuns
=============================================================================

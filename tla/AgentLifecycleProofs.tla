------------------------ MODULE AgentLifecycleProofs ------------------------
(***************************************************************************)
(* Settled and Released, for every set of users and workers, every number  *)
(* of agents, calls, updates and faults, with and without local access.    *)
(*                                                                         *)
(* Neither is inductive.  The argument: in a generation whose Stop met     *)
(* nobody, one thread at a time is inside Start or Stop of the device      *)
(* (users hold tunnelMu, and main is inside only when no user is), so what *)
(* the device has recorded follows the host at every place of that thread. *)
(***************************************************************************)
EXTENDS AgentLifecycle, TLAPS

\* The parts of TypeOK.
Scalars ==
  /\ proc \in {"up", "exited", "fatal"} /\ signal \in BOOLEAN
  /\ gens \in 0 .. MaxGens /\ goal \in {"run", "exit", "switch", "back"}
  /\ tunnelMu \in Users \cup {Nobody} /\ raced \subseteq Gens
Objects == agent \in [Gens -> Agent] /\ dev \in [Gens -> Device] /\ host \in Host
Places == thr \in [Threads -> Thread]
Counters ==
  n \in [calls : 0 .. MaxCalls, updates : 0 .. MaxUpdates, faults : 0 .. MaxFaults]

Starting == {"s_begin", "s_tun", "s_up", "s_rules"}
Enabling == {"e_os", "e_flag"}
Stopping == {"t_begin", "t_take", "t_undo"}

\* Where the threads can be, and where Start, Stop and EnableLocalAccess lead.
Roles ==
  /\ thr[Main].at \in Starting \cup Enabling \cup Stopping \cup
       {"boot", "a_local", "a_go", "a_undo", "a_busy", "a_failed", "up",
        "p_begin", "p_wait", "p_api", "p_done"}
  /\ thr[Main].at \in Starting => thr[Main].ok = "a_local" /\ thr[Main].bad = "a_failed"
  /\ thr[Main].at \in Enabling => thr[Main].ok = "a_go" /\ thr[Main].bad = "a_undo"
  /\ thr[Main].at \in Stopping => thr[Main].ok \in {"p_api", "a_failed"}
  /\ thr[Updater].at \in Stopping \cup {"idle", "p_begin", "p_wait", "p_api", "p_done"}
  /\ thr[Updater].at \in Stopping => thr[Updater].ok = "p_api"
  /\ \A u \in Users :
       /\ thr[u].at \in Starting \cup Enabling \cup Stopping \cup
            {"idle", "c_check", "d_check", "c_local", "c_done"}
       /\ thr[u].at \in Starting => thr[u].ok = "c_local" /\ thr[u].bad = "c_done"
       /\ thr[u].at \in Enabling => thr[u].ok = "c_done" /\ thr[u].bad = "c_done"
       /\ thr[u].at \in Stopping => thr[u].ok = "c_done"

\* A user beyond the beginning of its call holds tunnelMu.
Holder == \A u \in Users : thr[u].at \notin {"idle", "c_check", "d_check"} => tunnelMu = u

\* The update worker inside Stop is a race by definition.
UpdaterRaces == thr[Updater].at \notin {"idle", "p_begin"} => thr[Updater].gen \in raced

\* Main's Stop finds its agent running, unless the update worker was first.
MainRuns ==
  thr[Main].at \in Starting \cup {"a_local", "e_os", "e_flag", "a_go", "up", "p_begin"} =>
    agent[thr[Main].gen].running \/ thr[Main].gen \in raced

\* Main waits for a signal, or is about to stop, with the agent of generation g.
Attended(g) == thr[Main].gen = g /\ thr[Main].at \in {"up", "p_begin"}

\* The API is open only between the start of main's agent and its stop, and so
\* are calls that raced with nothing.
ApiUp == \A g \in Gens \ raced : agent[g].api => agent[g].stopping \/ Attended(g)
CallsUp == \A g \in Gens \ raced : Calling(g) => Attended(g)

\* The device knows its interface and its exit engine.
Recorded ==
  \A g \in Gens : /\ dev[g].tun = (g \in host.tuns)
                  /\ dev[g].engine = (g \in host.engines)

\* What holds for the device at every place of the thread that is inside.
Phases ==
  /\ \A g \in Gens \ raced : Quiet(g) =>
       /\ dev[g].rules = (g \in host.rules)
       /\ IF dev[g].running
          THEN g \in host.tuns \cap host.rules \cap host.engines
          ELSE g \notin host.rules \cup host.engines
  /\ \A t \in Threads : thr[t].gen \notin raced =>
       LET g == thr[t].gen IN
       /\ thr[t].at \in {"s_tun", "s_up", "s_rules"} =>
            dev[g].running /\ ~dev[g].rules /\ g \notin host.rules \cup host.engines
       /\ thr[t].at \in {"s_up", "s_rules"} => g \in host.tuns
       /\ thr[t].at = "t_take" =>
            ~dev[g].running /\ dev[g].rules /\ g \in host.rules
       /\ thr[t].at = "t_undo" => ~dev[g].running /\ ~dev[g].rules /\ thr[t].took.rules

\* Local access is enabled on a device that runs.
EnableRuns ==
  \A t \in Threads :
    thr[t].at \in {"a_local", "c_local", "e_os", "e_flag"} /\ thr[t].gen \notin raced =>
      dev[thr[t].gen].running

\* A generation that main has left, or not come to, is down.
Down ==
  \A g \in Gens \ raced :
    thr[Main].gen # g \/ thr[Main].at \in {"boot", "p_api", "p_done", "a_busy", "a_failed"}
      => ~dev[g].running

\* Somebody will remove the local-access rules: the Stop of a device that says
\* it shares, or the thread that is about to say so or to remove them.
Sharer(g) ==
  \/ /\ dev[g].running /\ dev[g].shared
     /\ \A t \in Threads : thr[t].gen = g => thr[t].at \notin {"s_tun", "s_up", "s_rules"}
  \/ \E t \in Threads : thr[t].gen = g /\ thr[t].at = "e_flag"
  \/ \E t \in Threads : thr[t].gen = g /\ thr[t].at = "t_take" /\ dev[g].shared
  \/ \E t \in Threads : thr[t].gen = g /\ thr[t].at = "t_undo" /\ thr[t].took.shared

Shared == raced = {} /\ host.sharing => \E g \in Gens : Sharer(g)

IInv ==
  /\ Scalars /\ Objects /\ Places /\ Counters
  /\ Roles /\ Holder /\ UpdaterRaces /\ MainRuns /\ ApiUp /\ CallsUp
  /\ Recorded /\ Phases /\ EnableRuns /\ Down /\ Shared
-----------------------------------------------------------------------------
\* Inside Start, Stop or EnableLocalAccess, or between them.
Inside == Starting \cup Enabling \cup Stopping \cup {"a_local", "c_local"}

LEMMA ThreadFacts ==
  /\ Main \in Threads /\ Updater \in Threads /\ Main # Updater
  /\ \A u \in Users : u \in Threads /\ u # Main /\ u # Updater /\ u # Nobody
BY LifecycleAssumption DEF Threads

LEMMA PlaceFacts ==
  ASSUME Places, NEW t \in Threads
  PROVE  /\ thr[t].gen \in Gens /\ thr[t].at \in Labels /\ thr[t] \in Thread
         /\ thr[t].ok \in Labels /\ thr[t].bad \in Labels
         /\ thr[t].took \in [rules : BOOLEAN, shared : BOOLEAN]
BY DEF Places, Thread

\* In a generation that raced with nothing, one thread is inside.
LEMMA OneInside ==
  ASSUME IInv, NEW t \in Threads, NEW u \in Threads,
         thr[t].gen = thr[u].gen, thr[t].gen \notin raced,
         thr[t].at \in Inside, thr[u].at \in Inside
  PROVE  t = u
<1>1. thr[t].gen \in Gens BY PlaceFacts DEF IInv
<1>2. t # Updater /\ u # Updater
  BY DEF IInv, UpdaterRaces, Inside, Starting, Enabling, Stopping
<1>3. ASSUME NEW x \in Users, thr[x].gen = thr[t].gen, thr[x].at \in Inside
      PROVE  thr[Main].at \notin Inside \/ thr[Main].gen # thr[t].gen
  <2>1. Calling(thr[t].gen)
    BY <1>3 DEF Calling, Inside, Starting, Enabling, Stopping
  <2>2. QED
    BY <1>1, <2>1 DEF IInv, CallsUp, Attended, Inside, Starting, Enabling, Stopping
<1>4. \A x \in Users : thr[x].at \in Inside => tunnelMu = x
  BY DEF IInv, Holder, Inside, Starting, Enabling, Stopping
<1>5. QED BY <1>2, <1>3, <1>4 DEF Threads

\* Inside Start or Stop of the device itself, where Quiet does not hold.
Critical == {"s_tun", "s_up", "s_rules", "t_take", "t_undo"}

LEMMA GotoFacts ==
  ASSUME Places, NEW t \in Threads, NEW l \in Labels, Goto(t, l)
  PROVE  /\ Places'
         /\ thr'[t].at = l /\ thr'[t].gen = thr[t].gen /\ thr'[t].took = thr[t].took
         /\ thr'[t].ok = thr[t].ok /\ thr'[t].bad = thr[t].bad
         /\ \A u \in Threads \ {t} : thr'[u] = thr[u]
BY DEF Places, Thread, Goto

LEMMA CallFacts ==
  ASSUME Places, NEW t \in Threads, NEW l \in Labels, NEW ok \in Labels, NEW bad \in Labels,
         Call(t, l, ok, bad)
  PROVE  /\ Places'
         /\ thr'[t].at = l /\ thr'[t].gen = thr[t].gen /\ thr'[t].took = thr[t].took
         /\ thr'[t].ok = ok /\ thr'[t].bad = bad
         /\ \A u \in Threads \ {t} : thr'[u] = thr[u]
BY DEF Places, Thread, Call

Take(t, l, k) == thr' = [thr EXCEPT ![t].at = l, ![t].took = k]

LEMMA TookFacts ==
  ASSUME Places, NEW t \in Threads, NEW l \in Labels,
         NEW k \in [rules : BOOLEAN, shared : BOOLEAN],
         Take(t, l, k)
  PROVE  /\ Places'
         /\ thr'[t].at = l /\ thr'[t].gen = thr[t].gen /\ thr'[t].took = k
         /\ thr'[t].ok = thr[t].ok /\ thr'[t].bad = thr[t].bad
         /\ \A u \in Threads \ {t} : thr'[u] = thr[u]
BY DEF Places, Thread, Take

\* A step inside the device leaves calls, locks and agents as they are.
LEMMA DeviceMove ==
  ASSUME IInv, NEW t \in Threads,
         \A u \in Threads \ {t} : thr'[u] = thr[u],
         thr'[t].gen = thr[t].gen, thr'[t].ok = thr[t].ok, thr'[t].bad = thr[t].bad,
         UNCHANGED <<agent, tunnelMu, raced>>,
         \/ /\ thr[t].at \in Starting
            /\ \/ thr'[t].at \in Starting \cup {thr[t].ok, thr[t].bad}
               \/ t = Main /\ thr'[t].at = "a_busy"
         \/ thr[t].at \in Enabling /\ thr'[t].at \in Enabling \cup {thr[t].ok, thr[t].bad}
         \/ thr[t].at \in Stopping /\ thr'[t].at \in Stopping \cup {thr[t].ok}
  PROVE  Roles' /\ Holder' /\ UpdaterRaces' /\ MainRuns' /\ ApiUp' /\ CallsUp'
<1> USE ThreadFacts DEF Starting, Enabling, Stopping, IInv
<1>1. CASE t = Main
  <2>1. Roles' BY <1>1 DEF Roles
  <2>2. Holder' /\ UpdaterRaces' /\ MainRuns'
    BY <1>1 DEF Roles, Holder, UpdaterRaces, MainRuns
  <2>3. ApiUp' /\ CallsUp'
    BY <1>1 DEF Roles, ApiUp, CallsUp, Calling, Attended
  <2>4. QED BY <2>1, <2>2, <2>3
<1>2. CASE t = Updater
  <2>1. Roles' BY <1>2 DEF Roles
  <2>2. Holder' /\ UpdaterRaces' /\ MainRuns'
    BY <1>2 DEF Roles, Holder, UpdaterRaces, MainRuns
  <2>3. ApiUp' /\ CallsUp'
    BY <1>2 DEF Roles, ApiUp, CallsUp, Calling, Attended
  <2>4. QED BY <2>1, <2>2, <2>3
<1>3. CASE t \in Users
  <2>1. Roles' BY <1>3 DEF Roles
  <2>2. Holder' /\ UpdaterRaces' /\ MainRuns'
    BY <1>3 DEF Roles, Holder, UpdaterRaces, MainRuns
  <2>3. ApiUp' /\ CallsUp'
    BY <1>3 DEF Roles, ApiUp, CallsUp, Calling, Attended
  <2>4. QED BY <2>1, <2>2, <2>3
<1>4. QED BY <1>1, <1>2, <1>3 DEF Threads

Others(t) == \A u \in Threads \ {t} : thr'[u] = thr[u]

\* The other generations are as before.
Elsewhere(g) ==
  \A h \in Gens \ {g} : /\ dev'[h] = dev[h]
                        /\ (h \in host'.tuns) = (h \in host.tuns)
                        /\ (h \in host'.rules) = (h \in host.rules)
                        /\ (h \in host'.engines) = (h \in host.engines)

\* What a step of thread t inside the device of generation g has to establish.
Here(t, g) ==
  /\ thr'[t].at \notin Critical =>
       /\ dev'[g].rules = (g \in host'.rules)
       /\ dev'[g].running => g \in host'.tuns /\ g \in host'.rules /\ g \in host'.engines
       /\ ~dev'[g].running => g \notin host'.rules /\ g \notin host'.engines
  /\ thr'[t].at \in {"s_tun", "s_up", "s_rules"} =>
       /\ dev'[g].running /\ ~dev'[g].rules
       /\ g \notin host'.rules /\ g \notin host'.engines
  /\ thr'[t].at \in {"s_up", "s_rules"} => g \in host'.tuns
  /\ thr'[t].at = "t_take" => ~dev'[g].running /\ dev'[g].rules /\ g \in host'.rules
  /\ thr'[t].at = "t_undo" => ~dev'[g].running /\ ~dev'[g].rules /\ thr'[t].took.rules
  /\ thr'[t].at \in {"a_local", "c_local", "e_os", "e_flag"} => dev'[g].running
  /\ thr'[t].at \in {"boot", "p_api", "p_done", "a_busy", "a_failed"} => ~dev'[g].running

\* The generation of thread t, which is inside, shares local access.
Shares(t, g) ==
  \/ dev[g].running /\ dev[g].shared /\ thr[t].at \notin {"s_tun", "s_up", "s_rules"}
  \/ thr[t].at = "e_flag"
  \/ thr[t].at = "t_take" /\ dev[g].shared
  \/ thr[t].at = "t_undo" /\ thr[t].took.shared

LEMMA DeviceEffect ==
  ASSUME IInv, NEW t \in Threads, NEW g \in Gens, g = thr[t].gen,
         thr[t].at \in Inside, thr'[t].gen = g, raced' = raced,
         Others(t), Elsewhere(g), g \notin raced => Here(t, g),
         raced = {} /\ host'.sharing => Shares(t, g)' \/ (host.sharing /\ ~Sharer(g))
  PROVE  Phases' /\ EnableRuns' /\ Down' /\ Shared'
<1> USE DEF Others, Elsewhere, Here
<1>a. \A u \in Threads \ {t} : thr[u].gen = g /\ g \notin raced => thr[u].at \notin Inside
  BY OneInside
<1>b. \A u \in Threads : thr'[u].gen = thr[u].gen OBVIOUS
<1>1. Phases'
  <2>1. ASSUME NEW h \in Gens \ raced, Quiet(h)'
        PROVE  /\ dev'[h].rules = (h \in host'.rules)
               /\ IF dev'[h].running
                  THEN h \in host'.tuns \cap host'.rules \cap host'.engines
                  ELSE h \notin host'.rules \cup host'.engines
    <3>1. CASE h = g BY <2>1, <3>1 DEF Quiet, Critical
    <3>2. CASE h # g
      <4>1. Quiet(h) BY <2>1, <3>2, <1>b DEF Quiet
      <4>2. QED BY <4>1, <3>2 DEF IInv, Phases
    <3>3. QED BY <3>1, <3>2
  <2>2. ASSUME NEW u \in Threads \ {t}, thr[u].gen \notin raced, thr[u].gen = g
        PROVE  thr'[u].at \notin Critical
    BY <2>2, <1>a DEF Inside, Critical, Starting, Stopping
  <2>3. ASSUME NEW u \in Threads \ {t}, thr[u].gen \notin raced, thr[u].gen # g
        PROVE  LET h == thr'[u].gen IN
               /\ thr'[u].at \in {"s_tun", "s_up", "s_rules"} =>
                    /\ dev'[h].running /\ ~dev'[h].rules
                    /\ h \notin host'.rules \cup host'.engines
               /\ thr'[u].at \in {"s_up", "s_rules"} => h \in host'.tuns
               /\ thr'[u].at = "t_take" =>
                    ~dev'[h].running /\ dev'[h].rules /\ h \in host'.rules
               /\ thr'[u].at = "t_undo" =>
                    ~dev'[h].running /\ ~dev'[h].rules /\ thr'[u].took.rules
    <3>1. thr[u].gen \in Gens \ {g} BY <2>3, PlaceFacts DEF IInv
    <3>2. QED BY <2>3, <3>1 DEF IInv, Phases
  <2>4. QED BY <2>1, <2>2, <2>3, <1>b DEF Phases, Critical
<1>2. EnableRuns'
  <2>1. ASSUME NEW u \in Threads \ {t}, thr[u].gen \notin raced,
               thr[u].at \in {"a_local", "c_local", "e_os", "e_flag"}
        PROVE  dev'[thr[u].gen].running
    <3>1. thr[u].gen \in Gens \ {g}
      BY <2>1, <1>a, PlaceFacts DEF IInv, Inside, Enabling
    <3>2. QED BY <2>1, <3>1 DEF IInv, EnableRuns
  <2>2. QED BY <2>1, <1>b DEF EnableRuns
<1>3. Down'
  <2>1. CASE t = Main BY <2>1, ThreadFacts DEF IInv, Down
  <2>2. CASE t # Main /\ g \in raced BY <2>2, ThreadFacts DEF IInv, Down
  <2>3. CASE t # Main /\ g \notin raced
    <3>1. t \in Users /\ thr[t].at # "idle"
      BY <2>3 DEF IInv, UpdaterRaces, Threads, Inside, Starting, Enabling, Stopping
    <3>2. Attended(g) BY <2>3, <3>1 DEF IInv, CallsUp, Calling
    <3>3. QED BY <2>3, <3>2, ThreadFacts DEF IInv, Down, Attended
  <2>4. QED BY <2>1, <2>2, <2>3
<1>4. Shared'
  <2> SUFFICES ASSUME raced = {}, host'.sharing PROVE \E h \in Gens : Sharer(h)'
    BY DEF Shared
  <2> DEFINE A == /\ dev'[g].running /\ dev'[g].shared
                  /\ thr'[t].at \notin {"s_tun", "s_up", "s_rules"}
             B == \/ thr'[t].at = "e_flag"
                  \/ thr'[t].at = "t_take" /\ dev'[g].shared
                  \/ thr'[t].at = "t_undo" /\ thr'[t].took.shared
             C == host.sharing /\ ~Sharer(g)
  <2>0. A \/ B \/ C BY DEF Shares
  <2>1. CASE C
    <3>1. PICK h \in Gens \ {g} : Sharer(h) BY <2>1 DEF IInv, Shared
    <3>2. Sharer(h)' BY <3>1, <1>b DEF Sharer
    <3>3. QED BY <3>2
  <2>2. CASE A
    <3>1. Sharer(g)' BY <2>2, <1>a, <1>b DEF Sharer, Inside, Starting
    <3>2. QED BY <3>1
  <2>3. CASE B
    <3>1. Sharer(g)' BY <2>3 DEF Sharer
    <3>2. QED BY <3>1
  <2> HIDE DEF A, B, C
  <2>4. QED BY <2>0, <2>1, <2>2, <2>3
<1>5. QED BY <1>1, <1>2, <1>3, <1>4

\* A step of thread u is outside the critical places, or in a generation that raced.
Outside(u) ==
  /\ thr[u].at \notin Critical \cup {"e_flag"} \/ thr[u].gen \in raced
  /\ thr'[u].at \notin Critical

\* Steps outside Start and Stop that leave devices and host alone.
LEMMA Calm ==
  ASSUME IInv, UNCHANGED <<dev, host>>, raced \subseteq raced',
         \A u \in Threads : thr'[u] = thr[u] \/ Outside(u)
  PROVE  Recorded' /\ Phases' /\ Shared'
<1>1. Recorded' BY DEF IInv, Recorded
<1>2. Phases'
  <2>1. ASSUME NEW h \in Gens \ raced', Quiet(h)' PROVE Quiet(h)
    BY <2>1 DEF Quiet, Critical, Outside
  <2>2. QED BY <2>1 DEF IInv, Phases, Critical, Outside
<1>3. Shared'
  <2>1. ASSUME NEW h \in Gens, raced = {}, Sharer(h) PROVE Sharer(h)'
    BY <2>1 DEF Sharer, Critical, Outside
  <2>2. QED BY <2>1 DEF IInv, Shared
<1>4. QED BY <1>1, <1>2, <1>3

LEMMA RoleFacts ==
  ASSUME IInv, NEW t \in Threads
  PROVE  /\ thr[t].at \in Starting =>
              thr[t].ok \in {"a_local", "c_local"} /\ thr[t].bad \in {"a_failed", "c_done"}
         /\ thr[t].at \in Enabling =>
              thr[t].ok \in {"a_go", "c_done"} /\ thr[t].bad \in {"a_undo", "c_done"}
         /\ thr[t].at \in Stopping => thr[t].ok \in {"p_api", "a_failed", "c_done"}
BY ThreadFacts DEF IInv, Roles, Threads, Starting, Enabling, Stopping

LEMMA FaultCounts ==
  ASSUME Counters, Fault
  PROVE  Counters'
BY LifecycleAssumption DEF Counters, Fault

LEMMA ObjectFacts ==
  ASSUME Objects, NEW g \in Gens
  PROVE  /\ dev[g].running \in BOOLEAN /\ dev[g].tun \in BOOLEAN /\ dev[g].rules \in BOOLEAN
         /\ dev[g].engine \in BOOLEAN /\ dev[g].shared \in BOOLEAN
         /\ host.tuns \subseteq Gens /\ host.rules \subseteq Gens
         /\ host.engines \subseteq Gens /\ host.sharing \in BOOLEAN
         /\ agent[g].running \in BOOLEAN /\ agent[g].stopping \in BOOLEAN
         /\ agent[g].api \in BOOLEAN /\ agent[g].wg \subseteq Workers
BY DEF Objects, Device, Host, Agent

LEMMA SetRunning ==
  ASSUME Objects, NEW g \in Gens, NEW b \in BOOLEAN,
         dev' = [dev EXCEPT ![g].running = b], agent' = agent, host' = host
  PROVE  /\ Objects' /\ Elsewhere(g) /\ dev'[g].running = b
         /\ dev'[g].rules = dev[g].rules /\ dev'[g].tun = dev[g].tun
         /\ dev'[g].engine = dev[g].engine /\ dev'[g].shared = dev[g].shared
BY DEF Objects, Device, Elsewhere

\* A thread inside, and outside the critical places, sees a settled device.
LEMMA InsideSettled ==
  ASSUME IInv, NEW t \in Threads, NEW g, g = thr[t].gen, g \notin raced,
         thr[t].at \in Inside, thr[t].at \notin Critical
  PROVE  /\ dev[g].rules = (g \in host.rules)
         /\ dev[g].running => g \in host.tuns /\ g \in host.rules /\ g \in host.engines
         /\ ~dev[g].running => g \notin host.rules /\ g \notin host.engines
<1>1. \A u \in Threads : thr[u].gen = thr[t].gen => thr[u].at \notin Critical
  BY OneInside DEF Inside, Critical, Starting, Stopping
<1>2. Quiet(g) BY <1>1 DEF Quiet, Critical
<1>3. g \in Gens \ raced BY PlaceFacts DEF IInv
<1>4. QED BY <1>2, <1>3 DEF IInv, Phases

\* If generation g shares, the thread inside it knows.
LEMMA InsideShares ==
  ASSUME IInv, NEW t \in Threads, NEW g, g = thr[t].gen, raced = {},
         thr[t].at \in Inside, Sharer(g)
  PROVE  Shares(t, g)
<1>1. \A u \in Threads \ {t} : thr[u].gen = thr[t].gen => thr[u].at \notin Inside
  BY OneInside
<1>2. QED BY <1>1 DEF Sharer, Shares, Inside, Enabling, Stopping

\* The other agents are as before.
OtherAgents(g) == \A h \in Gens \ {g} : agent'[h] = agent[h]

LEMMA AgentRuns ==
  ASSUME Objects, NEW g \in Gens, NEW b \in BOOLEAN,
         agent' = [agent EXCEPT ![g].running = b], UNCHANGED <<dev, host>>
  PROVE  /\ Objects' /\ OtherAgents(g) /\ agent'[g].running = b
         /\ agent'[g].stopping = agent[g].stopping /\ agent'[g].api = agent[g].api
BY DEF Objects, Agent, OtherAgents

LEMMA AgentStops ==
  ASSUME Objects, NEW g \in Gens, UNCHANGED <<dev, host>>,
         agent' = [agent EXCEPT ![g].running = FALSE, ![g].stopping = TRUE]
  PROVE  /\ Objects' /\ OtherAgents(g) /\ ~agent'[g].running
         /\ agent'[g].stopping /\ agent'[g].api = agent[g].api
BY DEF Objects, Agent, OtherAgents

LEMMA AgentCloses ==
  ASSUME Objects, NEW g \in Gens, UNCHANGED <<dev, host>>,
         agent' = [agent EXCEPT ![g].api = FALSE]
  PROVE  /\ Objects' /\ OtherAgents(g) /\ agent'[g].running = agent[g].running
         /\ agent'[g].stopping = agent[g].stopping /\ ~agent'[g].api
BY DEF Objects, Agent, OtherAgents

LEMMA AgentOpens ==
  ASSUME Objects, NEW g \in Gens, UNCHANGED <<dev, host>>,
         agent' = [agent EXCEPT ![g].wg = Workers, ![g].api = TRUE]
  PROVE  /\ Objects' /\ OtherAgents(g) /\ agent'[g].running = agent[g].running
         /\ agent'[g].stopping = agent[g].stopping
BY DEF Objects, Agent, OtherAgents
-----------------------------------------------------------------------------
LEMMA StartBeginKeeps ==
  ASSUME IInv, NEW t \in Threads, StartBegin(t)
  PROVE  IInv'
<1> DEFINE g == thr[t].gen
           l == IF dev[g].running THEN thr[t].ok ELSE "s_tun"
<1>1. /\ g \in Gens /\ Places /\ Objects /\ thr[t].at = "s_begin" /\ l \in Labels
      /\ thr[t].at \in Inside /\ thr[t].at \notin Critical
      /\ dev[g].running => l \in {"a_local", "c_local"}
      /\ raced' = raced
  BY PlaceFacts, RoleFacts DEF IInv, StartBegin, At, Inside, Starting, Critical, Labels
<1>2. Goto(t, l) BY DEF StartBegin
<1>3. /\ Places' /\ thr'[t].at = l /\ thr'[t].gen = g /\ Others(t)
      /\ thr'[t].ok = thr[t].ok /\ thr'[t].bad = thr[t].bad
  BY <1>1, <1>2, GotoFacts DEF Others
<1>4. /\ Objects' /\ host' = host /\ Elsewhere(g)
      /\ dev'[g].running /\ dev'[g].rules = dev[g].rules /\ dev'[g].tun = dev[g].tun
      /\ dev'[g].engine = dev[g].engine /\ dev'[g].shared = dev[g].shared
  <2>1. CASE dev[g].running BY <1>1, <2>1 DEF StartBegin, Objects, Elsewhere
  <2>2. CASE ~dev[g].running BY <1>1, <2>2, SetRunning DEF StartBegin
  <2>3. QED BY <2>1, <2>2
<1>5. Scalars' /\ Counters' BY DEF IInv, StartBegin, Scalars, Counters
<1>6. Recorded' BY <1>1, <1>4 DEF IInv, Recorded, Elsewhere
<1>7. Roles' /\ Holder' /\ UpdaterRaces' /\ MainRuns' /\ ApiUp' /\ CallsUp'
  BY <1>1, <1>3, DeviceMove DEF StartBegin, Starting, Others
<1>8. g \notin raced => Here(t, g)
  BY <1>1, <1>3, <1>4, InsideSettled DEF Here, Critical
<1>9. raced = {} /\ host'.sharing => Shares(t, g)' \/ (host.sharing /\ ~Sharer(g))
  BY <1>1, <1>3, <1>4, InsideShares DEF Shares
<1>10. QED BY <1>1, <1>3, <1>4, <1>5, <1>6, <1>7, <1>8, <1>9, DeviceEffect DEF IInv

LEMMA StartRulesKeeps ==
  ASSUME IInv, NEW t \in Threads, StartRules(t)
  PROVE  IInv'
<1> DEFINE g == thr[t].gen
           l == thr[t].ok
<1>1. /\ g \in Gens /\ Places /\ Objects /\ thr[t].at = "s_rules" /\ l \in Labels
      /\ thr[t].at \in Inside
      /\ raced' = raced
      /\ l \in {"a_local", "c_local"}
  BY PlaceFacts, RoleFacts
     DEF IInv, StartRules, At, Inside, Starting, Enabling, Stopping, Critical, Labels
<1>2. Goto(t, l) BY DEF StartRules
<1>3. /\ Places' /\ thr'[t].at = l /\ thr'[t].gen = g /\ Others(t)
      /\ thr'[t].ok = thr[t].ok /\ thr'[t].bad = thr[t].bad
  BY <1>1, <1>2, GotoFacts DEF Others
<1>4. /\ Objects' /\ Elsewhere(g)
      /\ g \in host'.rules /\ g \in host'.engines /\ host'.tuns = host.tuns
      /\ host'.sharing = host.sharing
      /\ dev'[g].rules = TRUE /\ dev'[g].engine = TRUE /\ dev'[g].running = dev[g].running
      /\ dev'[g].tun = dev[g].tun /\ dev'[g].shared = dev[g].shared
  <2>1. /\ host' \in Host /\ host'.rules = host.rules \cup {g}
        /\ host'.engines = host.engines \cup {g}
        /\ host'.tuns = host.tuns /\ host'.sharing = host.sharing
    BY <1>1 DEF StartRules, Objects, Host
  <2>2. /\ dev' \in [Gens -> Device] /\ \A h \in Gens \ {g} : dev'[h] = dev[h]
        /\ dev'[g].rules = TRUE /\ dev'[g].engine = TRUE
        /\ dev'[g].running = dev[g].running
        /\ dev'[g].tun = dev[g].tun /\ dev'[g].shared = dev[g].shared
    BY <1>1 DEF StartRules, Objects, Device
  <2>3. QED BY <1>1, <2>1, <2>2 DEF StartRules, Objects, Elsewhere
<1>5. Scalars' /\ Counters' BY DEF IInv, StartRules, Scalars, Counters
<1>6. Recorded'
  <2>1. dev'[g].tun = (g \in host'.tuns) /\ dev'[g].engine = (g \in host'.engines)
    BY <1>1, <1>4, ObjectFacts DEF IInv, Recorded
  <2>2. QED BY <1>4, <2>1 DEF IInv, Recorded, Elsewhere
<1>7. Roles' /\ Holder' /\ UpdaterRaces' /\ MainRuns' /\ ApiUp' /\ CallsUp'
  BY <1>1, <1>3, DeviceMove DEF StartRules, Starting, Others
<1>8. g \notin raced => Here(t, g)
  BY <1>1, <1>3, <1>4, ObjectFacts DEF IInv, Phases, Recorded, Here, Critical
<1>9. raced = {} /\ host'.sharing => Shares(t, g)' \/ (host.sharing /\ ~Sharer(g))
  BY <1>1, <1>3, <1>4, InsideShares DEF Shares
<1>10. QED BY <1>1, <1>3, <1>4, <1>5, <1>6, <1>7, <1>8, <1>9, DeviceEffect DEF IInv

LEMMA EnableFlagKeeps ==
  ASSUME IInv, NEW t \in Threads, EnableFlag(t)
  PROVE  IInv'
<1> DEFINE g == thr[t].gen
           l == thr[t].ok
<1>1. /\ g \in Gens /\ Places /\ Objects /\ thr[t].at = "e_flag" /\ l \in Labels
      /\ thr[t].at \in Inside /\ thr[t].at \notin Critical
      /\ raced' = raced
      /\ l \in {"a_go", "c_done"}
      /\ g \notin raced => dev[g].running
  BY PlaceFacts, RoleFacts
     DEF IInv, EnableFlag, At, Inside, Starting, Enabling, Stopping, Critical, Labels,
     EnableRuns
<1>2. Goto(t, l) BY DEF EnableFlag
<1>3. /\ Places' /\ thr'[t].at = l /\ thr'[t].gen = g /\ Others(t)
      /\ thr'[t].ok = thr[t].ok /\ thr'[t].bad = thr[t].bad
  BY <1>1, <1>2, GotoFacts DEF Others
<1>4. /\ Objects' /\ Elsewhere(g) /\ host' = host
      /\ dev'[g].shared /\ dev'[g].running = dev[g].running /\ dev'[g].tun = dev[g].tun
      /\ dev'[g].rules = dev[g].rules /\ dev'[g].engine = dev[g].engine
  BY <1>1 DEF EnableFlag, Objects, Device, Elsewhere
<1>5. Scalars' /\ Counters' BY DEF IInv, EnableFlag, Scalars, Counters
<1>6. Recorded'
  <2>1. dev'[g].tun = (g \in host'.tuns) /\ dev'[g].engine = (g \in host'.engines)
    BY <1>1, <1>4, ObjectFacts DEF IInv, Recorded
  <2>2. QED BY <1>4, <2>1 DEF IInv, Recorded, Elsewhere
<1>7. Roles' /\ Holder' /\ UpdaterRaces' /\ MainRuns' /\ ApiUp' /\ CallsUp'
  BY <1>1, <1>3, DeviceMove DEF EnableFlag, Enabling, Others
<1>8. g \notin raced => Here(t, g)
  BY <1>1, <1>3, <1>4, InsideSettled DEF Here, Critical
<1>9. raced = {} /\ host'.sharing => Shares(t, g)' \/ (host.sharing /\ ~Sharer(g))
  BY <1>1, <1>3, <1>4, InsideShares DEF Shares
<1>10. QED BY <1>1, <1>3, <1>4, <1>5, <1>6, <1>7, <1>8, <1>9, DeviceEffect DEF IInv

LEMMA StopBeginKeeps ==
  ASSUME IInv, NEW t \in Threads, StopBegin(t)
  PROVE  IInv'
<1> DEFINE g == thr[t].gen
           l == IF dev[g].running THEN "t_take" ELSE thr[t].ok
<1>1. /\ g \in Gens /\ Places /\ Objects /\ thr[t].at = "t_begin" /\ l \in Labels
      /\ thr[t].at \in Inside /\ thr[t].at \notin Critical
      /\ raced' = raced
      /\ ~dev[g].running => l \in {"p_api", "a_failed", "c_done"}
  BY PlaceFacts, RoleFacts
     DEF IInv, StopBegin, At, Inside, Starting, Enabling, Stopping, Critical, Labels
<1>2. Goto(t, l) BY DEF StopBegin
<1>3. /\ Places' /\ thr'[t].at = l /\ thr'[t].gen = g /\ Others(t)
      /\ thr'[t].ok = thr[t].ok /\ thr'[t].bad = thr[t].bad
  BY <1>1, <1>2, GotoFacts DEF Others
<1>4. /\ Objects' /\ host' = host /\ Elsewhere(g) /\ ~dev'[g].running
      /\ dev'[g].rules = dev[g].rules /\ dev'[g].tun = dev[g].tun
      /\ dev'[g].engine = dev[g].engine /\ dev'[g].shared = dev[g].shared
  <2>1. CASE ~dev[g].running BY <1>1, <2>1 DEF StopBegin, Objects, Elsewhere
  <2>2. CASE dev[g].running BY <1>1, <2>2, SetRunning DEF StopBegin
  <2>3. QED BY <2>1, <2>2
<1>5. Scalars' /\ Counters' BY DEF IInv, StopBegin, Scalars, Counters
<1>6. Recorded'
  <2>1. dev'[g].tun = (g \in host'.tuns) /\ dev'[g].engine = (g \in host'.engines)
    BY <1>1, <1>4, ObjectFacts DEF IInv, Recorded
  <2>2. QED BY <1>4, <2>1 DEF IInv, Recorded, Elsewhere
<1>7. Roles' /\ Holder' /\ UpdaterRaces' /\ MainRuns' /\ ApiUp' /\ CallsUp'
  BY <1>1, <1>3, DeviceMove DEF StopBegin, Stopping, Others
<1>8. g \notin raced => Here(t, g)
  BY <1>1, <1>3, <1>4, InsideSettled DEF Here, Critical
<1>9. raced = {} /\ host'.sharing => Shares(t, g)' \/ (host.sharing /\ ~Sharer(g))
  BY <1>1, <1>3, <1>4, InsideShares DEF Shares
<1>10. QED BY <1>1, <1>3, <1>4, <1>5, <1>6, <1>7, <1>8, <1>9, DeviceEffect DEF IInv

LEMMA StopTakeKeeps ==
  ASSUME IInv, NEW t \in Threads, StopTake(t)
  PROVE  IInv'
<1> DEFINE g == thr[t].gen
<1>1. /\ g \in Gens /\ Places /\ Objects /\ thr[t].at = "t_take"
      /\ thr[t].at \in Inside
      /\ raced' = raced
  BY PlaceFacts, RoleFacts
     DEF IInv, StopTake, At, Inside, Starting, Enabling, Stopping, Critical, Labels
<1>3. /\ Places' /\ thr'[t].at = "t_undo" /\ thr'[t].gen = g /\ Others(t)
      /\ thr'[t].ok = thr[t].ok /\ thr'[t].bad = thr[t].bad
      /\ thr'[t].took.rules = dev[g].rules /\ thr'[t].took.shared = dev[g].shared
  <2> DEFINE k == Taken(dev[g])
  <2>1. /\ k \in [rules : BOOLEAN, shared : BOOLEAN]
        /\ k.rules = dev[g].rules /\ k.shared = dev[g].shared
    BY <1>1, ObjectFacts DEF Taken
  <2>2. Take(t, "t_undo", k) BY DEF StopTake, Take
  <2>3. "t_undo" \in Labels BY DEF Labels
  <2> HIDE DEF k
  <2>4. /\ Places' /\ thr'[t].at = "t_undo" /\ thr'[t].gen = thr[t].gen
        /\ thr'[t].took = k /\ thr'[t].ok = thr[t].ok /\ thr'[t].bad = thr[t].bad
        /\ \A u \in Threads \ {t} : thr'[u] = thr[u]
    BY <1>1, <2>1, <2>2, <2>3, TookFacts
  <2>5. QED BY <2>1, <2>4 DEF Others
<1>4. /\ Objects' /\ host' = host /\ Elsewhere(g) /\ ~dev'[g].rules
      /\ dev'[g].running = dev[g].running /\ dev'[g].tun = dev[g].tun
      /\ dev'[g].engine = dev[g].engine /\ dev'[g].shared = dev[g].shared
  BY <1>1 DEF StopTake, Objects, Device, Elsewhere
<1>5. Scalars' /\ Counters' BY DEF IInv, StopTake, Scalars, Counters
<1>6. Recorded'
  <2>1. dev'[g].tun = (g \in host'.tuns) /\ dev'[g].engine = (g \in host'.engines)
    BY <1>1, <1>4, ObjectFacts DEF IInv, Recorded
  <2>2. QED BY <1>4, <2>1 DEF IInv, Recorded, Elsewhere
<1>7. Roles' /\ Holder' /\ UpdaterRaces' /\ MainRuns' /\ ApiUp' /\ CallsUp'
  BY <1>1, <1>3, DeviceMove DEF StopTake, Stopping, Others
<1>8. g \notin raced => Here(t, g)
  BY <1>1, <1>3, <1>4, ObjectFacts DEF IInv, Phases, Recorded, Here, Critical
<1>9. raced = {} /\ host'.sharing => Shares(t, g)' \/ (host.sharing /\ ~Sharer(g))
  BY <1>1, <1>3, <1>4, InsideShares DEF Shares
<1>10. QED BY <1>1, <1>3, <1>4, <1>5, <1>6, <1>7, <1>8, <1>9, DeviceEffect DEF IInv

LEMMA StopUndoKeeps ==
  ASSUME IInv, NEW t \in Threads, StopUndo(t)
  PROVE  IInv'
<1> DEFINE g == thr[t].gen
           l == thr[t].ok
<1>1. /\ g \in Gens /\ Places /\ Objects /\ thr[t].at = "t_undo" /\ l \in Labels
      /\ thr[t].at \in Inside
      /\ raced' = raced
      /\ l \in {"p_api", "a_failed", "c_done"}
  BY PlaceFacts, RoleFacts
     DEF IInv, StopUndo, At, Inside, Starting, Enabling, Stopping, Critical, Labels
<1>3. /\ Places' /\ thr'[t].at = l /\ thr'[t].gen = g /\ Others(t)
      /\ thr'[t].ok = thr[t].ok /\ thr'[t].bad = thr[t].bad
  <2>1. Nothing \in [rules : BOOLEAN, shared : BOOLEAN] BY DEF Nothing
  <2>2. Take(t, l, Nothing) BY DEF StopUndo, Take
  <2>3. QED BY <1>1, <2>1, <2>2, TookFacts DEF Others
<1>4. /\ Objects' /\ Elsewhere(g)
      /\ g \notin host'.tuns /\ g \notin host'.engines
      /\ thr[t].took.rules => g \notin host'.rules
      /\ host'.sharing = (host.sharing /\ ~thr[t].took.shared)
      /\ dev'[g].tun = FALSE /\ dev'[g].engine = FALSE /\ dev'[g].running = dev[g].running
      /\ dev'[g].rules = dev[g].rules /\ dev'[g].shared = dev[g].shared
  <2>1. /\ host'.tuns = IF dev[g].tun THEN host.tuns \ {g} ELSE host.tuns
        /\ host'.rules = IF thr[t].took.rules THEN host.rules \ {g} ELSE host.rules
        /\ host'.engines = IF dev[g].engine THEN host.engines \ {g} ELSE host.engines
        /\ host'.sharing = (host.sharing /\ ~thr[t].took.shared)
    BY DEF StopUndo
  <2>2. host' \in Host
    <3>1. host'.sharing \in BOOLEAN BY <1>1, <2>1, ObjectFacts, PlaceFacts
    <3>2. /\ host'.tuns \subseteq Gens /\ host'.rules \subseteq Gens
          /\ host'.engines \subseteq Gens
      BY <1>1, <2>1, ObjectFacts
    <3>3. host' = [tuns |-> host'.tuns, rules |-> host'.rules,
                   engines |-> host'.engines, sharing |-> host'.sharing]
      BY DEF StopUndo
    <3>4. QED BY <3>1, <3>2, <3>3 DEF Host
  <2>3. /\ dev' \in [Gens -> Device] /\ \A h \in Gens \ {g} : dev'[h] = dev[h]
        /\ dev'[g].tun = FALSE /\ dev'[g].engine = FALSE
        /\ dev'[g].running = dev[g].running
        /\ dev'[g].rules = dev[g].rules /\ dev'[g].shared = dev[g].shared
    BY <1>1 DEF StopUndo, Objects, Device
  <2>4. agent' = agent BY DEF StopUndo
  <2>5. Elsewhere(g) BY <2>1, <2>3 DEF Elsewhere
  <2>6. g \notin host'.tuns /\ g \notin host'.engines
    BY <1>1, <2>1, ObjectFacts DEF IInv, Recorded
  <2>7. thr[t].took.rules => g \notin host'.rules BY <2>1
  <2>8. QED BY <1>1, <2>1, <2>2, <2>3, <2>4, <2>5, <2>6, <2>7 DEF Objects
<1>5. Scalars' /\ Counters' BY DEF IInv, StopUndo, Scalars, Counters
<1>6. Recorded'
  <2>1. dev'[g].tun = (g \in host'.tuns) /\ dev'[g].engine = (g \in host'.engines)
    <3>1. ~dev'[g].tun /\ ~dev'[g].engine BY <1>4
    <3>2. dev'[g].tun \in BOOLEAN /\ dev'[g].engine \in BOOLEAN
      BY <1>1, <1>4 DEF Objects, Device
    <3>3. g \notin host'.tuns /\ g \notin host'.engines BY <1>4
    <3>4. QED BY <3>1, <3>2, <3>3
  <2>2. QED BY <1>4, <2>1 DEF IInv, Recorded, Elsewhere
<1>7. Roles' /\ Holder' /\ UpdaterRaces' /\ MainRuns' /\ ApiUp' /\ CallsUp'
  BY <1>1, <1>3, DeviceMove DEF StopUndo, Stopping, Others
<1>8. g \notin raced => Here(t, g)
  BY <1>1, <1>3, <1>4, ObjectFacts DEF IInv, Phases, Recorded, Here, Critical
<1>9. raced = {} /\ host'.sharing => Shares(t, g)' \/ (host.sharing /\ ~Sharer(g))
  BY <1>1, <1>3, <1>4, InsideShares DEF Shares
<1>10. QED BY <1>1, <1>3, <1>4, <1>5, <1>6, <1>7, <1>8, <1>9, DeviceEffect DEF IInv

LEMMA StartTunKeeps ==
  ASSUME IInv, NEW t \in Threads, StartTun(t)
  PROVE  IInv'
<1> DEFINE g == thr[t].gen
           l == IF host.tuns = {} THEN "s_up" ELSE thr[t].bad
<1>1. /\ g \in Gens /\ Places /\ Objects /\ thr[t].at = "s_tun" /\ l \in Labels
      /\ thr[t].at \in Inside
      /\ raced' = raced
      /\ host.tuns # {} => l \in {"a_failed", "c_done"}
  BY PlaceFacts, RoleFacts
     DEF IInv, StartTun, At, Inside, Starting, Enabling, Stopping, Critical, Labels,
     StartFails
<1>2. Goto(t, l) BY DEF StartTun, StartFails
<1>3. /\ Places' /\ thr'[t].at = l /\ thr'[t].gen = g /\ Others(t)
      /\ thr'[t].ok = thr[t].ok /\ thr'[t].bad = thr[t].bad
  BY <1>1, <1>2, GotoFacts DEF Others
<1>4. /\ Objects' /\ Elsewhere(g) /\ host'.sharing = host.sharing
      /\ host'.rules = host.rules /\ host'.engines = host.engines
      /\ dev'[g].rules = dev[g].rules /\ dev'[g].engine = dev[g].engine
      /\ dev'[g].shared = dev[g].shared
      /\ host.tuns = {} => /\ g \in host'.tuns /\ dev'[g].tun = TRUE
                            /\ dev'[g].running = dev[g].running
      /\ host.tuns # {} =>
           host'.tuns = host.tuns /\ dev'[g].tun = dev[g].tun /\ ~dev'[g].running
  <2>1. CASE host.tuns = {}
    <3>1. /\ host' \in Host /\ host'.tuns = {g} /\ host'.rules = host.rules
          /\ host'.engines = host.engines /\ host'.sharing = host.sharing
      BY <1>1, <2>1 DEF StartTun, Objects, Host
    <3>2. /\ dev' \in [Gens -> Device] /\ \A h \in Gens \ {g} : dev'[h] = dev[h]
          /\ dev'[g].tun = TRUE /\ dev'[g].running = dev[g].running
          /\ dev'[g].rules = dev[g].rules /\ dev'[g].engine = dev[g].engine
          /\ dev'[g].shared = dev[g].shared
      <4>1. dev' = [dev EXCEPT ![g].tun = TRUE] BY <2>1 DEF StartTun
      <4>2. QED BY <1>1, <4>1 DEF Objects, Device
    <3>3. agent' = agent BY <2>1 DEF StartTun
    <3>4. QED BY <1>1, <2>1, <3>1, <3>2, <3>3 DEF Objects, Elsewhere
  <2>2. CASE host.tuns # {} BY <1>1, <2>2, SetRunning DEF StartTun, StartFails
  <2>3. QED BY <2>1, <2>2
<1>5. Scalars' /\ Counters' BY DEF IInv, StartTun, Scalars, Counters, StartFails
<1>6. Recorded'
  <2>1. dev'[g].tun = (g \in host'.tuns) /\ dev'[g].engine = (g \in host'.engines)
    BY <1>1, <1>4, ObjectFacts, ZenonT(60) DEF IInv, Recorded
  <2>2. QED BY <1>4, <2>1 DEF IInv, Recorded, Elsewhere
<1>7. Roles' /\ Holder' /\ UpdaterRaces' /\ MainRuns' /\ ApiUp' /\ CallsUp'
  BY <1>1, <1>3, DeviceMove DEF StartTun, Starting, Others, StartFails
<1>8. g \notin raced => Here(t, g)
  BY <1>1, <1>3, <1>4, ObjectFacts DEF IInv, Phases, Recorded, Here, Critical
<1>9. raced = {} /\ host'.sharing => Shares(t, g)' \/ (host.sharing /\ ~Sharer(g))
  BY <1>1, <1>3, <1>4, InsideShares DEF Shares
<1>10. QED BY <1>1, <1>3, <1>4, <1>5, <1>6, <1>7, <1>8, <1>9, DeviceEffect DEF IInv

LEMMA StartUpKeeps ==
  ASSUME IInv, NEW t \in Threads, StartUp(t)
  PROVE  IInv'
<1> DEFINE g == thr[t].gen
<1>1. /\ g \in Gens /\ Places /\ Objects /\ thr[t].at = "s_up"
      /\ thr[t].at \in Inside
      /\ raced' = raced
      /\ thr[t].bad \in {"a_failed", "c_done"}
  BY PlaceFacts, RoleFacts
     DEF IInv, StartUp, At, Inside, Starting, Enabling, Stopping, Critical, Labels,
     StartFails
<1>2. \E x \in {"s_rules", thr[t].bad} \cup (IF t = Main THEN {"a_busy"} ELSE {}) :
        Goto(t, x)
  BY DEF StartUp, StartFails
<1>3. /\ Places' /\ thr'[t].gen = g /\ Others(t)
      /\ thr'[t].at \in {"s_rules", thr[t].bad} \cup (IF t = Main THEN {"a_busy"} ELSE {})
      /\ thr'[t].ok = thr[t].ok /\ thr'[t].bad = thr[t].bad
  BY <1>1, <1>2, GotoFacts, PlaceFacts DEF Others, Labels
<1>4. /\ Objects' /\ Elsewhere(g) /\ host' = host
      /\ dev'[g].running = (dev[g].running /\ thr'[t].at = "s_rules")
      /\ dev'[g].rules = dev[g].rules /\ dev'[g].tun = dev[g].tun
      /\ dev'[g].engine = dev[g].engine /\ dev'[g].shared = dev[g].shared
  <2>1. CASE thr'[t].at = "s_rules"
    <3>1. dev' = dev /\ agent' = agent /\ host' = host
      <4>1. ~\E x \in {thr[t].bad} \cup (IF t = Main THEN {"a_busy"} ELSE {}) : Goto(t, x)
        BY <1>1, <2>1, GotoFacts, PlaceFacts DEF Labels
      <4>2. QED BY <4>1 DEF StartUp, StartFails
    <3>2. QED BY <1>1, <2>1, <3>1, ObjectFacts DEF Objects, Elsewhere
  <2>2. CASE thr'[t].at # "s_rules"
    <3>1. dev' = [dev EXCEPT ![g].running = FALSE] /\ agent' = agent /\ host' = host
      BY <1>1, <2>2, GotoFacts DEF StartUp, StartFails, Labels
    <3>2. QED BY <1>1, <2>2, <3>1, SetRunning
  <2>3. QED BY <2>1, <2>2
<1>5. Scalars' /\ Counters'
  BY FaultCounts DEF IInv, StartUp, StartFails, Scalars, Counters
<1>6. Recorded'
  <2>1. dev'[g].tun = (g \in host'.tuns) /\ dev'[g].engine = (g \in host'.engines)
    BY <1>1, <1>4, ObjectFacts DEF IInv, Recorded
  <2>2. QED BY <1>4, <2>1 DEF IInv, Recorded, Elsewhere
<1>7. Roles' /\ Holder' /\ UpdaterRaces' /\ MainRuns' /\ ApiUp' /\ CallsUp'
  BY <1>1, <1>3, DeviceMove DEF StartUp, Starting, Others, StartFails
<1>8. g \notin raced => Here(t, g)
  BY <1>1, <1>3, <1>4, ObjectFacts DEF IInv, Phases, Recorded, Here, Critical
<1>9. raced = {} /\ host'.sharing => Shares(t, g)' \/ (host.sharing /\ ~Sharer(g))
  BY <1>1, <1>3, <1>4, InsideShares DEF Shares
<1>10. QED BY <1>1, <1>3, <1>4, <1>5, <1>6, <1>7, <1>8, <1>9, DeviceEffect DEF IInv

LEMMA EnableOSKeeps ==
  ASSUME IInv, NEW t \in Threads, EnableOS(t)
  PROVE  IInv'
<1> DEFINE g == thr[t].gen
<1>1. /\ g \in Gens /\ Places /\ Objects /\ thr[t].at = "e_os"
      /\ thr[t].at \in Inside /\ thr[t].at \notin Critical
      /\ raced' = raced
      /\ thr[t].ok \in {"a_go", "c_done"} /\ thr[t].bad \in {"a_undo", "c_done"}
      /\ g \notin raced => dev[g].running
  BY PlaceFacts, RoleFacts
     DEF IInv, EnableOS, At, Inside, Starting, Enabling, Stopping, Critical, Labels,
     EnableRuns
<1>2. \E x \in {"e_flag", thr[t].ok, thr[t].bad} : Goto(t, x) BY DEF EnableOS
<1>3. /\ Places' /\ thr'[t].gen = g /\ Others(t)
      /\ thr'[t].at \in {"e_flag", thr[t].ok, thr[t].bad}
      /\ thr'[t].ok = thr[t].ok /\ thr'[t].bad = thr[t].bad
  BY <1>1, <1>2, GotoFacts, PlaceFacts DEF Others, Labels
<1>4. /\ Objects' /\ Elsewhere(g) /\ dev' = dev
      /\ host'.tuns = host.tuns /\ host'.rules = host.rules /\ host'.engines = host.engines
      /\ thr'[t].at = "e_flag" \/ host'.sharing = host.sharing
  <2>1. /\ host' \in Host /\ host'.tuns = host.tuns /\ host'.rules = host.rules
        /\ host'.engines = host.engines
    BY <1>1 DEF EnableOS, Objects, Host
  <2>2. dev' = dev /\ agent' = agent BY DEF EnableOS
  <2>3. thr'[t].at = "e_flag" \/ host'.sharing = host.sharing
    BY <1>1, GotoFacts DEF EnableOS, Labels
  <2>4. QED BY <1>1, <2>1, <2>2, <2>3 DEF Objects, Elsewhere
<1>5. Scalars' /\ Counters' BY FaultCounts DEF IInv, EnableOS, Scalars, Counters
<1>6. Recorded'
  <2>1. dev'[g].tun = (g \in host'.tuns) /\ dev'[g].engine = (g \in host'.engines)
    BY <1>1, <1>4, ObjectFacts DEF IInv, Recorded
  <2>2. QED BY <1>4, <2>1 DEF IInv, Recorded, Elsewhere
<1>7. Roles' /\ Holder' /\ UpdaterRaces' /\ MainRuns' /\ ApiUp' /\ CallsUp'
  BY <1>1, <1>3, DeviceMove DEF EnableOS, Enabling, Others
<1>8. g \notin raced => Here(t, g)
  BY <1>1, <1>3, <1>4, InsideSettled DEF Here, Critical
<1>9. raced = {} /\ host'.sharing => Shares(t, g)' \/ (host.sharing /\ ~Sharer(g))
  BY <1>1, <1>3, <1>4, InsideShares DEF Shares
<1>10. QED BY <1>1, <1>3, <1>4, <1>5, <1>6, <1>7, <1>8, <1>9, DeviceEffect DEF IInv

LEMMA AgentStopBeginKeeps ==
  ASSUME IInv, NEW t \in Threads, AgentStopBegin(t)
  PROVE  IInv'
<1> USE ThreadFacts DEF IInv
<1>1. /\ Places' /\ thr[t].at = "p_begin"
      /\ thr'[t].at = IF agent[thr[t].gen].running THEN "p_wait" ELSE "p_done"
      /\ thr'[t].gen = thr[t].gen /\ \A x \in Threads \ {t} : thr'[x] = thr[x]
      /\ raced \subseteq raced' /\ raced' \subseteq Gens
      /\ Calling(thr[t].gen) \/ t = Updater => thr[t].gen \in raced'
  BY GotoFacts, PlaceFacts DEF AgentStopBegin, SecondStop, At, Labels, Scalars
<1>2. /\ Objects' /\ OtherAgents(thr[t].gen) /\ ~agent'[thr[t].gen].running
      /\ agent'[thr[t].gen].api = agent[thr[t].gen].api
      /\ agent'[thr[t].gen].stopping =
           (agent[thr[t].gen].running \/ agent[thr[t].gen].stopping)
  <2>1. thr[t].gen \in Gens BY PlaceFacts
  <2>2. CASE agent[thr[t].gen].running
    <3>1. /\ agent' = [agent EXCEPT ![thr[t].gen].running = FALSE,
                                    ![thr[t].gen].stopping = TRUE]
          /\ UNCHANGED <<dev, host>>
      BY <2>2 DEF AgentStopBegin
    <3>2. QED BY <2>1, <2>2, <3>1, AgentStops, ObjectFacts
  <2>3. CASE ~agent[thr[t].gen].running
    BY <2>1, <2>3, ObjectFacts DEF AgentStopBegin, Objects, OtherAgents
  <2>4. QED BY <2>2, <2>3
<1>a. t \in {Main, Updater} BY <1>1 DEF Roles, Threads, Starting, Enabling, Stopping
<1>b. t = Main /\ ~agent[thr[t].gen].running => thr[t].gen \in raced
  BY <1>1 DEF MainRuns
<1>3. Scalars' BY <1>1 DEF AgentStopBegin, Scalars
<1>4. Counters' BY LifecycleAssumption DEF AgentStopBegin, Counters
<1>5. Recorded' /\ Phases' /\ Shared'
  BY <1>1, Calm DEF AgentStopBegin, Critical, Outside, UpdaterRaces
<1>6. Roles'
  BY <1>1, <1>2, PlaceFacts
     DEF AgentStopBegin, OtherAgents, Roles, Starting, Enabling, Stopping
<1>7. Holder' BY <1>1, <1>2, PlaceFacts DEF AgentStopBegin, OtherAgents, Holder, Scalars
<1>8. UpdaterRaces'
  BY <1>1, <1>2, PlaceFacts DEF AgentStopBegin, OtherAgents, UpdaterRaces, Roles
<1>9. MainRuns' 
  <2>1. CASE t = Main BY <1>1, <2>1 DEF MainRuns, Starting
  <2>2. CASE t = Updater
    BY <1>1, <1>2, <2>2, PlaceFacts DEF MainRuns, OtherAgents, Starting
  <2>3. QED BY <1>a, <2>1, <2>2
<1>10. ApiUp' 
  <2>1. CASE t = Main
    BY <1>1, <1>2, <1>b, <2>1, PlaceFacts, ObjectFacts DEF ApiUp, Attended, OtherAgents
  <2>2. CASE t = Updater
    BY <1>1, <1>2, <2>2, PlaceFacts DEF ApiUp, Attended, OtherAgents
  <2>3. QED BY <1>a, <2>1, <2>2
<1>11. CallsUp' 
  <2>1. \A h \in Gens : Calling(h)' => Calling(h) BY <1>1, <1>a DEF Calling
  <2>2. QED BY <1>1, <1>a, <2>1 DEF CallsUp, Attended
<1>12. EnableRuns' BY <1>1, <1>2, PlaceFacts DEF AgentStopBegin, OtherAgents, EnableRuns
<1>13. Down' 
  <2>1. CASE t = Main BY <1>1, <1>b, <2>1 DEF AgentStopBegin, Down
  <2>2. CASE t = Updater BY <1>1, <2>2 DEF AgentStopBegin, Down
  <2>3. QED BY <1>a, <2>1, <2>2
<1> QED BY <1>1, <1>2, <1>3, <1>4, <1>5, <1>6, <1>7, <1>8, <1>9, <1>10,
     <1>11, <1>12, <1>13

LEMMA AgentStopWaitKeeps ==
  ASSUME IInv, NEW t \in Threads, AgentStopWait(t)
  PROVE  IInv'
<1> USE ThreadFacts DEF IInv
<1>1. /\ Places' /\ thr[t].at = "p_wait" /\ thr'[t].at = "t_begin"
      /\ thr'[t].gen = thr[t].gen /\ \A x \in Threads \ {t} : thr'[x] = thr[x]
      /\ thr'[t].ok = "p_api" /\ thr'[t].bad = "p_api"
  <2>1. Call(t, "t_begin", "p_api", "p_api") /\ thr[t].at = "p_wait"
    BY DEF AgentStopWait, At
  <2>2. "t_begin" \in Labels /\ "p_api" \in Labels /\ "p_api" \in Labels BY DEF Labels
  <2>3. QED BY <2>1, <2>2, CallFacts
<1>2. Objects' /\ agent' = agent BY DEF AgentStopWait, Objects
<1>3. Scalars' BY LifecycleAssumption, <1>1, PlaceFacts DEF AgentStopWait, Scalars
<1>4. Counters' BY LifecycleAssumption DEF AgentStopWait, Counters
<1>5. Recorded' /\ Phases' /\ Shared'
  BY <1>1, Calm DEF AgentStopWait, Critical, Outside, UpdaterRaces
<1>6. Roles'
  BY <1>1, <1>2, PlaceFacts DEF AgentStopWait, Roles, Starting, Enabling, Stopping
<1>7. Holder' BY <1>1, <1>2, PlaceFacts DEF AgentStopWait, Holder, Scalars
<1>8. UpdaterRaces' BY <1>1, <1>2, PlaceFacts DEF AgentStopWait, UpdaterRaces, Roles
<1>9. MainRuns' BY <1>1, <1>2, PlaceFacts DEF AgentStopWait, MainRuns, Starting, Roles
<1>10. ApiUp' BY <1>1, <1>2, PlaceFacts DEF AgentStopWait, ApiUp, Attended, Roles
<1>11. CallsUp' BY <1>1, <1>2, PlaceFacts DEF AgentStopWait, CallsUp, Calling, Attended
<1>12. EnableRuns' BY <1>1, <1>2, PlaceFacts DEF AgentStopWait, EnableRuns
<1>13. Down' BY <1>1, <1>2, PlaceFacts DEF AgentStopWait, Down
<1> QED BY <1>1, <1>2, <1>3, <1>4, <1>5, <1>6, <1>7, <1>8, <1>9, <1>10,
     <1>11, <1>12, <1>13

LEMMA AgentStopAPIKeeps ==
  ASSUME IInv, NEW t \in Threads, AgentStopAPI(t)
  PROVE  IInv'
<1> USE ThreadFacts DEF IInv
<1>1. /\ Places' /\ thr[t].at = "p_api" /\ thr'[t].at = "p_done"
      /\ thr'[t].gen = thr[t].gen /\ \A x \in Threads \ {t} : thr'[x] = thr[x]
  BY GotoFacts, PlaceFacts DEF AgentStopAPI, At, Labels
<1>2. /\ Objects' /\ OtherAgents(thr[t].gen)
      /\ agent'[thr[t].gen].running = agent[thr[t].gen].running /\ ~agent'[thr[t].gen].api
      /\ agent'[thr[t].gen].stopping = agent[thr[t].gen].stopping
  <2>1. thr[t].gen \in Gens BY PlaceFacts
  <2>2. agent' = [agent EXCEPT ![thr[t].gen].api = FALSE] /\ UNCHANGED <<dev, host>>
    BY DEF AgentStopAPI
  <2>3. QED BY <2>1, <2>2, AgentCloses
<1>3. Scalars' BY LifecycleAssumption, <1>1, PlaceFacts DEF AgentStopAPI, Scalars
<1>4. Counters' BY LifecycleAssumption DEF AgentStopAPI, Counters
<1>5. Recorded' /\ Phases' /\ Shared'
  BY <1>1, Calm DEF AgentStopAPI, Critical, Outside, UpdaterRaces
<1>6. Roles'
  BY <1>1, <1>2, PlaceFacts
     DEF AgentStopAPI, OtherAgents, Roles, Starting, Enabling, Stopping
<1>7. Holder' BY <1>1, <1>2, PlaceFacts DEF AgentStopAPI, OtherAgents, Holder, Scalars
<1>8. UpdaterRaces'
  BY <1>1, <1>2, PlaceFacts DEF AgentStopAPI, OtherAgents, UpdaterRaces, Roles
<1>9. MainRuns'
  BY <1>1, <1>2, PlaceFacts DEF AgentStopAPI, OtherAgents, MainRuns, Starting, Roles
<1>10. ApiUp'
  BY <1>1, <1>2, PlaceFacts DEF AgentStopAPI, OtherAgents, ApiUp, Attended, Roles
<1>11. CallsUp'
  BY <1>1, <1>2, PlaceFacts DEF AgentStopAPI, OtherAgents, CallsUp, Calling, Attended
<1>12. EnableRuns' BY <1>1, <1>2, PlaceFacts DEF AgentStopAPI, OtherAgents, EnableRuns
<1>13. Down' BY <1>1, <1>2, PlaceFacts DEF AgentStopAPI, OtherAgents, Down
<1> QED BY <1>1, <1>2, <1>3, <1>4, <1>5, <1>6, <1>7, <1>8, <1>9, <1>10,
     <1>11, <1>12, <1>13

LEMMA StartLocalKeeps ==
  ASSUME IInv, StartLocal
  PROVE  IInv'
<1> USE ThreadFacts DEF IInv
<1>1. /\ Places' /\ thr[Main].at = "a_local" /\ thr'[Main].at \in {"e_os", "a_go"}
      /\ thr'[Main].gen = thr[Main].gen /\ \A x \in Threads \ {Main} : thr'[x] = thr[x]
      /\ thr'[Main].at = "e_os" => thr'[Main].ok = "a_go" /\ thr'[Main].bad = "a_undo"
  <2>1. /\ thr[Main].at = "a_local"
        /\ Call(Main, "e_os", "a_go", "a_undo") \/ Goto(Main, "a_go")
    BY DEF StartLocal, At
  <2>2. /\ "e_os" \in Labels /\ "a_go" \in Labels /\ "a_undo" \in Labels
        /\ "a_go" \in Labels /\ "e_os" # "a_go"
    BY DEF Labels
  <2>3. CASE Call(Main, "e_os", "a_go", "a_undo") BY <2>1, <2>2, <2>3, CallFacts
  <2>4. CASE Goto(Main, "a_go") BY <2>1, <2>2, <2>4, GotoFacts
  <2>5. QED BY <2>1, <2>3, <2>4
<1>2. Objects' /\ agent' = agent BY DEF StartLocal, Objects
<1>3. Scalars' BY LifecycleAssumption, <1>1, PlaceFacts DEF StartLocal, Scalars
<1>4. Counters' BY LifecycleAssumption DEF StartLocal, Counters
<1>5. Recorded' /\ Phases' /\ Shared'
  BY <1>1, Calm DEF StartLocal, Critical, Outside, UpdaterRaces
<1>6. Roles'
  BY <1>1, <1>2, PlaceFacts DEF StartLocal, Roles, Starting, Enabling, Stopping
<1>7. Holder' BY <1>1, <1>2, PlaceFacts DEF StartLocal, Holder, Scalars
<1>8. UpdaterRaces' BY <1>1, <1>2, PlaceFacts DEF StartLocal, UpdaterRaces, Roles
<1>9. MainRuns' BY <1>1, <1>2, PlaceFacts DEF StartLocal, MainRuns, Starting, Roles
<1>10. ApiUp' BY <1>1, <1>2, PlaceFacts DEF StartLocal, ApiUp, Attended, Roles
<1>11. CallsUp' BY <1>1, <1>2, PlaceFacts DEF StartLocal, CallsUp, Calling, Attended
<1>12. EnableRuns' BY <1>1, <1>2, PlaceFacts DEF StartLocal, EnableRuns
<1>13. Down' BY <1>1, <1>2, PlaceFacts DEF StartLocal, Down
<1> QED BY <1>1, <1>2, <1>3, <1>4, <1>5, <1>6, <1>7, <1>8, <1>9, <1>10,
     <1>11, <1>12, <1>13

LEMMA StartUndoKeeps ==
  ASSUME IInv, StartUndo
  PROVE  IInv'
<1> USE ThreadFacts DEF IInv
<1>1. /\ Places' /\ thr[Main].at = "a_undo" /\ thr'[Main].at = "t_begin"
      /\ thr'[Main].gen = thr[Main].gen /\ \A x \in Threads \ {Main} : thr'[x] = thr[x]
      /\ thr'[Main].ok = "a_failed" /\ thr'[Main].bad = "a_failed"
  <2>1. Call(Main, "t_begin", "a_failed", "a_failed") /\ thr[Main].at = "a_undo"
    BY DEF StartUndo, At
  <2>2. "t_begin" \in Labels /\ "a_failed" \in Labels /\ "a_failed" \in Labels
    BY DEF Labels
  <2>3. QED BY <2>1, <2>2, CallFacts
<1>2. Objects' /\ agent' = agent BY DEF StartUndo, Objects
<1>3. Scalars' BY LifecycleAssumption, <1>1, PlaceFacts DEF StartUndo, Scalars
<1>4. Counters' BY LifecycleAssumption DEF StartUndo, Counters
<1>5. Recorded' /\ Phases' /\ Shared'
  BY <1>1, Calm DEF StartUndo, Critical, Outside, UpdaterRaces
<1>6. Roles'
  BY <1>1, <1>2, PlaceFacts DEF StartUndo, Roles, Starting, Enabling, Stopping
<1>7. Holder' BY <1>1, <1>2, PlaceFacts DEF StartUndo, Holder, Scalars
<1>8. UpdaterRaces' BY <1>1, <1>2, PlaceFacts DEF StartUndo, UpdaterRaces, Roles
<1>9. MainRuns' BY <1>1, <1>2, PlaceFacts DEF StartUndo, MainRuns, Starting, Roles
<1>10. ApiUp' BY <1>1, <1>2, PlaceFacts DEF StartUndo, ApiUp, Attended, Roles
<1>11. CallsUp' BY <1>1, <1>2, PlaceFacts DEF StartUndo, CallsUp, Calling, Attended
<1>12. EnableRuns' BY <1>1, <1>2, PlaceFacts DEF StartUndo, EnableRuns
<1>13. Down' BY <1>1, <1>2, PlaceFacts DEF StartUndo, Down
<1> QED BY <1>1, <1>2, <1>3, <1>4, <1>5, <1>6, <1>7, <1>8, <1>9, <1>10,
     <1>11, <1>12, <1>13

LEMMA StartBusyKeeps ==
  ASSUME IInv, StartBusy
  PROVE  IInv'
<1> USE ThreadFacts DEF IInv
<1>1. /\ Places' /\ thr[Main].at = "a_busy" /\ thr'[Main].at = "boot"
      /\ thr'[Main].gen = thr[Main].gen /\ \A x \in Threads \ {Main} : thr'[x] = thr[x]
  BY GotoFacts, PlaceFacts DEF StartBusy, At, Labels
<1>2. /\ Objects' /\ OtherAgents(thr[Main].gen)
      /\ agent'[thr[Main].gen].running = FALSE
      /\ agent'[thr[Main].gen].api = agent[thr[Main].gen].api
      /\ agent'[thr[Main].gen].stopping = agent[thr[Main].gen].stopping
  <2>1. thr[Main].gen \in Gens BY PlaceFacts
  <2>2. agent' = [agent EXCEPT ![thr[Main].gen].running = FALSE] /\ UNCHANGED <<dev, host>>
    BY DEF StartBusy
  <2>3. QED BY <2>1, <2>2, AgentRuns
<1>3. Scalars' BY LifecycleAssumption, <1>1, PlaceFacts DEF StartBusy, Scalars
<1>4. Counters' BY LifecycleAssumption DEF StartBusy, Counters
<1>5. Recorded' /\ Phases' /\ Shared'
  BY <1>1, Calm DEF StartBusy, Critical, Outside, UpdaterRaces
<1>6. Roles'
  BY <1>1, <1>2, PlaceFacts
     DEF StartBusy, OtherAgents, Roles, Starting, Enabling, Stopping
<1>7. Holder' BY <1>1, <1>2, PlaceFacts DEF StartBusy, OtherAgents, Holder, Scalars
<1>8. UpdaterRaces'
  BY <1>1, <1>2, PlaceFacts DEF StartBusy, OtherAgents, UpdaterRaces, Roles
<1>9. MainRuns'
  BY <1>1, <1>2, PlaceFacts DEF StartBusy, OtherAgents, MainRuns, Starting, Roles
<1>10. ApiUp'
  BY <1>1, <1>2, PlaceFacts DEF StartBusy, OtherAgents, ApiUp, Attended, Roles
<1>11. CallsUp'
  BY <1>1, <1>2, PlaceFacts DEF StartBusy, OtherAgents, CallsUp, Calling, Attended
<1>12. EnableRuns' BY <1>1, <1>2, PlaceFacts DEF StartBusy, OtherAgents, EnableRuns
<1>13. Down' BY <1>1, <1>2, PlaceFacts DEF StartBusy, OtherAgents, Down
<1> QED BY <1>1, <1>2, <1>3, <1>4, <1>5, <1>6, <1>7, <1>8, <1>9, <1>10,
     <1>11, <1>12, <1>13

LEMMA LeaveKeeps ==
  ASSUME IInv, NEW why \in {"exit", "switch"}, Leave(why)
  PROVE  IInv'
<1> USE ThreadFacts DEF IInv
<1>1. /\ Places' /\ thr[Main].at = "up" /\ thr'[Main].at = "p_begin"
      /\ thr'[Main].gen = thr[Main].gen /\ \A x \in Threads \ {Main} : thr'[x] = thr[x]
  BY GotoFacts, PlaceFacts DEF Leave, At, Labels
<1>2. Objects' /\ agent' = agent BY DEF Leave, Objects
<1>3. Scalars' BY LifecycleAssumption, <1>1, PlaceFacts DEF Leave, Scalars
<1>4. Counters' BY LifecycleAssumption DEF Leave, Counters
<1>5. Recorded' /\ Phases' /\ Shared'
  BY <1>1, Calm DEF Leave, Critical, Outside, UpdaterRaces
<1>6. Roles' BY <1>1, <1>2, PlaceFacts DEF Leave, Roles, Starting, Enabling, Stopping
<1>7. Holder' BY <1>1, <1>2, PlaceFacts DEF Leave, Holder, Scalars
<1>8. UpdaterRaces' BY <1>1, <1>2, PlaceFacts DEF Leave, UpdaterRaces, Roles
<1>9. MainRuns' BY <1>1, <1>2, PlaceFacts DEF Leave, MainRuns, Starting, Roles
<1>10. ApiUp' BY <1>1, <1>2, PlaceFacts DEF Leave, ApiUp, Attended, Roles
<1>11. CallsUp' BY <1>1, <1>2, PlaceFacts DEF Leave, CallsUp, Calling, Attended
<1>12. EnableRuns' BY <1>1, <1>2, PlaceFacts DEF Leave, EnableRuns
<1>13. Down' BY <1>1, <1>2, PlaceFacts DEF Leave, Down
<1> QED BY <1>1, <1>2, <1>3, <1>4, <1>5, <1>6, <1>7, <1>8, <1>9, <1>10,
     <1>11, <1>12, <1>13

LEMMA UpdateKeeps ==
  ASSUME IInv, Update
  PROVE  IInv'
<1> USE ThreadFacts DEF IInv
<1>1. /\ Places' /\ thr[Updater].at = "idle" /\ thr'[Updater].at = "p_begin"
      /\ thr'[Updater].gen = thr[Updater].gen
      /\ \A x \in Threads \ {Updater} : thr'[x] = thr[x]
  BY GotoFacts, PlaceFacts DEF Update, At, Labels
<1>2. Objects' /\ agent' = agent BY DEF Update, Objects
<1>3. Scalars' BY LifecycleAssumption, <1>1, PlaceFacts DEF Update, Scalars
<1>4. Counters' BY LifecycleAssumption DEF Update, Counters
<1>5. Recorded' /\ Phases' /\ Shared'
  BY <1>1, Calm DEF Update, Critical, Outside, UpdaterRaces
<1>6. Roles' BY <1>1, <1>2, PlaceFacts DEF Update, Roles, Starting, Enabling, Stopping
<1>7. Holder' BY <1>1, <1>2, PlaceFacts DEF Update, Holder, Scalars
<1>8. UpdaterRaces' BY <1>1, <1>2, PlaceFacts DEF Update, UpdaterRaces, Roles
<1>9. MainRuns' BY <1>1, <1>2, PlaceFacts DEF Update, MainRuns, Starting, Roles
<1>10. ApiUp' BY <1>1, <1>2, PlaceFacts DEF Update, ApiUp, Attended, Roles
<1>11. CallsUp' BY <1>1, <1>2, PlaceFacts DEF Update, CallsUp, Calling, Attended
<1>12. EnableRuns' BY <1>1, <1>2, PlaceFacts DEF Update, EnableRuns
<1>13. Down' BY <1>1, <1>2, PlaceFacts DEF Update, Down
<1> QED BY <1>1, <1>2, <1>3, <1>4, <1>5, <1>6, <1>7, <1>8, <1>9, <1>10,
     <1>11, <1>12, <1>13

LEMMA ConnectLocalKeeps ==
  ASSUME IInv, NEW u \in Users, ConnectLocal(u)
  PROVE  IInv'
<1> USE ThreadFacts DEF IInv
<1>1. /\ Places' /\ thr[u].at = "c_local" /\ thr'[u].at \in {"e_os", "c_done"}
      /\ thr'[u].gen = thr[u].gen /\ \A x \in Threads \ {u} : thr'[x] = thr[x]
      /\ thr'[u].at = "e_os" => thr'[u].ok = "c_done" /\ thr'[u].bad = "c_done"
  <2>1. /\ thr[u].at = "c_local"
        /\ Call(u, "e_os", "c_done", "c_done") \/ Goto(u, "c_done")
    BY DEF ConnectLocal, At
  <2>2. /\ "e_os" \in Labels /\ "c_done" \in Labels /\ "c_done" \in Labels
        /\ "c_done" \in Labels /\ "e_os" # "c_done"
    BY DEF Labels
  <2>3. CASE Call(u, "e_os", "c_done", "c_done") BY <2>1, <2>2, <2>3, CallFacts
  <2>4. CASE Goto(u, "c_done") BY <2>1, <2>2, <2>4, GotoFacts
  <2>5. QED BY <2>1, <2>3, <2>4
<1>2. Objects' /\ agent' = agent BY DEF ConnectLocal, Objects
<1>3. Scalars' BY LifecycleAssumption, <1>1, PlaceFacts DEF ConnectLocal, Scalars
<1>4. Counters' BY LifecycleAssumption DEF ConnectLocal, Counters
<1>5. Recorded' /\ Phases' /\ Shared'
  BY <1>1, Calm DEF ConnectLocal, Critical, Outside, UpdaterRaces
<1>6. Roles'
  BY <1>1, <1>2, PlaceFacts DEF ConnectLocal, Roles, Starting, Enabling, Stopping
<1>7. Holder' BY <1>1, <1>2, PlaceFacts DEF ConnectLocal, Holder, Scalars
<1>8. UpdaterRaces' BY <1>1, <1>2, PlaceFacts DEF ConnectLocal, UpdaterRaces, Roles
<1>9. MainRuns' BY <1>1, <1>2, PlaceFacts DEF ConnectLocal, MainRuns, Starting, Roles
<1>10. ApiUp' BY <1>1, <1>2, PlaceFacts DEF ConnectLocal, ApiUp, Attended, Roles
<1>11. CallsUp' BY <1>1, <1>2, PlaceFacts DEF ConnectLocal, CallsUp, Calling, Attended
<1>12. EnableRuns' BY <1>1, <1>2, PlaceFacts DEF ConnectLocal, EnableRuns
<1>13. Down' BY <1>1, <1>2, PlaceFacts DEF ConnectLocal, Down
<1> QED BY <1>1, <1>2, <1>3, <1>4, <1>5, <1>6, <1>7, <1>8, <1>9, <1>10,
     <1>11, <1>12, <1>13

LEMMA ConnectKeeps ==
  ASSUME IInv, NEW u \in Users, Connect(u)
  PROVE  IInv'
<1> USE ThreadFacts DEF IInv
<1>1. /\ Places' /\ thr[u].at = "c_check" /\ thr'[u].at \in {"s_begin", "c_done"}
      /\ thr'[u].gen = thr[u].gen /\ \A x \in Threads \ {u} : thr'[x] = thr[x]
      /\ thr'[u].at = "s_begin" => thr'[u].ok = "c_local" /\ thr'[u].bad = "c_done"
  <2>1. /\ thr[u].at = "c_check"
        /\ Call(u, "s_begin", "c_local", "c_done") \/ Goto(u, "c_done")
    BY DEF Connect, At
  <2>2. /\ "s_begin" \in Labels /\ "c_local" \in Labels /\ "c_done" \in Labels
        /\ "c_done" \in Labels /\ "s_begin" # "c_done"
    BY DEF Labels
  <2>3. CASE Call(u, "s_begin", "c_local", "c_done") BY <2>1, <2>2, <2>3, CallFacts
  <2>4. CASE Goto(u, "c_done") BY <2>1, <2>2, <2>4, GotoFacts
  <2>5. QED BY <2>1, <2>3, <2>4
<1>2. Objects' /\ agent' = agent BY DEF Connect, Lock, Objects
<1>3. Scalars' BY LifecycleAssumption, <1>1, PlaceFacts DEF Connect, Lock, Scalars
<1>4. Counters' BY LifecycleAssumption DEF Connect, Lock, Counters
<1>5. Recorded' /\ Phases' /\ Shared'
  BY <1>1, Calm DEF Connect, Lock, Critical, Outside, UpdaterRaces
<1>6. Roles'
  BY <1>1, <1>2, PlaceFacts DEF Connect, Lock, Roles, Starting, Enabling, Stopping
<1>7. Holder' BY <1>1, <1>2, PlaceFacts DEF Connect, Lock, Holder, Scalars
<1>8. UpdaterRaces' BY <1>1, <1>2, PlaceFacts DEF Connect, Lock, UpdaterRaces, Roles
<1>9. MainRuns' BY <1>1, <1>2, PlaceFacts DEF Connect, Lock, MainRuns, Starting, Roles
<1>10. ApiUp' BY <1>1, <1>2, PlaceFacts DEF Connect, Lock, ApiUp, Attended, Roles
<1>11. CallsUp' BY <1>1, <1>2, PlaceFacts DEF Connect, Lock, CallsUp, Calling, Attended
<1>12. EnableRuns' BY <1>1, <1>2, PlaceFacts DEF Connect, Lock, EnableRuns
<1>13. Down' BY <1>1, <1>2, PlaceFacts DEF Connect, Lock, Down
<1> QED BY <1>1, <1>2, <1>3, <1>4, <1>5, <1>6, <1>7, <1>8, <1>9, <1>10,
     <1>11, <1>12, <1>13

LEMMA DisconnectKeeps ==
  ASSUME IInv, NEW u \in Users, Disconnect(u)
  PROVE  IInv'
<1> USE ThreadFacts DEF IInv
<1>1. /\ Places' /\ thr[u].at = "d_check" /\ thr'[u].at \in {"t_begin", "c_done"}
      /\ thr'[u].gen = thr[u].gen /\ \A x \in Threads \ {u} : thr'[x] = thr[x]
      /\ thr'[u].at = "t_begin" => thr'[u].ok = "c_done" /\ thr'[u].bad = "c_done"
  <2>1. /\ thr[u].at = "d_check"
        /\ Call(u, "t_begin", "c_done", "c_done") \/ Goto(u, "c_done")
    BY DEF Disconnect, At
  <2>2. /\ "t_begin" \in Labels /\ "c_done" \in Labels /\ "c_done" \in Labels
        /\ "c_done" \in Labels /\ "t_begin" # "c_done"
    BY DEF Labels
  <2>3. CASE Call(u, "t_begin", "c_done", "c_done") BY <2>1, <2>2, <2>3, CallFacts
  <2>4. CASE Goto(u, "c_done") BY <2>1, <2>2, <2>4, GotoFacts
  <2>5. QED BY <2>1, <2>3, <2>4
<1>2. Objects' /\ agent' = agent BY DEF Disconnect, Lock, Objects
<1>3. Scalars' BY LifecycleAssumption, <1>1, PlaceFacts DEF Disconnect, Lock, Scalars
<1>4. Counters' BY LifecycleAssumption DEF Disconnect, Lock, Counters
<1>5. Recorded' /\ Phases' /\ Shared'
  BY <1>1, Calm DEF Disconnect, Lock, Critical, Outside, UpdaterRaces
<1>6. Roles'
  BY <1>1, <1>2, PlaceFacts DEF Disconnect, Lock, Roles, Starting, Enabling, Stopping
<1>7. Holder' BY <1>1, <1>2, PlaceFacts DEF Disconnect, Lock, Holder, Scalars
<1>8. UpdaterRaces' BY <1>1, <1>2, PlaceFacts DEF Disconnect, Lock, UpdaterRaces, Roles
<1>9. MainRuns'
  BY <1>1, <1>2, PlaceFacts DEF Disconnect, Lock, MainRuns, Starting, Roles
<1>10. ApiUp' BY <1>1, <1>2, PlaceFacts DEF Disconnect, Lock, ApiUp, Attended, Roles
<1>11. CallsUp'
  BY <1>1, <1>2, PlaceFacts DEF Disconnect, Lock, CallsUp, Calling, Attended
<1>12. EnableRuns' BY <1>1, <1>2, PlaceFacts DEF Disconnect, Lock, EnableRuns
<1>13. Down' BY <1>1, <1>2, PlaceFacts DEF Disconnect, Lock, Down
<1> QED BY <1>1, <1>2, <1>3, <1>4, <1>5, <1>6, <1>7, <1>8, <1>9, <1>10,
     <1>11, <1>12, <1>13

LEMMA ReplyKeeps ==
  ASSUME IInv, NEW u \in Users, Reply(u)
  PROVE  IInv'
<1> USE ThreadFacts DEF IInv
<1>1. /\ Places' /\ thr[u].at = "c_done" /\ thr'[u].at = "idle"
      /\ thr'[u].gen = thr[u].gen /\ \A x \in Threads \ {u} : thr'[x] = thr[x]
  BY GotoFacts, PlaceFacts DEF Reply, At, Labels
<1>2. Objects' /\ agent' = agent BY DEF Reply, Objects
<1>3. Scalars' BY LifecycleAssumption, <1>1, PlaceFacts DEF Reply, Scalars
<1>4. Counters' BY LifecycleAssumption DEF Reply, Counters
<1>5. Recorded' /\ Phases' /\ Shared'
  BY <1>1, Calm DEF Reply, Critical, Outside, UpdaterRaces
<1>6. Roles' BY <1>1, <1>2, PlaceFacts DEF Reply, Roles, Starting, Enabling, Stopping
<1>7. Holder' BY <1>1, <1>2, PlaceFacts DEF Reply, Holder, Scalars
<1>8. UpdaterRaces' BY <1>1, <1>2, PlaceFacts DEF Reply, UpdaterRaces, Roles
<1>9. MainRuns' BY <1>1, <1>2, PlaceFacts DEF Reply, MainRuns, Starting, Roles
<1>10. ApiUp' BY <1>1, <1>2, PlaceFacts DEF Reply, ApiUp, Attended, Roles
<1>11. CallsUp' BY <1>1, <1>2, PlaceFacts DEF Reply, CallsUp, Calling, Attended
<1>12. EnableRuns' BY <1>1, <1>2, PlaceFacts DEF Reply, EnableRuns
<1>13. Down' BY <1>1, <1>2, PlaceFacts DEF Reply, Down
<1> QED BY <1>1, <1>2, <1>3, <1>4, <1>5, <1>6, <1>7, <1>8, <1>9, <1>10,
     <1>11, <1>12, <1>13

LEMMA BootKeeps ==
  ASSUME IInv, Boot
  PROVE  IInv'
<1> USE ThreadFacts DEF IInv
<1>1. /\ Places' /\ thr[Main].at = "boot" /\ thr'[Main].at = "s_begin"
      /\ thr'[Main].gen = gens + 1 /\ gens + 1 \in Gens
      /\ \A x \in Threads \ {Main} : thr'[x] = thr[x]
      /\ thr'[Main].ok = "a_local" /\ thr'[Main].bad = "a_failed"
  <2>1. gens + 1 \in Gens /\ thr[Main].at = "boot"
    BY LifecycleAssumption DEF Boot, AttemptsLeft, At, Scalars, Gens
  <2> DEFINE r == [New EXCEPT !.at = "s_begin", !.gen = gens + 1,
                              !.ok = "a_local", !.bad = "a_failed"]
  <2>2. /\ r \in Thread /\ r.at = "s_begin" /\ r.gen = gens + 1
        /\ r.ok = "a_local" /\ r.bad = "a_failed"
    BY <2>1 DEF New, Thread, Nothing, Labels
  <2>3. thr' = [thr EXCEPT ![Main] = r] BY DEF Boot
  <2> HIDE DEF r
  <2>4. Places' /\ thr'[Main] = r /\ \A x \in Threads \ {Main} : thr'[x] = thr[x]
    BY <2>2, <2>3 DEF Places
  <2>5. QED BY <2>1, <2>2, <2>4
<1>2. /\ Objects' /\ OtherAgents(gens + 1)
      /\ agent'[gens + 1].running = TRUE /\ agent'[gens + 1].api = agent[gens + 1].api
      /\ agent'[gens + 1].stopping = agent[gens + 1].stopping
  <2>1. gens + 1 \in Gens BY <1>1
  <2>2. agent' = [agent EXCEPT ![gens + 1].running = TRUE] /\ UNCHANGED <<dev, host>>
    BY DEF Boot
  <2>3. QED BY <2>1, <2>2, AgentRuns
<1>3. Scalars' BY LifecycleAssumption, <1>1 DEF Boot, Scalars, Gens
<1>4. Counters' BY LifecycleAssumption DEF Boot, Counters
<1>5. Recorded' /\ Phases' /\ Shared'
  BY <1>1, Calm DEF Boot, Critical, Outside, UpdaterRaces
<1>6. Roles'
  BY <1>1, <1>2, PlaceFacts DEF Boot, OtherAgents, Roles, Starting, Enabling, Stopping
<1>7. Holder' BY <1>1, <1>2, PlaceFacts DEF Boot, OtherAgents, Holder, Scalars
<1>8. UpdaterRaces' BY <1>1, <1>2, PlaceFacts DEF Boot, OtherAgents, UpdaterRaces, Roles
<1>9. MainRuns'
  BY <1>1, <1>2, PlaceFacts DEF Boot, OtherAgents, MainRuns, Starting, Roles
<1>10. ApiUp' BY <1>1, <1>2, PlaceFacts DEF Boot, OtherAgents, ApiUp, Attended, Roles
<1>11. CallsUp'
  BY <1>1, <1>2, PlaceFacts DEF Boot, OtherAgents, CallsUp, Calling, Attended
<1>12. EnableRuns' BY <1>1, <1>2, PlaceFacts DEF Boot, OtherAgents, EnableRuns
<1>13. Down' BY <1>1, <1>2, PlaceFacts DEF Boot, OtherAgents, Down
<1> QED BY <1>1, <1>2, <1>3, <1>4, <1>5, <1>6, <1>7, <1>8, <1>9, <1>10,
     <1>11, <1>12, <1>13

LEMMA StartGoKeeps ==
  ASSUME IInv, StartGo
  PROVE  IInv'
<1> USE ThreadFacts DEF IInv
<1>1. /\ Places' /\ thr[Main].at = "a_go" /\ thr'[Main].at = "up"
      /\ thr'[Main].gen = thr[Main].gen /\ thr'[Updater].at = "idle"
      /\ \A x \in Threads \ {Main, Updater} : thr'[x] = thr[x]
  <2> DEFINE r == [New EXCEPT !.gen = thr[Main].gen]
  <2>0. thr[Main].gen \in Gens /\ thr[Main].at = "a_go" BY PlaceFacts DEF StartGo, At
  <2>1. r \in Thread /\ r.at = "idle" /\ thr[Main].at = "a_go"
    BY <2>0 DEF New, Thread, Nothing, Labels
  <2>2. thr' = [[thr EXCEPT ![Main].at = "up"] EXCEPT ![Updater] = r]
    BY DEF StartGo
  <2> HIDE DEF r
  <2> DEFINE m == [thr EXCEPT ![Main].at = "up"]
  <2>3. /\ m \in [Threads -> Thread] /\ m[Main].at = "up" /\ m[Main].gen = thr[Main].gen
        /\ \A x \in Threads \ {Main} : m[x] = thr[x]
    BY DEF Places, Thread, Labels
  <2> HIDE DEF m
  <2>4. thr' = [m EXCEPT ![Updater] = r] BY <2>2 DEF m
  <2>5. /\ thr' \in [Threads -> Thread] /\ thr'[Updater] = r
        /\ \A x \in Threads \ {Updater} : thr'[x] = m[x]
    BY <2>1, <2>3, <2>4
  <2>6. QED BY <2>1, <2>3, <2>5 DEF Places
<1>2. /\ Objects' /\ OtherAgents(thr[Main].gen)
      /\ agent'[thr[Main].gen].running = agent[thr[Main].gen].running
      /\ agent'[thr[Main].gen].stopping = agent[thr[Main].gen].stopping
  <2>1. thr[Main].gen \in Gens BY PlaceFacts
  <2>2. /\ agent' = [agent EXCEPT ![thr[Main].gen].wg = Workers,
                                    ![thr[Main].gen].api = TRUE]
        /\ UNCHANGED <<dev, host>>
    BY DEF StartGo
  <2>3. QED BY <2>1, <2>2, AgentOpens
<1>3. Scalars' BY LifecycleAssumption, <1>1, PlaceFacts DEF StartGo, Scalars
<1>4. Counters' BY LifecycleAssumption DEF StartGo, Counters
<1>5. Recorded' /\ Phases' /\ Shared'
  BY <1>1, Calm DEF StartGo, Critical, Outside, UpdaterRaces
<1>6. Roles' 
  <2>1. \A u \in Users : thr'[u] = thr[u] BY <1>1
  <2>2. QED BY <1>1, <2>1 DEF Roles, Starting, Enabling, Stopping
<1>7. Holder' BY <1>1, <1>2, PlaceFacts DEF StartGo, OtherAgents, Holder, Scalars
<1>8. UpdaterRaces'
  BY <1>1, <1>2, PlaceFacts DEF StartGo, OtherAgents, UpdaterRaces, Roles
<1>9. MainRuns' 
  <2>1. raced' = raced BY DEF StartGo
  <2>2. QED BY <1>1, <1>2, <2>1 DEF MainRuns
<1>10. ApiUp' BY <1>1, <1>2, PlaceFacts DEF StartGo, OtherAgents, ApiUp, Attended
<1>11. CallsUp'
  BY <1>1, <1>2, PlaceFacts DEF StartGo, OtherAgents, CallsUp, Calling, Attended
<1>12. EnableRuns' 
  <2>1. raced' = raced /\ dev' = dev BY DEF StartGo
  <2>2. \A x \in Threads : thr'[x] = thr[x] \/ thr'[x].at \in {"up", "idle"} BY <1>1
  <2>3. QED BY <2>1, <2>2 DEF EnableRuns
<1>13. Down' BY <1>1, <1>2, PlaceFacts DEF StartGo, OtherAgents, Down
<1> QED BY <1>1, <1>2, <1>3, <1>4, <1>5, <1>6, <1>7, <1>8, <1>9, <1>10,
     <1>11, <1>12, <1>13

\* The start failed and switchAccount goes back to the old account.
GoBack == StartFailed /\ proc' = proc

LEMMA GoBackKeeps ==
  ASSUME IInv, GoBack
  PROVE  IInv'
<1> USE ThreadFacts DEF IInv
<1>0. /\ goal' = "back" /\ agent' = [agent EXCEPT ![thr[Main].gen].running = FALSE]
      /\ Goto(Main, "boot") /\ thr[Main].at = "a_failed" /\ proc' = proc
      /\ UNCHANGED <<signal, gens, dev, host, tunnelMu, raced, n>>
  BY DEF GoBack, StartFailed, Exit, At
<1>1. /\ Places' /\ thr[Main].at = "a_failed" /\ thr'[Main].at = "boot"
      /\ thr'[Main].gen = thr[Main].gen /\ \A x \in Threads \ {Main} : thr'[x] = thr[x]
  BY <1>0, GotoFacts, PlaceFacts DEF Labels
<1>2. /\ Objects' /\ OtherAgents(thr[Main].gen)
      /\ agent'[thr[Main].gen].running = FALSE
      /\ agent'[thr[Main].gen].api = agent[thr[Main].gen].api
      /\ agent'[thr[Main].gen].stopping = agent[thr[Main].gen].stopping
  <2>1. thr[Main].gen \in Gens BY PlaceFacts
  <2>2. agent' = [agent EXCEPT ![thr[Main].gen].running = FALSE] /\ UNCHANGED <<dev, host>>
    BY <1>0
  <2>3. QED BY <2>1, <2>2, AgentRuns
<1>3. Scalars' BY <1>0, LifecycleAssumption, <1>1, PlaceFacts DEF Scalars
<1>4. Counters' BY <1>0, LifecycleAssumption DEF Counters
<1>5. Recorded' /\ Phases' /\ Shared'
  BY <1>0, <1>1, Calm DEF Critical, Outside, UpdaterRaces
<1>6. Roles'
  BY <1>0, <1>1, <1>2, PlaceFacts DEF OtherAgents, Roles, Starting, Enabling, Stopping
<1>7. Holder' BY <1>0, <1>1, <1>2, PlaceFacts DEF OtherAgents, Holder, Scalars
<1>8. UpdaterRaces' BY <1>0, <1>1, <1>2, PlaceFacts DEF OtherAgents, UpdaterRaces, Roles
<1>9. MainRuns'
  BY <1>0, <1>1, <1>2, PlaceFacts DEF OtherAgents, MainRuns, Starting, Roles
<1>10. ApiUp' BY <1>0, <1>1, <1>2, PlaceFacts DEF OtherAgents, ApiUp, Attended, Roles
<1>11. CallsUp'
  BY <1>0, <1>1, <1>2, PlaceFacts DEF OtherAgents, CallsUp, Calling, Attended
<1>12. EnableRuns' BY <1>0, <1>1, <1>2, PlaceFacts DEF OtherAgents, EnableRuns
<1>13. Down' BY <1>0, <1>1, <1>2, PlaceFacts DEF OtherAgents, Down
<1> QED BY <1>0, <1>1, <1>2, <1>3, <1>4, <1>5, <1>6, <1>7, <1>8, <1>9, <1>10,
     <1>11, <1>12, <1>13

\* Stop has returned and switchAccount goes on.
GoOn == Stopped /\ proc' = proc

LEMMA GoOnKeeps ==
  ASSUME IInv, GoOn
  PROVE  IInv'
<1> USE ThreadFacts DEF IInv
<1>0. /\ goal' \in {"switch", "back"} /\ agent' = agent
      /\ Goto(Main, "boot") /\ thr[Main].at = "p_done" /\ proc' = proc
      /\ UNCHANGED <<signal, gens, dev, host, tunnelMu, raced, n>>
  BY DEF GoOn, Stopped, Exit, At
<1>1. /\ Places' /\ thr[Main].at = "p_done" /\ thr'[Main].at = "boot"
      /\ thr'[Main].gen = thr[Main].gen /\ \A x \in Threads \ {Main} : thr'[x] = thr[x]
  BY <1>0, GotoFacts, PlaceFacts DEF Labels
<1>2. Objects' /\ agent' = agent BY <1>0 DEF Objects
<1>3. Scalars' BY <1>0, LifecycleAssumption, <1>1, PlaceFacts DEF Scalars
<1>4. Counters' BY <1>0, LifecycleAssumption DEF Counters
<1>5. Recorded' /\ Phases' /\ Shared'
  BY <1>0, <1>1, Calm DEF Critical, Outside, UpdaterRaces
<1>6. Roles' BY <1>0, <1>1, <1>2, PlaceFacts DEF Roles, Starting, Enabling, Stopping
<1>7. Holder' BY <1>0, <1>1, <1>2, PlaceFacts DEF Holder, Scalars
<1>8. UpdaterRaces' BY <1>0, <1>1, <1>2, PlaceFacts DEF UpdaterRaces, Roles
<1>9. MainRuns' BY <1>0, <1>1, <1>2, PlaceFacts DEF MainRuns, Starting, Roles
<1>10. ApiUp' BY <1>0, <1>1, <1>2, PlaceFacts DEF ApiUp, Attended, Roles
<1>11. CallsUp' BY <1>0, <1>1, <1>2, PlaceFacts DEF CallsUp, Calling, Attended
<1>12. EnableRuns' BY <1>0, <1>1, <1>2, PlaceFacts DEF EnableRuns
<1>13. Down' BY <1>0, <1>1, <1>2, PlaceFacts DEF Down
<1> QED BY <1>0, <1>1, <1>2, <1>3, <1>4, <1>5, <1>6, <1>7, <1>8, <1>9, <1>10,
     <1>11, <1>12, <1>13

LEMMA APICallKeeps ==
  ASSUME IInv, NEW u \in Users, APICall(u)
  PROVE  IInv'
<1> USE ThreadFacts DEF IInv
<1>1. PICK g \in Gens, l \in {"c_check", "d_check"} :
          /\ At(u, "idle") /\ agent[g].api /\ n.calls < MaxCalls
          /\ n' = [n EXCEPT !.calls = @ + 1]
          /\ thr' = [thr EXCEPT ![u] = [New EXCEPT !.at = l, !.gen = g]]
          /\ raced' = IF agent[g].stopping THEN raced \cup {g} ELSE raced
          /\ UNCHANGED <<proc, signal, gens, goal, agent, dev, host, tunnelMu>>
  BY DEF APICall
<1>2. /\ Places' /\ thr[u].at = "idle" /\ thr'[u].at = l /\ thr'[u].gen = g
      /\ \A x \in Threads \ {u} : thr'[x] = thr[x]
  <2> DEFINE r == [New EXCEPT !.at = l, !.gen = g]
  <2>0. 1 \in Gens BY LifecycleAssumption DEF Gens
  <2>1. r \in Thread /\ r.at = l /\ r.gen = g BY <2>0 DEF New, Thread, Nothing, Labels
  <2>2. thr' = [thr EXCEPT ![u] = r] BY <1>1
  <2> HIDE DEF r
  <2>3. Places' /\ thr'[u] = r /\ \A x \in Threads \ {u} : thr'[x] = thr[x]
    BY <2>1, <2>2 DEF Places
  <2>4. QED BY <1>1, <2>1, <2>3 DEF At
<1>3. Scalars' /\ Objects' BY <1>1 DEF Scalars, Objects
<1>4. Counters' BY <1>1, LifecycleAssumption DEF Counters
<1>5. Recorded' /\ Phases' /\ Shared'
  BY <1>1, <1>2, Calm DEF Critical, Outside
<1>6. raced \subseteq raced' /\ (g \notin raced' => ~agent[g].stopping) BY <1>1
<1>7. Roles' BY <1>2 DEF Roles, Starting, Enabling, Stopping
<1>8. Holder' BY <1>1, <1>2 DEF Holder
<1>9. UpdaterRaces' BY <1>2, <1>6 DEF UpdaterRaces
<1>10. MainRuns' BY <1>1, <1>2, <1>6 DEF MainRuns
<1>11. ApiUp' BY <1>1, <1>2, <1>6 DEF ApiUp, Attended
<1>12. CallsUp'
  <2>1. \A h \in Gens \ {g} : Calling(h)' => Calling(h) BY <1>2 DEF Calling
  <2>2. g \notin raced' => Attended(g) BY <1>1, <1>6 DEF ApiUp
  <2>3. \A h \in Gens : Attended(h)' = Attended(h) BY <1>2 DEF Attended
  <2>4. QED BY <1>6, <2>1, <2>2, <2>3 DEF CallsUp
<1>13. EnableRuns' BY <1>1, <1>2, <1>6 DEF EnableRuns
<1>14. Down' BY <1>1, <1>2, <1>6 DEF Down
<1> QED BY <1>2, <1>3, <1>4, <1>5, <1>7, <1>8, <1>9, <1>10, <1>11, <1>12, <1>13, <1>14

LEMMA WorkerEndsKeeps ==
  ASSUME IInv, NEW g \in Gens, NEW w \in Workers, WorkerEnds(g, w)
  PROVE  IInv'
<1> USE DEF IInv
<1>1. /\ agent' \in [Gens -> Agent]
      /\ \A h \in Gens : /\ agent'[h].running = agent[h].running
                           /\ agent'[h].stopping = agent[h].stopping
                           /\ agent'[h].api = agent[h].api
  <2>1. agent' = [agent EXCEPT ![g].wg = @ \ {w}] BY DEF WorkerEnds
  <2>2. QED BY <2>1 DEF Objects, Agent
<1>2. /\ dev' \in [Gens -> Device]
      /\ \A h \in Gens : /\ dev'[h].running = dev[h].running /\ dev'[h].tun = dev[h].tun
                           /\ dev'[h].rules = dev[h].rules /\ dev'[h].engine = dev[h].engine
  <2>1. dev' = dev \/ dev' = [dev EXCEPT ![g].shared = FALSE] BY DEF WorkerEnds
  <2>2. CASE dev' = dev BY <2>2 DEF Objects
  <2>3. CASE dev' = [dev EXCEPT ![g].shared = FALSE] BY <2>3 DEF Objects, Device
  <2>4. QED BY <2>1, <2>2, <2>3
<1>3. /\ host' \in Host /\ host'.tuns = host.tuns /\ host'.rules = host.rules
      /\ host'.engines = host.engines
  BY DEF WorkerEnds, Objects, Host
<1>4. UNCHANGED <<proc, signal, gens, goal, tunnelMu, thr, raced, n>> BY DEF WorkerEnds
<1>5. Scalars' /\ Places' /\ Counters' /\ Objects'
  BY <1>1, <1>2, <1>3, <1>4 DEF Scalars, Places, Counters, Objects
<1>6. Roles' /\ Holder' /\ UpdaterRaces'
  BY <1>4 DEF Roles, Holder, UpdaterRaces
<1>7. MainRuns' BY <1>1, <1>4, PlaceFacts, ThreadFacts DEF MainRuns
<1>8. ApiUp' /\ CallsUp' BY <1>1, <1>4 DEF ApiUp, CallsUp, Attended, Calling
<1>9. Recorded' BY <1>2, <1>3 DEF Recorded
<1>10. Phases' BY <1>2, <1>3, <1>4, PlaceFacts DEF Phases, Quiet
<1>11. EnableRuns' /\ Down' BY <1>2, <1>4, PlaceFacts DEF EnableRuns, Down
<1>12. Shared'
  <2>1. CASE UNCHANGED <<host, dev>> BY <1>4, <2>1 DEF Shared, Sharer
  <2>2. CASE host' = [host EXCEPT !.sharing = FALSE]
    <3>1. ~host'.sharing BY <2>2 DEF Objects, Host
    <3>2. QED BY <3>1 DEF Shared
  <2>3. QED BY <2>1, <2>2 DEF WorkerEnds
<1> QED BY <1>5, <1>6, <1>7, <1>8, <1>9, <1>10, <1>11, <1>12

\* The process ends, or the signal arrives: the rest is as it was.
LEMMA OtherwiseKeeps ==
  ASSUME IInv, UNCHANGED <<gens, goal, agent, dev, host, tunnelMu, thr, raced, n>>,
         proc' \in {"up", "exited", "fatal"}, signal' \in BOOLEAN
  PROVE  IInv'
<1> USE DEF IInv
<1>1. Scalars' /\ Places' /\ Counters' /\ Objects'
  BY DEF Scalars, Places, Counters, Objects
<1>2. Roles' /\ Holder' /\ UpdaterRaces' /\ MainRuns' /\ ApiUp' /\ CallsUp'
  BY DEF Roles, Holder, UpdaterRaces, MainRuns, ApiUp, CallsUp, Attended, Calling
<1>3. Recorded' /\ EnableRuns' /\ Down' BY DEF Recorded, EnableRuns, Down
<1>4. Phases' BY DEF Phases, Quiet
<1>5. Shared' BY DEF Shared, Sharer
<1> QED BY <1>1, <1>2, <1>3, <1>4, <1>5
-----------------------------------------------------------------------------
LEMMA InitHolds == Init => IInv
<1> SUFFICES ASSUME Init PROVE IInv OBVIOUS
<1> USE LifecycleAssumption, ThreadFacts DEF Init
<1>0. 1 \in Gens BY DEF Gens
<1>1. /\ \A t \in Threads : thr[t].gen = 1 /\ thr[t].took = Nothing
      /\ thr[Main].at = "boot" /\ \A t \in Threads \ {Main} : thr[t].at = "idle"
      /\ Places
  BY <1>0 DEF New, Nothing, Places, Thread, Labels
<1>2. /\ \A g \in Gens : ~dev[g].running /\ ~dev[g].rules /\ ~dev[g].tun /\ ~dev[g].engine
      /\ \A g \in Gens : ~agent[g].api
      /\ host.tuns = {} /\ host.rules = {} /\ host.engines = {} /\ ~host.sharing
      /\ Objects
  BY DEF NewDevice, NewAgent, Objects, Device, Agent, Host
<1>3. Scalars
  <2>1. gens \in 0 .. MaxGens OBVIOUS
  <2>2. raced \subseteq Gens /\ tunnelMu = Nobody OBVIOUS
  <2>3. proc = "up" /\ signal = FALSE /\ goal = "run" OBVIOUS
  <2>4. QED BY <2>1, <2>2, <2>3 DEF Scalars
<1>4. Counters BY DEF Counters
<1>5. Roles BY <1>1 DEF Roles, Starting, Enabling, Stopping
<1>6. Holder /\ UpdaterRaces /\ MainRuns
  BY <1>1 DEF Holder, UpdaterRaces, MainRuns, Starting
<1>7. ApiUp /\ CallsUp BY <1>1, <1>2 DEF ApiUp, CallsUp, Calling
<1>8. Recorded
  <2>1. \A g \in Gens : dev[g].tun \in BOOLEAN /\ dev[g].engine \in BOOLEAN
    BY <1>2, ObjectFacts
  <2>2. \A g \in Gens : dev[g].tun = (g \in host.tuns) BY <1>2, <2>1
  <2>3. \A g \in Gens : dev[g].engine = (g \in host.engines) BY <1>2, <2>1
  <2>4. QED BY <2>2, <2>3 DEF Recorded
<1>9. Phases
  <2>1. \A g \in Gens : dev[g].rules \in BOOLEAN BY <1>2, ObjectFacts
  <2>2. \A g \in Gens : dev[g].rules = (g \in host.rules) BY <1>2, <2>1
  <2>3. \A t \in Threads : thr[t].at \in {"boot", "idle"} BY <1>1
  <2>4. QED BY <1>2, <2>2, <2>3 DEF Phases
<1>10. EnableRuns /\ Down /\ Shared BY <1>1, <1>2 DEF EnableRuns, Down, Shared
<1> QED BY <1>1, <1>2, <1>3, <1>4, <1>5, <1>6, <1>7, <1>8, <1>9, <1>10 DEF IInv

LEMMA DeviceStepKeeps ==
  ASSUME IInv, NEW t \in Threads, DeviceStep(t)
  PROVE  IInv'
BY StartBeginKeeps, StartTunKeeps, StartUpKeeps, StartRulesKeeps, EnableOSKeeps,
   EnableFlagKeeps, StopBeginKeeps, StopTakeKeeps, StopUndoKeeps DEF DeviceStep

LEMMA AgentStopKeeps ==
  ASSUME IInv, NEW t \in Threads, AgentStop(t)
  PROVE  IInv'
BY AgentStopBeginKeeps, AgentStopWaitKeeps, AgentStopAPIKeeps DEF AgentStop

LEMMA ExitKeeps ==
  ASSUME IInv, NEW how \in {"exited", "fatal"}, Exit(how)
  PROVE  IInv'
<1>1. signal \in BOOLEAN BY DEF IInv, Scalars
<1>2. QED BY <1>1, OtherwiseKeeps DEF Exit

LEMMA MainStepKeeps ==
  ASSUME IInv, MainStep
  PROVE  IInv'
<1>1. ASSUME GiveUp PROVE IInv' BY <1>1, ExitKeeps DEF GiveUp
<1>2. ASSUME StartFailed PROVE IInv'
  <2>1. CASE goal # "switch" BY <1>2, <2>1, ExitKeeps DEF StartFailed
  <2>2. CASE goal = "switch" BY <1>2, <2>2, GoBackKeeps DEF StartFailed, GoBack
  <2>3. QED BY <2>1, <2>2
<1>3. ASSUME Stopped PROVE IInv'
  <2>1. CASE goal = "exit" BY <1>3, <2>1, ExitKeeps DEF Stopped
  <2>2. CASE goal # "exit" BY <1>3, <2>2, GoOnKeeps DEF Stopped, GoOn
  <2>3. QED BY <2>1, <2>2
<1>4. ASSUME Shutdown PROVE IInv' BY <1>4, LeaveKeeps DEF Shutdown
<1>5. QED BY <1>1, <1>2, <1>3, <1>4, BootKeeps, StartLocalKeeps, StartUndoKeeps,
  StartGoKeeps, StartBusyKeeps, DeviceStepKeeps, AgentStopKeeps, ThreadFacts DEF MainStep

LEMMA UpdaterStepKeeps ==
  ASSUME IInv, UpdaterStep
  PROVE  IInv'
<1>1. ASSUME UpdateExit PROVE IInv' BY <1>1, ExitKeeps DEF UpdateExit
<1>2. QED BY <1>1, DeviceStepKeeps, AgentStopKeeps, ThreadFacts DEF UpdaterStep

LEMMA UserStepKeeps ==
  ASSUME IInv, NEW u \in Users, UserStep(u)
  PROVE  IInv'
BY ConnectKeeps, ConnectLocalKeeps, DisconnectKeeps, ReplyKeeps, DeviceStepKeeps,
   ThreadFacts
   DEF UserStep

LEMMA NextKeeps == IInv /\ [Next]_vars => IInv'
<1> SUFFICES ASSUME IInv, [Next]_vars PROVE IInv' OBVIOUS
<1>1. CASE MainStep BY <1>1, MainStepKeeps
<1>2. CASE UpdaterStep BY <1>2, UpdaterStepKeeps
<1>3. CASE WorkerStep BY <1>3, WorkerEndsKeeps DEF WorkerStep
<1>4. ASSUME NEW u \in Users, UserStep(u) \/ APICall(u) PROVE IInv'
  BY <1>4, UserStepKeeps, APICallKeeps
<1>5. CASE Signal
  <2>1. proc \in {"up", "exited", "fatal"} BY DEF IInv, Scalars
  <2>2. QED BY <1>5, <2>1, OtherwiseKeeps DEF Signal
<1>6. CASE Switch BY <1>6, LeaveKeeps DEF Switch
<1>7. CASE Update BY <1>7, UpdateKeeps
<1>8. CASE UNCHANGED vars
  <2>1. proc \in {"up", "exited", "fatal"} /\ signal \in BOOLEAN BY DEF IInv, Scalars
  <2>2. QED BY <1>8, <2>1, OtherwiseKeeps DEF vars
<1>9. QED BY <1>1, <1>2, <1>3, <1>4, <1>5, <1>6, <1>7, <1>8 DEF Next

\* Every conjunct of IInv holds in every state of main, the update worker and
\* the API's calls, whatever fails and in whatever order they run.
THEOREM Invariance == Spec => []IInv
BY InitHolds, NextKeeps, PTL DEF Spec

\* The process, the agents and the threads keep their types: startAgentWithRetry
\* makes no more attempts than it may, and tunnelMu has at most one holder, one
\* of the API's calls, however many calls, workers and agents there are.
THEOREM TypeCorrect == Spec => []TypeOK
<1>1. IInv => TypeOK BY DEF IInv, Scalars, Objects, Places, Counters, TypeOK
<1>2. QED BY <1>1, Invariance, PTL

\* Device.Start and Device.Stop, whoever calls them and wherever they fail: in
\* a generation whose Agent.Stop met no call of the API and no update, a device
\* nobody is inside says that it runs exactly when its interface, its routes and
\* firewall rules and its exit engine are on the host.
THEOREM DeviceSettled == Spec => []Settled
<1>1. IInv => Settled BY DEF IInv, Phases, Settled
<1>2. QED BY <1>1, Invariance, PTL

\* Agent.Stop that met no call and no update leaves nothing on the host, for
\* any history of connects, disconnects, failed starts and account switches.
THEOREM StopReleases == Spec => []Released
<1>1. ASSUME IInv, thr[Main].at = "p_done", raced = {}
      PROVE  host.rules = {} /\ host.engines = {} /\ ~host.sharing
  <2> USE ThreadFacts DEF IInv
  <2>1. \A g \in Gens : ~dev[g].running BY <1>1 DEF Down
  <2>2. \A g \in Gens : ~Attended(g) BY <1>1 DEF Attended
  <2>3. \A u \in Users : thr[u].at = "idle"
    BY <1>1, <2>2, PlaceFacts DEF CallsUp, Calling
  <2>4. thr[Updater].at \in {"idle", "p_begin"} BY <1>1 DEF UpdaterRaces
  <2>5. \A t \in Threads : thr[t].at \in {"p_done", "idle", "p_begin"}
    BY <1>1, <2>3, <2>4 DEF Threads
  <2>6. \A g \in Gens : Quiet(g) BY <2>5 DEF Quiet
  <2>7. \A g \in Gens : g \notin host.rules /\ g \notin host.engines
    BY <1>1, <2>1, <2>6 DEF Phases
  <2>8. host.rules \subseteq Gens /\ host.engines \subseteq Gens
    BY <1>1 DEF Objects, Host
  <2>9. \A g \in Gens : ~Sharer(g) BY <2>1, <2>5 DEF Sharer
  <2>10. QED BY <1>1, <2>7, <2>8, <2>9 DEF Shared
<1>2. IInv => Released BY <1>1 DEF Released
<1>3. QED BY <1>2, Invariance, PTL
=============================================================================

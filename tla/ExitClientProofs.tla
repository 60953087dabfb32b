-------------------------- MODULE ExitClientProofs --------------------------
(***************************************************************************)
(* The safety properties of ExitClient, for every set of callers, exits,   *)
(* addresses and gateways and any number of calls, faults, events and      *)
(* messages, with and without the server's 0.0.0.0/0.                      *)
(*                                                                         *)
(* HostRecorded is almost inductive: what it needs beyond the types is     *)
(* that the lock is held only while the engine is up.  The others are not. *)
(* A split default on the host is in the engine's record or was lost, and  *)
(* until a tick panics one in the record is on the host (SplitKnown); a    *)
(* deactivation forgets it first (SplitGone), and an activation that comes *)
(* to its end has it in the record (Adds).  The phase is "active" only for *)
(* a chosen exit and never during a back-off (PhaseKept, Gatewayed), and   *)
(* until a tick panics the engine either has nothing of an exit or         *)
(* remembers who had 0.0.0.0/0 (DefaultKept, NoDefault).  Holder and Loops *)
(* say who holds the lock and for what.                                    *)
(***************************************************************************)
EXTENDS ExitClient, TLAPS

\* Types: the engine and the lock, the calls, the host, the others.
EngineType == e \in Engine /\ lock \in Work \cup {Unlocked} /\ disk \in File
CallsType ==
  /\ up \in BOOLEAN /\ tick \in {"idle", "busy", "end", "panic"}
  /\ call \in [Callers -> Call]
HostType ==
  /\ bypass \in [Dests -> Gateways \cup {NoGateway}]
  /\ split \in BOOLEAN /\ reject \in BOOLEAN /\ masq \in BOOLEAN
  /\ uplink \in Gateways \cup {NoGateway}
PeersType ==
  /\ owner \in Keys \cup {Server, NoKey}
  /\ path \in [Keys -> {"none", "stale", "live"}]
  /\ listed \in [Addrs -> Keys \cup {NoKey}]
  /\ offers \in [Keys -> BOOLEAN]
  /\ net \subseteq Message
HistoryType ==
  /\ shaken \in BOOLEAN /\ lost \subseteq Route \cup {Masquerade} /\ n \in Counters

Types == EngineType /\ CallsType /\ HostType /\ PeersType /\ HistoryType

\* Who holds the lock, and for what.
Holder ==
  lock # Unlocked =>
    /\ up
    /\ lock.at = "add" => lock.by = Loop
    /\ lock.at # "add" =>
         \/ lock.by = Loop /\ lock.next = "unused" /\ e.use = NoAddr
         \/ lock.by = Loop /\ lock.next \in {"phase", "retry"}
         \/ lock.by = Tunnel /\ lock.next = "stop"
         \/ /\ lock.by \in Callers /\ lock.next = "switch"
            /\ call[lock.by].pc = "use" /\ e.use # call[lock.by].addr
         \/ lock.by \in Callers /\ lock.next = "clear"

\* The loop is busy while it holds the lock; nothing goes on without an engine.
Loops ==
  /\ tick = "busy" <=> lock # Unlocked /\ lock.by = Loop
  /\ ~up \/ (lock # Unlocked /\ lock.by = Tunnel) =>
       tick = "idle" /\ \A c \in Callers : call[c] = Idle

\* What the engine knows of the split default.
SplitKnown ==
  /\ split => up /\ (Split \in e.routes \/ Split \in lost)
  /\ Split \in e.routes => split \/ shaken

\* A deactivation begins with the split default, and forgets every route
\* before it comes to the masquerade.
SplitGone ==
  lock # Unlocked =>
    /\ lock.at \in {"owner", "rest"} => Split \notin e.routes
    /\ lock.at = "nat" => e.routes = {}

\* An activation under way: an exit is chosen, a gateway is known, and the
\* split default is there or still to be installed.
Adds ==
  lock # Unlocked /\ lock.at = "add" =>
    /\ e.use # NoAddr /\ e.gw # NoGateway /\ ~e.backoff
    /\ Split \in lock.todo \cup e.routes

\* Routes were installed through a gateway, and by an engine that is up.
Gatewayed == e.routes # {} => e.gw # NoGateway /\ up

\* "active" is the phase of a chosen exit, and of no attempt that has failed.
PhaseKept ==
  /\ e.use = NoAddr => e.phase # "active"
  /\ e.backoff => e.routes = {} /\ e.phase # "active"
  /\ lock # Unlocked /\ lock.at # "add" /\ lock.next = "phase" => lock.phase # "active"

\* Without the server's 0.0.0.0/0 in the configuration nobody gives it back.
NoDefault == ~ServerDefault => ~e.had /\ owner # Server

\* Until a tick panics: either nothing of an exit is left, or the engine has
\* taken 0.0.0.0/0 and remembers who had it.
Nothing == e.routes = {} /\ ~e.nat /\ ~e.allowed /\ owner = Base
Taken == e.allowed /\ (ServerDefault => e.had)

DefaultKept ==
  up /\ ~shaken =>
    /\ lock = Unlocked => Nothing \/ (Taken /\ Split \in e.routes)
    /\ lock # Unlocked /\ lock.at \in {"add", "split", "owner"} => Taken
    /\ lock # Unlocked /\ lock.at \in {"rest", "nat"} => ~e.allowed /\ owner = Base

IInv ==
  /\ Types /\ Holder /\ Loops /\ SplitKnown /\ SplitGone /\ Adds /\ Gatewayed
  /\ PhaseKept /\ NoDefault /\ DefaultKept
  /\ HostRecorded /\ FailOpen
-----------------------------------------------------------------------------
(* Lemmas about the operators of the model *)

LEMMA RouteFacts ==
  /\ Split \in Route /\ Reject \in Route /\ Split # Reject
  /\ Masquerade \notin Route
  /\ \A d \in Dests : Pin(d) \in Route
  /\ \A d : Pin(d) # Split /\ Pin(d) # Reject /\ Pin(d) # Masquerade
  /\ \A d, f : Pin(d) = Pin(f) => d = f
  /\ Split.kind = "tunnel" /\ Reject.kind = "reject" /\ Split # Masquerade
  /\ Reject # Masquerade
  /\ \A d : Pin(d).kind = "bypass" /\ Pin(d).dst = d
BY DEF Route, Pin, Split, Reject, Masquerade

LEMMA BypassFacts ==
  ASSUME NEW rs
  PROVE  /\ Bypasses(rs) \subseteq rs /\ Split \notin Bypasses(rs) /\ Reject \notin Bypasses(rs)
         /\ \A d : Pin(d) \in Bypasses(rs) <=> Pin(d) \in rs
BY RouteFacts DEF Bypasses

\* What s knows of the host, route by route.
Knows(s) ==
  /\ \A d \in Dests : bypass[d] # NoGateway =>
       (Pin(d) \in s.routes /\ bypass[d] = s.gw) \/ Pin(d) \in lost
  /\ split => Split \in s.routes \/ Split \in lost
  /\ reject => Reject \in s.routes \/ Reject \in lost
  /\ masq => s.nat \/ Masquerade \in lost

Known == IF up THEN Knows(e) ELSE Knows(disk)

LEMMA KnownIs == Types => (HostRecorded <=> Known)
<1> SUFFICES ASSUME Types PROVE HostRecorded <=> Known
  OBVIOUS
<1> DEFINE s == IF up THEN e ELSE disk
<1>1. \A d : Recorded(Pin(d), s) <=> Pin(d) \in s.routes /\ bypass[d] = s.gw
  BY RouteFacts DEF Recorded
<1>2. /\ Recorded(Split, s) <=> Split \in s.routes
      /\ Recorded(Reject, s) <=> Reject \in s.routes
      /\ Recorded(Masquerade, s) <=> s.nat
  <2>1. s.nat \in BOOLEAN BY DEF Types, EngineType, Engine, File
  <2> HIDE DEF s
  <2> QED BY <2>1, RouteFacts DEF Recorded
<1>3. Known <=> Knows(s)
  BY DEF Known, Types, CallsType
<1> HIDE DEF s
<1>4. HostRecorded <=> \A r \in OnHost : Recorded(r, s) \/ r \in lost
  BY DEF HostRecorded, s
<1>5. /\ \A d \in Dests : Pin(d) \in OnHost <=> bypass[d] # NoGateway
      /\ Split \in OnHost <=> split
      /\ Reject \in OnHost <=> reject
      /\ Masquerade \in OnHost <=> masq
  BY RouteFacts DEF OnHost, Types, HostType
<1>6. \A r \in OnHost : r \in {Split, Reject, Masquerade} \/ \E d \in Dests : r = Pin(d)
  BY DEF OnHost
<1> QED BY <1>1, <1>2, <1>3, <1>4, <1>5, <1>6 DEF Knows

LEMMA EngineFacts ==
  ASSUME NEW s \in Engine
  PROVE  /\ s.use \in Addrs \cup {NoAddr} /\ s.key \in Keys \cup {NoKey}
         /\ s.granted \in BOOLEAN /\ s.offered \in [Keys -> Answers] /\ s.phase \in Phases
         /\ s.allowed \in BOOLEAN /\ s.backoff \in BOOLEAN /\ s.panics \in 0 .. Giveup
         /\ s.disabled \in BOOLEAN /\ s.routes \subseteq Route
         /\ s.gw \in Gateways \cup {NoGateway} /\ s.nat \in BOOLEAN /\ s.had \in BOOLEAN
BY DEF Engine

LEMMA SavedFacts ==
  ASSUME NEW s \in Engine
  PROVE  Saved(s) \in File /\ Saved(s).routes = s.routes /\ Saved(s).nat = s.nat
         /\ Saved(s).gw = s.gw /\ Saved(s).use = s.use
BY DEF Saved, File, Engine

\* The parts of s that concern the host are those of t.
Keeps(s, t) ==
  /\ s.routes = t.routes /\ s.gw = t.gw /\ s.nat = t.nat
  /\ s.had = t.had /\ s.allowed = t.allowed

LEMMA FreshFacts ==
  ASSUME NEW f \in File
  PROVE  /\ Fresh(f) \in Engine /\ Fresh(f).routes = {} /\ Fresh(f).gw = f.gw
         /\ Fresh(f).nat = FALSE /\ Fresh(f).had = FALSE /\ Fresh(f).allowed = FALSE
         /\ Fresh(f).backoff = FALSE /\ Fresh(f).phase # "active" /\ Fresh(f).use = f.use
<1>1. Giveup \in Nat BY ClientAssumption
<1> QED BY <1>1 DEF Fresh, File, Engine, Answers, Phases

LEMMA ChosenFacts ==
  ASSUME NEW s \in Engine, NEW c \in Callers, call \in [Callers -> Call]
  PROVE  /\ Chosen(s, c) \in Engine /\ Keeps(Chosen(s, c), s)
         /\ Chosen(s, c).use = call[c].addr
         /\ s.use = call[c].addr => Chosen(s, c) = s
         /\ s.use # call[c].addr => Chosen(s, c).phase = "off" /\ ~Chosen(s, c).backoff
<1>1. call[c].addr \in Addrs \cup {NoAddr} /\ call[c].key \in Keys \cup {NoKey}
  BY DEF Call
<1>2. CASE s.use = call[c].addr
  BY <1>2 DEF Chosen, Keeps
<1>3. CASE s.use # call[c].addr
  <2>1. [s.offered EXCEPT ![call[c].key] = "unknown"] \in [Keys -> Answers]
    BY DEF Engine, Answers
  <2>2. 0 \in 0 .. Giveup BY ClientAssumption
  <2> QED BY <1>1, <1>3, <2>1, <2>2 DEF Chosen, Keeps, Engine, Phases
<1> QED BY <1>2, <1>3

LEMMA ClearedFacts ==
  ASSUME NEW s \in Engine
  PROVE  /\ Cleared(s) \in Engine /\ Keeps(Cleared(s), s) /\ Cleared(s).phase = "off"
         /\ Cleared(s).backoff = s.backoff /\ Cleared(s).use = NoAddr
<1>1. 0 \in 0 .. Giveup BY ClientAssumption
<1> QED BY <1>1 DEF Cleared, Keeps, Engine, Phases

LEMMA SeenFacts ==
  ASSUME EngineType, PeersType, NEW a \in Addrs, e.use = a
  PROVE  /\ Seen(e) \in Engine /\ Keeps(Seen(e), e) /\ Seen(e).use = e.use
         /\ Seen(e).phase = e.phase /\ Seen(e).backoff = e.backoff
         /\ Exit \in Keys \cup {NoKey}
         /\ Exit # NoKey => Seen(e).key = Exit
         /\ NextPhase(Seen(e)) \in Phases
         /\ NextPhase(Seen(e)) = "active" => Exit \in Keys
<1>1. Exit \in Keys \cup {NoKey} BY DEF Exit, PeersType
<1>2. Seen(e) \in Engine /\ Keeps(Seen(e), e) /\ Seen(e).use = e.use
      /\ Seen(e).phase = e.phase /\ Seen(e).backoff = e.backoff
      /\ (Exit # NoKey => Seen(e).key = Exit)
  <2>1. CASE Exit = NoKey BY <2>1 DEF Seen, Keeps, EngineType
  <2>2. CASE Exit # NoKey
    <3> DEFINE g == e.granted /\ e.key = Exit /\ path[Exit] # "none"
    <3>1. Seen(e) = [e EXCEPT !.key = Exit, !.granted = g]
      BY <2>2 DEF Seen
    <3>2. g \in BOOLEAN BY DEF EngineType, Engine
    <3> HIDE DEF g
    <3> QED BY <1>1, <2>2, <3>1, <3>2 DEF EngineType, Engine, Keeps
  <2> QED BY <2>1, <2>2
<1>3. NextPhase(Seen(e)) \in {"standby", "pending", "active"}
      /\ (NextPhase(Seen(e)) = "active" => Exit # NoKey)
  BY DEF NextPhase
<1> QED BY <1>1, <1>2, <1>3 DEF Phases

\* The rest of the function that called deactivateLocked.
LEMMA AfterFacts ==
  ASSUME NEW s \in Engine, NEW w \in Work, w.at # "add", call \in [Callers -> Call],
         w.next = "switch" => w.by \in Callers
  PROVE  /\ After(s, w) \in Engine /\ Keeps(After(s, w), s)
         /\ w.next \in {"unused", "stop"} => After(s, w) = s
         /\ w.next = "phase" => /\ After(s, w).phase = w.phase /\ After(s, w).use = s.use
                                /\ After(s, w).backoff = s.backoff
         /\ w.next = "retry" => After(s, w).phase = "standby" /\ After(s, w).use = s.use
         /\ w.next = "switch" => After(s, w) = Chosen(s, w.by)
         /\ w.next = "clear" => After(s, w) = Cleared(s)
<1>1. w.next \in Rest /\ w.phase \in Phases BY DEF Work
<1>2. CASE w.next \in {"unused", "stop"}
  <2>1. After(s, w) = s BY <1>2 DEF After
  <2> QED BY <1>2, <2>1 DEF Keeps
<1>3. CASE w.next = "phase"
  <2>1. After(s, w) = [s EXCEPT !.phase = w.phase] BY <1>3 DEF After
  <2> QED BY <1>1, <1>3, <2>1 DEF Keeps, Engine
<1>4. CASE w.next = "retry"
  <2>1. After(s, w) = [s EXCEPT !.backoff = TRUE, !.phase = "standby"] BY <1>4 DEF After
  <2> QED BY <1>4, <2>1 DEF Keeps, Engine, Phases
<1>5. CASE w.next = "switch"
  <2>1. After(s, w) = Chosen(s, w.by) BY <1>5 DEF After
  <2> QED BY <1>5, <2>1, ChosenFacts
<1>6. CASE w.next = "clear"
  <2>1. After(s, w) = Cleared(s) BY <1>6 DEF After
  <2> QED BY <1>6, <2>1, ClearedFacts
<1> QED BY <1>1, <1>2, <1>3, <1>4, <1>5, <1>6 DEF Rest

\* SendTUNControl sends messages.
LEMMA SendType == ASSUME net \subseteq Message, NEW ms, ms \subseteq Message, Send(ms)
                  PROVE  net' \subseteq Message
BY DEF Send

LEMMA ReleaseType ==
  ASSUME net \subseteq Message, Release
  PROVE  net' \subseteq Message
<1>1. CASE ~HasPeer(e.key) BY <1>1 DEF Release
<1>2. CASE HasPeer(e.key)
  <2>1. e.key \in Keys BY <1>2 DEF HasPeer
  <2>2. {[key |-> e.key, op |-> "release"]} \subseteq Message BY <2>1 DEF Message
  <2>3. Send({[key |-> e.key, op |-> "release"]}) BY <1>2 DEF Release
  <2> QED BY <2>2, <2>3, SendType
<1> QED BY <1>1, <1>2
-----------------------------------------------------------------------------
(* Steps in general *)

\* The host as far as the routes and rules of an exit are concerned.
Untouched == UNCHANGED <<bypass, split, reject, masq, lost>>

LEMMA RecordedKept ==
  ASSUME Types, Types', HostRecorded, Untouched, up' = up,
         up => Keeps(e', e), ~up => disk' = disk
  PROVE  HostRecorded'
<1>1. Known BY KnownIs
<1>2. up => Knows(e)' BY <1>1 DEF Known, Knows, Untouched, Keeps
<1>3. ~up => Knows(disk)' BY <1>1 DEF Known, Knows, Untouched
<1>4. Known' BY <1>2, <1>3 DEF Known
<1> QED BY <1>4, KnownIs, PTL

\* What an action that has the lock to itself for one section, and one that
\* begins a deactivation, leaves to its own proof.
LEMMA Unheld ==
  ASSUME IInv, Types', lock = Unlocked, lock' = Unlocked, up' = up, Keeps(e', e),
         Untouched, owner' = owner, shaken' = shaken, ~up => disk' = disk
  PROVE  /\ HostRecorded' /\ SplitKnown' /\ SplitGone' /\ Adds' /\ Gatewayed'
         /\ NoDefault' /\ DefaultKept' /\ Holder'
<1>1. HostRecorded' BY RecordedKept DEF IInv
<1>2. SplitKnown' BY DEF IInv, SplitKnown, Keeps, Untouched
<1>3. SplitGone' /\ Adds' /\ Holder' BY DEF SplitGone, Adds, Holder
<1>4. Gatewayed' BY DEF IInv, Gatewayed, Keeps
<1>5. NoDefault' BY DEF IInv, NoDefault, Keeps
<1>6. DefaultKept' BY DEF IInv, DefaultKept, Nothing, Taken, Keeps
<1> QED BY <1>1, <1>2, <1>3, <1>4, <1>5, <1>6

LEMMA Begins ==
  ASSUME IInv, Types', NEW t \in Threads, NEW next \in Rest, NEW phase \in Phases,
         Deactivate(t, next, phase),
         up, up' = up, Keeps(e', e), Untouched, owner' = owner, shaken' = shaken,
         \/ lock = Unlocked /\ (e.routes # {} \/ e.nat \/ e.allowed)
         \/ lock # Unlocked /\ lock.at = "add"
  PROVE  /\ HostRecorded' /\ SplitKnown' /\ SplitGone' /\ Adds' /\ Gatewayed'
         /\ NoDefault' /\ DefaultKept' /\ FailOpen'
         /\ lock' # Unlocked /\ lock'.at = "split" /\ lock'.by = t
         /\ lock'.next = next /\ lock'.phase = phase
<1>0. /\ lock' # Unlocked /\ lock'.at = "split" /\ lock'.by = t
      /\ lock'.next = next /\ lock'.phase = phase
  <2>1. lock' = [by |-> t, at |-> "split", next |-> next, phase |-> phase]
    BY DEF Deactivate
  <2>2. lock' \in Work BY <2>1 DEF Work
  <2> QED BY <2>1, <2>2, UnlockedAssumption
<1>1. HostRecorded' BY RecordedKept DEF IInv
<1>2. SplitKnown' BY DEF IInv, SplitKnown, Keeps, Untouched
<1>3. SplitGone' /\ Adds' /\ FailOpen' BY <1>0 DEF SplitGone, Adds, FailOpen
<1>4. Gatewayed' BY DEF IInv, Gatewayed, Keeps
<1>5. NoDefault' BY DEF IInv, NoDefault, Keeps
<1>6. DefaultKept' BY <1>0 DEF IInv, DefaultKept, Nothing, Taken, Keeps
<1> QED BY <1>0, <1>1, <1>2, <1>3, <1>4, <1>5, <1>6

\* Steps outside the engine.
LEMMA Outside ==
  ASSUME IInv, Types', UNCHANGED <<up, e, lock, disk, split, reject, masq, lost, shaken>>,
         tick' \in {tick, "idle"}, owner' = owner \/ (owner \in Keys /\ owner' = NoKey),
         \A d \in Dests : bypass'[d] \in {bypass[d], NoGateway}
  PROVE  /\ HostRecorded' /\ SplitKnown' /\ SplitGone' /\ Adds' /\ Gatewayed'
         /\ NoDefault' /\ DefaultKept' /\ PhaseKept' /\ FailOpen'
<1>1. HostRecorded'
  <2>1. Known BY KnownIs DEF IInv
  <2>2. up => Knows(e)' BY <2>1 DEF Known, Knows
  <2>3. ~up => Knows(disk)' BY <2>1 DEF Known, Knows
  <2>4. Known' BY <2>2, <2>3 DEF Known
  <2> QED BY <2>4, KnownIs, PTL
<1>2. SplitKnown' BY DEF IInv, SplitKnown
<1>3. SplitGone' /\ Adds' /\ PhaseKept' BY DEF IInv, SplitGone, Adds, PhaseKept
<1>4. FailOpen' BY DEF IInv, FailOpen
<1>5. Gatewayed' BY DEF IInv, Gatewayed
<1>6. NoDefault' BY ClientAssumption DEF IInv, NoDefault
<1>7. DefaultKept'
  <2>1. Base \notin Keys BY ClientAssumption DEF Base
  <2> QED BY <2>1 DEF IInv, DefaultKept, Nothing, Taken
<1> QED BY <1>1, <1>2, <1>3, <1>4, <1>5, <1>6, <1>7
-----------------------------------------------------------------------------
(* The network, the peers and the other exits *)

LEMMA NetworkInv ==
  ASSUME IInv, Types', UNCHANGED <<up, e, lock, tick, call, disk, host, owner, lost, shaken>>
  PROVE  IInv'
<1>1. /\ HostRecorded' /\ SplitKnown' /\ SplitGone' /\ Adds' /\ Gatewayed'
      /\ NoDefault' /\ DefaultKept' /\ PhaseKept' /\ FailOpen'
  BY Outside DEF host
<1>2. Holder' BY DEF IInv, Holder
<1>3. Loops' BY DEF IInv, Loops
<1> QED BY <1>1, <1>2, <1>3 DEF IInv

LEMMA MessageFacts ==
  ASSUME NEW m \in Message
  PROVE  /\ m.key \in Keys
         /\ "offered" \in DOMAIN m => m.offered \in BOOLEAN /\ m.granted \in BOOLEAN
BY DEF Message

LEMMA HandleRequestInv == ASSUME IInv, NEW m \in net, HandleRequest(m) PROVE IInv'
<1>1. Types'
  <2>1. /\ EngineType' /\ CallsType' /\ HostType' /\ HistoryType'
    BY DEF HandleRequest, host, peers, IInv, Types, EngineType, CallsType, HostType, HistoryType
  <2>2. PeersType'
    <3> DEFINE g == m.op = "use" /\ offers[m.key]
               a == [key |-> m.key, offered |-> offers[m.key], granted |-> g]
    <3>1. m.key \in Keys BY MessageFacts DEF IInv, Types, PeersType
    <3>2. g \in BOOLEAN /\ offers[m.key] \in BOOLEAN
      BY <3>1 DEF IInv, Types, PeersType
    <3> HIDE DEF g
    <3>3. a \in Message BY <3>1, <3>2 DEF Message
    <3>4. net' = (net \ {m}) \cup {a} BY DEF HandleRequest, g
    <3> HIDE DEF a
    <3> QED BY <3>3, <3>4 DEF HandleRequest, peers, IInv, Types, PeersType
  <2> QED BY <2>1, <2>2 DEF Types
<1> QED BY <1>1, NetworkInv DEF HandleRequest, peers

LEMMA LoseInv == ASSUME IInv, NEW m \in net, Lose(m) PROVE IInv'
<1>1. Types'
  BY DEF Lose, host, peers, IInv, Types, EngineType, CallsType, HostType, PeersType, HistoryType
<1> QED BY <1>1, NetworkInv DEF Lose, peers

LEMMA CountType ==
  ASSUME HistoryType, NEW c \in {"calls", "faults", "events"}, Count(c),
         c = "calls" => n.calls < MaxCalls, c = "faults" => n.faults < MaxFaults,
         c = "events" => n.events < MaxEvents
  PROVE  n' \in Counters
<1>1. MaxCalls \in Nat /\ MaxFaults \in Nat /\ MaxEvents \in Nat BY ClientAssumption
<1> QED BY <1>1 DEF HistoryType, Count, Counters

LEMMA AnnounceOfferInv == ASSUME IInv, NEW k \in Keys, AnnounceOffer(k) PROVE IInv'
<1>1. Types'
  <2>1. /\ EngineType' /\ CallsType' /\ HostType'
    BY DEF AnnounceOffer, host, IInv, Types, EngineType, CallsType, HostType
  <2>2. HistoryType'
    BY CountType DEF AnnounceOffer, IInv, Types, HistoryType
  <2>3. offers' \in [Keys -> BOOLEAN]
    BY DEF AnnounceOffer, IInv, Types, PeersType
  <2>4. net' \subseteq Message
    <3> DEFINE a == [key |-> k, offered |-> offers'[k], granted |-> FALSE]
    <3>1. offers'[k] \in BOOLEAN BY <2>3
    <3>2. {a} \subseteq Message BY <3>1 DEF Message
    <3>3. Send({a}) \/ net' = net BY DEF AnnounceOffer
    <3> HIDE DEF a
    <3> QED BY <3>2, <3>3, SendType DEF IInv, Types, PeersType
  <2> QED BY <2>1, <2>2, <2>3, <2>4 DEF AnnounceOffer, IInv, Types, PeersType
<1> QED BY <1>1, NetworkInv DEF AnnounceOffer

LEMMA ConnectsInv == ASSUME IInv, NEW k \in Keys, Connects(k) PROVE IInv'
<1>1. Types'
  BY DEF Connects, host, IInv, Types, EngineType, CallsType, HostType, PeersType, HistoryType
<1> QED BY <1>1, NetworkInv DEF Connects

LEMMA ListChangesInv ==
  ASSUME IInv, NEW a \in Addrs, NEW k \in Keys \cup {NoKey}, ListChanges(a, k) PROVE IInv'
<1>1. Types'
  <2>1. /\ EngineType' /\ CallsType' /\ HostType'
    BY DEF ListChanges, host, IInv, Types, EngineType, CallsType, HostType
  <2>2. HistoryType'
    BY CountType DEF ListChanges, IInv, Types, HistoryType
  <2>3. PeersType'
    BY DEF ListChanges, IInv, Types, PeersType
  <2> QED BY <2>1, <2>2, <2>3 DEF Types
<1> QED BY <1>1, NetworkInv DEF ListChanges

\* The two that touch what the engine relies on: the owner of 0.0.0.0/0 and
\* the pinned routes.
LEMMA PathChangesInv ==
  ASSUME IInv, NEW k \in Keys, NEW p \in {"none", "stale", "live"}, PathChanges(k, p)
  PROVE  IInv'
<1>1. Types'
  <2>1. /\ EngineType' /\ CallsType' /\ HostType'
    BY DEF PathChanges, host, IInv, Types, EngineType, CallsType, HostType
  <2>2. HistoryType'
    BY CountType DEF PathChanges, IInv, Types, HistoryType
  <2>3. PeersType'
    BY DEF PathChanges, IInv, Types, PeersType
  <2> QED BY <2>1, <2>2, <2>3 DEF Types
<1>2. /\ HostRecorded' /\ SplitKnown' /\ SplitGone' /\ Adds' /\ Gatewayed'
      /\ NoDefault' /\ DefaultKept' /\ PhaseKept' /\ FailOpen'
  BY <1>1, Outside DEF PathChanges, host
<1>3. Holder' BY DEF PathChanges, IInv, Holder
<1>4. Loops' BY DEF PathChanges, IInv, Loops
<1> QED BY <1>1, <1>2, <1>3, <1>4 DEF IInv

LEMMA UplinkChangesInv ==
  ASSUME IInv, NEW g \in Gateways \cup {NoGateway}, UplinkChanges(g) PROVE IInv'
<1>0. /\ bypass' \in [Dests -> Gateways \cup {NoGateway}]
      /\ \A d \in Dests : bypass'[d] \in {bypass[d], NoGateway}
  BY DEF UplinkChanges, IInv, Types, HostType
<1>1. Types'
  <2>1. /\ EngineType' /\ CallsType' /\ PeersType'
    BY DEF UplinkChanges, peers, IInv, Types, EngineType, CallsType, PeersType
  <2>2. HistoryType'
    BY CountType DEF UplinkChanges, IInv, Types, HistoryType
  <2>3. HostType'
    BY <1>0 DEF UplinkChanges, IInv, Types, HostType
  <2> QED BY <2>1, <2>2, <2>3 DEF Types
<1>2. /\ HostRecorded' /\ SplitKnown' /\ SplitGone' /\ Adds' /\ Gatewayed'
      /\ NoDefault' /\ DefaultKept' /\ PhaseKept' /\ FailOpen'
  BY <1>0, <1>1, Outside DEF UplinkChanges, peers
<1>3. Holder' BY DEF UplinkChanges, IInv, Holder
<1>4. Loops' BY DEF UplinkChanges, IInv, Loops
<1> QED BY <1>1, <1>2, <1>3, <1>4 DEF IInv

LEMMA HandleStatusInv == ASSUME IInv, NEW m \in net, HandleStatus(m) PROVE IInv'
<1>0. /\ e' \in Engine /\ Keeps(e', e) /\ e'.phase = e.phase /\ e'.use = e.use
      /\ e'.backoff = e.backoff
  <2> DEFINE o == [e.offered EXCEPT ![m.key] = IF m.offered THEN "yes" ELSE "no"]
             g == IF m.key = e.key /\ e.use # NoAddr
                  THEN m.granted \/ (m.offered /\ e.granted) ELSE e.granted
  <2>1. e \in Engine BY DEF IInv, Types, EngineType
  <2>2. e' = [e EXCEPT !.offered = o, !.granted = g]
    BY DEF HandleStatus, Answer
  <2>3. o \in [Keys -> Answers] BY <2>1, EngineFacts DEF Answers
  <2>4. g \in BOOLEAN
    <3>1. m.granted \in BOOLEAN /\ m.offered \in BOOLEAN /\ e.granted \in BOOLEAN
      BY <2>1, EngineFacts, MessageFacts DEF HandleStatus, IInv, Types, PeersType
    <3> QED BY <3>1
  <2> HIDE DEF o, g
  <2> QED BY <2>1, <2>2, <2>3, <2>4 DEF Engine, Keeps
<1>1. Types'
  BY <1>0 DEF HandleStatus, host, peers, IInv, Types, EngineType, CallsType, HostType,
              PeersType, HistoryType
<1>2. /\ HostRecorded' /\ SplitKnown' /\ SplitGone' /\ Adds' /\ Gatewayed'
      /\ NoDefault' /\ DefaultKept' /\ Holder'
  BY <1>0, <1>1, Unheld DEF HandleStatus, host, peers, Untouched
<1>3. Loops' BY DEF HandleStatus, IInv, Loops
<1>4. PhaseKept' /\ FailOpen'
  BY <1>0 DEF HandleStatus, host, IInv, PhaseKept, FailOpen, Keeps
<1> QED BY <1>1, <1>2, <1>3, <1>4 DEF IInv
-----------------------------------------------------------------------------
(* Calls and ticks that leave the host alone *)

LEMMA UseExitNodeInv ==
  ASSUME IInv, NEW c \in Callers, NEW a \in Addrs, UseExitNode(c, a) PROVE IInv'
<1>0. /\ call' \in [Callers -> Call]
      /\ \A x \in Callers \ {c} : call'[x] = call[x]
      /\ call[c] = Idle /\ Serving
  <2>1. [pc |-> "use", addr |-> a, key |-> listed[a]] \in Call
    BY DEF IInv, Types, PeersType, Call
  <2> QED BY <2>1 DEF UseExitNode, IInv, Types, CallsType
<1>1. Types'
  <2>1. /\ EngineType' /\ PeersType' /\ HostType'
    BY DEF UseExitNode, host, peers, IInv, Types, EngineType, PeersType, HostType
  <2>2. HistoryType'
    BY CountType DEF UseExitNode, IInv, Types, HistoryType
  <2>3. CallsType'
    BY <1>0 DEF UseExitNode, IInv, Types, CallsType
  <2> QED BY <2>1, <2>2, <2>3 DEF Types
<1>2. /\ HostRecorded' /\ SplitKnown' /\ SplitGone' /\ Adds' /\ Gatewayed'
      /\ NoDefault' /\ DefaultKept' /\ PhaseKept' /\ FailOpen'
  BY <1>1, Outside DEF UseExitNode, host, peers
<1>3. Holder' BY <1>0 DEF UseExitNode, IInv, Holder, Idle, At
<1>4. Loops' BY <1>0 DEF UseExitNode, IInv, Loops, Serving
<1> QED BY <1>1, <1>2, <1>3, <1>4 DEF IInv

\* Calls exist while the engine is up.
LEMMA CallsUp ==
  ASSUME IInv, NEW c \in Callers, call[c] # Idle
  PROVE  up /\ (lock # Unlocked => lock.by # Tunnel)
BY DEF IInv, Loops

LEMMA PlaceFacts ==
  \A pc \in {"idle", "use", "wait", "refused", "clear"} :
    At(pc) \in Call /\ At(pc).pc = pc
BY DEF At, Call

LEMMA IdleFacts == Idle \in Call /\ Idle.pc = "idle"
BY PlaceFacts DEF Idle

LEMMA WaitInv == ASSUME IInv, NEW c \in Callers, Wait(c) PROVE IInv'
<1>0. /\ call' \in [Callers -> Call] /\ lock = Unlocked /\ up
      /\ \A x \in Callers \ {c} : call'[x] = call[x]
  BY CallsUp, PlaceFacts, IdleFacts DEF Wait, IInv, Types, CallsType
<1>1. Types'
  BY <1>0 DEF Wait, host, peers, IInv, Types, EngineType, CallsType, HostType, PeersType,
              HistoryType
<1>2. /\ HostRecorded' /\ SplitKnown' /\ SplitGone' /\ Adds' /\ Gatewayed'
      /\ NoDefault' /\ DefaultKept' /\ PhaseKept' /\ FailOpen'
  BY <1>1, Outside DEF Wait, host, peers
<1>3. Holder' BY <1>0 DEF Wait, IInv, Holder
<1>4. Loops' BY <1>0 DEF Wait, IInv, Loops
<1> QED BY <1>1, <1>2, <1>3, <1>4 DEF IInv

LEMMA BackoffEndsInv == ASSUME IInv, BackoffEnds PROVE IInv'
<1>0. /\ e' \in Engine /\ Keeps(e', e) /\ e'.phase = e.phase /\ e'.use = e.use
      /\ ~e'.backoff
  BY DEF BackoffEnds, IInv, Types, EngineType, Engine, Keeps
<1>1. Types'
  BY <1>0 DEF BackoffEnds, host, peers, IInv, Types, EngineType, CallsType, HostType,
              PeersType, HistoryType
<1>2. /\ HostRecorded' /\ SplitKnown' /\ SplitGone' /\ Adds' /\ Gatewayed'
      /\ NoDefault' /\ DefaultKept' /\ Holder'
  BY <1>0, <1>1, Unheld DEF BackoffEnds, host, peers, Untouched
<1>3. Loops' BY DEF BackoffEnds, IInv, Loops
<1>4. PhaseKept' /\ FailOpen'
  BY <1>0 DEF BackoffEnds, host, IInv, PhaseKept, FailOpen, Keeps
<1> QED BY <1>1, <1>2, <1>3, <1>4 DEF IInv

\* resetTickPanics ends a tick, with or without a query.
LEMMA TickEndsInv ==
  ASSUME IInv, tick = "end", lock = Unlocked, e' = [e EXCEPT !.panics = 0], tick' = "idle",
         net' \subseteq Message,
         UNCHANGED <<up, lock, call, disk, host, peers, lost, shaken, n>>
  PROVE  IInv'
<1>0. /\ e' \in Engine /\ Keeps(e', e) /\ e'.phase = e.phase /\ e'.use = e.use
      /\ e'.backoff = e.backoff
  <2>1. 0 \in 0 .. Giveup BY ClientAssumption
  <2> QED BY <2>1 DEF IInv, Types, EngineType, Engine, Keeps
<1>1. Types'
  BY <1>0 DEF host, peers, IInv, Types, EngineType, CallsType, HostType, PeersType, HistoryType
<1>2. /\ HostRecorded' /\ SplitKnown' /\ SplitGone' /\ Adds' /\ Gatewayed'
      /\ NoDefault' /\ DefaultKept' /\ Holder'
  BY <1>0, <1>1, Unheld DEF host, peers, Untouched
<1>3. Loops' BY DEF IInv, Loops
<1>4. PhaseKept' /\ FailOpen'
  BY <1>0 DEF host, IInv, PhaseKept, FailOpen, Keeps
<1> QED BY <1>1, <1>2, <1>3, <1>4 DEF IInv

LEMMA QueryInv == ASSUME IInv, QueryDirectPeers PROVE IInv'
<1>1. net' \subseteq Message
  <2> DEFINE ms == {[key |-> k, op |-> "query"] : k \in {k \in Keys : HasPeer(k)}}
  <2>1. ms \subseteq Message BY DEF Message
  <2>2. Send(ms) BY DEF QueryDirectPeers
  <2> HIDE DEF ms
  <2> QED BY <2>1, <2>2, SendType DEF IInv, Types, PeersType
<1> QED BY <1>1, TickEndsInv DEF QueryDirectPeers

LEMMA RecordTickPanicInv == ASSUME IInv, RecordTickPanic PROVE IInv'
<1> DEFINE m == e.panics + 1
<1>a. e \in Engine BY DEF IInv, Types, EngineType
<1>b. e.panics \in 0 .. Giveup /\ Giveup \in Nat \ {0}
  BY <1>a, ClientAssumption DEF Engine
<1>0. /\ e' \in Engine /\ Keeps(e', e) /\ e'.backoff = e.backoff /\ disk' \in File
      /\ e'.phase \in {e.phase, "off"} /\ e'.use \in {e.use, NoAddr}
      /\ e'.use # e.use => e'.phase = "off"
      /\ up
  <2>0. up BY DEF RecordTickPanic, IInv, Loops
  <2>1. CASE m >= Giveup /\ e.use # NoAddr
    <3>1. e' = [e EXCEPT !.use = NoAddr, !.key = NoKey, !.granted = FALSE,
                         !.disabled = TRUE, !.phase = "off", !.panics = 0]
          /\ disk' = Saved(e')
      BY <2>1 DEF RecordTickPanic
    <3>2. e' \in Engine
      <4>1. 0 \in 0 .. Giveup BY <1>b
      <4> HIDE DEF m
      <4> QED BY <1>a, <3>1, <4>1 DEF Engine, Phases
    <3>3. disk' \in File BY <3>1, <3>2, SavedFacts
    <3> QED BY <1>a, <2>0, <3>1, <3>2, <3>3 DEF Engine, Keeps
  <2>2. CASE ~(m >= Giveup /\ e.use # NoAddr)
    <3> DEFINE p == IF m > Giveup THEN Giveup ELSE m
    <3>1. e' = [e EXCEPT !.panics = p] /\ disk' = disk
      BY <2>2 DEF RecordTickPanic
    <3>2. p \in 0 .. Giveup BY <1>b
    <3> HIDE DEF p
    <3> QED BY <1>a, <2>0, <3>1, <3>2 DEF Engine, Keeps, IInv, Types, EngineType
  <2> QED BY <2>1, <2>2
<1>1. Types'
  BY <1>0 DEF RecordTickPanic, host, peers, IInv, Types, EngineType, CallsType, HostType,
              PeersType, HistoryType
<1>2. /\ HostRecorded' /\ SplitKnown' /\ SplitGone' /\ Adds' /\ Gatewayed'
      /\ NoDefault' /\ DefaultKept' /\ Holder'
  BY <1>0, <1>1, Unheld DEF RecordTickPanic, host, peers, Untouched
<1>3. Loops' BY <1>0 DEF RecordTickPanic, IInv, Loops
<1>4. PhaseKept' /\ FailOpen'
  BY <1>0 DEF RecordTickPanic, host, IInv, PhaseKept, FailOpen, Keeps
<1> QED BY <1>1, <1>2, <1>3, <1>4 DEF IInv
-----------------------------------------------------------------------------
(* Sections that end or begin a deactivation *)

LEMMA ThreadFacts ==
  /\ Loop \in Threads /\ Tunnel \in Threads /\ Loop # Tunnel
  /\ \A c \in Callers : c \in Threads /\ c # Loop /\ c # Tunnel
BY ClientAssumption DEF Threads

LEMMA WorkType ==
  ASSUME NEW t \in Threads, NEW next \in Rest, NEW phase \in Phases, Deactivate(t, next, phase)
  PROVE  lock' \in Work
BY DEF Deactivate, Work

LEMMA ReconcileUnusedInv == ASSUME IInv, ReconcileUnused PROVE IInv'
<1>1. CASE Leftover
  <2>1. Deactivate(Loop, "unused", "off") /\ tick' = "busy" /\ up /\ lock = Unlocked
    BY <1>1 DEF ReconcileUnused, CanTick
  <2>2. Types'
    <3>1. lock' \in Work BY <2>1, ThreadFacts, WorkType DEF Rest, Phases
    <3> QED BY <2>1, <3>1 DEF ReconcileUnused, host, peers, IInv, Types, EngineType, CallsType,
                              HostType, PeersType, HistoryType
  <2>3. /\ HostRecorded' /\ SplitKnown' /\ SplitGone' /\ Adds' /\ Gatewayed'
        /\ NoDefault' /\ DefaultKept' /\ FailOpen'
        /\ lock' # Unlocked /\ lock'.at = "split" /\ lock'.by = Loop
        /\ lock'.next = "unused" /\ lock'.phase = "off"
    <3>1. "unused" \in Rest /\ "off" \in Phases BY DEF Rest, Phases
    <3>2. Keeps(e', e) BY DEF ReconcileUnused, Keeps
    <3>3. e.routes # {} BY <1>1 DEF Leftover
    <3> QED BY <2>1, <2>2, <3>1, <3>2, <3>3, Begins, ThreadFacts
            DEF ReconcileUnused, host, peers, Untouched
  <2>4. Holder' BY <2>1, <2>3 DEF ReconcileUnused, Holder
  <2>5. Loops' BY <2>1, <2>3, ThreadFacts DEF ReconcileUnused, IInv, Loops
  <2>6. PhaseKept' BY <2>3 DEF ReconcileUnused, IInv, PhaseKept
  <2> QED BY <2>2, <2>3, <2>4, <2>5, <2>6 DEF IInv
<1>2. CASE ~Leftover
  <2>1. tick' = "end" /\ lock' = lock /\ e' = e /\ lock = Unlocked /\ up
    BY <1>2 DEF ReconcileUnused, CanTick
  <2>2. Types'
    BY <2>1 DEF ReconcileUnused, host, peers, IInv, Types, EngineType, CallsType,
                HostType, PeersType, HistoryType
  <2>3. /\ HostRecorded' /\ SplitKnown' /\ SplitGone' /\ Adds' /\ Gatewayed'
        /\ NoDefault' /\ DefaultKept' /\ Holder'
    <3>1. Keeps(e', e) BY <2>1 DEF Keeps
    <3> QED BY <2>1, <2>2, <3>1, Unheld DEF ReconcileUnused, host, peers, Untouched
  <2>4. Loops' BY <2>1 DEF ReconcileUnused, IInv, Loops
  <2>5. PhaseKept' BY <2>1 DEF IInv, PhaseKept
  <2>6. FailOpen'
    BY <1>2, <2>1 DEF ReconcileUnused, host, IInv, SplitKnown, PhaseKept, FailOpen, Leftover
  <2> QED BY <2>2, <2>3, <2>4, <2>5, <2>6 DEF IInv
<1> QED BY <1>1, <1>2

\* What a pass over a chosen exit finds.
LEMMA PassFacts ==
  ASSUME IInv, CanTick, e.use # NoAddr
  PROVE  /\ up /\ lock = Unlocked /\ e \in Engine
         /\ Seen(e) \in Engine /\ Keeps(Seen(e), e) /\ Seen(e).use = e.use
         /\ Seen(e).phase = e.phase /\ Seen(e).backoff = e.backoff
         /\ Exit \in Keys \cup {NoKey}
         /\ NextPhase(Seen(e)) \in Phases
         /\ NextPhase(Seen(e)) = "active" => Exit \in Keys /\ Seen(e).key = Exit
<1>1. e \in Engine /\ EngineType /\ PeersType BY DEF IInv, Types, EngineType
<1>2. e.use \in Addrs BY <1>1, EngineFacts
<1> QED BY <1>1, <1>2, SeenFacts, ClientAssumption DEF CanTick

LEMMA RequestType ==
  ASSUME IInv, Exit \in Keys \cup {NoKey}, NEW s, Request(s)
  PROVE  net' \subseteq Message
<1>1. CASE net' = net BY <1>1 DEF IInv, Types, PeersType
<1>2. CASE net' # net
  <2>1. Exit \in Keys /\ Send({[key |-> Exit, op |-> "use"]})
    BY <1>2 DEF Request
  <2>2. {[key |-> Exit, op |-> "use"]} \subseteq Message BY <2>1 DEF Message
  <2> QED BY <2>1, <2>2, SendType DEF IInv, Types, PeersType
<1> QED BY <1>1, <1>2

LEMMA ReconcileStandbyInv == ASSUME IInv, ReconcileStandby PROVE IInv'
<1> DEFINE s == Seen(e)
           p == NextPhase(Seen(e))
<1>0. /\ up /\ lock = Unlocked /\ s \in Engine /\ Keeps(s, e) /\ s.use = e.use
      /\ s.phase = e.phase /\ s.backoff = e.backoff /\ p \in Phases /\ p # "active"
      /\ e.use # NoAddr /\ tick = "idle"
      /\ net' \subseteq Message
  <2>1. CanTick /\ e.use # NoAddr /\ Request(Seen(e)) /\ NextPhase(Seen(e)) # "active"
    BY DEF ReconcileStandby
  <2> QED BY <2>1, PassFacts, RequestType DEF CanTick
<1>1. CASE e.routes # {} \/ e.allowed
  <2>1. e' = s /\ Deactivate(Loop, "phase", p) /\ tick' = "busy"
    BY <1>1 DEF ReconcileStandby
  <2> HIDE DEF s, p
  <2>2. Types'
    <3>1. lock' \in Work BY <1>0, <2>1, ThreadFacts, WorkType DEF Rest
    <3> QED BY <1>0, <2>1, <3>1
            DEF ReconcileStandby, host, peers, IInv, Types, EngineType, CallsType, HostType,
                PeersType, HistoryType
  <2>3. /\ HostRecorded' /\ SplitKnown' /\ SplitGone' /\ Adds' /\ Gatewayed'
        /\ NoDefault' /\ DefaultKept' /\ FailOpen'
        /\ lock' # Unlocked /\ lock'.at = "split" /\ lock'.by = Loop
        /\ lock'.next = "phase" /\ lock'.phase = p
    <3>1. "phase" \in Rest BY DEF Rest
    <3> QED BY <1>0, <1>1, <2>1, <2>2, <3>1, Begins, ThreadFacts
            DEF ReconcileStandby, host, peers, Untouched
  <2>4. Holder' BY <1>0, <2>1, <2>3 DEF ReconcileStandby, Holder
  <2>5. Loops' BY <1>0, <2>1, <2>3, ThreadFacts DEF ReconcileStandby, IInv, Loops
  <2>6. PhaseKept' BY <1>0, <2>1, <2>3 DEF IInv, PhaseKept, Keeps
  <2> QED BY <2>2, <2>3, <2>4, <2>5, <2>6 DEF IInv
<1>2. CASE ~(e.routes # {} \/ e.allowed)
  <2>1. e' = [s EXCEPT !.phase = p] /\ tick' = "end" /\ lock' = lock
    BY <1>2 DEF ReconcileStandby
  <2> HIDE DEF s, p
  <2>2. e' \in Engine /\ Keeps(e', e) /\ e'.use = e.use /\ e'.phase = p /\ e'.backoff = e.backoff
    BY <1>0, <2>1 DEF Engine, Keeps
  <2>3. Types'
    BY <1>0, <2>1, <2>2
       DEF ReconcileStandby, host, peers, IInv, Types, EngineType, CallsType, HostType,
           PeersType, HistoryType
  <2>4. /\ HostRecorded' /\ SplitKnown' /\ SplitGone' /\ Adds' /\ Gatewayed'
        /\ NoDefault' /\ DefaultKept' /\ Holder'
    BY <1>0, <2>1, <2>2, <2>3, Unheld DEF ReconcileStandby, host, peers, Untouched
  <2>5. Loops' BY <1>0, <2>1 DEF ReconcileStandby, IInv, Loops
  <2>6. PhaseKept' BY <1>0, <2>1, <2>2 DEF IInv, PhaseKept, Keeps
  <2>7. FailOpen'
    BY <1>0, <1>2, <2>1, <2>2 DEF ReconcileStandby, host, IInv, SplitKnown, FailOpen
  <2> QED BY <2>3, <2>4, <2>5, <2>6, <2>7 DEF IInv
<1> QED BY <1>1, <1>2

\* A pass that stops before the first route.
LEMMA ReconcileBackoffInv == ASSUME IInv, ReconcileBackoff \/ ActivateFails PROVE IInv'
<1>0. /\ up /\ lock = Unlocked /\ e \in Engine /\ Seen(e) \in Engine /\ Keeps(Seen(e), e)
      /\ Seen(e).use = e.use /\ Seen(e).phase = e.phase /\ Seen(e).backoff = e.backoff
      /\ e.use # NoAddr /\ tick = "idle"
  BY PassFacts DEF ReconcileBackoff, ActivateFails, CanTick
<1>1. /\ e' \in Engine /\ Keeps(e', e) /\ e'.use = e.use /\ e.routes = {}
      /\ e'.phase # "active" /\ e'.backoff
  <2>1. CASE ReconcileBackoff
    BY <1>0, <2>1 DEF ReconcileBackoff, IInv, PhaseKept
  <2>2. CASE ActivateFails
    <3>1. e' = [Seen(e) EXCEPT !.backoff = TRUE, !.phase = "standby"] /\ e.gw = NoGateway
      BY <2>2 DEF ActivateFails
    <3>2. e.routes = {} BY <3>1 DEF IInv, Gatewayed
    <3> QED BY <1>0, <3>1, <3>2 DEF Engine, Keeps, Phases
  <2> QED BY <2>1, <2>2
<1>2. /\ tick' = "end" /\ lock' = lock
      /\ UNCHANGED <<up, lock, call, disk, host, peers, net, lost, shaken, n>>
  BY DEF ReconcileBackoff, ActivateFails
<1>3. Types'
  BY <1>1, <1>2 DEF host, peers, IInv, Types, EngineType, CallsType, HostType, PeersType,
                    HistoryType
<1>4. /\ HostRecorded' /\ SplitKnown' /\ SplitGone' /\ Adds' /\ Gatewayed'
      /\ NoDefault' /\ DefaultKept' /\ Holder'
  BY <1>0, <1>1, <1>2, <1>3, Unheld DEF host, peers, Untouched
<1>5. Loops' BY <1>0, <1>2 DEF IInv, Loops
<1>6. PhaseKept' /\ FailOpen'
  BY <1>0, <1>1, <1>2 DEF host, IInv, PhaseKept, SplitKnown, FailOpen, Keeps
<1> QED BY <1>3, <1>4, <1>5, <1>6 DEF IInv

LEMMA UseInv == ASSUME IInv, NEW c \in Callers, Use(c) PROVE IInv'
<1>0. /\ lock = Unlocked /\ call[c].pc = "use" /\ up
      /\ UNCHANGED <<up, tick, host, peers, lost, shaken, n>>
  BY CallsUp, IdleFacts DEF Use
<1>a. e \in Engine /\ call \in [Callers -> Call] BY DEF IInv, Types, EngineType, CallsType
<1>1. CASE e.use \notin {NoAddr, call[c].addr} /\ ~Clean
  <2>1. Deactivate(c, "switch", "off") /\ UNCHANGED <<e, call, disk, net>>
    BY <1>1 DEF Use
  <2>2. Types'
    <3>1. lock' \in Work BY <2>1, ThreadFacts, WorkType DEF Rest, Phases
    <3> QED BY <1>0, <2>1, <3>1 DEF host, peers, IInv, Types, EngineType, CallsType, HostType,
                                    PeersType, HistoryType
  <2>3. /\ HostRecorded' /\ SplitKnown' /\ SplitGone' /\ Adds' /\ Gatewayed'
        /\ NoDefault' /\ DefaultKept' /\ FailOpen'
        /\ lock' # Unlocked /\ lock'.at = "split" /\ lock'.by = c
        /\ lock'.next = "switch" /\ lock'.phase = "off"
    <3>1. "switch" \in Rest /\ "off" \in Phases BY DEF Rest, Phases
    <3>2. Keeps(e', e) BY <2>1 DEF Keeps
    <3>3. e.routes # {} \/ e.nat \/ e.allowed BY <1>1 DEF Clean
    <3> QED BY <1>0, <2>1, <2>2, <3>1, <3>2, <3>3, Begins, ThreadFacts
            DEF host, peers, Untouched
  <2>4. Holder' BY <1>0, <1>1, <2>1, <2>3 DEF Holder
  <2>5. Loops' BY <1>0, <2>1, <2>3, ThreadFacts DEF IInv, Loops
  <2>6. PhaseKept' BY <2>1, <2>3 DEF IInv, PhaseKept
  <2> QED BY <2>2, <2>3, <2>4, <2>5, <2>6 DEF IInv
<1>2. CASE e.use \in {NoAddr, call[c].addr} \/ Clean
  <2>1. /\ e' = Chosen(e, c) /\ disk' = Saved(e') /\ lock' = lock
        /\ call' = [call EXCEPT ![c] = At("wait")]
        /\ net' = net \/ Release
    BY <1>2 DEF Use
  <2>2. /\ e' \in Engine /\ Keeps(e', e) /\ e'.use = call[c].addr
        /\ e.use = call[c].addr => e' = e
        /\ e.use # call[c].addr => e'.phase = "off" /\ ~e'.backoff
    BY <1>a, <2>1, ChosenFacts
  <2>3. disk' \in File /\ net' \subseteq Message /\ call' \in [Callers -> Call]
    BY <1>a, <2>1, <2>2, SavedFacts, ReleaseType, PlaceFacts DEF IInv, Types, PeersType
  <2>4. Types'
    BY <1>0, <2>1, <2>2, <2>3 DEF host, peers, IInv, Types, EngineType, CallsType, HostType,
                                  PeersType, HistoryType
  <2>5. /\ HostRecorded' /\ SplitKnown' /\ SplitGone' /\ Adds' /\ Gatewayed'
        /\ NoDefault' /\ DefaultKept' /\ Holder'
    BY <1>0, <2>1, <2>2, <2>4, Unheld DEF host, peers, Untouched
  <2>6. Loops' BY <1>0, <2>1 DEF IInv, Loops
  <2>7. PhaseKept' BY <1>0, <2>1, <2>2 DEF IInv, PhaseKept, Keeps
  <2>8. FailOpen'
    BY <1>0, <1>2, <2>1, <2>2 DEF host, IInv, PhaseKept, SplitKnown, FailOpen, Clean
  <2> QED BY <2>4, <2>5, <2>6, <2>7, <2>8 DEF IInv
<1> QED BY <1>1, <1>2

LEMMA ClearInv ==
  ASSUME IInv, NEW c \in Callers, Clear(c), up, n' \in Counters PROVE IInv'
<1>0. lock = Unlocked /\ UNCHANGED <<up, tick, host, peers, lost, shaken>>
  BY DEF Clear
<1>a. e \in Engine /\ call \in [Callers -> Call] BY DEF IInv, Types, EngineType, CallsType
<1>1. CASE ~Clean
  <2>1. /\ Deactivate(c, "clear", "off") /\ UNCHANGED <<e, disk, net>>
        /\ call' = [call EXCEPT ![c] = At("clear")]
    BY <1>1 DEF Clear
  <2>2. Types'
    <3>1. lock' \in Work BY <2>1, ThreadFacts, WorkType DEF Rest, Phases
    <3>2. call' \in [Callers -> Call] BY <1>a, <2>1, PlaceFacts
    <3> QED BY <1>0, <2>1, <3>1, <3>2 DEF host, peers, IInv, Types, EngineType, CallsType,
                                          HostType, PeersType, HistoryType
  <2>3. /\ HostRecorded' /\ SplitKnown' /\ SplitGone' /\ Adds' /\ Gatewayed'
        /\ NoDefault' /\ DefaultKept' /\ FailOpen'
        /\ lock' # Unlocked /\ lock'.at = "split" /\ lock'.by = c
        /\ lock'.next = "clear" /\ lock'.phase = "off"
    <3>1. "clear" \in Rest /\ "off" \in Phases BY DEF Rest, Phases
    <3>2. Keeps(e', e) BY <2>1 DEF Keeps
    <3>3. e.routes # {} \/ e.nat \/ e.allowed BY <1>1 DEF Clean
    <3> QED BY <1>0, <2>1, <2>2, <3>1, <3>2, <3>3, Begins, ThreadFacts
            DEF host, peers, Untouched
  <2>4. Holder' BY <1>0, <2>3 DEF Holder
  <2>5. Loops' BY <1>0, <2>1, <2>3, ThreadFacts DEF IInv, Loops
  <2>6. PhaseKept' BY <2>1, <2>3 DEF IInv, PhaseKept
  <2> QED BY <2>2, <2>3, <2>4, <2>5, <2>6 DEF IInv
<1>2. CASE Clean
  <2>1. /\ e' = Cleared(e) /\ disk' = Saved(e') /\ lock' = lock
        /\ call' = [call EXCEPT ![c] = Idle] /\ Release
    BY <1>2 DEF Clear
  <2>2. /\ e' \in Engine /\ Keeps(e', e) /\ e'.phase = "off" /\ e'.backoff = e.backoff
    BY <1>a, <2>1, ClearedFacts
  <2>3. disk' \in File /\ net' \subseteq Message /\ call' \in [Callers -> Call]
    BY <1>a, <2>1, <2>2, SavedFacts, ReleaseType, IdleFacts DEF IInv, Types, PeersType
  <2>4. Types'
    BY <1>0, <2>1, <2>2, <2>3 DEF host, peers, IInv, Types, EngineType, CallsType, HostType,
                                  PeersType, HistoryType
  <2>5. /\ HostRecorded' /\ SplitKnown' /\ SplitGone' /\ Adds' /\ Gatewayed'
        /\ NoDefault' /\ DefaultKept' /\ Holder'
    BY <1>0, <2>1, <2>2, <2>4, Unheld DEF host, peers, Untouched
  <2>6. Loops' BY <1>0, <2>1 DEF IInv, Loops
  <2>7. PhaseKept' BY <1>0, <2>1, <2>2 DEF IInv, PhaseKept, Keeps
  <2>8. FailOpen'
    BY <1>0, <1>2, <2>1, <2>2 DEF host, IInv, SplitKnown, FailOpen, Clean
  <2> QED BY <2>4, <2>5, <2>6, <2>7, <2>8 DEF IInv
<1> QED BY <1>1, <1>2

LEMMA ClearExitNodeInv ==
  ASSUME IInv, NEW c \in Callers, ClearExitNode(c) \/ WaitClears(c) PROVE IInv'
<1>1. CASE ClearExitNode(c)
  <2>1. Clear(c) /\ up BY <1>1 DEF ClearExitNode, Serving
  <2>2. n' \in Counters BY <1>1, CountType DEF ClearExitNode, IInv, Types
  <2> QED BY <2>1, <2>2, ClearInv
<1>2. CASE WaitClears(c)
  <2>1. Clear(c) /\ up BY <1>2, CallsUp, IdleFacts DEF WaitClears
  <2>2. n' \in Counters BY <1>2 DEF WaitClears, IInv, Types, HistoryType
  <2> QED BY <2>1, <2>2, ClearInv
<1> QED BY <1>1, <1>2

LEMMA WorkFacts ==
  ASSUME NEW w \in Work
  PROVE  /\ w # Unlocked /\ w.by \in Threads /\ w.at \in {"add", "split", "owner", "rest", "nat"}
         /\ w.at = "add" => /\ w.todo \subseteq Route
                            /\ \A rs \in SUBSET Route, b \in BOOLEAN :
                                 [w EXCEPT !.todo = rs, !.save = b] \in Work
                            /\ \A rs \in SUBSET Route : [w EXCEPT !.todo = rs] \in Work
         /\ w.at # "add" => /\ w.next \in Rest /\ w.phase \in Phases
                            /\ \A a \in {"split", "owner", "rest", "nat"} :
                                 [w EXCEPT !.at = a] \in Work
BY UnlockedAssumption DEF Work

\* A host command that fails.
LEMMA InstallFailsInv == ASSUME IInv, NEW r \in Route, InstallFails(r) PROVE IInv'
<1>0. /\ lock # Unlocked /\ lock.at = "add" /\ r \in lock.todo /\ lock \in Work
      /\ up /\ lock.by = Loop
      /\ UNCHANGED <<up, e, tick, call, disk, host, peers, net, lost, shaken>>
  BY DEF InstallFails, Adding, IInv, Holder, Types, EngineType
<1>a. n' \in Counters BY CountType DEF InstallFails, IInv, Types
<1>1. CASE Critical(r)
  <2>1. Deactivate(Loop, "retry", "standby")
    BY <1>1 DEF InstallFails
  <2>2. Types'
    <3>1. lock' \in Work BY <2>1, ThreadFacts, WorkType DEF Rest, Phases
    <3> QED BY <1>0, <1>a, <3>1 DEF host, peers, IInv, Types, EngineType, CallsType, HostType,
                                    PeersType, HistoryType
  <2>3. /\ HostRecorded' /\ SplitKnown' /\ SplitGone' /\ Adds' /\ Gatewayed'
        /\ NoDefault' /\ DefaultKept' /\ FailOpen'
        /\ lock' # Unlocked /\ lock'.at = "split" /\ lock'.by = Loop
        /\ lock'.next = "retry" /\ lock'.phase = "standby"
    <3>1. "retry" \in Rest /\ "standby" \in Phases BY DEF Rest, Phases
    <3>2. Keeps(e', e) BY <1>0 DEF Keeps
    <3> QED BY <1>0, <2>1, <2>2, <3>1, <3>2, Begins, ThreadFacts DEF host, peers, Untouched
  <2>4. Holder' BY <1>0, <2>3 DEF Holder
  <2>5. Loops' BY <1>0, <2>3, ThreadFacts DEF IInv, Loops
  <2>6. PhaseKept' BY <1>0, <2>3 DEF IInv, PhaseKept
  <2> QED BY <2>2, <2>3, <2>4, <2>5, <2>6 DEF IInv
<1>2. CASE ~Critical(r)
  <2>1. lock' = [lock EXCEPT !.todo = @ \ {r}] /\ r # Split
    BY <1>2 DEF InstallFails, Critical
  <2>2. /\ lock' \in Work /\ lock' # Unlocked /\ lock'.at = "add" /\ lock'.by = Loop
        /\ Split \in lock.todo => Split \in lock'.todo
    <3>1. lock.todo \subseteq Route BY <1>0, WorkFacts
    <3>2. lock.todo \ {r} \in SUBSET Route BY <3>1
    <3>3. lock' \in Work BY <1>0, <2>1, <3>2, WorkFacts
    <3>4. lock'.at = "add" /\ lock'.by = Loop /\ lock'.todo = lock.todo \ {r}
      BY <1>0, <2>1 DEF Work
    <3> QED BY <2>1, <3>3, <3>4, WorkFacts
  <2>3. Types'
    BY <1>0, <1>a, <2>2 DEF host, peers, IInv, Types, EngineType, CallsType, HostType,
                            PeersType, HistoryType
  <2>4. HostRecorded'
    <3>1. Keeps(e', e) BY <1>0 DEF Keeps
    <3> QED BY <1>0, <2>3, <3>1, RecordedKept DEF host, Untouched, IInv
  <2>5. SplitKnown' /\ SplitGone' /\ Gatewayed' /\ PhaseKept' /\ FailOpen' /\ Holder'
    BY <1>0, <2>2 DEF host, IInv, SplitKnown, SplitGone, Gatewayed, PhaseKept, FailOpen, Holder
  <2>6. Adds' BY <1>0, <2>2 DEF IInv, Adds
  <2>7. Loops' BY <1>0, <2>2, ThreadFacts DEF IInv, Loops
  <2>8. NoDefault' /\ DefaultKept'
    BY <1>0, <2>2 DEF peers, IInv, NoDefault, DefaultKept, Taken
  <2> QED BY <2>3, <2>4, <2>5, <2>6, <2>7, <2>8 DEF IInv
<1> QED BY <1>1, <1>2
-----------------------------------------------------------------------------
(* Steps on the host *)

LEMMA PinnedFacts ==
  ASSUME HostType, NEW r \in Route, NEW g \in Gateways \cup {NoGateway}
  PROVE  /\ Pinned({r}, g) \in [Dests -> Gateways \cup {NoGateway}]
         /\ \A d \in Dests : Pinned({r}, g)[d] = IF Pin(d) = r THEN g ELSE bypass[d]
BY DEF Pinned, HostType

LEMMA UnpinnedFacts ==
  ASSUME HostType, NEW rs, NEW g
  PROVE  /\ Unpinned(rs, g) \in [Dests -> Gateways \cup {NoGateway}]
         /\ \A d \in Dests : Unpinned(rs, g)[d] =
              IF Pin(d) \in rs /\ bypass[d] = g THEN NoGateway ELSE bypass[d]
BY DEF Unpinned, HostType

LEMMA OnHostFacts ==
  ASSUME HostType
  PROVE  /\ OnHost \subseteq Route \cup {Masquerade}
         /\ \A d \in Dests : Pin(d) \in OnHost <=> bypass[d] # NoGateway
         /\ Split \in OnHost <=> split
         /\ Reject \in OnHost <=> reject
         /\ Masquerade \in OnHost <=> masq
BY RouteFacts DEF OnHost, HostType

Parts ==
  /\ OnHost \subseteq Route \cup {Masquerade}
  /\ \A d \in Dests : Pin(d) \in OnHost <=> bypass[d] # NoGateway
  /\ \A r \in OnHost : r \in {Split, Reject, Masquerade} \/ \E d \in Dests : r = Pin(d)

LEMMA OnHostParts == HostType => Parts
<1>1. \A r \in OnHost : r \in {Split, Reject, Masquerade} \/ \E d \in Dests : r = Pin(d)
  BY DEF OnHost
<1> QED BY <1>1, OnHostFacts DEF Parts

\* Deletions take from the host and add nothing to it.
LEMMA DelFacts ==
  ASSUME HostType, NEW rs, NEW g, DelRoutes(rs, g), uplink' = uplink
  PROVE  /\ HostType'
         /\ \A d \in Dests : bypass'[d] =
              IF Pin(d) \in rs /\ bypass[d] = g THEN NoGateway ELSE bypass[d]
         /\ split' <=> split /\ Split \notin rs
         /\ reject' <=> reject /\ Reject \notin rs
         /\ masq' <=> masq /\ Masquerade \notin rs
<1>1. /\ bypass' = Unpinned(rs, g)
      /\ split' = (split /\ Split \notin rs) /\ reject' = (reject /\ Reject \notin rs)
      /\ masq' = (masq /\ Masquerade \notin rs)
      /\ split \in BOOLEAN /\ reject \in BOOLEAN /\ masq \in BOOLEAN
  BY DEF DelRoutes, HostType
<1>2. /\ bypass' \in [Dests -> Gateways \cup {NoGateway}]
      /\ \A d \in Dests : bypass'[d] =
              IF Pin(d) \in rs /\ bypass[d] = g THEN NoGateway ELSE bypass[d]
  BY <1>1, UnpinnedFacts
<1>3. HostType' BY <1>1, <1>2 DEF HostType
<1> QED BY <1>1, <1>2, <1>3

\* Deleting what s has recorded, with its gateway, leaves what s then knows and
\* what is lost.
LEMMA Deletes ==
  ASSUME Types, NEW s, Knows(s), NEW rs, NEW gone, gone \subseteq {Split},
         Forgets(rs, gone, s.gw), NEW t, s.routes \ rs \subseteq t, uplink' = uplink
  PROVE  /\ HostType' /\ n' \in Counters /\ lost' \subseteq Route \cup {Masquerade}
         /\ \A d \in Dests : bypass'[d] # NoGateway =>
              (Pin(d) \in t /\ bypass'[d] = s.gw) \/ Pin(d) \in lost'
         /\ split' => Split \in t \/ Split \in lost'
         /\ reject' => Reject \in t \/ Reject \in lost'
         /\ masq' => (s.nat /\ Masquerade \notin rs) \/ Masquerade \in lost'
         /\ split' => split /\ Split \notin gone
         /\ split /\ Split \notin rs \cup gone => split'
<1>1. PICK bad \in SUBSET (rs \cap OnHost) :
        /\ DelRoutes((rs \ bad) \cup gone, s.gw)
        /\ lost' = (lost \cup bad) \ gone
        /\ IF bad = {} THEN UNCHANGED n ELSE n.faults < MaxFaults /\ Count("faults")
  BY DEF Forgets
<1>2. HostType /\ HistoryType BY DEF Types
<1> DEFINE rm == (rs \ bad) \cup gone
<1>3. /\ HostType'
      /\ \A d \in Dests : bypass'[d] =
              IF Pin(d) \in rm /\ bypass[d] = s.gw THEN NoGateway ELSE bypass[d]
      /\ split' <=> split /\ Split \notin rm
      /\ reject' <=> reject /\ Reject \notin rm
      /\ masq' <=> masq /\ Masquerade \notin rm
  <2>1. DelRoutes(rm, s.gw) BY <1>1
  <2> HIDE DEF rm
  <2> QED BY <1>2, <2>1, DelFacts
<1>4. n' \in Counters BY <1>1, <1>2, CountType DEF HistoryType
<1>5. lost' \subseteq Route \cup {Masquerade} BY <1>1, <1>2, OnHostFacts DEF HistoryType
<1>6. \A d : Pin(d) \notin gone BY RouteFacts
<1>7. Reject \notin gone /\ Masquerade \notin gone BY RouteFacts
<1>8. \A d \in Dests : bypass'[d] # NoGateway =>
              (Pin(d) \in t /\ bypass'[d] = s.gw) \/ Pin(d) \in lost'
  BY <1>1, <1>3, <1>6 DEF Knows
<1>9. split' => (Split \in t \/ Split \in lost') /\ split /\ Split \notin gone
  BY <1>1, <1>3 DEF Knows
<1>10. reject' => Reject \in t \/ Reject \in lost'
  BY <1>1, <1>3, <1>7 DEF Knows
<1>11. masq' => (s.nat /\ Masquerade \notin rs) \/ Masquerade \in lost'
  BY <1>1, <1>3, <1>7 DEF Knows
<1>12. split /\ Split \notin rs \cup gone => split' BY <1>3
<1> QED BY <1>3, <1>4, <1>5, <1>8, <1>9, <1>10, <1>11, <1>12

LEMMA HeldFacts ==
  ASSUME IInv, lock # Unlocked
  PROVE  /\ up /\ lock \in Work /\ e \in Engine /\ Knows(e) /\ Types
         /\ call \in [Callers -> Call]
<1>1. up /\ Types BY DEF IInv, Holder
<1>2. Known BY <1>1, KnownIs DEF IInv
<1> QED BY <1>1, <1>2 DEF Known, Types, EngineType, CallsType

\* A deactivation goes on: the same holder, for the same purpose.
LEMMA GoesOn ==
  ASSUME IInv, lock # Unlocked, lock.at # "add", NEW a \in {"split", "owner", "rest", "nat"},
         lock' = [lock EXCEPT !.at = a]
  PROVE  /\ lock' \in Work /\ lock' # Unlocked /\ lock'.at = a /\ lock'.by = lock.by
         /\ lock'.next = lock.next /\ lock'.phase = lock.phase
<1>1. lock \in Work BY HeldFacts
<1>2. lock' \in Work BY <1>1, WorkFacts
<1>3. lock'.at = a /\ lock'.by = lock.by /\ lock'.next = lock.next /\ lock'.phase = lock.phase
  BY <1>1 DEF Work
<1> QED BY <1>2, <1>3, WorkFacts

LEMMA DropSplitInv == ASSUME IInv, DropSplit PROVE IInv'
<1>0. /\ lock # Unlocked /\ lock.at = "split"
      /\ UNCHANGED <<up, tick, call, disk, uplink, peers, net, shaken>>
  BY DEF DropSplit
<1>a. up /\ lock \in Work /\ e \in Engine /\ Knows(e) /\ Types BY <1>0, HeldFacts
<1>1. /\ lock' \in Work /\ lock' # Unlocked /\ lock'.at = "owner" /\ lock'.by = lock.by
      /\ lock'.next = lock.next /\ lock'.phase = lock.phase
  BY <1>0, GoesOn DEF DropSplit
<1>2. /\ e' \in Engine /\ e'.routes = Bypasses(e.routes) /\ e'.gw = e.gw /\ e'.nat = e.nat
      /\ e'.had = e.had /\ e'.allowed = e.allowed /\ e'.use = e.use /\ e'.phase = e.phase
      /\ e'.backoff = e.backoff
  <2>1. Bypasses(e.routes) \in SUBSET Route BY <1>a, EngineFacts, BypassFacts
  <2>2. e' = [e EXCEPT !.routes = Bypasses(e.routes)] BY DEF DropSplit
  <2> QED BY <1>a, <2>1, <2>2 DEF Engine
<1>3. /\ HostType' /\ n' \in Counters /\ lost' \subseteq Route \cup {Masquerade}
      /\ \A d \in Dests : bypass'[d] # NoGateway =>
           (Pin(d) \in e'.routes /\ bypass'[d] = e.gw) \/ Pin(d) \in lost'
      /\ split' => Split \in e'.routes \/ Split \in lost'
      /\ reject' => Reject \in e'.routes \/ Reject \in lost'
      /\ masq' => e.nat \/ Masquerade \in lost'
  <2> DEFINE rs == e.routes \ Bypasses(e.routes)
             no == {}
             t == e'.routes
  <2>1. e.routes \ rs \subseteq t BY <1>2
  <2>2. Forgets(rs, no, e.gw) /\ no \subseteq {Split} BY DEF DropSplit
  <2>3. uplink' = uplink BY <1>0
  <2> HIDE DEF rs, no, t
  <2>4. /\ HostType' /\ n' \in Counters /\ lost' \subseteq Route \cup {Masquerade}
        /\ \A d \in Dests : bypass'[d] # NoGateway =>
             (Pin(d) \in t /\ bypass'[d] = e.gw) \/ Pin(d) \in lost'
        /\ split' => Split \in t \/ Split \in lost'
        /\ reject' => Reject \in t \/ Reject \in lost'
        /\ masq' => (e.nat /\ Masquerade \notin rs) \/ Masquerade \in lost'
    BY <1>a, <2>1, <2>2, <2>3, Deletes, ZenonT(90)
  <2> QED BY <2>4 DEF t
<1>4. Types'
  BY <1>0, <1>1, <1>2, <1>3 DEF peers, IInv, Types, EngineType, CallsType, PeersType, HistoryType
<1>5. HostRecorded'
  <2>1. Knows(e)' BY <1>0, <1>2, <1>3 DEF Knows
  <2>2. Known' BY <1>0, <1>a, <2>1 DEF Known
  <2> QED BY <1>4, <2>2, KnownIs, PTL
<1>6. Split \notin e'.routes BY <1>2, BypassFacts
<1>7. SplitKnown' /\ SplitGone' /\ Adds' /\ FailOpen'
  BY <1>0, <1>1, <1>3, <1>6, <1>a DEF SplitKnown, SplitGone, Adds, FailOpen
<1>8. Gatewayed' /\ PhaseKept'
  BY <1>0, <1>1, <1>2, BypassFacts DEF IInv, Gatewayed, PhaseKept
<1>9. Holder' /\ Loops' BY <1>0, <1>1, <1>2 DEF IInv, Holder, Loops
<1>10. NoDefault' /\ DefaultKept'
  BY <1>0, <1>1, <1>2 DEF peers, IInv, NoDefault, DefaultKept, Taken
<1> QED BY <1>4, <1>5, <1>7, <1>8, <1>9, <1>10 DEF IInv

LEMMA TakeBackInv == ASSUME IInv, TakeBack PROVE IInv'
<1>0. /\ lock # Unlocked /\ lock.at = "owner" /\ owner' = Returned
      /\ UNCHANGED <<up, tick, call, disk, host, path, listed, offers, net, lost, shaken, n>>
  BY DEF TakeBack
<1>a. up /\ lock \in Work /\ e \in Engine /\ Knows(e) /\ Types BY <1>0, HeldFacts
<1>1. /\ lock' \in Work /\ lock' # Unlocked /\ lock'.at = "rest" /\ lock'.by = lock.by
      /\ lock'.next = lock.next /\ lock'.phase = lock.phase
  BY <1>0, GoesOn DEF TakeBack
<1>2. /\ e' \in Engine /\ e'.routes = e.routes /\ e'.gw = e.gw /\ e'.nat = e.nat
      /\ e'.had = FALSE /\ e'.allowed = FALSE /\ e'.use = e.use /\ e'.phase = e.phase
      /\ e'.backoff = e.backoff
  BY <1>a DEF TakeBack, Engine
<1>3. Types'
  <2>1. owner' \in Keys \cup {Server, NoKey}
    BY <1>0 DEF Returned, IInv, Types, PeersType
  <2> QED BY <1>0, <1>1, <1>2, <2>1
          DEF host, IInv, Types, EngineType, CallsType, HostType, PeersType, HistoryType
<1>4. HostRecorded'
  <2>1. Knows(e)' BY <1>0, <1>a, <1>2 DEF Knows, host
  <2>2. Known' BY <1>0, <1>a, <2>1 DEF Known
  <2> QED BY <1>3, <2>2, KnownIs, PTL
<1>5. SplitKnown' /\ SplitGone' /\ Adds' /\ FailOpen'
  BY <1>0, <1>1, <1>2 DEF host, IInv, SplitKnown, SplitGone, Adds, FailOpen
<1>6. Gatewayed' /\ PhaseKept'
  BY <1>0, <1>1, <1>2 DEF IInv, Gatewayed, PhaseKept
<1>7. Holder' /\ Loops' BY <1>0, <1>1, <1>2 DEF IInv, Holder, Loops
<1>8. NoDefault'
  BY <1>0, <1>2, ClientAssumption DEF IInv, NoDefault, Returned
<1>9. DefaultKept'
  <2>1. ~shaken => owner' = Base
    BY <1>0, <1>a, ClientAssumption
       DEF IInv, DefaultKept, Taken, NoDefault, Returned, Base, Types, PeersType
  <2> QED BY <1>0, <1>1, <1>2, <2>1 DEF DefaultKept
<1> QED BY <1>3, <1>4, <1>5, <1>6, <1>7, <1>8, <1>9 DEF IInv

LEMMA DropRestInv == ASSUME IInv, DropRest PROVE IInv'
<1>0. /\ lock # Unlocked /\ lock.at = "rest"
      /\ UNCHANGED <<up, tick, call, disk, uplink, peers, net, shaken>>
  BY DEF DropRest
<1>a. up /\ lock \in Work /\ e \in Engine /\ Knows(e) /\ Types BY <1>0, HeldFacts
<1>1. /\ lock' \in Work /\ lock' # Unlocked /\ lock'.at = "nat" /\ lock'.by = lock.by
      /\ lock'.next = lock.next /\ lock'.phase = lock.phase
  BY <1>0, GoesOn DEF DropRest
<1>2. /\ e' \in Engine /\ e'.routes = {} /\ e'.gw = e.gw /\ e'.nat = e.nat
      /\ e'.had = e.had /\ e'.allowed = e.allowed /\ e'.use = e.use /\ e'.phase = e.phase
      /\ e'.backoff = e.backoff
  BY <1>a DEF DropRest, Engine
<1>3. /\ HostType' /\ n' \in Counters /\ lost' \subseteq Route \cup {Masquerade}
      /\ \A d \in Dests : bypass'[d] # NoGateway =>
           (Pin(d) \in e'.routes /\ bypass'[d] = e.gw) \/ Pin(d) \in lost'
      /\ split' => Split \in e'.routes \/ Split \in lost'
      /\ reject' => Reject \in e'.routes \/ Reject \in lost'
      /\ masq' => e.nat \/ Masquerade \in lost'
  <2> DEFINE no == {}
  <2>1. e.routes \ e.routes \subseteq e'.routes OBVIOUS
  <2>2. Forgets(e.routes, no, e.gw) /\ no \subseteq {Split} BY DEF DropRest
  <2> HIDE DEF no
  <2> QED BY <1>0, <1>a, <2>1, <2>2, Deletes, ZenonT(90)
<1>4. Types'
  BY <1>0, <1>1, <1>2, <1>3 DEF peers, IInv, Types, EngineType, CallsType, PeersType, HistoryType
<1>5. HostRecorded'
  <2>1. Knows(e)' BY <1>0, <1>2, <1>3 DEF Knows
  <2>2. Known' BY <1>0, <1>a, <2>1 DEF Known
  <2> QED BY <1>4, <2>2, KnownIs, PTL
<1>6. SplitKnown' /\ SplitGone' /\ Adds' /\ FailOpen'
  BY <1>0, <1>1, <1>2, <1>3, <1>a DEF SplitKnown, SplitGone, Adds, FailOpen
<1>7. Gatewayed' /\ PhaseKept'
  BY <1>0, <1>1, <1>2 DEF IInv, Gatewayed, PhaseKept
<1>8. Holder' /\ Loops' BY <1>0, <1>1, <1>2 DEF IInv, Holder, Loops
<1>9. NoDefault' /\ DefaultKept'
  BY <1>0, <1>1, <1>2 DEF peers, IInv, NoDefault, DefaultKept
<1> QED BY <1>4, <1>5, <1>6, <1>7, <1>8, <1>9 DEF IInv

LEMMA DropNATInv == ASSUME IInv, DropNAT PROVE IInv'
<1>0. /\ lock # Unlocked /\ lock.at = "nat" /\ lock' = Unlocked
      /\ Forgets(Rules(e.nat), WithTun(lock.by), e.gw)
      /\ Leaves(lock.by, lock.next) /\ disk' = Saved(e')
      /\ UNCHANGED <<uplink, peers, shaken>>
  BY DEF DropNAT
<1>a. up /\ lock \in Work /\ e \in Engine /\ Knows(e) /\ Types /\ call \in [Callers -> Call]
  BY <1>0, HeldFacts
<1>b. lock.next \in Rest /\ lock.phase \in Phases /\ lock.by \in Threads
  BY <1>0, <1>a, WorkFacts
<1>c. \/ lock.by = Loop /\ lock.next \in {"phase", "retry"}
      \/ lock.by = Loop /\ lock.next = "unused" /\ e.use = NoAddr
      \/ lock.by = Tunnel /\ lock.next = "stop"
      \/ /\ lock.by \in Callers /\ lock.next = "switch" /\ e.use # call[lock.by].addr
      \/ lock.by \in Callers /\ lock.next = "clear"
  BY <1>0 DEF IInv, Holder, Loops
<1>d. e.routes = {} BY <1>0 DEF IInv, SplitGone
<1> DEFINE g == e.granted /\ lock.next # "clear"
           s == [e EXCEPT !.nat = FALSE, !.granted = g]
<1>1. /\ s \in Engine /\ s.routes = {} /\ s.nat = FALSE /\ s.gw = e.gw /\ s.had = e.had
      /\ s.allowed = e.allowed /\ s.use = e.use /\ s.phase = e.phase /\ s.backoff = e.backoff
  <2>1. g \in BOOLEAN BY <1>a, EngineFacts
  <2> HIDE DEF g
  <2> QED BY <1>a, <1>d, <2>1 DEF Engine
<1>2. e' = After(s, lock) BY DEF DropNAT
<1> HIDE DEF s, g
<1>3. /\ e' \in Engine /\ Keeps(e', s)
      /\ lock.next \in {"unused", "stop"} => e' = s
      /\ lock.next = "phase" => e'.phase = lock.phase /\ e'.use = s.use /\ e'.backoff = s.backoff
      /\ lock.next = "retry" => e'.phase = "standby" /\ e'.use = s.use
      /\ lock.next = "switch" => e' = Chosen(s, lock.by)
      /\ lock.next = "clear" => e' = Cleared(s)
  <2>1. lock.next = "switch" => lock.by \in Callers BY <1>c
  <2> QED BY <1>0, <1>a, <1>1, <1>2, <2>1, AfterFacts
<1>4. e'.routes = {} /\ e'.nat = FALSE /\ e'.gw = e.gw /\ e'.had = e.had /\ e'.allowed = e.allowed
  BY <1>1, <1>3 DEF Keeps
<1>5. PhaseKept' /\ (tick' = "end" => e'.phase # "active")
  <2>1. CASE lock.next \in {"unused", "stop"}
    <3>1. e'.use = e.use /\ e'.phase = e.phase /\ e'.backoff = e.backoff
      BY <1>1, <1>3, <2>1
    <3>2. tick' = "end" => e.use = NoAddr
      <4>1. lock.by = Tunnel => tick = "idle" /\ tick' = tick
        BY <1>0, ThreadFacts DEF IInv, Loops, Leaves
      <4> QED BY <1>c, <2>1, <4>1
    <3> QED BY <1>0, <1>4, <3>1, <3>2 DEF IInv, PhaseKept
  <2>2. CASE lock.next = "phase"
    <3>1. lock.phase # "active" BY <1>0, <2>2 DEF IInv, PhaseKept
    <3> QED BY <1>0, <1>3, <1>4, <2>2, <3>1 DEF PhaseKept
  <2>3. CASE lock.next = "retry"
    BY <1>0, <1>3, <1>4, <2>3 DEF PhaseKept
  <2>4. CASE lock.next = "switch"
    <3>1. e'.phase = "off" BY <1>1, <1>3, <1>c, <1>a, <2>4, ChosenFacts
    <3> QED BY <1>0, <1>4, <3>1 DEF PhaseKept
  <2>5. CASE lock.next = "clear"
    <3>1. e'.phase = "off" BY <1>1, <1>3, <2>5, ClearedFacts
    <3> QED BY <1>0, <1>4, <3>1 DEF PhaseKept
  <2> QED BY <1>b, <2>1, <2>2, <2>3, <2>4, <2>5 DEF Rest
<1>6. /\ tick' \in {"end", tick} /\ (lock.by = Loop => tick' = "end")
      /\ (lock.by # Loop => tick' = tick)
      /\ call' \in [Callers -> Call] /\ up' \in BOOLEAN
      /\ lock.by = Tunnel => call' = call /\ ~up'
      /\ lock.by # Tunnel => up'
  BY <1>0, <1>a, ThreadFacts, PlaceFacts, IdleFacts DEF Leaves
<1>7. /\ HostType' /\ n' \in Counters /\ lost' \subseteq Route \cup {Masquerade}
      /\ \A d \in Dests : bypass'[d] # NoGateway => Pin(d) \in lost'
      /\ split' => Split \in lost' /\ lock.by # Tunnel
      /\ reject' => Reject \in lost'
      /\ masq' => Masquerade \in lost'
  <2> DEFINE rs == Rules(e.nat)
             no == WithTun(lock.by)
             t == {}
  <2>1. e.routes \ rs \subseteq t BY <1>d
  <2>2. Forgets(rs, no, e.gw) BY <1>0
  <2>3. no \subseteq {Split} /\ (lock.by = Tunnel => Split \in no) BY DEF WithTun
  <2>4. e.nat => Masquerade \in rs BY DEF Rules
  <2>5. t = {} OBVIOUS
  <2> HIDE DEF rs, no, t
  <2>6. /\ HostType' /\ n' \in Counters /\ lost' \subseteq Route \cup {Masquerade}
        /\ \A d \in Dests : bypass'[d] # NoGateway =>
             (Pin(d) \in t /\ bypass'[d] = e.gw) \/ Pin(d) \in lost'
        /\ split' => Split \in t \/ Split \in lost'
        /\ reject' => Reject \in t \/ Reject \in lost'
        /\ masq' => (e.nat /\ Masquerade \notin rs) \/ Masquerade \in lost'
        /\ split' => split /\ Split \notin no
    BY <1>0, <1>a, <2>1, <2>2, <2>3, Deletes, SMTT(30)
  <2> QED BY <2>3, <2>4, <2>5, <2>6
<1>8. Types'
  <2>1. disk' \in File BY <1>0, <1>3, SavedFacts
  <2>2. net' \subseteq Message
    BY ReleaseType DEF DropNAT, IInv, Types, PeersType
  <2> QED BY <1>0, <1>3, <1>6, <1>7, <2>1, <2>2
          DEF peers, IInv, Types, EngineType, CallsType, PeersType, HistoryType
<1>9. HostRecorded'
  <2>1. Knows(e)' /\ Knows(disk)' BY <1>0, <1>7 DEF Knows
  <2>2. Known' BY <2>1 DEF Known
  <2> QED BY <1>8, <2>2, KnownIs, PTL
<1>10. SplitKnown' BY <1>4, <1>6, <1>7 DEF SplitKnown
<1>11. FailOpen' BY <1>5, <1>4, <1>10 DEF FailOpen, SplitKnown
<1>12. SplitGone' /\ Adds' /\ Holder' /\ Gatewayed'
  BY <1>0, <1>4 DEF SplitGone, Adds, Holder, Gatewayed
<1>13. Loops'
  <2>1. lock.by = Tunnel => tick = "idle" /\ \A c \in Callers : call[c] = Idle
    BY <1>0 DEF IInv, Loops
  <2>2. tick' # "busy" BY <1>0, <1>6 DEF IInv, Loops
  <2> QED BY <1>0, <1>6, <2>1, <2>2, ThreadFacts DEF Loops
<1>14. NoDefault' /\ DefaultKept'
  BY <1>0, <1>4, <1>6, <1>a DEF peers, IInv, NoDefault, DefaultKept, Nothing
<1> QED BY <1>5, <1>8, <1>9, <1>10, <1>11, <1>12, <1>13, <1>14 DEF IInv

\* The host and the engine after activateLocked has come to its first route.
LEMMA ActivateInv == ASSUME IInv, Activate PROVE IInv'
<1> DEFINE g == Gateway
           s == Seen(e)
           kept == s.routes \ Obsolete(g)
           h == IF e.routes = {} THEN owner = Server ELSE s.had
           al == s.allowed \/ owner # Exit
           sv == e.routes = {} \/ e.routes \ Repinned(g) # kept
<1>0. /\ CanTick /\ e.use # NoAddr /\ NextPhase(s) = "active" /\ ~e.backoff /\ g # NoGateway
      /\ Forgets(Obsolete(g), {}, e.gw) /\ owner' = Exit
      /\ e' = [s EXCEPT !.routes = kept, !.gw = g, !.had = h, !.allowed = al]
      /\ lock' = [by |-> Loop, at |-> "add", todo |-> Plan \ kept, save |-> sv]
      /\ tick' = "busy"
      /\ UNCHANGED <<up, call, disk, uplink, path, listed, offers, net, shaken>>
  BY DEF Activate, OldGateway, Asserted
<1>a. /\ up /\ lock = Unlocked /\ e \in Engine /\ s \in Engine /\ Keeps(s, e) /\ s.use = e.use
      /\ s.phase = e.phase /\ s.backoff = e.backoff /\ Exit \in Keys
  BY <1>0, PassFacts
<1>b. Types /\ Knows(e) BY <1>a, KnownIs DEF IInv, Known
<1>c. /\ g \in Gateways \cup {NoGateway} /\ h \in BOOLEAN /\ al \in BOOLEAN /\ sv \in BOOLEAN
      /\ kept \subseteq Route
  BY <1>a, <1>b, EngineFacts DEF Types, HostType, Gateway
<1>d. /\ kept = e.routes \ Obsolete(g) /\ (e.routes = {} => kept = {})
      /\ Split \in Plan /\ Plan \subseteq Route
      /\ Split \in e.routes => Split \in kept
      /\ Split \notin Obsolete(g)
      /\ g # e.gw => \A d \in Dests : Pin(d) \in e.routes => Pin(d) \in Obsolete(g)
  <2>1. kept = e.routes \ Obsolete(g) BY <1>a DEF Keeps
  <2>2. Split \in Plan BY DEF Plan
  <2>3. Plan \subseteq Route BY RouteFacts DEF Plan, Dests
  <2>4. Split \notin Repinned(g) BY BypassFacts DEF Repinned
  <2>5. Split \notin Obsolete(g) BY <2>2, <2>4 DEF Obsolete
  <2>6. g # e.gw => \A d \in Dests : Pin(d) \in e.routes => Pin(d) \in Obsolete(g)
    BY BypassFacts DEF Obsolete, Repinned
  <2> HIDE DEF kept, g
  <2> QED BY <2>1, <2>2, <2>3, <2>5, <2>6
<1>e. Keeps(s, e) BY <1>a
<1> HIDE DEF s, kept
<1>1. /\ e' \in Engine /\ e'.routes = kept /\ e'.gw = g /\ e'.had = h /\ e'.allowed = al
      /\ e'.nat = e.nat /\ e'.use = e.use /\ e'.phase = e.phase /\ e'.backoff = e.backoff
  <2> HIDE DEF g, h, al
  <2> QED BY <1>0, <1>a, <1>c DEF Engine, Keeps
<1>2. /\ lock' \in Work /\ lock' # Unlocked /\ lock'.at = "add" /\ lock'.by = Loop
      /\ lock'.todo = Plan \ kept
  <2> HIDE DEF g, h, al, sv
  <2>1. lock' \in Work BY <1>0, <1>c, <1>d, ThreadFacts DEF Work
  <2> QED BY <1>0, <2>1, WorkFacts
<1>3. /\ HostType' /\ n' \in Counters /\ lost' \subseteq Route \cup {Masquerade}
      /\ \A d \in Dests : bypass'[d] # NoGateway =>
           (Pin(d) \in kept /\ bypass'[d] = e.gw) \/ Pin(d) \in lost'
      /\ split' => Split \in kept \/ Split \in lost'
      /\ reject' => Reject \in kept \/ Reject \in lost'
      /\ masq' => e.nat \/ Masquerade \in lost'
      /\ split /\ Split \notin Obsolete(g) => split'
  <2> DEFINE no == {}
  <2>1. e.routes \ Obsolete(g) \subseteq kept BY <1>d
  <2>2. Forgets(Obsolete(g), no, e.gw) /\ no \subseteq {Split} /\ Split \notin no BY <1>0
  <2> HIDE DEF g, h, al, sv, no
  <2> QED BY <1>0, <1>b, <2>1, <2>2, Deletes
<1>4. Types'
  BY <1>0, <1>1, <1>2, <1>3, <1>a DEF IInv, Types, EngineType, CallsType, PeersType, HistoryType
<1>5. HostRecorded'
  <2>1. \A d \in Dests : bypass'[d] # NoGateway =>
          (Pin(d) \in kept /\ bypass'[d] = g) \/ Pin(d) \in lost'
    <3> HIDE DEF g
    <3> QED BY <1>3, <1>d
  <2> HIDE DEF g, h, al, sv
  <2>2. Knows(e)' BY <1>0, <1>1, <1>3, <2>1 DEF Knows
  <2>3. Known' BY <1>0, <1>a, <2>2 DEF Known
  <2> QED BY <1>4, <2>3, KnownIs, PTL
<1> HIDE DEF sv
<1>6. SplitKnown' /\ SplitGone' /\ FailOpen'
  <2> HIDE DEF g, h, al
  <2> QED BY <1>0, <1>1, <1>2, <1>3, <1>a, <1>d DEF IInv, SplitKnown, SplitGone, FailOpen
<1>7. Adds' /\ Gatewayed' /\ PhaseKept'
  <2> HIDE DEF g, h, al
  <2> QED BY <1>0, <1>1, <1>2, <1>a, <1>d, EngineFacts DEF IInv, Adds, Gatewayed, PhaseKept
<1>8. Holder' /\ Loops'
  <2> HIDE DEF g, h, al
  <2> QED BY <1>0, <1>2, <1>a, ThreadFacts DEF Holder, Loops
<1>9. NoDefault'
  <2>1. ~ServerDefault => ~h BY <1>a DEF Keeps, IInv, NoDefault
  <2>2. Exit # Server BY <1>a, ClientAssumption
  <2> HIDE DEF g, h, al
  <2> QED BY <1>0, <1>1, <2>1, <2>2 DEF NoDefault
<1>10. DefaultKept'
  <2>1. ~shaken => Nothing \/ (Taken /\ Split \in e.routes)
    BY <1>a DEF IInv, DefaultKept
  <2>2. Nothing => al /\ (ServerDefault => h)
    BY <1>a, ClientAssumption DEF Nothing, Base
  <2>3. Taken /\ Split \in e.routes => al /\ (ServerDefault => h)
    BY <1>a DEF Taken, Keeps
  <2> HIDE DEF g, h, al
  <2> QED BY <1>0, <1>1, <1>2, <2>1, <2>2, <2>3 DEF DefaultKept, Taken
<1> QED BY <1>4, <1>5, <1>6, <1>7, <1>8, <1>9, <1>10 DEF IInv

LEMMA InstallInv == ASSUME IInv, NEW r \in Route, Install(r) PROVE IInv'
<1>0. /\ lock # Unlocked /\ lock.at = "add" /\ r \in lock.todo
      /\ bypass' = Pinned({r}, e.gw) /\ split' = (split \/ r = Split)
      /\ reject' = (reject \/ r = Reject)
      /\ e' = [e EXCEPT !.routes = e.routes \cup {r}]
      /\ lock' = [lock EXCEPT !.todo = lock.todo \ {r}, !.save = TRUE]
      /\ lost' = lost \ {r}
      /\ UNCHANGED <<up, tick, call, disk, masq, uplink, peers, net, shaken, n>>
  BY DEF Install, Adding, AddRoute
<1>a. up /\ lock \in Work /\ e \in Engine /\ Knows(e) /\ Types BY <1>0, HeldFacts
<1>b. /\ e.use # NoAddr /\ e.gw # NoGateway /\ ~e.backoff /\ Split \in lock.todo \cup e.routes
      /\ lock.by = Loop
  BY <1>0 DEF IInv, Adds, Holder
<1>1. /\ e' \in Engine /\ e'.routes = e.routes \cup {r} /\ e'.gw = e.gw /\ e'.nat = e.nat
      /\ e'.had = e.had /\ e'.allowed = e.allowed /\ e'.use = e.use /\ e'.phase = e.phase
      /\ e'.backoff = e.backoff
  <2>1. e.routes \cup {r} \in SUBSET Route BY <1>a, EngineFacts
  <2> QED BY <1>0, <1>a, <2>1 DEF Engine
<1>2. /\ lock' \in Work /\ lock' # Unlocked /\ lock'.at = "add" /\ lock'.by = Loop
      /\ lock'.todo = lock.todo \ {r}
  <2>1. lock.todo \ {r} \in SUBSET Route BY <1>0, <1>a, WorkFacts
  <2>2. lock' \in Work BY <1>0, <1>a, <2>1, WorkFacts
  <2>3. lock'.at = "add" /\ lock'.by = Loop /\ lock'.todo = lock.todo \ {r}
    BY <1>0, <1>a, <1>b DEF Work
  <2> QED BY <2>2, <2>3, WorkFacts
<1>3. /\ bypass' \in [Dests -> Gateways \cup {NoGateway}]
      /\ \A d \in Dests : bypass'[d] = IF Pin(d) = r THEN e.gw ELSE bypass[d]
  BY <1>0, <1>a, PinnedFacts, EngineFacts DEF Types
<1>4. Types'
  BY <1>0, <1>1, <1>2, <1>3 DEF peers, IInv, Types, EngineType, CallsType, HostType, PeersType,
                                HistoryType
<1>5. HostRecorded'
  <2>1. Knows(e)' BY <1>0, <1>1, <1>3, <1>a, RouteFacts DEF Knows
  <2>2. Known' BY <1>0, <1>a, <2>1 DEF Known
  <2> QED BY <1>4, <2>2, KnownIs, PTL
<1>6. SplitKnown' /\ SplitGone' /\ FailOpen'
  BY <1>0, <1>1, <1>2, <1>a DEF IInv, SplitKnown, SplitGone, FailOpen, Types, HostType
<1>7. Adds' /\ Gatewayed' /\ PhaseKept'
  BY <1>0, <1>1, <1>2, <1>a, <1>b, EngineFacts DEF IInv, Adds, Gatewayed, PhaseKept
<1>8. Holder' /\ Loops' BY <1>0, <1>2, <1>a, <1>b, ThreadFacts DEF IInv, Holder, Loops
<1>9. NoDefault' /\ DefaultKept'
  BY <1>0, <1>1, <1>2 DEF peers, IInv, NoDefault, DefaultKept, Taken
<1> QED BY <1>4, <1>5, <1>6, <1>7, <1>8, <1>9 DEF IInv

LEMMA ActivatedInv == ASSUME IInv, Activated PROVE IInv'
<1>0. /\ lock # Unlocked /\ lock.at = "add" /\ lock.todo = {} /\ lock' = Unlocked /\ tick' = "end"
      /\ disk' \in {disk, Saved(e')}
      /\ UNCHANGED <<up, call, bypass, split, reject, uplink, peers, net, shaken>>
  BY DEF Activated
<1>a. up /\ lock \in Work /\ e \in Engine /\ Knows(e) /\ Types BY <1>0, HeldFacts
<1>b. e.use # NoAddr /\ ~e.backoff /\ Split \in e.routes /\ lock.by = Loop
  BY <1>0 DEF IInv, Adds, Holder
<1>1. /\ e' \in Engine /\ e'.routes = e.routes /\ e'.gw = e.gw
      /\ e'.had = e.had /\ e'.allowed = e.allowed /\ e'.use = e.use /\ e'.phase = "active"
      /\ e'.backoff = e.backoff
      /\ masq' \in BOOLEAN /\ (masq' => e'.nat \/ Masquerade \in lost') /\ n' \in Counters
      /\ lost' \in {lost, lost \ {Masquerade}}
  <2>1. CASE /\ masq' = TRUE /\ e' = [e EXCEPT !.nat = TRUE, !.phase = "active"] /\ n' = n
             /\ lost' = lost \ {Masquerade}
    BY <1>a, <2>1 DEF Engine, Phases, Types, HistoryType
  <2>2. CASE /\ n' = n \/ (n.faults < MaxFaults /\ Count("faults"))
             /\ e' = [e EXCEPT !.phase = "active"] /\ masq' = masq /\ lost' = lost
    <3>1. n' \in Counters BY <1>a, <2>2, CountType DEF Types, HistoryType
    <3>2. /\ e' \in Engine /\ e'.routes = e.routes /\ e'.gw = e.gw /\ e'.nat = e.nat
          /\ e'.had = e.had /\ e'.allowed = e.allowed /\ e'.use = e.use /\ e'.phase = "active"
          /\ e'.backoff = e.backoff
      BY <1>a, <2>2 DEF Engine, Phases
    <3> QED BY <1>a, <2>2, <3>1, <3>2 DEF Knows, Types, HostType
  <2> QED BY <2>1, <2>2 DEF Activated
<1>2. Types'
  <2>1. disk' \in File BY <1>0, <1>1, SavedFacts DEF IInv, Types, EngineType
  <2> QED BY <1>0, <1>1, <2>1 DEF peers, IInv, Types, EngineType, CallsType, HostType, PeersType,
                                  HistoryType
<1>3. HostRecorded'
  <2>1. Knows(e)' BY <1>0, <1>1, <1>a, RouteFacts DEF Knows
  <2>2. Known' BY <1>0, <1>a, <2>1 DEF Known
  <2> QED BY <1>2, <2>2, KnownIs, PTL
<1>4. SplitKnown' /\ SplitGone' /\ FailOpen' /\ Adds' /\ Holder'
  BY <1>0, <1>1, <1>b, RouteFacts DEF IInv, SplitKnown, SplitGone, FailOpen, Adds, Holder
<1>5. Gatewayed' /\ PhaseKept' BY <1>0, <1>1, <1>b DEF IInv, Gatewayed, PhaseKept
<1>6. Loops' BY <1>0, <1>a DEF Loops
<1>7. NoDefault' /\ DefaultKept'
  BY <1>0, <1>1, <1>b DEF peers, IInv, NoDefault, DefaultKept, Taken
<1> QED BY <1>2, <1>3, <1>4, <1>5, <1>6, <1>7 DEF IInv

\* A panic, after some deletions of the group under way: less is on the host
\* than the engine has recorded.
LEMMA PanicInv == ASSUME IInv, Panic PROVE IInv'
<1>0. /\ lock # Unlocked /\ lock.by = Loop /\ up /\ lock' = Unlocked /\ tick' = "panic"
      /\ shaken' = TRUE /\ UNCHANGED <<up, e, call, disk, uplink, peers, net, lost>>
  BY DEF Panic, IInv, Holder
<1>a. Knows(e) /\ Types BY <1>0, HeldFacts
<1>1. PICK gone \in SUBSET Pending : DelRoutes(gone, e.gw) BY DEF Panic
<1>2. /\ HostType'
      /\ \A d \in Dests : bypass'[d] =
              IF Pin(d) \in gone /\ bypass[d] = e.gw THEN NoGateway ELSE bypass[d]
      /\ split' <=> split /\ Split \notin gone
      /\ reject' <=> reject /\ Reject \notin gone
      /\ masq' <=> masq /\ Masquerade \notin gone
  BY <1>0, <1>1, <1>a, DelFacts DEF Types
<1>3. Types'
  <2>1. n' \in Counters BY <1>a, CountType DEF Panic, Types
  <2> QED BY <1>0, <1>2, <2>1 DEF peers, IInv, Types, EngineType, CallsType,
                            PeersType, HistoryType
<1>4. HostRecorded'
  <2>1. Knows(e)' BY <1>0, <1>2, <1>a DEF Knows
  <2>2. Known' BY <1>0, <2>1 DEF Known
  <2> QED BY <1>3, <2>2, KnownIs, PTL
<1>5. SplitKnown' BY <1>0, <1>2 DEF IInv, SplitKnown
<1>6. SplitGone' /\ Gatewayed' /\ PhaseKept' /\ FailOpen' /\ Holder' /\ Adds'
  BY <1>0 DEF IInv, SplitGone, Gatewayed, PhaseKept, FailOpen, Holder, Adds
<1>7. Loops' BY <1>0 DEF IInv, Loops
<1>8. NoDefault' /\ DefaultKept' BY <1>0 DEF peers, IInv, NoDefault, DefaultKept
<1> QED BY <1>3, <1>4, <1>5, <1>6, <1>7, <1>8 DEF IInv

LEMMA ActivatePanicsInv == ASSUME IInv, ActivatePanics PROVE IInv'
<1>0. /\ CanTick /\ e.use # NoAddr /\ ~e.backoff /\ tick' = "panic" /\ shaken' = TRUE
      /\ UNCHANGED <<up, lock, call, disk, uplink, peers, net>>
  BY DEF ActivatePanics
<1>a. /\ up /\ lock = Unlocked /\ e \in Engine /\ Seen(e) \in Engine /\ Keeps(Seen(e), e)
      /\ Seen(e).use = e.use /\ Seen(e).phase = e.phase /\ Seen(e).backoff = e.backoff
  BY <1>0, PassFacts
<1>b. Types /\ Knows(e) BY <1>a, KnownIs DEF IInv, Known
<1>c. lock' = Unlocked BY <1>0, <1>a
<1>1. PICK forgot \in SUBSET Obsolete(Gateway) :
        /\ \E gone : /\ DelRoutes(gone, e.gw)
                     /\ lost' = lost \cup ((forgot \ gone) \cap OnHost)
        /\ e' = [Seen(e) EXCEPT !.routes = Seen(e).routes \ forgot]
  BY DEF ActivatePanics
<1>2. PICK gone : DelRoutes(gone, e.gw) /\ lost' = lost \cup ((forgot \ gone) \cap OnHost)
  BY <1>1
<1>3. /\ HostType'
      /\ \A d \in Dests : bypass'[d] =
              IF Pin(d) \in gone /\ bypass[d] = e.gw THEN NoGateway ELSE bypass[d]
      /\ split' <=> split /\ Split \notin gone
      /\ reject' <=> reject /\ Reject \notin gone
      /\ masq' <=> masq /\ Masquerade \notin gone
  BY <1>0, <1>2, <1>b, DelFacts DEF Types
<1>4. /\ e' \in Engine /\ e'.routes = e.routes \ forgot /\ e'.gw = e.gw /\ e'.nat = e.nat
      /\ e'.had = e.had /\ e'.allowed = e.allowed /\ e'.use = e.use /\ e'.phase = e.phase
      /\ e'.backoff = e.backoff
  BY <1>1, <1>a DEF Engine, Keeps
<1>5. /\ OnHost \subseteq Route \cup {Masquerade}
      /\ \A d \in Dests : Pin(d) \in OnHost <=> bypass[d] # NoGateway
      /\ Split \in OnHost <=> split
      /\ Reject \in OnHost <=> reject
  BY <1>b, OnHostFacts DEF Types
<1>6. Types'
  <2>1. n' \in Counters BY <1>b, CountType DEF ActivatePanics, Types
  <2>2. lost' \subseteq Route \cup {Masquerade} BY <1>2, <1>5, <1>b DEF Types, HistoryType
  <2> QED BY <1>0, <1>3, <1>4, <2>1, <2>2 DEF peers, IInv, Types, EngineType, CallsType,
                            PeersType, HistoryType
<1>7. Knows(e)'
  <2>1. \A d \in Dests : bypass'[d] # NoGateway =>
          (Pin(d) \in e'.routes /\ bypass'[d] = e'.gw) \/ Pin(d) \in lost'
    BY <1>2, <1>3, <1>4, <1>5, <1>b DEF Knows
  <2>2. /\ split' => Split \in e'.routes \/ Split \in lost'
        /\ reject' => Reject \in e'.routes \/ Reject \in lost'
    BY <1>2, <1>3, <1>4, <1>5, <1>b DEF Knows
  <2>3. masq' => e'.nat \/ Masquerade \in lost'
    BY <1>2, <1>3, <1>4, <1>b DEF Knows
  <2> QED BY <2>1, <2>2, <2>3 DEF Knows
<1>8. HostRecorded'
  <2>1. Known' BY <1>0, <1>a, <1>7 DEF Known
  <2> QED BY <1>6, <2>1, KnownIs, PTL
<1>9. SplitKnown' BY <1>0, <1>7, <1>a DEF SplitKnown, Knows
<1>10. SplitGone' /\ FailOpen' /\ Holder' /\ Adds'
  BY <1>0, <1>c DEF SplitGone, FailOpen, Holder, Adds
<1>11. Gatewayed' /\ PhaseKept'
  BY <1>0, <1>4, <1>a, <1>c DEF IInv, Gatewayed, PhaseKept
<1>12. Loops' BY <1>0, <1>a, <1>c DEF IInv, Loops
<1>13. NoDefault' /\ DefaultKept' BY <1>0, <1>4 DEF peers, IInv, NoDefault, DefaultKept
<1> QED BY <1>6, <1>8, <1>9, <1>10, <1>11, <1>12, <1>13 DEF IInv
-----------------------------------------------------------------------------
(* startExitEngine, stopExitEngine, a crash *)

LEMMA StopInv == ASSUME IInv, Stop PROVE IInv'
<1>0. /\ up /\ tick = "idle" /\ lock = Unlocked /\ \A c \in Callers : call[c] = Idle
      /\ UNCHANGED <<e, tick, call, peers, net, shaken>>
  BY DEF Stop, CanTick
<1>a. e \in Engine /\ n' \in Counters BY CountType DEF Stop, IInv, Types, EngineType
<1>1. CASE Clean
  <2>1. /\ ~up' /\ up' \in BOOLEAN /\ disk' = Saved(e) /\ lock' = lock /\ uplink' = uplink
        /\ DelRoutes({Split}, e.gw) /\ lost' = lost \ {Split}
    BY <1>1 DEF Stop, WithTun
  <2>a. /\ HostType' /\ ~split' /\ (reject' => reject) /\ (masq' => masq)
        /\ \A d \in Dests : bypass'[d] \in {bypass[d], NoGateway}
    <3> DEFINE rs == {Split}
    <3>1. DelRoutes(rs, e.gw) /\ Split \in rs BY <2>1
    <3> HIDE DEF rs
    <3>2. HostType BY DEF IInv, Types
    <3> QED BY <2>1, <3>1, <3>2, DelFacts
  <2>2. Types'
    <3>1. disk' \in File BY <1>a, <2>1, SavedFacts
    <3> QED BY <1>0, <1>a, <2>1, <2>a, <3>1 DEF peers, IInv, Types, EngineType, CallsType,
                                                PeersType, HistoryType
  <2>3. HostRecorded'
    <3>1. Knows(e) BY <1>0, KnownIs DEF IInv, Known
    <3>2. disk'.routes = e.routes /\ disk'.nat = e.nat /\ disk'.gw = e.gw
      BY <1>a, <2>1, SavedFacts
    <3>3. Knows(disk)' BY <2>1, <2>a, <3>1, <3>2, RouteFacts DEF Knows
    <3>4. Known' BY <2>1, <3>3 DEF Known
    <3> QED BY <2>2, <3>4, KnownIs, PTL
  <2>4. SplitKnown' /\ SplitGone' /\ FailOpen' /\ Adds' /\ Holder' /\ PhaseKept'
    BY <1>0, <1>1, <2>1, <2>a
       DEF IInv, SplitKnown, SplitGone, FailOpen, Adds, Holder, PhaseKept, Clean
  <2>5. Gatewayed' BY <1>0, <1>1 DEF Gatewayed, Clean
  <2>6. Loops' BY <1>0, <2>1 DEF Loops
  <2>7. NoDefault' /\ DefaultKept' BY <1>0, <2>1 DEF peers, IInv, NoDefault, DefaultKept
  <2> QED BY <2>2, <2>3, <2>4, <2>5, <2>6, <2>7 DEF IInv
<1>2. CASE ~Clean
  <2>1. Deactivate(Tunnel, "stop", "off") /\ UNCHANGED <<up, disk, host, lost>>
    BY <1>2 DEF Stop
  <2>2. Types'
    <3>1. lock' \in Work BY <2>1, ThreadFacts, WorkType DEF Rest, Phases
    <3> QED BY <1>0, <1>a, <2>1, <3>1 DEF host, peers, IInv, Types, EngineType, CallsType,
                                          HostType, PeersType, HistoryType
  <2>3. /\ HostRecorded' /\ SplitKnown' /\ SplitGone' /\ Adds' /\ Gatewayed'
        /\ NoDefault' /\ DefaultKept' /\ FailOpen'
        /\ lock' # Unlocked /\ lock'.at = "split" /\ lock'.by = Tunnel
        /\ lock'.next = "stop" /\ lock'.phase = "off"
    <3>1. "stop" \in Rest /\ "off" \in Phases BY DEF Rest, Phases
    <3>2. Keeps(e', e) BY <1>0 DEF Keeps
    <3>3. e.routes # {} \/ e.nat \/ e.allowed BY <1>2 DEF Clean
    <3> QED BY <1>0, <2>1, <2>2, <3>1, <3>2, <3>3, Begins, ThreadFacts
            DEF host, peers, Untouched
  <2>4. Holder' BY <1>0, <2>1, <2>3 DEF Holder
  <2>5. Loops' BY <1>0, <2>1, <2>3, ThreadFacts DEF Loops
  <2>6. PhaseKept' BY <1>0, <2>3 DEF IInv, PhaseKept
  <2> QED BY <2>2, <2>3, <2>4, <2>5, <2>6 DEF IInv
<1> QED BY <1>1, <1>2

LEMMA StartInv == ASSUME IInv, Start PROVE IInv'
<1>0. /\ ~up /\ up' = TRUE /\ Forgets(disk.routes \cup Rules(disk.nat), {}, disk.gw)
      /\ e' = Fresh(disk) /\ disk' = Saved(e') /\ owner' = Base
      /\ path' = [k \in Keys |-> "none"] /\ net' = {} /\ shaken' = FALSE
      /\ UNCHANGED <<lock, tick, call, uplink, listed, offers>>
  BY DEF Start, Stale
<1>a. Types /\ disk \in File /\ Knows(disk) BY <1>0, KnownIs DEF IInv, Types, EngineType, Known
<1>b. lock = Unlocked /\ tick = "idle" /\ ~split BY <1>0 DEF IInv, Holder, Loops, SplitKnown
<1>1. /\ e' \in Engine /\ e'.routes = {} /\ e'.nat = FALSE /\ e'.had = FALSE
      /\ e'.allowed = FALSE /\ e'.backoff = FALSE /\ e'.phase # "active"
  BY <1>0, <1>a, FreshFacts
<1>2. /\ HostType' /\ n' \in Counters /\ lost' \subseteq Route \cup {Masquerade}
      /\ \A d \in Dests : bypass'[d] # NoGateway => Pin(d) \in lost'
      /\ ~split'
      /\ reject' => Reject \in lost'
      /\ masq' => Masquerade \in lost'
  <2> DEFINE rs == disk.routes \cup Rules(disk.nat)
             no == {}
             t == {}
  <2>1. disk.routes \ rs \subseteq t OBVIOUS
  <2>2. Forgets(rs, no, disk.gw) /\ no \subseteq {Split} BY <1>0
  <2>3. disk.nat => Masquerade \in rs BY DEF Rules
  <2>4. t = {} OBVIOUS
  <2> HIDE DEF rs, no, t
  <2>5. /\ HostType' /\ n' \in Counters /\ lost' \subseteq Route \cup {Masquerade}
        /\ \A d \in Dests : bypass'[d] # NoGateway =>
             (Pin(d) \in t /\ bypass'[d] = disk.gw) \/ Pin(d) \in lost'
        /\ split' => Split \in t \/ Split \in lost'
        /\ reject' => Reject \in t \/ Reject \in lost'
        /\ masq' => (disk.nat /\ Masquerade \notin rs) \/ Masquerade \in lost'
        /\ split' => split /\ Split \notin no
    BY <1>0, <1>a, <2>1, <2>2, Deletes
  <2> QED BY <1>b, <2>3, <2>4, <2>5
<1>3. Types'
  <2>1. disk' \in File BY <1>0, <1>1, SavedFacts
  <2>2. PeersType' BY <1>0, <1>a DEF Types, PeersType, Base
  <2> QED BY <1>0, <1>1, <1>2, <1>a, <2>1, <2>2 DEF Types, EngineType, CallsType, HistoryType
<1>4. HostRecorded'
  <2>1. Knows(e)' BY <1>0, <1>2 DEF Knows
  <2>2. Known' BY <1>0, <2>1 DEF Known
  <2> QED BY <1>3, <2>2, KnownIs, PTL
<1>5. SplitKnown' BY <1>1, <1>2 DEF SplitKnown
<1>6. SplitGone' /\ FailOpen' /\ Adds' /\ Holder' /\ PhaseKept' /\ Gatewayed'
  BY <1>0, <1>1, <1>b DEF SplitGone, FailOpen, Adds, Holder, PhaseKept, Gatewayed
<1>7. Loops' BY <1>0, <1>b DEF Loops
<1>8. NoDefault' /\ DefaultKept'
  BY <1>0, <1>1, <1>b, ClientAssumption DEF NoDefault, DefaultKept, Nothing, Base
<1> QED BY <1>3, <1>4, <1>5, <1>6, <1>7, <1>8 DEF IInv

LEMMA CrashInv == ASSUME IInv, Crash PROVE IInv'
<1>0. /\ up' = FALSE /\ e' = Fresh(NoFile) /\ lock' = Unlocked /\ tick' = "idle"
      /\ call' = [c \in Callers |-> Idle]
      /\ lost' = {r \in OnHost' : ~Recorded(r, disk)} /\ shaken' = FALSE
      /\ UNCHANGED <<disk, uplink, peers, net>>
  BY DEF Crash
<1>a. /\ HostType' /\ ~split'
      /\ \A d \in Dests : bypass'[d] \in {bypass[d], NoGateway}
  <2>1. PICK rs : DelRoutes(rs, e.gw) /\ Split \in rs BY DEF Crash
  <2>2. HostType BY DEF IInv, Types
  <2> QED BY <1>0, <2>1, <2>2, DelFacts
<1>b. /\ OnHost' \subseteq Route \cup {Masquerade}
      /\ \A d \in Dests : Pin(d) \in OnHost' <=> bypass'[d] # NoGateway
      /\ \A r \in OnHost' : r \in {Split, Reject, Masquerade} \/ \E d \in Dests : r = Pin(d)
  <2>1. HostType' BY <1>a
  <2>2. Parts' BY <2>1, OnHostParts, PTL
  <2> QED BY <2>2 DEF Parts
<1>1. /\ e' \in Engine /\ e'.routes = {} /\ e'.nat = FALSE /\ e'.had = FALSE
      /\ e'.allowed = FALSE /\ e'.backoff = FALSE /\ e'.phase # "active"
  <2>1. NoFile \in File BY DEF NoFile, File
  <2> QED BY <1>0, <2>1, FreshFacts
<1>2. Types'
  <2>1. n' \in Counters BY CountType DEF Crash, IInv, Types
  <2>2. lost' \subseteq Route \cup {Masquerade} BY <1>0, <1>b
  <2>3. CallsType' BY <1>0, IdleFacts DEF CallsType
  <2> QED BY <1>0, <1>1, <1>a, <2>1, <2>2, <2>3
          DEF peers, IInv, Types, EngineType, PeersType, HistoryType
<1>3. HostRecorded'
  <2>1. ASSUME NEW r \in OnHost', Recorded(r, disk) PROVE Recorded(r, disk)'
    <3>1. CASE r \in {Split, Reject, Masquerade}
      BY <1>0, <2>1, <3>1, RouteFacts DEF Recorded
    <3>2. ASSUME NEW d \in Dests, r = Pin(d) PROVE Recorded(r, disk)'
      BY <1>0, <1>a, <1>b, <2>1, <3>2, RouteFacts DEF Recorded
    <3> QED BY <1>b, <3>1, <3>2
  <2>2. \A r \in OnHost' : Recorded(r, disk)' \/ r \in lost' BY <1>0, <2>1
  <2> QED BY <1>0, <2>2 DEF HostRecorded
<1>4. SplitKnown' BY <1>1, <1>a DEF SplitKnown
<1>5. SplitGone' /\ FailOpen' /\ Adds' /\ Holder' /\ PhaseKept' /\ Gatewayed' /\ Loops'
  BY <1>0, <1>1 DEF SplitGone, FailOpen, Adds, Holder, PhaseKept, Gatewayed, Loops
<1>6. NoDefault' /\ DefaultKept' BY <1>0, <1>1 DEF peers, IInv, NoDefault, DefaultKept
<1> QED BY <1>2, <1>3, <1>4, <1>5, <1>6 DEF IInv
-----------------------------------------------------------------------------
LEMMA InitInv == Init => IInv
<1> SUFFICES ASSUME Init PROVE IInv
  OBVIOUS
<1>1. /\ e \in Engine /\ e.routes = {} /\ e.nat = FALSE /\ e.had = FALSE
      /\ e.allowed = FALSE /\ e.backoff = FALSE /\ e.phase # "active" /\ disk \in File
  <2>1. NoFile \in File BY DEF NoFile, File
  <2> QED BY <2>1, FreshFacts DEF Init
<1>2. Types
  <2>1. EngineType /\ CallsType BY <1>1, IdleFacts DEF Init, EngineType, CallsType
  <2>2. HostType BY DEF Init, HostType
  <2>3. PeersType BY DEF Init, PeersType, Base
  <2>4. HistoryType
    <3>1. 0 \in 0 .. MaxCalls /\ 0 \in 0 .. MaxFaults /\ 0 \in 0 .. MaxEvents
      BY ClientAssumption
    <3> QED BY <3>1 DEF Init, HistoryType, Counters
  <2> QED BY <2>1, <2>2, <2>3, <2>4 DEF Types
<1>3. HostRecorded
  <2>1. Knows(disk) BY DEF Init, Knows
  <2>2. Known BY <2>1 DEF Init, Known
  <2> QED BY <1>2, <2>2, KnownIs
<1>4. SplitKnown BY <1>1 DEF Init, SplitKnown
<1>5. SplitGone /\ FailOpen /\ Adds /\ Holder /\ PhaseKept /\ Gatewayed /\ Loops
  BY <1>1 DEF Init, SplitGone, FailOpen, Adds, Holder, PhaseKept, Gatewayed, Loops
<1>6. NoDefault /\ DefaultKept
  BY <1>1, ClientAssumption DEF Init, NoDefault, DefaultKept, Base
<1> QED BY <1>2, <1>3, <1>4, <1>5, <1>6 DEF IInv

LEMMA NextInv == ASSUME IInv, [Next]_vars PROVE IInv'
<1>1. CASE Tick
  BY <1>1, ReconcileUnusedInv, ReconcileStandbyInv, ReconcileBackoffInv, ActivateInv DEF Tick
<1>2. CASE Held
  BY <1>2, DropSplitInv, TakeBackInv, DropRestInv, DropNATInv, ActivatedInv, InstallInv DEF Held
<1>3. CASE BackoffEnds \/ Panic \/ ActivatePanics \/ RecordTickPanic \/ QueryDirectPeers
  BY <1>3, BackoffEndsInv, PanicInv, ActivatePanicsInv, RecordTickPanicInv, QueryInv
<1>4. CASE TickEnds
  <2>1. net' \subseteq Message BY <1>4 DEF TickEnds, IInv, Types, PeersType
  <2> QED BY <1>4, <2>1, TickEndsInv DEF TickEnds
<1>5. CASE \E r \in Route : InstallFails(r)
  BY <1>5, InstallFailsInv
<1>6. ASSUME NEW c \in Callers,
             Calls(c) \/ ClearExitNode(c) \/ \E a \in Addrs : UseExitNode(c, a)
      PROVE  IInv'
  BY <1>6, UseInv, WaitInv, ClearExitNodeInv, UseExitNodeInv DEF Calls
<1>7. CASE Start \/ Stop \/ Crash
  BY <1>7, StartInv, StopInv, CrashInv
<1>8. ASSUME NEW m \in net, HandleRequest(m) \/ HandleStatus(m) \/ Lose(m) PROVE IInv'
  BY <1>8, HandleRequestInv, HandleStatusInv, LoseInv
<1>9. ASSUME NEW k \in Keys,
             \/ AnnounceOffer(k) \/ Connects(k)
             \/ \E p \in {"none", "stale", "live"} : PathChanges(k, p)
             \/ \E a \in Addrs : ListChanges(a, k)
      PROVE  IInv'
  BY <1>9, AnnounceOfferInv, ConnectsInv, PathChangesInv, ListChangesInv
<1>10. CASE \E a \in Addrs : ListChanges(a, NoKey)
  BY <1>10, ListChangesInv
<1>11. CASE \E g \in Gateways \cup {NoGateway} : UplinkChanges(g)
  BY <1>11, UplinkChangesInv
<1>12. CASE UNCHANGED vars
  <2>1. Types'
    BY <1>12 DEF vars, host, peers, IInv, Types, EngineType, CallsType, HostType, PeersType,
                 HistoryType
  <2> QED BY <1>12, <2>1, NetworkInv DEF vars, peers
<1> QED BY <1>1, <1>2, <1>3, <1>4, <1>5, <1>6, <1>7, <1>8, <1>9, <1>10, <1>11, <1>12 DEF Next

LEMMA Invariance == Spec => []IInv
BY InitInv, NextInv, PTL DEF Spec

LEMMA TypeParts == Types => TypeOK
BY DEF Types, EngineType, CallsType, HostType, PeersType, HistoryType, TypeOK

LEMMA DefaultIs == IInv => DefaultReturned
BY EngineFacts DEF IInv, DefaultKept, Nothing, DefaultReturned

\* Type correctness of the engine, the lock, the host and the messages.
THEOREM TypeCorrect == Spec => []TypeOK
<1>1. IInv => TypeOK BY TypeParts DEF IInv
<1> QED BY <1>1, Invariance, PTL

\* Whatever fails, panics or crashes, and wherever: a route or rule of an exit
\* that is on the host is one the engine, or without an engine the state file,
\* can remove, with the gateway it was pinned to; or a crash that came before
\* the save, or a deletion that failed, left it.
THEOREM HostKnown == Spec => []HostRecorded
<1>1. IInv => HostRecorded BY DEF IInv
<1> QED BY <1>1, Invariance, PTL

\* A pass of the loop that does not report "active" leaves no split default on
\* the host but one whose deletion failed, whatever else failed or panicked; one
\* that reports "active" leaves it there, until a tick panics.
THEOREM FailsOpen == Spec => []FailOpen
<1>1. IInv => FailOpen BY DEF IInv
<1> QED BY <1>1, Invariance, PTL

\* Until a tick panics, 0.0.0.0/0 is back with the peer that had it whenever
\* nothing of an exit is left in the engine.
THEOREM DefaultGoesBack == Spec => []DefaultReturned
BY DefaultIs, Invariance, PTL

LEMMA SplitFirst ==
  ASSUME IInv, [Next]_vars
  PROVE  [Astray' /\ owner \in Keys /\ Split \notin lost => UNCHANGED <<e, lock>>]_vars
<1> SUFFICES ASSUME Next, split', owner' \notin Keys, owner \in Keys, Split \notin lost
             PROVE  UNCHANGED <<e, lock>>
  BY DEF Astray, vars, host, peers
<1>1. CASE owner' = owner
  BY <1>1
<1>2. CASE TakeBack
  BY <1>2 DEF TakeBack, host, IInv, SplitKnown, SplitGone
<1>3. CASE Start
  <2>1. ~split
    BY <1>3 DEF Start, IInv, SplitKnown
  <2>2. split' = split \/ ~split'
    BY <1>3, <2>1 DEF Start, Forgets, DelRoutes
  <2> QED BY <2>1, <2>2
<1>4. CASE Activate
  BY <1>4, PassFacts DEF Activate, Asserted
<1>5. ASSUME NEW k \in Keys, NEW p, PathChanges(k, p) PROVE UNCHANGED <<e, lock>>
  BY <1>5 DEF PathChanges
<1>6. ASSUME ~TakeBack, ~Start, ~Activate,
             \A k \in Keys, p \in {"none", "stale", "live"} : ~PathChanges(k, p)
      PROVE  owner' = owner
  BY <1>6, ZenonT(60) DEF Next, Tick, ReconcileUnused, ReconcileStandby, ReconcileBackoff, ActivateFails,
              Held, DropSplit, DropRest, DropNAT, Activated, Install, BackoffEnds, TickEnds,
              QueryDirectPeers, Panic, ActivatePanics, RecordTickPanic, InstallFails, Calls, Use, Wait,
              WaitClears, Clear, ClearExitNode, UseExitNode, Stop, Crash, HandleRequest,
              HandleStatus, Lose, AnnounceOffer, Connects, ListChanges, UplinkChanges, peers
<1> QED BY <1>1, <1>2, <1>3, <1>4, <1>5, <1>6

\* No step of the engine, a start included, leads traffic astray: 0.0.0.0/0 is
\* taken from an exit only after the split default is gone, or its deletion failed.
THEOREM SplitFirstHolds == Spec => SplitGoesFirst
BY Invariance, SplitFirst, PTL DEF Spec, SplitGoesFirst
=============================================================================

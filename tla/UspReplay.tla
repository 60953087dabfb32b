----------------------------- MODULE UspReplay -----------------------------
(***************************************************************************)
(* The replay window of the USP agent (beginControlReplay,                 *)
(* completeControlReplay, abortControlReplay in agent/usp.go) and the      *)
(* handlers around it: every request is handled in a goroutine of its own, *)
(* and a repeated request waits for the first one or is answered from the  *)
(* frames that were kept.                                                  *)
(*                                                                         *)
(* The controller is external.  As wusp/read_replay.go describes it, it    *)
(* repeats a request with the same identity, lists the fragments it misses *)
(* once it holds some of a read, and gives the identity up after a miss.   *)
(*                                                                         *)
(* An execution is numbered when it begins; the number stands for the      *)
(* entry of the table, its `ready' channel and the content of its reply.   *)
(* The reply of an execution that exceeds its deadline is an error, kept   *)
(* and sent like any other.                                                *)
(***************************************************************************)
EXTENDS Naturals, FiniteSets, Functions

CONSTANTS
  Ids,          \* identities: peer, request ID and sequence
  Reads,        \* those whose method is Get or GetInstances
  Data,         \* request contents, as their fingerprint tells them apart
  Handlers,     \* goroutines of handleFrameFromPeer
  Sizes,        \* sizes of encoded replies
  Parts,        \* fragments of a reply
  NoEntry, NoPart, NoAsk,
  MaxEntries,   \* wuspControlReplayMaxEntries
  MaxBytes,     \* wuspReadReplayMaxBytes
  MaxReply,     \* wuspReadReplayMaxReply
  ReadTTL,      \* wuspReadReplayTTL
  ControlTTL,   \* wuspControlReplayTTL
  Deadline,     \* of a request's context
  MaxRuns,      \* bound: executions
  MaxRequests,  \* bound: requests sent
  MaxFaults,    \* bound: replies that cannot be encoded, restarts of the controller
  MaxTime       \* bound: the clock

ASSUME ReplayAssumption ==
  /\ Reads \subseteq Ids /\ Ids # {} /\ Data # {}
  /\ NoEntry \notin [fp : Data, run : Nat, kept : BOOLEAN, bytes : Nat, expires : Nat]
  /\ NoPart \notin Parts
  /\ Sizes \subseteq Nat
  /\ MaxEntries \in Nat \ {0} /\ MaxBytes \in Nat /\ MaxReply \in Nat /\ MaxReply <= MaxBytes
  /\ ReadTTL \in Nat /\ ControlTTL \in Nat /\ Deadline \in Nat /\ Deadline <= ControlTTL
  /\ MaxRuns \in Nat /\ MaxRequests \in Nat /\ MaxFaults \in Nat /\ MaxTime \in Nat

VARIABLES
  clock,
  table,    \* controlReplay
  runs,     \* executions begun
  hand,     \* the handlers
  asks,     \* requests under way
  frames,   \* fragments of replies under way
  got,      \* controller: the fragments it holds, for each identity
  done,     \* controller: identities it has given up
  word,     \* controller: what it asks for
  hasty,    \* history: identities repeated while something of them was under way
  last,     \* history: the last execution of each identity
  answers,  \* history: the replies given
  n         \* the bounded counters

server == <<clock, table, runs, hand, last, answers>>
controller == <<got, done, word, hasty, n>>
vars == <<server, controller, asks, frames>>

Runs == 1 .. MaxRuns
NoRun == 0

\* uspControlReplayEntry; its frames are set when `kept' holds.
Entry == [fp : Data, run : Runs, kept : BOOLEAN, bytes : Nat, expires : Nat]

\* `part' is the list of fragments asked for; empty means the whole reply.
Ask == [id : Ids, fp : Data, part : SUBSET Parts]

\* A handler carries an execution out ("run") or waits for one ("wait").
Handler == [pc : {"idle", "run", "wait"}, ask : Ask \cup {NoAsk}, run : Runs \cup {NoRun}, until : Nat]

\* A fragment of a reply, or (run = NoRun) an error or a miss.
Frame == [id : Ids, run : Runs \cup {NoRun}, part : Parts \cup {NoPart}]

Free == [pc |-> "idle", ask |-> NoAsk, run |-> NoRun, until |-> 0]
Idle(h) == hand[h].pc = "idle"

Init ==
  /\ clock = 0
  /\ table = [i \in Ids |-> NoEntry]
  /\ runs = 0
  /\ hand = [h \in Handlers |-> Free]
  /\ asks = {} /\ frames = {}
  /\ got = [i \in Ids |-> {}] /\ done = {} /\ hasty = {}
  /\ word \in Data
  /\ last = [i \in Ids |-> NoRun] /\ answers = {}
  /\ n = [requests |-> 0, faults |-> 0]

\* No handler outlives its context: the select ends it at the deadline.
Tick ==
  /\ clock < MaxTime
  /\ \A h \in Handlers : ~Idle(h) => clock < hand[h].until
  /\ clock' = clock + 1
  /\ UNCHANGED <<table, runs, hand, last, answers, controller, asks, frames>>
-----------------------------------------------------------------------------
(* The table *)

Live(t) == {i \in Ids : t[i] # NoEntry}
KeptIn(t) == {i \in Live(t) : t[i].kept}
Del(t, S) == [i \in Ids |-> IF i \in S THEN NoEntry ELSE t[i]]
Oldest(t, S) == {i \in S : \A j \in S : t[i].expires <= t[j].expires}

\* Every request begins by removing what has expired.
Expired(i) == clock > table[i].expires

Pruned == Del(table, {i \in Live(table) : Expired(i)})

\* Mutant: an execution under way may be evicted.
EvictableAny(t) == Live(t)

Evictable(t) == KeptIn(t)

Full(t) == Cardinality(Live(t)) >= MaxEntries

\* What beginControlReplay removes to make room for an entry.
Evicted(t) ==
  IF Full(t) THEN {{i} : i \in Oldest(t, Evictable(t))} ELSE {{}}

Bytes(t) == SumFunctionOnSet([i \in KeptIn(t) |-> t[i].bytes], KeptIn(t) \cap Reads)

\* Mutant: nothing is trimmed.
TrimmedNever(t, keep) == {{}}

\* trimReadReplayLocked: the oldest reads other than `keep' go, one by one,
\* until the rest fits or none is left.
Trimmed(t, keep) ==
  LET old == (KeptIn(t) \cap Reads) \ {keep}
      Over(R) == Bytes(Del(t, R)) > MaxBytes
  IN {R \in SUBSET old :
        /\ \A j \in R, k \in old \ R : t[j].expires <= t[k].expires
        /\ ~Over(R) \/ R = old
        /\ R # {} => \E j \in R : /\ \A k \in R : t[k].expires <= t[j].expires
                                /\ Over(R \ {j})}
-----------------------------------------------------------------------------
(* The handlers *)

\* Mutant: fragments are counted from zero.
WholeFromZero(i, r) == {[id |-> i, run |-> r, part |-> p - 1] : p \in Parts}

\* The fragments of a reply.
Whole(i, r) == {[id |-> i, run |-> r, part |-> p] : p \in Parts}

\* selectControlFrames
Selected(a, r) ==
  {f \in Whole(a.id, r) : a.part # {} => f.part \in a.part}

Refusal(a) == [id |-> a.id, run |-> NoRun, part |-> NoPart]

\* sendControlFrames; the network loses any of them.  A request that is lost
\* leaves no trace and is not modelled.
Send(F) == \E G \in SUBSET F : frames' = frames \cup G

\* The request reaches beginControlReplay, which prunes first.
Arrives(h, a) == Idle(h) /\ a \in asks /\ asks' = asks \ {a}

Refused(a, t) ==
  /\ table' = t
  /\ Send({Refusal(a)})
  /\ UNCHANGED <<clock, runs, hand, last, answers, controller>>

\* The identity was used for something else.
Mismatch(h, a) ==
  /\ Arrives(h, a)
  /\ Pruned[a.id] # NoEntry /\ Pruned[a.id].fp # a.fp
  /\ Refused(a, Pruned)

\* The identity is known: wait for its execution, which may be over already.
Join(h, a) ==
  /\ Arrives(h, a)
  /\ Pruned[a.id] # NoEntry /\ Pruned[a.id].fp = a.fp
  /\ table' = Pruned
  /\ hand' = [hand EXCEPT ![h] = [pc |-> "wait", ask |-> a, run |-> Pruned[a.id].run,
                                  until |-> clock + Deadline]]
  /\ UNCHANGED <<clock, runs, last, answers, frames, controller>>

\* Mutant: a resend is carried out like a first request.
NeverMiss(a) == FALSE

\* The rest of a reply that is not kept is refused.
Resend(a) == a.part # {} /\ a.id \in Reads

Miss(h, a) ==
  /\ Arrives(h, a)
  /\ Pruned[a.id] = NoEntry
  /\ Resend(a) \/ Evicted(Pruned) = {}
  /\ Refused(a, Pruned)

\* The request is carried out: HandleRequest runs in a goroutine of its own.
Begin(h, a) ==
  /\ Arrives(h, a)
  /\ runs < MaxRuns
  /\ Pruned[a.id] = NoEntry
  /\ ~Resend(a)
  /\ runs' = runs + 1
  /\ \E S \in Evicted(Pruned) :
       table' = [Del(Pruned, S) EXCEPT
                   ![a.id] = [fp |-> a.fp, run |-> runs', kept |-> FALSE, bytes |-> 0,
                              expires |-> clock + ControlTTL]]
  /\ hand' = [hand EXCEPT ![h] = [pc |-> "run", ask |-> a, run |-> runs',
                                  until |-> clock + Deadline]]
  /\ last' = [last EXCEPT ![a.id] = runs']
  /\ UNCHANGED <<clock, answers, frames, controller>>

\* The handler's own entry, as completeControlReplay and abortControlReplay find it.
Own(h) ==
  LET a == hand[h].ask IN
    table[a.id] # NoEntry /\ table[a.id].fp = a.fp /\ ~table[a.id].kept

TTL(i) == IF i \in Reads THEN ReadTTL ELSE ControlTTL

Keep(i, s) ==
  [table EXCEPT ![i] = [fp |-> @.fp, run |-> @.run, kept |-> TRUE, bytes |-> s,
                        expires |-> clock + TTL(i)]]

TooLarge(i, s) == i \in Reads /\ s > MaxReply

\* Tables completeControlReplay may leave.
Completed(h, s) ==
  LET i == hand[h].ask.id IN
    IF ~Own(h) THEN {table}
    ELSE IF TooLarge(i, s) THEN {Del(table, {i})}
    ELSE {Del(Keep(i, s), R) : R \in IF i \in Reads THEN Trimmed(Keep(i, s), i) ELSE {{}}}

\* HandleRequest has answered, or the context has ended; the reply is kept and sent.
Complete(h, s) ==
  /\ hand[h].pc = "run"
  /\ table' \in Completed(h, s)
  /\ hand' = [hand EXCEPT ![h] = Free]
  /\ Send(Whole(hand[h].ask.id, hand[h].run))
  /\ answers' = answers \cup {<<hand[h].ask.id, hand[h].run>>}
  /\ UNCHANGED <<clock, runs, last, asks, controller>>

\* The reply cannot be encoded or cut into fragments; nothing is sent.
Abort(h) ==
  /\ hand[h].pc = "run"
  /\ n.faults < MaxFaults
  /\ n' = [n EXCEPT !.faults = @ + 1]
  /\ table' = IF Own(h) THEN Del(table, {hand[h].ask.id}) ELSE table
  /\ hand' = [hand EXCEPT ![h] = Free]
  /\ UNCHANGED <<clock, runs, last, answers, asks, frames, got, done, word, hasty>>

\* An execution is under way until its handler has closed `ready'.
UnderWay(r) == \E h \in Handlers : hand[h].pc = "run" /\ hand[h].run = r

\* Mutant: a waiter takes whatever entry it finds.
ReplayableAny(i) == table[i] # NoEntry

Replayable(i) == table[i] # NoEntry /\ table[i].kept

\* `ready' is closed: the table is read again, by identity.
Wake(h) ==
  LET a == hand[h].ask IN
  /\ hand[h].pc = "wait"
  /\ ~UnderWay(hand[h].run)
  /\ hand' = [hand EXCEPT ![h] = Free]
  /\ IF Replayable(a.id)
     THEN /\ Send(Selected(a, table[a.id].run))
          /\ answers' = answers \cup {<<a.id, table[a.id].run>>}
     ELSE /\ Send({Refusal(a)})
          /\ UNCHANGED answers
  /\ UNCHANGED <<clock, table, runs, last, asks, controller>>

\* The waiter's own context ends first.
GiveUpWaiting(h) ==
  /\ hand[h].pc = "wait"
  /\ clock = hand[h].until
  /\ hand' = [hand EXCEPT ![h] = Free]
  /\ Send({Refusal(hand[h].ask)})
  /\ UNCHANGED <<clock, table, runs, last, answers, asks, controller>>
-----------------------------------------------------------------------------
(* The controller *)

\* Something of identity i is under way.
Moving(i) ==
  \/ \E a \in asks : a.id = i
  \/ \E f \in frames : f.id = i
  \/ \E h \in Handlers : ~Idle(h) /\ hand[h].ask.id = i

Missing(i) == Parts \ {f.part : f \in got[i]}

\* A request is sent for the first time or repeated.
Request(i) ==
  /\ n.requests < MaxRequests
  /\ i \notin done /\ Missing(i) # {}
  /\ n' = [n EXCEPT !.requests = @ + 1]
  /\ asks' = asks \cup {[id |-> i, fp |-> word,
                         part |-> IF i \in Reads /\ got[i] # {} THEN Missing(i) ELSE {}]}
  /\ hasty' = IF Moving(i) THEN hasty \cup {i} ELSE hasty
  /\ UNCHANGED <<server, frames, got, done, word>>

Deliver(f) ==
  /\ f \in frames
  /\ frames' = frames \ {f}
  /\ IF f.run = NoRun
     THEN got' = [got EXCEPT ![f.id] = {}] /\ done' = done \cup {f.id}
     ELSE /\ got' = IF f.part \in Missing(f.id) THEN [got EXCEPT ![f.id] = @ \cup {f}] ELSE got
          /\ UNCHANGED done
  /\ UNCHANGED <<server, asks, word, hasty, n>>

\* A controller that starts again uses its identities for other requests.
Restart(d) ==
  /\ n.faults < MaxFaults /\ d # word
  /\ n' = [n EXCEPT !.faults = @ + 1]
  /\ word' = d
  /\ got' = [i \in Ids |-> {}] /\ done' = {}
  /\ hasty' = hasty \cup {i \in Ids : Moving(i)}
  /\ UNCHANGED <<server, asks, frames>>
-----------------------------------------------------------------------------
Handle(h) ==
  \/ \E a \in asks : Mismatch(h, a) \/ Join(h, a) \/ Miss(h, a) \/ Begin(h, a)
  \/ \E s \in Sizes : Complete(h, s)
  \/ Abort(h) \/ Wake(h) \/ GiveUpWaiting(h)

Next ==
  \/ Tick
  \/ \E h \in Handlers : Handle(h)
  \/ \E i \in Ids : Request(i)
  \/ \E f \in frames : Deliver(f)
  \/ \E d \in Data : Restart(d)

Spec == Init /\ [][Next]_vars
-----------------------------------------------------------------------------
(* Properties *)

(* Types of the table, the handlers, the messages under way and what the      *)
(* controller holds; only fragments of a reply that exist are ever sent.      *)
TypeOK ==
  /\ clock \in Nat /\ runs \in 0 .. MaxRuns
  /\ table \in [Ids -> Entry \cup {NoEntry}]
  /\ hand \in [Handlers -> Handler]
  /\ asks \subseteq Ask /\ frames \subseteq Frame
  /\ got \in [Ids -> SUBSET Frame] /\ done \subseteq Ids /\ hasty \subseteq Ids
  /\ word \in Data
  /\ last \in [Ids -> 0 .. MaxRuns] /\ answers \subseteq Ids \X Runs
  /\ n \in [requests : 0 .. MaxRequests, faults : 0 .. MaxFaults]

\* An execution under way keeps its entry until it ends: it is not evicted for
\* another request, does not expire and is not replaced, so nobody carries the
\* same identity out a second time beside it and its reply is kept or its
\* waiters are released.
OpenKept ==
  \A h \in Handlers :
    hand[h].pc = "run" =>
      Own(h) /\ table[hand[h].ask.id].run = hand[h].run

\* The table stays within its limits, and so do the read replies it keeps.
Bounded ==
  /\ Cardinality(Live(table)) <= MaxEntries
  /\ Bytes(table) <= MaxBytes

\* A controller that repeats a request only when nothing of it is under way any
\* more never completes a read from fragments of two executions, although
\* replies are dropped, expire and are asked for in parts.
Unmixed ==
  \A i \in Reads \ hasty : \A f, g \in got[i] : f.run = g.run

\* The replay window implements what AnswerOnce promises.
Abs == INSTANCE AnswerOnce WITH
  memo <- [i \in Ids |-> IF table[i] = NoEntry THEN "new"
                         ELSE IF table[i].kept THEN "kept" ELSE "open"],
  count <- runs

AnswersOnce == Abs!Spec
-----------------------------------------------------------------------------
(* What the comments of the code say and the code does not do *)

\* "never let it be mixed with the old fragments" (usp.go:470): a request
\* repeated while the reply is on its way is carried out again when the reply
\* was too large to keep, and the fragments of both replies meet.
NeverMixed ==
  \A i \in Reads : \A f, g \in got[i] : f.run = g.run

\* "request identity was reused with different action data" (usp.go:445) is
\* refused, but a waiter reads the table again without comparing fingerprints.
SameWords ==
  \A h \in Handlers :
    hand[h].pc = "wait" /\ ~UnderWay(hand[h].run) =>
      LET e == table[hand[h].ask.id] IN
        e # NoEntry => (e.kept => e.fp = hand[h].ask.fp)
=============================================================================

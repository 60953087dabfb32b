-------------------------- MODULE UspReplayProofs --------------------------
(***************************************************************************)
(* The replay window implements AnswerOnce, for every number of            *)
(* identities, handlers and fragments and every size, limit and lifetime   *)
(* the assumptions allow.                                                  *)
(*                                                                         *)
(* OpenKept is not inductive: an entry could expire under its handler, a   *)
(* second handler could end the execution of the first, and a reply could  *)
(* be kept for an older execution.  Owned adds that an entry outlives the  *)
(* deadline of its handler, Alone that an identity has one handler, Served *)
(* that an open entry has one, and Latest that entries are of the last     *)
(* execution.                                                              *)
(*                                                                         *)
(* Unmixed needs Orderly besides: for a controller that waits for what is  *)
(* under way, a read has one request, one handler or one answer at a time, *)
(* and all that is held or under way is of the last execution.             *)
(*                                                                         *)
(* Bounded is inductive once the table is known to be finite (Within).     *)
(* Its bytes are a sum over the kept reads, and the facts about sums are   *)
(* those of Sums.                                                          *)
(***************************************************************************)
EXTENDS UspReplay, Sums

\* A handler that is not idle holds a request.
Active == \A h \in Handlers : ~Idle(h) => hand[h].ask \in Ask

\* A handler that carries an execution out has its entry, which outlives it.
Owned ==
  \A h \in Handlers : hand[h].pc = "run" =>
    /\ table[hand[h].ask.id] # NoEntry
    /\ table[hand[h].ask.id].fp = hand[h].ask.fp
    /\ ~table[hand[h].ask.id].kept
    /\ table[hand[h].ask.id].run = hand[h].run
    /\ clock <= hand[h].until
    /\ hand[h].until <= table[hand[h].ask.id].expires

\* No identity is carried out by two handlers.
Alone ==
  \A g, h \in Handlers :
    hand[g].pc = "run" /\ hand[h].pc = "run" /\ hand[g].ask.id = hand[h].ask.id => g = h

\* An entry without a reply belongs to a handler.
Served ==
  \A i \in Ids : table[i] # NoEntry /\ ~table[i].kept =>
    \E h \in Handlers : hand[h].pc = "run" /\ hand[h].ask.id = i

\* An entry belongs to the last execution of its identity.
Latest == \A i \in Ids : table[i] # NoEntry => table[i].run = last[i]

IInv == TypeOK /\ Active /\ Owned /\ Alone /\ Served /\ Latest
-----------------------------------------------------------------------------
LEMMA EntryFacts ==
  ASSUME NEW e \in Entry
  PROVE  /\ e # NoEntry
         /\ e.fp \in Data /\ e.run \in Runs /\ e.kept \in BOOLEAN
         /\ e.bytes \in Nat /\ e.expires \in Nat
BY ReplayAssumption DEF Entry, Runs

\* Removing entries leaves a table.
LEMMA DelType ==
  ASSUME NEW t \in [Ids -> Entry \cup {NoEntry}], NEW S
  PROVE  /\ Del(t, S) \in [Ids -> Entry \cup {NoEntry}]
         /\ \A i \in Ids : Del(t, S)[i] = IF i \in S THEN NoEntry ELSE t[i]
BY DEF Del

\* What expires has been answered: an execution's entry outlives its handler.
LEMMA ExpiredKept ==
  ASSUME IInv, NEW i \in Live(table), Expired(i)
  PROVE  i \in Ids /\ table[i] # NoEntry /\ table[i].kept
<1>1. i \in Ids /\ table[i] \in Entry /\ table[i] # NoEntry
  BY DEF Live, IInv, TypeOK
<1>2. SUFFICES ASSUME ~table[i].kept PROVE FALSE
  BY <1>1, EntryFacts
<1>3. PICK h \in Handlers : hand[h].pc = "run" /\ hand[h].ask.id = i
  BY <1>1, <1>2 DEF IInv, Served
<1>4. clock <= hand[h].until /\ hand[h].until <= table[i].expires
  BY <1>3 DEF IInv, Owned
<1>5. clock \in Nat /\ hand[h].until \in Nat /\ table[i].expires \in Nat
  BY <1>1, EntryFacts DEF IInv, TypeOK, Handler
<1>6. QED BY <1>4, <1>5 DEF Expired

\* The table after pruning keeps every execution under way.
LEMMA PrunedFacts ==
  ASSUME IInv
  PROVE  /\ Pruned \in [Ids -> Entry \cup {NoEntry}]
         /\ \A i \in Ids : Pruned[i] # NoEntry => Pruned[i] = table[i]
         /\ \A i \in Ids : table[i] # NoEntry /\ ~table[i].kept => Pruned[i] = table[i]
<1> DEFINE S == {i \in Live(table) : Expired(i)}
<1>1. table \in [Ids -> Entry \cup {NoEntry}] BY DEF IInv, TypeOK
<1>2. \A i \in Ids : Pruned[i] = IF i \in S THEN NoEntry ELSE table[i]
  BY <1>1, DelType DEF Pruned
<1>3. Pruned \in [Ids -> Entry \cup {NoEntry}] BY <1>1, DelType DEF Pruned
<1>4. \A i \in S : table[i].kept BY ExpiredKept
<1>5. QED BY <1>2, <1>3, <1>4

\* What the entries and handlers of IInv are.
LEMMA HandFacts ==
  ASSUME IInv, NEW h \in Handlers
  PROVE  /\ hand[h] \in Handler /\ hand[h].until \in Nat
         /\ ~Idle(h) => hand[h].ask \in Ask /\ hand[h].ask.id \in Ids
         /\ hand[h].pc = "run" => /\ hand[h].run \in Runs
                                 /\ table[hand[h].ask.id] \in Entry
                                 /\ hand[h].ask \in Ask /\ hand[h].ask.id \in Ids
                                 /\ Own(h)
<1>1. hand[h] \in Handler /\ hand[h].until \in Nat BY DEF IInv, TypeOK, Handler
<1>2. ~Idle(h) => hand[h].ask \in Ask /\ hand[h].ask.id \in Ids BY DEF IInv, Active, Ask
<1>3. ASSUME hand[h].pc = "run"
      PROVE  /\ hand[h].run \in Runs /\ table[hand[h].ask.id] \in Entry
             /\ hand[h].ask \in Ask /\ hand[h].ask.id \in Ids /\ Own(h)
  <2>1. hand[h].ask \in Ask /\ hand[h].ask.id \in Ids BY <1>2, <1>3 DEF Idle
  <2>2. table[hand[h].ask.id] \in Entry BY <1>3, <2>1 DEF IInv, Owned, TypeOK
  <2>3. hand[h].run \in Runs BY <1>3, <2>2, EntryFacts DEF IInv, Owned
  <2>4. Own(h) BY <1>3 DEF IInv, Owned, Own
  <2>5. QED BY <2>1, <2>2, <2>3, <2>4
<1>4. QED BY <1>1, <1>2, <1>3

\* Pruning disturbs nothing when the running handlers stay as they are.
LEMMA PruneStep ==
  ASSUME IInv, table' = Pruned, last' = last, clock' = clock,
         \A g \in Handlers : hand[g].pc = "run" \/ hand'[g].pc = "run" => hand'[g] = hand[g]
  PROVE  Owned' /\ Alone' /\ Served' /\ Latest'
<1>1. \A g \in Handlers : hand[g].pc = "run" => hand[g].ask.id \in Ids BY HandFacts
<1>2. Owned' BY <1>1, PrunedFacts DEF IInv, Owned
<1>3. Alone' BY DEF IInv, Alone
<1>4. Served' BY PrunedFacts DEF IInv, Served
<1>5. Latest' BY PrunedFacts DEF IInv, Latest
<1>6. QED BY <1>2, <1>3, <1>4, <1>5

\* The end of an execution takes its entry or turns it into a kept one, and
\* takes other entries only if they are kept.
Ends(h) ==
  LET i == hand[h].ask.id IN
  /\ hand[h].pc = "run"
  /\ hand' = [hand EXCEPT ![h] = Free]
  /\ table' \in [Ids -> Entry \cup {NoEntry}]
  /\ table'[i] = NoEntry \/ (table'[i].kept /\ table'[i].run = table[i].run)
  /\ \A j \in Ids \ {i} :
       table'[j] = table[j] \/ (table[j] # NoEntry /\ table[j].kept /\ table'[j] = NoEntry)
  /\ clock' = clock /\ last' = last

LEMMA EndStep ==
  ASSUME IInv, NEW h \in Handlers, Ends(h)
  PROVE  Active' /\ Owned' /\ Alone' /\ Served' /\ Latest'
<1> DEFINE i == hand[h].ask.id
<1>1. hand \in [Handlers -> Handler] BY DEF IInv, TypeOK
<1>2. hand'[h] = Free /\ \A g \in Handlers \ {h} : hand'[g] = hand[g]
  BY <1>1 DEF Ends
<1>3. \A g \in Handlers \ {h} : hand[g].pc = "run" => hand[g].ask.id \in Ids \ {i}
  BY HandFacts DEF IInv, Alone, Ends
<1>4. Active' BY <1>2 DEF IInv, Active, Idle, Free
<1>5. Owned'
  <2> SUFFICES ASSUME NEW g \in Handlers, hand'[g].pc = "run"
               PROVE  /\ table'[hand'[g].ask.id] = table[hand[g].ask.id]
                      /\ hand'[g] = hand[g] /\ hand[g].pc = "run" /\ clock' = clock
    BY DEF Owned, IInv
  <2>1. g # h BY <1>2 DEF Free
  <2>2. hand'[g] = hand[g] /\ hand[g].ask.id \in Ids \ {i} BY <1>2, <1>3, <2>1
  <2>3. ~table[hand[g].ask.id].kept BY <2>2 DEF IInv, Owned
  <2>4. QED BY <2>2, <2>3 DEF Ends
<1>6. Alone' BY <1>2 DEF IInv, Alone, Free
<1>7. Served'
  <2> SUFFICES ASSUME NEW j \in Ids, table'[j] # NoEntry, ~table'[j].kept
               PROVE  \E g \in Handlers : hand'[g].pc = "run" /\ hand'[g].ask.id = j
    BY DEF Served
  <2>1. j # i BY DEF Ends
  <2>2. table'[j] = table[j] BY <2>1 DEF Ends
  <2>3. PICK g \in Handlers : hand[g].pc = "run" /\ hand[g].ask.id = j
    BY <2>2 DEF IInv, Served
  <2>4. QED BY <1>2, <2>1, <2>3
<1>8. Latest' BY HandFacts DEF IInv, Latest, Ends, Own
<1>9. QED BY <1>4, <1>5, <1>6, <1>7, <1>8

LEMMA CompleteEnds ==
  ASSUME IInv, NEW h \in Handlers, NEW s \in Sizes, Complete(h, s)
  PROVE  Ends(h)
<1> DEFINE i == hand[h].ask.id
           t == Keep(i, s)
<1>1. /\ hand[h].pc = "run" /\ i \in Ids /\ table[i] \in Entry /\ Own(h)
      /\ table \in [Ids -> Entry \cup {NoEntry}] /\ clock \in Nat /\ s \in Nat
  BY HandFacts, ReplayAssumption DEF Complete, IInv, TypeOK
<1>2. TTL(i) \in Nat BY ReplayAssumption DEF TTL
<1>3. /\ t[i] \in Entry /\ t[i].kept /\ t[i].run = table[i].run
      /\ t \in [Ids -> Entry \cup {NoEntry}] /\ \A j \in Ids \ {i} : t[j] = table[j]
  <2> DEFINE e == [fp |-> table[i].fp, run |-> table[i].run, kept |-> TRUE, bytes |-> s,
                   expires |-> clock + TTL(i)]
  <2>1. e \in Entry BY <1>1, <1>2, EntryFacts DEF Entry
  <2>2. t = [table EXCEPT ![i] = e] BY DEF Keep
  <2>3. e.kept /\ e.run = table[i].run OBVIOUS
  <2>4. t[i] = e /\ \A j \in Ids \ {i} : t[j] = table[j] BY <1>1, <2>2
  <2> HIDE DEF e
  <2>5. t \in [Ids -> Entry \cup {NoEntry}] BY <1>1, <2>1, <2>2
  <2>6. QED BY <2>1, <2>3, <2>4, <2>5
<1>4. CASE TooLarge(i, s)
  <2>1. table' = Del(table, {i}) BY <1>1, <1>4 DEF Complete, Completed
  <2>2. QED BY <1>1, <2>1, DelType DEF Ends, Complete
<1>5. CASE ~TooLarge(i, s)
  <2>1. PICK R : /\ table' = Del(t, R)
                 /\ R = {} \/ R \in Trimmed(t, i)
    BY <1>1, <1>5 DEF Complete, Completed
  <2>2. R \subseteq KeptIn(t) \ {i} BY <2>1 DEF Trimmed
  <2>3. \A j \in Ids : table'[j] = IF j \in R THEN NoEntry ELSE t[j]
    BY <1>3, <2>1, DelType
  <2>4. table' \in [Ids -> Entry \cup {NoEntry}] BY <1>3, <2>1, DelType
  <2>5. table'[i] = t[i] BY <1>1, <2>2, <2>3
  <2>6. ASSUME NEW j \in Ids \ {i}
        PROVE  \/ table'[j] = table[j]
               \/ table[j] # NoEntry /\ table[j].kept /\ table'[j] = NoEntry
    BY <1>3, <2>2, <2>3 DEF KeptIn, Live
  <2>7. QED BY <1>1, <1>3, <2>4, <2>5, <2>6 DEF Ends, Complete
<1>6. QED BY <1>4, <1>5

LEMMA AbortEnds ==
  ASSUME IInv, NEW h \in Handlers, Abort(h)
  PROVE  Ends(h)
<1>1. hand[h].pc = "run" /\ Own(h) /\ hand[h].ask.id \in Ids BY HandFacts DEF Abort
<1>2. table \in [Ids -> Entry \cup {NoEntry}] BY DEF IInv, TypeOK
<1>3. table' = Del(table, {hand[h].ask.id}) BY <1>1 DEF Abort
<1>4. QED BY <1>1, <1>2, <1>3, DelType DEF Ends, Abort

\* A new execution: the table it leaves, with what was removed for it.
Starts(h, a, S) ==
  /\ table' = [Del(Pruned, S) EXCEPT
                 ![a.id] = [fp |-> a.fp, run |-> runs + 1, kept |-> FALSE, bytes |-> 0,
                            expires |-> clock + ControlTTL]]
  /\ S \subseteq KeptIn(Pruned)

LEMMA BeginStarts ==
  ASSUME IInv, NEW h \in Handlers, NEW a \in asks, Begin(h, a)
  PROVE  \E S : Starts(h, a, S)
<1>1. PICK S \in Evicted(Pruned) :
        table' = [Del(Pruned, S) EXCEPT
                   ![a.id] = [fp |-> a.fp, run |-> runs', kept |-> FALSE, bytes |-> 0,
                              expires |-> clock + ControlTTL]]
  BY DEF Begin
<1>2. S \subseteq KeptIn(Pruned) BY DEF Evicted, Oldest, Evictable
<1>3. runs' = runs + 1 BY DEF Begin
<1>4. QED BY <1>1, <1>2, <1>3 DEF Starts

\* The entries after a new execution has begun.
LEMMA StartFacts ==
  ASSUME IInv, NEW h \in Handlers, NEW a \in asks, Begin(h, a), NEW S, Starts(h, a, S)
  PROVE  /\ a \in Ask /\ a.id \in Ids
         /\ table' \in [Ids -> Entry \cup {NoEntry}]
         /\ table'[a.id] # NoEntry /\ ~table'[a.id].kept
         /\ table'[a.id].fp = a.fp /\ table'[a.id].run = runs + 1
         /\ table'[a.id].expires = clock + ControlTTL
         /\ table[a.id] = NoEntry \/ table[a.id].kept
         /\ \A j \in Ids \ {a.id} :
              \/ table'[j] = table[j]
              \/ table[j] # NoEntry /\ table[j].kept /\ table'[j] = NoEntry
<1> DEFINE e == [fp |-> a.fp, run |-> runs + 1, kept |-> FALSE, bytes |-> 0,
                 expires |-> clock + ControlTTL]
           t == Del(Pruned, S)
<1>1. a \in Ask /\ a.id \in Ids /\ a.fp \in Data BY DEF IInv, TypeOK, Ask
<1>2. runs \in 0 .. MaxRuns /\ runs < MaxRuns /\ MaxRuns \in Nat /\ clock \in Nat
  BY ReplayAssumption DEF IInv, TypeOK, Begin
<1>3. runs + 1 \in Runs /\ clock + ControlTTL \in Nat BY <1>2, ReplayAssumption DEF Runs
<1>4. e \in Entry BY <1>1, <1>3 DEF Entry
<1>5. /\ e.fp = a.fp /\ e.run = runs + 1 /\ e.kept = FALSE /\ e.expires = clock + ControlTTL
      /\ table' = [t EXCEPT ![a.id] = e]
  BY DEF Starts
<1> HIDE DEF e
<1>6. /\ t \in [Ids -> Entry \cup {NoEntry}]
      /\ \A i \in Ids : t[i] = IF i \in S THEN NoEntry ELSE Pruned[i]
  BY PrunedFacts, DelType
<1> HIDE DEF t
<1>7. table' \in [Ids -> Entry \cup {NoEntry}] BY <1>4, <1>5, <1>6
<1>8. table'[a.id] = e /\ \A j \in Ids \ {a.id} : table'[j] = t[j] BY <1>1, <1>5, <1>6
<1>9. e # NoEntry BY <1>4, EntryFacts
<1>10. table[a.id] = NoEntry \/ table[a.id].kept
  BY <1>1, PrunedFacts DEF Begin
<1>11. ASSUME NEW j \in Ids \ {a.id}
       PROVE  \/ table'[j] = table[j]
              \/ table[j] # NoEntry /\ table[j].kept /\ table'[j] = NoEntry
  <2>1. j \in S => Pruned[j] # NoEntry /\ Pruned[j].kept BY DEF Starts, KeptIn, Live
  <2>2. table'[j] = IF j \in S THEN NoEntry ELSE Pruned[j] BY <1>6, <1>8
  <2>3. table[j] \in Entry \cup {NoEntry} BY DEF IInv, TypeOK
  <2>4. QED BY <2>1, <2>2, <2>3, PrunedFacts, EntryFacts
<1>12. QED BY <1>1, <1>5, <1>7, <1>8, <1>9, <1>10, <1>11

LEMMA BeginStep ==
  ASSUME IInv, NEW h \in Handlers, NEW a \in asks, Begin(h, a)
  PROVE  Active' /\ Owned' /\ Alone' /\ Served' /\ Latest'
<1>1. PICK S : Starts(h, a, S) BY BeginStarts
<1>2. /\ a \in Ask /\ a.id \in Ids
      /\ table'[a.id] # NoEntry /\ ~table'[a.id].kept
      /\ table'[a.id].fp = a.fp /\ table'[a.id].run = runs + 1
      /\ table'[a.id].expires = clock + ControlTTL
      /\ table[a.id] = NoEntry \/ table[a.id].kept
      /\ \A j \in Ids \ {a.id} :
           \/ table'[j] = table[j]
           \/ table[j] # NoEntry /\ table[j].kept /\ table'[j] = NoEntry
  BY <1>1, StartFacts
<1> DEFINE k == [pc |-> "run", ask |-> a, run |-> runs + 1, until |-> clock + Deadline]
<1>3. /\ hand' = [hand EXCEPT ![h] = k] /\ clock' = clock
      /\ last' = [last EXCEPT ![a.id] = runs + 1]
      /\ hand \in [Handlers -> Handler] /\ last \in [Ids -> 0 .. MaxRuns]
  BY DEF Begin, IInv, TypeOK
<1>4. k.pc = "run" /\ k.ask = a /\ k.run = runs + 1 /\ k.until = clock + Deadline OBVIOUS
<1> HIDE DEF k
<1>5. hand'[h] = k /\ \A g \in Handlers \ {h} : hand'[g] = hand[g] BY <1>3
<1>6. \A g \in Handlers \ {h} : hand[g].pc = "run" => hand[g].ask.id \in Ids \ {a.id}
  BY <1>2, HandFacts DEF IInv, Owned
<1>7. Active' BY <1>2, <1>4, <1>5 DEF IInv, Active, Idle
<1>8. Owned'
  <2>1. ASSUME NEW g \in Handlers \ {h}, hand'[g].pc = "run"
        PROVE  /\ table'[hand'[g].ask.id] = table[hand[g].ask.id]
               /\ hand'[g] = hand[g] /\ hand[g].pc = "run"
    BY <1>2, <1>5, <1>6, <2>1 DEF IInv, Owned
  <2>2. clock \in Nat /\ clock <= clock + Deadline /\ clock + Deadline <= clock + ControlTTL
    BY ReplayAssumption DEF IInv, TypeOK
  <2>3. QED BY <1>2, <1>3, <1>4, <1>5, <2>1, <2>2 DEF IInv, Owned
<1>9. Alone' BY <1>4, <1>5, <1>6 DEF IInv, Alone
<1>10. Served'
  <2> SUFFICES ASSUME NEW j \in Ids, table'[j] # NoEntry, ~table'[j].kept
               PROVE  \E g \in Handlers : hand'[g].pc = "run" /\ hand'[g].ask.id = j
    BY DEF Served
  <2>1. CASE j = a.id BY <1>4, <1>5, <2>1
  <2>2. CASE j # a.id
    <3>1. PICK g \in Handlers : hand[g].pc = "run" /\ hand[g].ask.id = j
      BY <1>2, <2>2 DEF IInv, Served
    <3>2. g # h BY <3>1 DEF Begin, Arrives, Idle
    <3>3. QED BY <1>5, <3>1, <3>2
  <2>3. QED BY <2>1, <2>2
<1>11. Latest' BY <1>2, <1>3 DEF IInv, Latest
<1>12. QED BY <1>7, <1>8, <1>9, <1>10, <1>11

\* The types of what the controller and the network hold.
Outside ==
  /\ asks \subseteq Ask /\ frames \subseteq Frame
  /\ got \in [Ids -> SUBSET Frame] /\ done \subseteq Ids /\ hasty \subseteq Ids
  /\ word \in Data
  /\ n \in [requests : 0 .. MaxRequests, faults : 0 .. MaxFaults]

Inside ==
  /\ clock \in Nat /\ runs \in 0 .. MaxRuns
  /\ table \in [Ids -> Entry \cup {NoEntry}]
  /\ hand \in [Handlers -> Handler]
  /\ last \in [Ids -> 0 .. MaxRuns] /\ answers \subseteq Ids \X Runs

LEMMA TypeParts == (TypeOK <=> Inside /\ Outside) /\ (TypeOK' <=> Inside' /\ Outside')
BY DEF TypeOK, Inside, Outside

LEMMA SendType ==
  ASSUME frames \subseteq Frame, NEW F, F \subseteq Frame, Send(F)
  PROVE  frames' \subseteq Frame
BY DEF Send

LEMMA WholeType ==
  ASSUME NEW i \in Ids, NEW r \in Runs
  PROVE  Whole(i, r) \subseteq Frame
BY DEF Whole, Frame

LEMMA RefusalType ==
  ASSUME NEW a \in Ask
  PROVE  {Refusal(a)} \subseteq Frame
BY DEF Refusal, Frame, Ask

LEMMA FreeType == Free \in Handler
BY DEF Free, Handler

LEMMA HandlerStep ==
  ASSUME IInv, NEW h \in Handlers, Handle(h)
  PROVE  IInv'
<1> USE TypeParts
<1>1. Inside /\ Outside BY DEF IInv
<1>2. asks \subseteq Ask /\ frames \subseteq Frame BY <1>1 DEF Outside
<1>3. ASSUME NEW a \in asks, Mismatch(h, a) \/ Miss(h, a)
      PROVE  IInv'
  <2>1. /\ table' = Pruned /\ Send({Refusal(a)}) /\ asks' = asks \ {a}
        /\ UNCHANGED <<clock, runs, hand, last, answers, got, done, word, hasty, n>>
    BY <1>3 DEF Mismatch, Miss, Refused, Arrives, controller
  <2>2. Outside' BY <1>1, <1>2, <2>1, RefusalType, SendType DEF Outside
  <2>3. Inside' BY <1>1, <2>1, PrunedFacts DEF Inside
  <2>4. Owned' /\ Alone' /\ Served' /\ Latest' BY <2>1, PruneStep
  <2>5. Active' BY <2>1 DEF IInv, Active, Idle
  <2>6. QED BY <2>2, <2>3, <2>4, <2>5 DEF IInv
<1>4. ASSUME NEW a \in asks, Join(h, a)
      PROVE  IInv'
  <2> DEFINE k == [pc |-> "wait", ask |-> a, run |-> Pruned[a.id].run, until |-> clock + Deadline]
  <2>1. /\ table' = Pruned /\ asks' = asks \ {a} /\ hand' = [hand EXCEPT ![h] = k]
        /\ Pruned[a.id] # NoEntry /\ hand[h].pc = "idle"
        /\ UNCHANGED <<clock, runs, last, answers, frames, got, done, word, hasty, n>>
    BY <1>4 DEF Join, Arrives, Idle, controller
  <2>2. Outside' BY <1>1, <1>2, <2>1 DEF Outside
  <2>3. a \in Ask /\ a.id \in Ids BY <1>2 DEF Ask
  <2>4. Pruned[a.id].run \in Runs BY <2>1, <2>3, PrunedFacts, EntryFacts
  <2>5. clock + Deadline \in Nat BY <1>1, ReplayAssumption DEF Inside
  <2>6. k \in Handler BY <2>3, <2>4, <2>5 DEF Handler
  <2>7. k.pc = "wait" /\ k.ask = a OBVIOUS
  <2> HIDE DEF k
  <2>8. /\ hand' \in [Handlers -> Handler] /\ hand'[h] = k
        /\ \A g \in Handlers \ {h} : hand'[g] = hand[g]
    BY <1>1, <2>1, <2>6 DEF Inside
  <2>9. Inside' BY <1>1, <2>1, <2>8, PrunedFacts DEF Inside
  <2>10. \A g \in Handlers : hand[g].pc = "run" \/ hand'[g].pc = "run" => hand'[g] = hand[g]
    BY <2>1, <2>7, <2>8
  <2>11. Owned' /\ Alone' /\ Served' /\ Latest' BY <2>1, <2>10, PruneStep
  <2>12. Active' BY <2>3, <2>7, <2>8 DEF IInv, Active, Idle
  <2>13. QED BY <2>2, <2>9, <2>11, <2>12 DEF IInv
<1>5. ASSUME NEW a \in asks, Begin(h, a)
      PROVE  IInv'
  <2> DEFINE k == [pc |-> "run", ask |-> a, run |-> runs + 1, until |-> clock + Deadline]
  <2>1. /\ asks' = asks \ {a} /\ hand' = [hand EXCEPT ![h] = k] /\ runs' = runs + 1
        /\ runs < MaxRuns /\ last' = [last EXCEPT ![a.id] = runs + 1]
        /\ UNCHANGED <<clock, answers, frames, got, done, word, hasty, n>>
    BY <1>5 DEF Begin, Arrives, controller
  <2>2. PICK S : Starts(h, a, S) BY <1>5, BeginStarts
  <2>3. a \in Ask /\ a.id \in Ids /\ table' \in [Ids -> Entry \cup {NoEntry}]
    BY <1>5, <2>2, StartFacts
  <2>4. Outside' BY <1>1, <1>2, <2>1 DEF Outside
  <2>5. clock + Deadline \in Nat /\ runs + 1 \in Runs /\ runs + 1 \in 0 .. MaxRuns
    BY <1>1, <2>1, ReplayAssumption DEF Inside, Runs
  <2>6. k \in Handler BY <2>3, <2>5 DEF Handler
  <2> HIDE DEF k
  <2>7. hand' \in [Handlers -> Handler] BY <1>1, <2>1, <2>6 DEF Inside
  <2>8. last' \in [Ids -> 0 .. MaxRuns] BY <1>1, <2>1, <2>5 DEF Inside
  <2>9. Inside' BY <1>1, <2>1, <2>3, <2>5, <2>7, <2>8 DEF Inside
  <2>10. QED BY <1>5, <2>4, <2>9, BeginStep DEF IInv
<1>6. ASSUME NEW s \in Sizes, Complete(h, s)
      PROVE  IInv'
  <2>1. Ends(h) BY <1>6, CompleteEnds
  <2>2. hand[h].ask.id \in Ids /\ hand[h].run \in Runs BY <1>6, HandFacts DEF Complete
  <2>3. /\ Send(Whole(hand[h].ask.id, hand[h].run))
        /\ answers' = answers \cup {<<hand[h].ask.id, hand[h].run>>}
        /\ UNCHANGED <<clock, runs, last, asks, got, done, word, hasty, n>>
    BY <1>6 DEF Complete, controller
  <2>4. Outside' BY <1>1, <1>2, <2>2, <2>3, WholeType, SendType DEF Outside
  <2>5. hand' \in [Handlers -> Handler] BY <1>1, <2>1, FreeType DEF Ends, Inside
  <2>6. answers' \subseteq Ids \X Runs BY <1>1, <2>2, <2>3 DEF Inside
  <2>7. Inside' BY <1>1, <2>1, <2>3, <2>5, <2>6 DEF Ends, Inside
  <2>8. QED BY <2>1, <2>4, <2>7, EndStep DEF IInv
<1>7. ASSUME Abort(h)
      PROVE  IInv'
  <2>1. Ends(h) BY <1>7, AbortEnds
  <2>2. /\ n' = [n EXCEPT !.faults = n.faults + 1] /\ n.faults < MaxFaults
        /\ UNCHANGED <<clock, runs, last, answers, asks, frames, got, done, word, hasty>>
    BY <1>7 DEF Abort
  <2>3. n' \in [requests : 0 .. MaxRequests, faults : 0 .. MaxFaults]
    BY <1>1, <2>2, ReplayAssumption DEF Outside
  <2>4. Outside' BY <1>1, <2>2, <2>3 DEF Outside
  <2>5. hand' \in [Handlers -> Handler] BY <1>1, <2>1, FreeType DEF Ends, Inside
  <2>6. Inside' BY <1>1, <2>1, <2>2, <2>5 DEF Ends, Inside
  <2>7. QED BY <2>1, <2>4, <2>6, EndStep DEF IInv
<1>8. ASSUME Wake(h) \/ GiveUpWaiting(h)
      PROVE  IInv'
  <2> DEFINE a == hand[h].ask
  <2>1. /\ hand[h].pc = "wait" /\ hand' = [hand EXCEPT ![h] = Free]
        /\ UNCHANGED <<clock, table, runs, last, asks, got, done, word, hasty, n>>
    BY <1>8 DEF Wake, GiveUpWaiting, controller
  <2>2. a \in Ask /\ a.id \in Ids BY <2>1, HandFacts DEF Idle
  <2>3. frames' \subseteq Frame /\ answers' \subseteq Ids \X Runs
    <3>1. CASE Wake(h) /\ Replayable(a.id)
      <4>1. /\ Send(Selected(a, table[a.id].run))
            /\ answers' = answers \cup {<<a.id, table[a.id].run>>}
        BY <3>1 DEF Wake
      <4>2. table[a.id].run \in Runs
        BY <1>1, <2>2, <3>1, EntryFacts DEF Replayable, Inside
      <4>3. Selected(a, table[a.id].run) \subseteq Frame
        BY <2>2, <4>2, WholeType DEF Selected
      <4>4. QED BY <1>1, <1>2, <2>2, <4>1, <4>2, <4>3, SendType DEF Inside
    <3>2. CASE ~(Wake(h) /\ Replayable(a.id))
      <4>1. Send({Refusal(a)}) /\ answers' = answers
        BY <1>8, <3>2 DEF Wake, GiveUpWaiting
      <4>2. QED BY <1>1, <1>2, <2>2, <4>1, RefusalType, SendType DEF Inside
    <3>3. QED BY <3>1, <3>2
  <2>4. Outside' BY <1>1, <2>1, <2>3 DEF Outside
  <2>5. /\ hand' \in [Handlers -> Handler] /\ hand'[h] = Free
        /\ \A g \in Handlers \ {h} : hand'[g] = hand[g]
    BY <1>1, <2>1, FreeType DEF Inside
  <2>6. Inside' BY <1>1, <2>1, <2>3, <2>5 DEF Inside
  <2>7. Active' BY <2>5 DEF IInv, Active, Idle, Free
  <2>8. Free.pc = "idle" BY DEF Free
  <2>9. \A g \in Handlers : hand[g].pc = "run" \/ hand'[g].pc = "run" => hand'[g] = hand[g]
    BY <2>1, <2>5, <2>8
  <2>10. Owned' /\ Alone' BY <2>1, <2>9 DEF IInv, Owned, Alone
  <2>11. Served' BY <2>1, <2>9 DEF IInv, Served
  <2>12. Latest' BY <2>1 DEF IInv, Latest
  <2>13. QED BY <2>4, <2>6, <2>7, <2>10, <2>11, <2>12 DEF IInv
<1>9. QED BY <1>3, <1>4, <1>5, <1>6, <1>7, <1>8 DEF Handle

\* The controller and the network leave the table and the handlers alone.
LEMMA OutsideStep ==
  ASSUME IInv, Outside', UNCHANGED server
  PROVE  IInv'
<1>1. UNCHANGED <<clock, table, runs, hand, last, answers>> BY DEF server
<1>2. Inside' BY <1>1, TypeParts DEF IInv, Inside
<1>3. Active' BY <1>1 DEF IInv, Active, Idle
<1>4. Owned' /\ Alone' BY <1>1 DEF IInv, Owned, Alone
<1>5. Served' /\ Latest' BY <1>1 DEF IInv, Served, Latest
<1>6. TypeOK' BY <1>2, TypeParts
<1>7. QED BY <1>3, <1>4, <1>5, <1>6 DEF IInv

LEMMA InitInv == Init => IInv
<1> SUFFICES ASSUME Init PROVE IInv OBVIOUS
<1>1. Outside BY ReplayAssumption DEF Init, Outside
<1>2. Inside BY ReplayAssumption, FreeType DEF Init, Inside, NoRun
<1>3. \A h \in Handlers : hand[h].pc = "idle" BY DEF Init, Free
<1>4. \A i \in Ids : table[i] = NoEntry BY DEF Init
<1>5. Active BY <1>3 DEF Active, Idle
<1>6. Owned /\ Alone BY <1>3 DEF Owned, Alone
<1>7. Served /\ Latest BY <1>4 DEF Served, Latest
<1>8. QED BY <1>1, <1>2, <1>5, <1>6, <1>7, TypeParts DEF IInv

LEMMA InvStep == IInv /\ [Next]_vars => IInv'
<1> SUFFICES ASSUME IInv, [Next]_vars PROVE IInv' OBVIOUS
<1>0. Inside /\ Outside BY TypeParts DEF IInv
<1>1. CASE Tick
  <2>1. /\ clock' = clock + 1 /\ \A h \in Handlers : hand[h].pc # "idle" => clock < hand[h].until
        /\ UNCHANGED <<table, runs, hand, last, answers, asks, frames, got, done, word, hasty, n>>
    BY <1>1 DEF Tick, Idle, controller
  <2>2. TypeOK' BY <2>1 DEF IInv, TypeOK
  <2>3. Active' BY <2>1 DEF IInv, Active, Idle
  <2>4. Owned'
    <3>1. ASSUME NEW h \in Handlers, hand[h].pc = "run" PROVE clock' <= hand[h].until
      <4>1. clock < hand[h].until BY <2>1, <3>1
      <4>2. QED BY <1>0, <2>1, <4>1, HandFacts DEF Inside
    <3>2. QED BY <2>1, <3>1 DEF IInv, Owned
  <2>5. Alone' BY <2>1 DEF IInv, Alone
  <2>6. Served' /\ Latest' BY <2>1 DEF IInv, Served, Latest
  <2>7. QED BY <2>2, <2>3, <2>4, <2>5, <2>6 DEF IInv
<1>2. CASE \E h \in Handlers : Handle(h) BY <1>2, HandlerStep
<1>3. CASE \E i \in Ids : Request(i)
  <2>1. PICK i \in Ids : Request(i) BY <1>3
  <2> DEFINE a == [id |-> i, fp |-> word,
                   part |-> IF i \in Reads /\ got[i] # {} THEN Missing(i) ELSE {}]
  <2>2. /\ asks' = asks \cup {a} /\ n' = [n EXCEPT !.requests = n.requests + 1]
        /\ n.requests < MaxRequests /\ hasty' \subseteq hasty \cup {i}
        /\ UNCHANGED <<server, frames, got, done, word>>
    BY <2>1 DEF Request
  <2>3. Missing(i) \subseteq Parts BY DEF Missing
  <2>4. a \in Ask BY <1>0, <2>3 DEF Ask, Outside
  <2> HIDE DEF a
  <2>5. n' \in [requests : 0 .. MaxRequests, faults : 0 .. MaxFaults]
    BY <1>0, <2>2, ReplayAssumption DEF Outside
  <2>6. Outside' BY <1>0, <2>2, <2>4, <2>5 DEF Outside
  <2>7. QED BY <2>2, <2>6, OutsideStep
<1>4. CASE \E f \in frames : Deliver(f)
  <2>1. PICK f \in frames : Deliver(f) BY <1>4
  <2>2. f \in Frame /\ f.id \in Ids BY <1>0 DEF Outside, Frame
  <2>3. /\ frames' = frames \ {f} /\ UNCHANGED <<server, asks, word, hasty, n>>
        /\ done' \subseteq done \cup {f.id}
        /\ \/ got' = got \/ got' = [got EXCEPT ![f.id] = {}]
           \/ got' = [got EXCEPT ![f.id] = got[f.id] \cup {f}]
    BY <2>1 DEF Deliver
  <2>4. got \in [Ids -> SUBSET Frame] BY <1>0 DEF Outside
  <2>5. got' \in [Ids -> SUBSET Frame] BY <2>2, <2>3, <2>4
  <2>6. Outside' BY <1>0, <2>2, <2>3, <2>5 DEF Outside
  <2>7. QED BY <2>3, <2>6, OutsideStep
<1>5. CASE \E d \in Data : Restart(d)
  <2>1. PICK d \in Data : Restart(d) BY <1>5
  <2>2. /\ n' = [n EXCEPT !.faults = n.faults + 1] /\ n.faults < MaxFaults
        /\ word' = d /\ got' = [i \in Ids |-> {}] /\ done' = {}
        /\ hasty' \subseteq hasty \cup Ids
        /\ UNCHANGED <<server, asks, frames>>
    BY <2>1 DEF Restart
  <2>3. n' \in [requests : 0 .. MaxRequests, faults : 0 .. MaxFaults]
    BY <1>0, <2>2, ReplayAssumption DEF Outside
  <2>4. Outside' BY <1>0, <2>2, <2>3 DEF Outside
  <2>5. QED BY <2>2, <2>4, OutsideStep
<1>6. CASE UNCHANGED vars
  <2>1. UNCHANGED server /\ UNCHANGED <<got, done, word, hasty, n, asks, frames>>
    BY <1>6 DEF vars, controller
  <2>2. Outside' BY <1>0, <2>1 DEF Outside
  <2>3. QED BY <2>1, <2>2, OutsideStep
<1>7. QED BY <1>1, <1>2, <1>3, <1>4, <1>5, <1>6 DEF Next

LEMMA Invariance == Spec => []IInv
BY InitInv, InvStep, PTL DEF Spec

\* Type correctness of the replay window, its handlers and the controller.
THEOREM TypeCorrect == Spec => []TypeOK
<1>1. IInv => TypeOK BY DEF IInv
<1>2. QED BY <1>1, Invariance, PTL

\* An execution under way keeps its entry in the table until it ends: the
\* eviction, the expiry and the completion of other requests never touch it.
THEOREM OpenKeptHolds == Spec => []OpenKept
<1>1. IInv => OpenKept BY HandFacts DEF OpenKept, IInv, Owned
<1>2. QED BY <1>1, Invariance, PTL
-----------------------------------------------------------------------------
(* Fragments of two executions never meet *)

Busy(h, i) == hand[h].pc # "idle" /\ hand[h].ask.id = i

\* What the controller holds and what is on its way to it is of the last execution.
OneRun(i) ==
  /\ \A f \in got[i] : f.run = last[i]
  /\ \A f \in frames : f.id = i /\ f.run # NoRun => f.run = last[i]

\* A request, its handler or its answer is under way, one of the three; a
\* request for a whole reply comes from a controller that holds nothing.
OneAtATime(i) ==
  /\ \A a, b \in asks : a.id = i /\ b.id = i => a = b
  /\ \A g, h \in Handlers : Busy(g, i) /\ Busy(h, i) => g = h
  /\ \A a \in asks : a.id = i =>
       (\A h \in Handlers : ~Busy(h, i)) /\ (\A f \in frames : f.id # i)
  /\ \A h \in Handlers, f \in frames : Busy(h, i) => f.id # i
  /\ \A a \in asks : a.id = i /\ a.part = {} => got[i] = {}

Orderly == \A i \in Reads \ hasty : OneRun(i) /\ OneAtATime(i)

\* A request arrives: it is refused, or handler h takes it.
LEMMA ArriveOrderly ==
  ASSUME Orderly, NEW h \in Handlers, NEW a \in asks, asks' = asks \ {a},
         got' = got, hasty' = hasty, hand[h].pc = "idle",
         \A g \in Handlers \ {h} : hand'[g] = hand[g],
         \A j \in Reads \ {a.id} : last'[j] = last[j],
         \/ /\ hand'[h] = hand[h] /\ frames' \subseteq frames \cup {Refusal(a)}
            /\ last' = last
         \/ /\ hand'[h].ask.id = a.id /\ frames' = frames
            /\ \/ last' = last
               \/ a.id \notin Reads
               \/ a.part = {}
  PROVE  Orderly'
<1> SUFFICES ASSUME NEW i \in Reads \ hasty PROVE OneRun(i)' /\ OneAtATime(i)'
  BY DEF Orderly
<1>0. OneRun(i) /\ OneAtATime(i) BY DEF Orderly
<1>1. Refusal(a).id = a.id /\ Refusal(a).run = NoRun BY DEF Refusal
<1>2. CASE i = a.id
  <2>1. \A g \in Handlers : ~Busy(g, i) BY <1>0, <1>2 DEF OneAtATime
  <2>2. \A f \in frames : f.id # i BY <1>0, <1>2 DEF OneAtATime
  <2>3. \A b \in asks' : b.id # i BY <1>0, <1>2 DEF OneAtATime
  <2>4. OneRun(i)' BY <1>0, <1>1, <1>2, <2>2 DEF OneRun, OneAtATime
  <2>5. OneAtATime(i)'
    <3>1. \A g \in Handlers \ {h} : ~Busy(g, i)' BY <2>1 DEF Busy
    <3>2. \/ \A g \in Handlers : ~Busy(g, i)'
          \/ \A f \in frames' : f.id # i
      BY <2>1, <2>2 DEF Busy
    <3>3. QED BY <2>3, <3>1, <3>2 DEF OneAtATime
  <2>6. QED BY <2>4, <2>5
<1>3. CASE i # a.id
  <2>1. OneRun(i)' BY <1>0, <1>1, <1>3 DEF OneRun
  <2>2. \A g \in Handlers : Busy(g, i)' => Busy(g, i) BY <1>3 DEF Busy
  <2>3. \A f \in frames' : f.id = i => f \in frames BY <1>1, <1>3
  <2>4. OneAtATime(i)' BY <1>0, <2>2, <2>3 DEF OneAtATime
  <2>5. QED BY <2>1, <2>4
<1>4. QED BY <1>2, <1>3

\* Handler h is done and answers with fragments of the last execution, or with
\* an error.
LEMMA AnswerOrderly ==
  ASSUME Orderly, NEW h \in Handlers, NEW F, hand[h].pc # "idle", hand'[h].pc = "idle",
         \A g \in Handlers \ {h} : hand'[g] = hand[g],
         UNCHANGED <<asks, got, hasty, last>>, frames' \subseteq frames \cup F,
         \A f \in F : f.id = hand[h].ask.id /\ f.run \in {NoRun, last[f.id]}
  PROVE  Orderly'
<1> SUFFICES ASSUME NEW i \in Reads \ hasty PROVE OneRun(i)' /\ OneAtATime(i)'
  BY DEF Orderly
<1>0. OneRun(i) /\ OneAtATime(i) BY DEF Orderly
<1>1. OneRun(i)' BY <1>0 DEF OneRun
<1>2. \A g \in Handlers : Busy(g, i)' => Busy(g, i) /\ g # h BY DEF Busy
<1>3. \A f \in frames' : f.id = i => f \in frames \/ Busy(h, i) BY DEF Busy
<1>4. OneAtATime(i)' BY <1>0, <1>2, <1>3 DEF OneAtATime
<1>5. QED BY <1>1, <1>4

LEMMA SendFacts ==
  ASSUME NEW F, Send(F)
  PROVE  frames' \subseteq frames \cup F
BY DEF Send

LEMMA HandlerOrderly ==
  ASSUME IInv, Orderly, NEW h \in Handlers, Handle(h)
  PROVE  Orderly'
<1>0. /\ hand \in [Handlers -> Handler] /\ last \in [Ids -> 0 .. MaxRuns] /\ Reads \subseteq Ids
      /\ asks \subseteq Ask
  BY ReplayAssumption DEF IInv, TypeOK
<1>1. ASSUME NEW a \in asks, Mismatch(h, a) \/ Miss(h, a) PROVE Orderly'
  <2>1. /\ asks' = asks \ {a} /\ Idle(h) /\ UNCHANGED <<hand, last, got, hasty>>
        /\ Send({Refusal(a)})
    BY <1>1 DEF Mismatch, Miss, Refused, Arrives, controller
  <2>2. frames' \subseteq frames \cup {Refusal(a)} BY <2>1, SendFacts
  <2>3. QED BY <2>1, <2>2, ArriveOrderly DEF Idle
<1>2. ASSUME NEW a \in asks, Join(h, a) PROVE Orderly'
  <2>1. /\ asks' = asks \ {a} /\ Idle(h) /\ UNCHANGED <<frames, last, got, hasty>>
    BY <1>2 DEF Join, Arrives, controller
  <2> DEFINE k == [pc |-> "wait", ask |-> a, run |-> Pruned[a.id].run, until |-> clock + Deadline]
  <2>2. hand' = [hand EXCEPT ![h] = k] BY <1>2 DEF Join
  <2>3. k.ask = a OBVIOUS
  <2> HIDE DEF k
  <2>4. hand'[h].ask.id = a.id /\ \A g \in Handlers \ {h} : hand'[g] = hand[g]
    BY <1>0, <2>2, <2>3
  <2>5. QED BY <2>1, <2>4, ArriveOrderly DEF Idle
<1>3. ASSUME NEW a \in asks, Begin(h, a) PROVE Orderly'
  <2>1. /\ asks' = asks \ {a} /\ Idle(h) /\ UNCHANGED <<frames, got, hasty>>
        /\ ~Resend(a) /\ last' = [last EXCEPT ![a.id] = runs']
    BY <1>3 DEF Begin, Arrives, controller
  <2> DEFINE k == [pc |-> "run", ask |-> a, run |-> runs', until |-> clock + Deadline]
  <2>2. hand' = [hand EXCEPT ![h] = k] BY <1>3 DEF Begin
  <2>3. k.ask = a OBVIOUS
  <2> HIDE DEF k
  <2>4. hand'[h].ask.id = a.id /\ \A g \in Handlers \ {h} : hand'[g] = hand[g]
    BY <1>0, <2>2, <2>3
  <2>5. \A j \in Reads \ {a.id} : last'[j] = last[j] BY <1>0, <2>1
  <2>6. a.id \notin Reads \/ a.part = {} BY <2>1 DEF Resend
  <2>7. QED BY <2>1, <2>4, <2>5, <2>6, ArriveOrderly DEF Idle
<1>4. ASSUME hand' = [hand EXCEPT ![h] = Free]
      PROVE  hand'[h].pc = "idle" /\ \A g \in Handlers \ {h} : hand'[g] = hand[g]
  BY <1>0, <1>4 DEF Free
<1>5. ASSUME NEW s \in Sizes, Complete(h, s) PROVE Orderly'
  <2> DEFINE F == Whole(hand[h].ask.id, hand[h].run)
  <2>1. /\ hand[h].pc = "run" /\ hand' = [hand EXCEPT ![h] = Free]
        /\ UNCHANGED <<asks, got, hasty, last>> /\ Send(F)
    BY <1>5 DEF Complete, controller
  <2>2. hand[h].run = last[hand[h].ask.id] BY <2>1, HandFacts DEF IInv, Owned, Latest
  <2>3. \A f \in F : f.id = hand[h].ask.id /\ f.run = last[f.id] BY <2>2 DEF Whole
  <2> HIDE DEF F
  <2>4. frames' \subseteq frames \cup F BY <2>1, SendFacts
  <2>5. QED BY <1>4, <2>1, <2>3, <2>4, AnswerOrderly
<1>6. ASSUME Abort(h) PROVE Orderly'
  <2>1. /\ hand[h].pc = "run" /\ hand' = [hand EXCEPT ![h] = Free]
        /\ UNCHANGED <<asks, got, hasty, last, frames>>
    BY <1>6 DEF Abort
  <2> DEFINE F == {}
  <2>2. \A f \in F : f.id = hand[h].ask.id /\ f.run \in {NoRun, last[f.id]} OBVIOUS
  <2>3. frames' \subseteq frames \cup F BY <2>1
  <2> HIDE DEF F
  <2>4. QED BY <1>4, <2>1, <2>2, <2>3, AnswerOrderly
<1>7. ASSUME Wake(h) PROVE Orderly'
  <2> DEFINE a == hand[h].ask
             F == IF Replayable(a.id) THEN Selected(a, table[a.id].run) ELSE {Refusal(a)}
  <2>1. /\ hand[h].pc = "wait" /\ hand' = [hand EXCEPT ![h] = Free]
        /\ UNCHANGED <<asks, got, hasty, last>> /\ Send(F)
    BY <1>7 DEF Wake, controller
  <2>2. a.id \in Ids BY <2>1, HandFacts DEF Idle
  <2>3. Replayable(a.id) => table[a.id].run = last[a.id]
    BY <2>2 DEF Replayable, IInv, Latest
  <2>4. \A f \in F : f.id = a.id /\ f.run \in {NoRun, last[f.id]}
    BY <2>3 DEF Selected, Whole, Refusal
  <2> HIDE DEF F
  <2>5. frames' \subseteq frames \cup F BY <2>1, SendFacts
  <2>6. QED BY <1>4, <2>1, <2>4, <2>5, AnswerOrderly
<1>8. ASSUME GiveUpWaiting(h) PROVE Orderly'
  <2> DEFINE F == {Refusal(hand[h].ask)}
  <2>1. /\ hand[h].pc = "wait" /\ hand' = [hand EXCEPT ![h] = Free]
        /\ UNCHANGED <<asks, got, hasty, last>> /\ Send(F)
    BY <1>8 DEF GiveUpWaiting, controller
  <2>2. \A f \in F : f.id = hand[h].ask.id /\ f.run = NoRun BY DEF Refusal
  <2> HIDE DEF F
  <2>3. frames' \subseteq frames \cup F BY <2>1, SendFacts
  <2>4. QED BY <1>4, <2>1, <2>2, <2>3, AnswerOrderly
<1>9. QED BY <1>1, <1>2, <1>3, <1>5, <1>6, <1>7, <1>8 DEF Handle

LEMMA StillOrderly ==
  ASSUME Orderly, UNCHANGED <<hand, asks, frames, got, hasty, last>>
  PROVE  Orderly'
BY DEF Orderly, OneRun, OneAtATime, Busy

\* Whatever is of identity i is under way.
LEMMA NotMoving ==
  ASSUME NEW i, ~Moving(i)
  PROVE  /\ \A a \in asks : a.id # i
         /\ \A f \in frames : f.id # i
         /\ \A h \in Handlers : ~Busy(h, i)
BY DEF Moving, Busy, Idle

LEMMA StepOrderly == IInv /\ Orderly /\ [Next]_vars => Orderly'
<1> SUFFICES ASSUME IInv, Orderly, [Next]_vars PROVE Orderly' OBVIOUS
<1>0. got \in [Ids -> SUBSET Frame] /\ frames \subseteq Frame /\ Reads \subseteq Ids
  BY ReplayAssumption DEF IInv, TypeOK
<1>1. CASE Tick BY <1>1, StillOrderly DEF Tick, controller
<1>2. CASE \E h \in Handlers : Handle(h) BY <1>2, HandlerOrderly
<1>3. ASSUME NEW i \in Ids, Request(i) PROVE Orderly'
  <2> DEFINE a == [id |-> i, fp |-> word,
                   part |-> IF i \in Reads /\ got[i] # {} THEN Missing(i) ELSE {}]
  <2>1. /\ asks' = asks \cup {a} /\ hasty' = IF Moving(i) THEN hasty \cup {i} ELSE hasty
        /\ UNCHANGED <<hand, last, frames, got>> /\ Missing(i) # {}
    BY <1>3 DEF Request, server
  <2>2. a.id = i /\ (a.part = {} => i \notin Reads \/ got[i] = {}) BY <2>1
  <2> HIDE DEF a
  <2> SUFFICES ASSUME NEW j \in Reads \ hasty' PROVE OneRun(j)' /\ OneAtATime(j)'
    BY DEF Orderly
  <2>3. j \notin hasty /\ (j = i => ~Moving(i)) BY <2>1
  <2>4. OneRun(j) /\ OneAtATime(j) BY <2>3 DEF Orderly
  <2>5. OneRun(j)' BY <2>1, <2>4 DEF OneRun
  <2>6. CASE j = i
    <3>1. /\ \A b \in asks' : b.id = i => b = a
          /\ \A f \in frames' : f.id # i
          /\ \A h \in Handlers : ~Busy(h, i)'
      BY <2>1, <2>3, <2>6, NotMoving DEF Busy
    <3>2. QED BY <2>1, <2>2, <2>5, <2>6, <3>1 DEF OneAtATime
  <2>7. CASE j # i BY <2>1, <2>2, <2>4, <2>5, <2>7 DEF OneAtATime, Busy
  <2>8. QED BY <2>6, <2>7
<1>4. ASSUME NEW f \in frames, Deliver(f) PROVE Orderly'
  <2>1. /\ frames' = frames \ {f} /\ UNCHANGED <<hand, last, asks, hasty>> /\ f.id \in Ids
        /\ \/ got' = got
           \/ got' = [got EXCEPT ![f.id] = {}]
           \/ f.run # NoRun /\ got' = [got EXCEPT ![f.id] = got[f.id] \cup {f}]
    BY <1>0, <1>4 DEF Deliver, server, Frame
  <2>2. \A j \in Ids : \A e \in got'[j] : e \in got[j] \/ (e = f /\ j = f.id /\ f.run # NoRun)
    BY <1>0, <2>1
  <2> SUFFICES ASSUME NEW j \in Reads \ hasty PROVE OneRun(j)' /\ OneAtATime(j)'
    BY <2>1 DEF Orderly
  <2>3. OneRun(j) /\ OneAtATime(j) BY DEF Orderly
  <2>4. OneRun(j)' BY <1>0, <2>1, <2>2, <2>3 DEF OneRun
  <2>5. ASSUME NEW a \in asks, a.id = j, a.part = {} PROVE got'[j] = {}
    <3>1. got[j] = {} /\ f.id # j BY <2>3, <2>5 DEF OneAtATime
    <3>2. QED BY <1>0, <2>2, <3>1
  <2>6. OneAtATime(j)' BY <2>1, <2>3, <2>5 DEF OneAtATime, Busy
  <2>7. QED BY <2>4, <2>6
<1>5. ASSUME NEW d \in Data, Restart(d) PROVE Orderly'
  <2>1. /\ got' = [i \in Ids |-> {}] /\ hasty' = hasty \cup {i \in Ids : Moving(i)}
        /\ UNCHANGED <<hand, last, asks, frames>>
    BY <1>5 DEF Restart, server
  <2> SUFFICES ASSUME NEW j \in Reads \ hasty' PROVE OneRun(j)' /\ OneAtATime(j)'
    BY DEF Orderly
  <2>2. /\ \A a \in asks' : a.id # j
        /\ \A f \in frames' : f.id # j
        /\ \A h \in Handlers : ~Busy(h, j)'
        /\ got'[j] = {}
    BY <1>0, <2>1, NotMoving DEF Busy
  <2>3. QED BY <2>2 DEF OneRun, OneAtATime
<1>6. CASE UNCHANGED vars BY <1>6, StillOrderly DEF vars, server, controller
<1>7. QED BY <1>1, <1>2, <1>3, <1>4, <1>5, <1>6 DEF Next

\* A controller that waits for what is under way before it repeats a request
\* never puts a read together from fragments of two executions: the rest of a
\* reply is resent from the entry that is kept or refused, never produced by
\* carrying the request out again (beginControlReplay, selectControlFrames).
THEOREM UnmixedHolds == Spec => []Unmixed
<1>1. Init => Orderly
  <2> SUFFICES ASSUME Init PROVE Orderly OBVIOUS
  <2>1. \A i \in Ids : got[i] = {} BY DEF Init
  <2>2. asks = {} /\ frames = {} /\ \A h \in Handlers : ~(hand[h].pc # "idle") BY DEF Init, Free
  <2>3. QED BY <2>1, <2>2, ReplayAssumption DEF Orderly, OneRun, OneAtATime, Busy
<1>2. Orderly => Unmixed BY DEF Orderly, OneRun, Unmixed
<1>3. QED BY <1>1, <1>2, StepOrderly, Invariance, PTL DEF Spec
-----------------------------------------------------------------------------
(* The limits of the table *)

Table == [Ids -> Entry \cup {NoEntry}]

\* The limits, with what their sizes need to be counted.
Within == IsFiniteSet(Live(table)) /\ Bounded

\* Entries that go leave fewer entries and fewer bytes.
LEMMA LiveFewer ==
  ASSUME NEW t, NEW u, IsFiniteSet(Live(t)), Live(u) \subseteq Live(t)
  PROVE  /\ IsFiniteSet(Live(u)) /\ Cardinality(Live(u)) \in Nat
         /\ Cardinality(Live(t)) \in Nat /\ Cardinality(Live(u)) <= Cardinality(Live(t))
<1>1. IsFiniteSet(Live(u)) /\ Cardinality(Live(u)) <= Cardinality(Live(t)) BY FS_Subset
<1>2. QED BY <1>1, FS_CardinalityType

LEMMA BytesNat ==
  ASSUME NEW t \in Table, IsFiniteSet(Live(t))
  PROVE  /\ IsFiniteSet(KeptIn(t) \cap Reads) /\ Bytes(t) \in Nat
         /\ \A i \in KeptIn(t) : t[i] \in Entry /\ t[i].bytes \in Nat
<1> DEFINE f == [i \in KeptIn(t) |-> t[i].bytes]
           S == KeptIn(t) \cap Reads
<1>1. S \subseteq Live(t) BY DEF KeptIn
<1>2. IsFiniteSet(S) BY <1>1, FS_Subset
<1>3. \A i \in KeptIn(t) : t[i] \in Entry BY DEF KeptIn, Live, Table
<1>4. \A i \in KeptIn(t) : t[i].bytes \in Nat BY <1>3, EntryFacts
<1>5. \A i \in S : f[i] \in Nat BY <1>4
<1> HIDE DEF f, S
<1>6. SumFunctionOnSet(f, S) \in Nat BY <1>2, <1>5, SumNat
<1>7. QED BY <1>2, <1>3, <1>4, <1>6 DEF f, S, Bytes

LEMMA BytesFewer ==
  ASSUME NEW t \in Table, NEW u \in Table, IsFiniteSet(Live(t)),
         \A i \in KeptIn(u) \cap Reads : i \in KeptIn(t) /\ u[i] = t[i]
  PROVE  Bytes(u) \in Nat /\ Bytes(t) \in Nat /\ Bytes(u) <= Bytes(t)
<1> DEFINE f == [i \in KeptIn(t) |-> t[i].bytes]
           g == [i \in KeptIn(u) |-> u[i].bytes]
           S == KeptIn(t) \cap Reads
           T == KeptIn(u) \cap Reads
<1>1. IsFiniteSet(S) /\ Bytes(t) \in Nat /\ \A i \in KeptIn(t) : t[i].bytes \in Nat
  BY BytesNat
<1>2. T \in SUBSET S OBVIOUS
<1>3. IsFiniteSet(T) BY <1>1, <1>2, FS_Subset
<1>4. \A i \in T : f[i] = g[i] OBVIOUS
<1>5. \A i \in S : f[i] \in Nat BY <1>1
<1>6. Bytes(t) = SumFunctionOnSet(f, S) /\ Bytes(u) = SumFunctionOnSet(g, T) BY DEF Bytes
<1> HIDE DEF f, g, S, T
<1>7. SumFunctionOnSet(f, T) = SumFunctionOnSet(g, T) BY <1>3, <1>4, SumSame
<1>8. SumFunctionOnSet(f, T) <= SumFunctionOnSet(f, S) BY <1>1, <1>2, <1>5, SumPart
<1>9. \A i \in T : f[i] \in Nat BY <1>2, <1>5
<1>10. SumFunctionOnSet(f, T) \in Nat BY <1>3, <1>9, SumNat
<1>11. QED BY <1>1, <1>6, <1>7, <1>8, <1>10

\* A step that only removes entries stays within the limits.
LEMMA FewerWithin ==
  ASSUME TypeOK, TypeOK', Within,
         \A i \in Ids : table'[i] = NoEntry \/ table'[i] = table[i]
  PROVE  Within'
<1> DEFINE u == table'
<1>1. table \in Table /\ u \in Table BY DEF TypeOK, Table
<1>2. Live(u) \subseteq Live(table) /\ \A i \in KeptIn(u) : i \in KeptIn(table) /\ u[i] = table[i]
  BY DEF Live, KeptIn
<1> HIDE DEF u
<1>3. /\ IsFiniteSet(Live(u)) /\ Cardinality(Live(u)) \in Nat
      /\ Cardinality(Live(table)) \in Nat /\ Cardinality(Live(u)) <= Cardinality(Live(table))
  BY <1>2, LiveFewer DEF Within
<1>4. Bytes(u) \in Nat /\ Bytes(table) \in Nat /\ Bytes(u) <= Bytes(table)
  BY <1>1, <1>2, BytesFewer DEF Within
<1>5. Cardinality(Live(u)) <= MaxEntries
  BY <1>3, ReplayAssumption DEF Within, Bounded
<1>6. Bytes(u) <= MaxBytes BY <1>4, ReplayAssumption DEF Within, Bounded
<1>7. QED BY <1>3, <1>5, <1>6 DEF Within, Bounded, u

\* A new execution finds room or takes the place of a kept entry; it holds no
\* bytes itself.
LEMMA BeginWithin ==
  ASSUME IInv, TypeOK', Within, NEW h \in Handlers, NEW a \in asks, Begin(h, a)
  PROVE  Within'
<1> DEFINE u == table'
           p == Pruned
<1>1. PICK S \in Evicted(p) :
        u = [Del(p, S) EXCEPT
               ![a.id] = [fp |-> a.fp, run |-> runs', kept |-> FALSE, bytes |-> 0,
                          expires |-> clock + ControlTTL]]
  BY DEF Begin
<1>2. /\ table \in Table /\ u \in Table /\ p \in Table /\ a.id \in Ids /\ p[a.id] = NoEntry
      /\ \A i \in Ids : p[i] # NoEntry => p[i] = table[i]
  BY PrunedFacts DEF IInv, TypeOK, Table, Begin, Ask
<1>3. S \subseteq Ids BY DEF Evicted, Oldest, Evictable, KeptIn, Live
<1> HIDE DEF u, p
<1>4. Del(p, S) \in Table /\ \A i \in Ids : Del(p, S)[i] = IF i \in S THEN NoEntry ELSE p[i]
  BY <1>2, DelType DEF Table
<1>5. \A i \in Ids \ {a.id} : u[i] = IF i \in S THEN NoEntry ELSE p[i]
  BY <1>1, <1>2, <1>4 DEF Table
<1>6. ~u[a.id].kept BY <1>1, <1>2, <1>4 DEF Table
<1>7. Live(u) \subseteq (Live(p) \ S) \cup {a.id} BY <1>5 DEF Live
<1>8. /\ IsFiniteSet(Live(p)) /\ Cardinality(Live(p)) \in Nat
      /\ Cardinality(Live(table)) \in Nat /\ Cardinality(Live(p)) <= Cardinality(Live(table))
  <2>1. Live(p) \subseteq Live(table) BY <1>2 DEF Live
  <2>2. QED BY <2>1, LiveFewer DEF Within
<1>9. IsFiniteSet(Live(p) \ S) /\ Cardinality(Live(p) \ S) \in Nat
  BY <1>8, FS_Subset, FS_CardinalityType
<1>10. Cardinality(Live(p) \ S) + 1 <= MaxEntries
  <2>1. CASE Full(p)
    <3>1. PICK i \in KeptIn(p) : S = {i} BY <2>1 DEF Evicted, Oldest, Evictable
    <3>2. i \in Live(p) BY DEF KeptIn
    <3>3. Cardinality(Live(p) \ S) = Cardinality(Live(p)) - 1
      BY <1>8, <3>1, <3>2, FS_RemoveElement
    <3>4. Cardinality(Live(table)) <= MaxEntries BY DEF Within, Bounded
    <3>5. QED BY <1>8, <3>3, <3>4, ReplayAssumption
  <2>2. CASE ~Full(p)
    <3>1. Cardinality(Live(p)) < MaxEntries BY <1>8, <2>2, ReplayAssumption DEF Full
    <3>2. S = {} BY <2>2 DEF Evicted
    <3>3. Live(p) \ S = Live(p) BY <3>2
    <3>4. QED BY <1>8, <3>1, <3>3, ReplayAssumption
  <2>3. QED BY <2>1, <2>2
<1>11. a.id \notin Live(p) \ S BY <1>2 DEF Live
<1>12. /\ IsFiniteSet((Live(p) \ S) \cup {a.id})
       /\ Cardinality((Live(p) \ S) \cup {a.id}) = Cardinality(Live(p) \ S) + 1
  BY <1>9, <1>11, FS_AddElement
<1>13. /\ IsFiniteSet(Live(u)) /\ Cardinality(Live(u)) \in Nat
       /\ Cardinality(Live(u)) <= Cardinality(Live(p) \ S) + 1
  BY <1>7, <1>12, FS_Subset, FS_CardinalityType
<1>14. Cardinality(Live(u)) <= MaxEntries BY <1>9, <1>10, <1>13, ReplayAssumption
<1>15. \A i \in KeptIn(u) \cap Reads : i \in KeptIn(table) /\ u[i] = table[i]
  BY <1>2, <1>5, <1>6 DEF KeptIn, Live
<1>16. Bytes(u) \in Nat /\ Bytes(table) \in Nat /\ Bytes(u) <= Bytes(table)
  BY <1>2, <1>15, BytesFewer DEF Within
<1>17. Bytes(u) <= MaxBytes BY <1>16, ReplayAssumption DEF Within, Bounded
<1>18. QED BY <1>13, <1>14, <1>17 DEF Within, Bounded, u

\* A table with one read holds that read's bytes.
LEMMA BytesOne ==
  ASSUME NEW t \in Table, IsFiniteSet(Live(t)), NEW i, KeptIn(t) \cap Reads = {i}
  PROVE  Bytes(t) = t[i].bytes
<1> DEFINE f == [j \in KeptIn(t) |-> t[j].bytes]
<1>1. i \in KeptIn(t) OBVIOUS
<1>2. f[i] = t[i].bytes /\ f[i] \in Nat BY <1>1, BytesNat
<1>3. Bytes(t) = SumFunctionOnSet(f, {} \cup {i}) BY DEF Bytes
<1> HIDE DEF f
<1>4. IsFiniteSet({}) BY FS_EmptySet
<1>5. \A y \in {} \cup {i} : f[y] \in Nat BY <1>2
<1>6. SumFunctionOnSet(f, {} \cup {i}) = SumFunctionOnSet(f, {}) + f[i]
  BY <1>4, <1>5, SumAdd
<1>7. QED BY <1>2, <1>3, <1>6, SumEmpty

\* The table before it is trimmed.
LEMMA KeepFacts ==
  ASSUME IInv, NEW h \in Handlers, NEW s \in Sizes, hand[h].pc = "run"
  PROVE  LET i == hand[h].ask.id IN
         /\ i \in Ids /\ s \in Nat /\ Own(h) /\ Keep(i, s) \in Table /\ table \in Table
         /\ Keep(i, s)[i] \in Entry /\ Keep(i, s)[i].bytes = s /\ Keep(i, s)[i].kept
         /\ \A j \in Ids \ {i} : Keep(i, s)[j] = table[j]
         /\ Live(Keep(i, s)) = Live(table)
<1> DEFINE i == hand[h].ask.id
           t == Keep(i, s)
           e == [fp |-> table[i].fp, run |-> table[i].run, kept |-> TRUE, bytes |-> s,
                 expires |-> clock + TTL(i)]
<1>1. /\ i \in Ids /\ table[i] \in Entry /\ Own(h) /\ table \in Table /\ clock \in Nat
      /\ s \in Nat
  BY HandFacts, ReplayAssumption DEF IInv, TypeOK, Table
<1>2. TTL(i) \in Nat BY ReplayAssumption DEF TTL
<1>3. e \in Entry BY <1>1, <1>2, EntryFacts DEF Entry
<1>4. t = [table EXCEPT ![i] = e] BY DEF Keep
<1>5. e.bytes = s /\ e.kept OBVIOUS
<1> HIDE DEF e
<1>6. t \in Table BY <1>1, <1>3, <1>4 DEF Table
<1>7. t[i] = e /\ \A j \in Ids \ {i} : t[j] = table[j] BY <1>1, <1>4 DEF Table
<1>8. Live(t) = Live(table) BY <1>1, <1>3, <1>7, EntryFacts DEF Live
<1>9. QED BY <1>1, <1>3, <1>5, <1>6, <1>7, <1>8

\* The reads that are left after trimming fit, or only the new one is left, which
\* fits as well: a reply above the limit of one reply is not kept at all.
LEMMA CompleteWithin ==
  ASSUME IInv, TypeOK', Within, NEW h \in Handlers, NEW s \in Sizes, Complete(h, s)
  PROVE  Within'
<1> DEFINE i == hand[h].ask.id
           t == Keep(i, s)
           u == table'
<1>1. hand[h].pc = "run" /\ u \in Completed(h, s) BY DEF Complete
<1>2. /\ i \in Ids /\ s \in Nat /\ Own(h) /\ t \in Table /\ table \in Table
      /\ t[i] \in Entry /\ t[i].bytes = s /\ t[i].kept
      /\ \A j \in Ids \ {i} : t[j] = table[j]
      /\ Live(t) = Live(table)
  BY <1>1, KeepFacts
<1>3. CASE TooLarge(i, s)
  <2>1. u = Del(table, {i}) BY <1>1, <1>2, <1>3 DEF Completed
  <2>2. \A j \in Ids : table'[j] = NoEntry \/ table'[j] = table[j]
    BY <1>2, <2>1, DelType DEF Table
  <2>3. QED BY <2>2, FewerWithin DEF IInv
<1>4. CASE ~TooLarge(i, s)
  <2>1. PICK R \in IF i \in Reads THEN Trimmed(t, i) ELSE {{}} : u = Del(t, R)
    BY <1>1, <1>2, <1>4 DEF Completed
  <2> HIDE DEF t, u
  <2>2. u \in Table /\ \A j \in Ids : u[j] = IF j \in R THEN NoEntry ELSE t[j]
    BY <1>2, <2>1, DelType DEF Table
  <2>3. Live(u) \subseteq Live(t) BY <2>2 DEF Live
  <2>4. /\ IsFiniteSet(Live(u)) /\ Cardinality(Live(u)) \in Nat
        /\ Cardinality(Live(t)) \in Nat /\ Cardinality(Live(u)) <= Cardinality(Live(t))
    BY <1>2, <2>3, LiveFewer DEF Within
  <2>5. Cardinality(Live(u)) <= MaxEntries
    BY <1>2, <2>4, ReplayAssumption DEF Within, Bounded
  <2>6. Bytes(u) <= MaxBytes
    <3>1. CASE i \notin Reads
      <4>1. \A j \in KeptIn(u) \cap Reads : j \in KeptIn(table) /\ u[j] = table[j]
        BY <1>2, <2>2, <3>1 DEF KeptIn, Live
      <4>2. Bytes(u) \in Nat /\ Bytes(table) \in Nat /\ Bytes(u) <= Bytes(table)
        BY <1>2, <2>2, <4>1, BytesFewer DEF Within
      <4>3. QED BY <4>2, ReplayAssumption DEF Within, Bounded
    <3>2. CASE i \in Reads
      <4> DEFINE old == (KeptIn(t) \cap Reads) \ {i}
      <4>1. R \subseteq old /\ (~(Bytes(u) > MaxBytes) \/ R = old)
        BY <2>1, <3>2 DEF Trimmed
      <4>2. CASE ~(Bytes(u) > MaxBytes)
        <5>1. Bytes(u) \in Nat BY <2>2, <2>4, BytesNat
        <5>2. QED BY <4>2, <5>1, ReplayAssumption
      <4>3. CASE R = old
        <5>1. u[i] = t[i] BY <1>2, <2>2, <4>1
        <5>2. u[i] # NoEntry BY <1>2, <5>1, EntryFacts
        <5>3. KeptIn(u) \cap Reads = {i}
          BY <1>2, <2>2, <3>2, <4>3, <5>1, <5>2 DEF KeptIn, Live
        <5>4. Bytes(u) = s BY <1>2, <2>2, <2>4, <5>1, <5>3, BytesOne
        <5>5. s <= MaxReply BY <1>2, <1>4, <3>2, ReplayAssumption DEF TooLarge
        <5>6. QED BY <1>2, <5>4, <5>5, ReplayAssumption
      <4>4. QED BY <4>1, <4>2, <4>3
    <3>3. QED BY <3>1, <3>2
  <2>7. QED BY <2>4, <2>5, <2>6 DEF Within, Bounded, u
<1>5. QED BY <1>3, <1>4

LEMMA InitWithin == Init => Within
<1> SUFFICES ASSUME Init PROVE Within OBVIOUS
<1>1. table \in Table /\ \A i \in Ids : table[i] = NoEntry BY DEF Init, Table
<1>2. Live(table) = {} BY <1>1 DEF Live
<1>3. IsFiniteSet(Live(table)) /\ Cardinality(Live(table)) = 0 BY <1>2, FS_EmptySet
<1>4. KeptIn(table) \cap Reads = {} BY <1>2 DEF KeptIn
<1>5. Bytes(table) = 0 BY <1>4, SumEmpty DEF Bytes
<1>6. QED BY <1>3, <1>5, ReplayAssumption DEF Within, Bounded

LEMMA StepWithin == IInv /\ IInv' /\ Within /\ [Next]_vars => Within'
<1> SUFFICES ASSUME IInv, IInv', Within, [Next]_vars PROVE Within' OBVIOUS
<1>1. TypeOK /\ TypeOK' BY DEF IInv
<1>2. ASSUME NEW h \in Handlers, NEW a \in asks, Begin(h, a) PROVE Within'
  BY <1>1, <1>2, BeginWithin
<1>3. ASSUME NEW h \in Handlers, NEW s \in Sizes, Complete(h, s) PROVE Within'
  BY <1>1, <1>3, CompleteWithin
<1>4. ASSUME table' = Pruned PROVE Within'
  <2>1. \A i \in Ids : table'[i] = NoEntry \/ table'[i] = table[i]
    BY <1>4, PrunedFacts
  <2>2. QED BY <1>1, <2>1, FewerWithin
<1>5. ASSUME NEW h \in Handlers, NEW a \in asks, Mismatch(h, a) \/ Join(h, a) \/ Miss(h, a)
      PROVE Within'
  BY <1>4, <1>5 DEF Mismatch, Join, Miss, Refused
<1>6. ASSUME NEW h \in Handlers, Abort(h) PROVE Within'
  <2>1. table' = table \/ table' = Del(table, {hand[h].ask.id}) BY <1>6 DEF Abort
  <2>2. \A i \in Ids : table'[i] = NoEntry \/ table'[i] = table[i]
    BY <1>1, <2>1, DelType DEF TypeOK
  <2>3. QED BY <1>1, <2>2, FewerWithin
<1>7. ASSUME table' = table PROVE Within' BY <1>1, <1>7, FewerWithin
<1>8. ASSUME NEW h \in Handlers, Wake(h) \/ GiveUpWaiting(h) PROVE Within'
  BY <1>7, <1>8 DEF Wake, GiveUpWaiting
<1>9. ASSUME \/ Tick
             \/ \E i \in Ids : Request(i)
             \/ \E f \in frames : Deliver(f)
             \/ \E d \in Data : Restart(d)
             \/ UNCHANGED vars
      PROVE Within'
  BY <1>7, <1>9 DEF Tick, Request, Deliver, Restart, vars, server
<1>10. QED BY <1>2, <1>3, <1>5, <1>6, <1>8, <1>9 DEF Next, Handle

\* The replay table never exceeds its limits, of entries and of the bytes of
\* read replies: beginControlReplay evicts before it adds and
\* trimReadReplayLocked trims after a reply is kept.
THEOREM BoundedHolds == Spec => []Bounded
<1>1. Within => Bounded BY DEF Within
<1>2. QED BY <1>1, Invariance, InitWithin, StepWithin, PTL DEF Spec
-----------------------------------------------------------------------------
\* One of finitely many entries expires last.
LEMMA ExpiresLast ==
  ASSUME NEW t \in Table, NEW R, IsFiniteSet(R), R # {}, R \subseteq KeptIn(t)
  PROVE  \E j \in R : \A k \in R : t[k].expires <= t[j].expires
<1> DEFINE Up(j) == {k \in R : t[j].expires <= t[k].expires}
           F == {Up(j) : j \in R}
<1>1. \A j \in R : t[j].expires \in Nat BY EntryFacts DEF Table, KeptIn, Live
<1>2. F \subseteq SUBSET R /\ F # {} OBVIOUS
<1> HIDE DEF F
<1>3. PICK s \in F : \A r \in F : r \subseteq s => r = s BY <1>2, Smallest
<1>4. PICK j \in R : s = Up(j) BY DEF F
<1>5. ASSUME NEW k \in R, ~(t[k].expires <= t[j].expires) PROVE FALSE
  <2>1. Up(k) \subseteq Up(j) BY <1>1, <1>5
  <2>2. Up(k) \in F BY DEF F
  <2>3. Up(k) = Up(j) BY <1>3, <1>4, <2>1, <2>2
  <2>4. j \in Up(j) BY <1>1
  <2>5. t[k].expires <= t[j].expires BY <2>3, <2>4
  <2>6. QED BY <1>5, <2>5
<1>6. QED BY <1>5

\* trimReadReplayLocked always has a result.
LEMMA TrimmedSome ==
  ASSUME NEW t \in Table, IsFiniteSet(Live(t)), NEW keep
  PROVE  Trimmed(t, keep) # {}
<1> DEFINE old == (KeptIn(t) \cap Reads) \ {keep}
           Over(R) == Bytes(Del(t, R)) > MaxBytes
           Down(R) == \A j \in R, k \in old \ R : t[j].expires <= t[k].expires
           F == {R \in SUBSET old : Down(R) /\ (~Over(R) \/ R = old)}
<1>1. old \subseteq KeptIn(t) /\ old \subseteq Live(t) BY DEF KeptIn
<1>2. IsFiniteSet(old) BY <1>1, FS_Subset
<1>3. \A j \in old : t[j].expires \in Nat BY <1>1, BytesNat, EntryFacts
<1>4. old \in F OBVIOUS
<1> HIDE DEF Over
<1>5. F \subseteq SUBSET old OBVIOUS
<1>6. PICK R \in F : \A Q \in F : Q \subseteq R => Q = R
  <2> HIDE DEF F, old
  <2>1. QED BY <1>2, <1>4, <1>5, Smallest
<1>7. ASSUME R # {}
      PROVE  \E j \in R : (\A k \in R : t[k].expires <= t[j].expires) /\ Over(R \ {j})
  <2>1. R \subseteq old BY <1>6
  <2>2. IsFiniteSet(R) BY <1>2, <2>1, FS_Subset
  <2>3. PICK j \in R : \A k \in R : t[k].expires <= t[j].expires
    BY <1>1, <1>7, <2>1, <2>2, ExpiresLast
  <2>4. Down(R \ {j}) BY <1>6, <2>1, <2>3
  <2>5. R \ {j} \notin F BY <1>6
  <2>6. R \ {j} \in SUBSET old BY <2>1
  <2>7. Over(R \ {j}) BY <2>4, <2>5, <2>6
  <2>8. QED BY <2>3, <2>7
<1>8. R \in SUBSET old /\ Down(R) /\ (~Over(R) \/ R = old) BY <1>6
<1>9. R \in Trimmed(t, keep) BY <1>7, <1>8 DEF Trimmed, Over
<1>10. QED BY <1>9

\* An execution can always end, whatever the table holds: completeControlReplay
\* leaves some table for every reply.
THEOREM CompletesAlways ==
  Spec => [](\A h \in Handlers, s \in Sizes : hand[h].pc = "run" => Completed(h, s) # {})
<1>1. ASSUME IInv, Within, NEW h \in Handlers, NEW s \in Sizes, hand[h].pc = "run"
      PROVE  Completed(h, s) # {}
  <2> DEFINE i == hand[h].ask.id
             t == Keep(i, s)
  <2>1. t \in Table /\ Live(t) = Live(table) BY <1>1, KeepFacts
  <2> HIDE DEF t
  <2>2. Trimmed(t, i) # {} BY <1>1, <2>1, TrimmedSome DEF Within
  <2>3. PICK R : R \in IF i \in Reads THEN Trimmed(t, i) ELSE {{}} BY <2>2
  <2>4. QED BY <2>3 DEF Completed, t
<1>2. IInv /\ Within =>
        \A h \in Handlers, s \in Sizes : hand[h].pc = "run" => Completed(h, s) # {}
  BY <1>1
<1>3. QED BY <1>2, Invariance, InitWithin, StepWithin, PTL DEF Spec
-----------------------------------------------------------------------------
(* The refinement *)

Memo == [i \in Ids |-> IF table[i] = NoEntry THEN "new"
                       ELSE IF table[i].kept THEN "kept" ELSE "open"]

LEMMA MemoFacts ==
  ASSUME NEW i \in Ids
  PROVE  /\ Memo[i] = IF table[i] = NoEntry THEN "new" ELSE IF table[i].kept THEN "kept" ELSE "open"
         /\ Memo'[i] = IF table'[i] = NoEntry THEN "new"
                       ELSE IF table'[i].kept THEN "kept" ELSE "open"
BY DEF Memo

LEMMA AbsDefs ==
  /\ Abs!Kept = {i \in Ids : Memo[i] = "kept"}
  /\ \A S : Abs!Without(S) = [i \in Ids |-> IF i \in S THEN "new" ELSE Memo[i]]
  /\ Abs!vars = <<Memo, last, runs, answers>>
BY DEF Abs!Kept, Abs!Without, Abs!vars, Memo

LEMMA PruneForgets ==
  ASSUME IInv, table' = Pruned, UNCHANGED <<last, runs, answers>>
  PROVE  Abs!Next
<1> DEFINE S == {j \in Ids : Memo[j] = "kept" /\ table'[j] = NoEntry}
<1>1. table \in [Ids -> Entry \cup {NoEntry}] BY DEF IInv, TypeOK
<1>2. \A j \in Ids : Memo'[j] = IF j \in S THEN "new" ELSE Memo[j]
  BY <1>1, MemoFacts, PrunedFacts, EntryFacts
<1>3. Memo' = [j \in Ids |-> IF j \in S THEN "new" ELSE Memo[j]] BY <1>2 DEF Memo
<1>4. PICK T : T = S OBVIOUS
<1>5. Abs!Forget(T) BY <1>3, <1>4 DEF Abs!Forget, Abs!Without, Memo
<1>6. T \in SUBSET Abs!Kept BY <1>4, AbsDefs
<1>7. QED BY <1>5, <1>6 DEF Abs!Next

LEMMA BeginBegins ==
  ASSUME IInv, NEW h \in Handlers, NEW a \in asks, Begin(h, a)
  PROVE  Abs!Next
<1> DEFINE S == {j \in Ids : Memo[j] = "kept" /\ (j = a.id \/ table'[j] = NoEntry)}
<1>1. PICK R : Starts(h, a, R) BY BeginStarts
<1>2. /\ a.id \in Ids /\ table'[a.id] # NoEntry /\ ~table'[a.id].kept
      /\ table[a.id] = NoEntry \/ table[a.id].kept
      /\ \A j \in Ids \ {a.id} :
           \/ table'[j] = table[j]
           \/ table[j] # NoEntry /\ table[j].kept /\ table'[j] = NoEntry
  BY <1>1, StartFacts
<1> DEFINE W == [j \in Ids |-> IF j \in S THEN "new" ELSE Memo[j]]
<1>3. W[a.id] = "new" BY <1>2, MemoFacts
<1>4. \A j \in Ids \ {a.id} : Memo'[j] = W[j]
  <2> SUFFICES ASSUME NEW j \in Ids \ {a.id} PROVE Memo'[j] = W[j] OBVIOUS
  <2>1. CASE table'[j] = table[j]
    <3>1. Memo'[j] = Memo[j] BY <2>1, MemoFacts
    <3>2. j \in S => Memo'[j] = "new" BY MemoFacts
    <3>3. QED BY <3>1, <3>2
  <2>2. CASE table[j] # NoEntry /\ table[j].kept /\ table'[j] = NoEntry
    BY <2>2, MemoFacts
  <2>3. QED BY <1>2, <2>1, <2>2
<1>5. Memo'[a.id] = "open" BY <1>2, MemoFacts
<1>6. Memo' = [W EXCEPT ![a.id] = "open"]
  <2>1. Memo' = [j \in Ids |-> Memo'[j]] BY DEF Memo
  <2>2. [W EXCEPT ![a.id] = "open"] = [j \in Ids |-> IF j = a.id THEN "open" ELSE W[j]]
    OBVIOUS
  <2>3. QED BY <1>4, <1>5, <2>1, <2>2
<1>7. Abs!Without(S) = W BY AbsDefs
<1>8. /\ runs' = runs + 1 /\ last' = [last EXCEPT ![a.id] = runs'] /\ answers' = answers
  BY DEF Begin
<1>9. S \in SUBSET Abs!Kept BY AbsDefs
<1> HIDE DEF W, S
<1>10. PICK T : T = S OBVIOUS
<1>11. Abs!Begin(a.id, T) BY <1>3, <1>6, <1>7, <1>8, <1>10 DEF Abs!Begin, Memo
<1>12. T \in SUBSET Abs!Kept BY <1>9, <1>10
<1>13. QED BY <1>2, <1>11, <1>12 DEF Abs!Next

\* What the end of an execution does to the abstract memory.
LEMMA EndMemo ==
  ASSUME IInv, NEW h \in Handlers, Ends(h)
  PROVE  LET i == hand[h].ask.id IN
         /\ i \in Ids /\ Memo[i] = "open" /\ hand[h].run = last[i]
         /\ \E S \in SUBSET Abs!Kept : \E m \in {"kept", "new"} :
              Memo' = [Abs!Without(S) EXCEPT ![i] = m]
<1> DEFINE i == hand[h].ask.id
           S == {j \in Ids : Memo[j] = "kept" /\ table'[j] = NoEntry}
           W == [j \in Ids |-> IF j \in S THEN "new" ELSE Memo[j]]
<1>1. /\ i \in Ids /\ table[i] # NoEntry /\ ~table[i].kept /\ table[i].run = hand[h].run
      /\ table[i].run = last[i]
  BY HandFacts DEF Ends, IInv, Owned, Latest
<1>2. Memo[i] = "open" BY <1>1, MemoFacts
<1>3. Memo'[i] \in {"kept", "new"} BY <1>1, MemoFacts DEF Ends
<1>4. ASSUME NEW j \in Ids \ {i} PROVE Memo'[j] = W[j]
  <2>1. CASE table'[j] = table[j]
    <3>1. Memo'[j] = Memo[j] BY <2>1, MemoFacts
    <3>2. j \in S => Memo'[j] = "new" BY MemoFacts
    <3>3. QED BY <3>1, <3>2
  <2>2. CASE table[j] # NoEntry /\ table[j].kept /\ table'[j] = NoEntry
    BY <2>2, MemoFacts
  <2>3. QED BY <2>1, <2>2 DEF Ends
<1>5. Memo' = [W EXCEPT ![i] = Memo'[i]]
  <2>1. Memo' = [j \in Ids |-> Memo'[j]] BY DEF Memo
  <2>2. [W EXCEPT ![i] = Memo'[i]] = [j \in Ids |-> IF j = i THEN Memo'[i] ELSE W[j]]
    OBVIOUS
  <2>3. QED BY <1>4, <2>1, <2>2
<1>6. Abs!Without(S) = W /\ S \in SUBSET Abs!Kept BY AbsDefs
<1> HIDE DEF W, S
<1>7. QED BY <1>1, <1>2, <1>3, <1>5, <1>6, SMTT(30)

LEMMA StepImplements == IInv /\ [Next]_vars => [Abs!Next]_(Abs!vars)
<1> SUFFICES ASSUME IInv, [Next]_vars PROVE Abs!Next \/ UNCHANGED Abs!vars OBVIOUS
<1>0. ASSUME UNCHANGED <<table, last, runs, answers>> PROVE UNCHANGED Abs!vars
  BY <1>0 DEF Abs!vars
<1>1. ASSUME NEW h \in Handlers, NEW a \in asks, Mismatch(h, a) \/ Join(h, a) \/ Miss(h, a)
      PROVE  Abs!Next
  BY <1>1, PruneForgets DEF Mismatch, Join, Miss, Refused
<1>2. ASSUME NEW h \in Handlers, NEW a \in asks, Begin(h, a) PROVE Abs!Next
  BY <1>2, BeginBegins
<1>3. ASSUME NEW h \in Handlers, NEW s \in Sizes, Complete(h, s) PROVE Abs!Next
  <2> DEFINE i == hand[h].ask.id
  <2>1. Ends(h) BY <1>3, CompleteEnds
  <2>2. /\ i \in Ids /\ Memo[i] = "open" /\ hand[h].run = last[i]
        /\ \E S \in SUBSET Abs!Kept : \E m \in {"kept", "new"} :
             Memo' = [Abs!Without(S) EXCEPT ![i] = m]
    BY <2>1, EndMemo
  <2>3. PICK S \in SUBSET Abs!Kept : \E m \in {"kept", "new"} :
          Memo' = [Abs!Without(S) EXCEPT ![i] = m]
    BY <2>2
  <2>4. answers' = answers \cup {<<i, last[i]>>} /\ UNCHANGED <<last, runs>>
    BY <1>3, <2>2 DEF Complete
  <2>5. Abs!End(i, S) BY <2>2, <2>3, <2>4 DEF Abs!End, Memo
  <2>6. QED BY <2>2, <2>3, <2>5 DEF Abs!Next
<1>4. ASSUME NEW h \in Handlers, Abort(h) PROVE Abs!Next
  <2> DEFINE i == hand[h].ask.id
  <2>1. i \in Ids /\ Own(h) /\ hand[h].pc = "run" BY <1>4, HandFacts DEF Abort
  <2>2. table' = Del(table, {i}) /\ UNCHANGED <<last, runs, answers>>
    BY <1>4, <2>1 DEF Abort
  <2>3. \A j \in Ids : table'[j] = IF j = i THEN NoEntry ELSE table[j]
    BY <2>2, DelType DEF IInv, TypeOK
  <2>4. Memo[i] = "open" BY <2>1, MemoFacts DEF Own
  <2>5. Memo' = [Memo EXCEPT ![i] = "new"] BY <2>1, <2>3 DEF Memo
  <2>6. PICK j \in Ids : j = i BY <2>1
  <2>7. Abs!Fail(j) BY <2>2, <2>4, <2>5, <2>6 DEF Abs!Fail, Memo
  <2>8. PICK S \in SUBSET Abs!Kept : TRUE OBVIOUS
  <2>9. QED BY <2>7, <2>8 DEF Abs!Next
<1>5. ASSUME NEW h \in Handlers, Wake(h) PROVE Abs!Next \/ UNCHANGED Abs!vars
  <2> DEFINE i == hand[h].ask.id
  <2>1. i \in Ids /\ UNCHANGED <<table, last, runs>> BY <1>5, HandFacts DEF Wake, Idle
  <2>2. CASE Replayable(i)
    <3>1. answers' = answers \cup {<<i, last[i]>>}
      BY <1>5, <2>1, <2>2 DEF Wake, Replayable, IInv, Latest
    <3>2. Memo[i] = "kept" /\ Memo' = Memo BY <2>1, <2>2, MemoFacts DEF Replayable, Memo
    <3>3. Abs!Without({}) = Memo BY AbsDefs DEF Memo
    <3>4. Abs!Again(i, {}) BY <2>1, <3>1, <3>2, <3>3 DEF Abs!Again, Memo
    <3>5. QED BY <2>1, <3>4 DEF Abs!Next
  <2>3. CASE ~Replayable(i)
    <3>1. answers' = answers BY <1>5, <2>3 DEF Wake
    <3>2. QED BY <1>0, <2>1, <3>1
  <2>4. QED BY <2>2, <2>3
<1>6. ASSUME NEW h \in Handlers, GiveUpWaiting(h) PROVE UNCHANGED Abs!vars
  BY <1>0, <1>6 DEF GiveUpWaiting
<1>7. ASSUME UNCHANGED vars \/ Tick \/ (\E i \in Ids : Request(i))
             \/ (\E f \in frames : Deliver(f)) \/ (\E d \in Data : Restart(d))
      PROVE  UNCHANGED Abs!vars
  BY <1>0, <1>7 DEF vars, server, Tick, Request, Deliver, Restart
<1>8. QED BY <1>1, <1>2, <1>3, <1>4, <1>5, <1>6, <1>7 DEF Next, Handle

\* The replay window, with its handlers, evictions, lifetimes and waiters,
\* implements AnswerOnce: an identity is never carried out twice at once, and
\* every reply given belongs to the execution that is remembered.
THEOREM Implements == Spec => AnswersOnce
<1>1. Init => Abs!Init BY DEF Init, Abs!Init, NoRun
<1>2. QED BY <1>1, StepImplements, Invariance, PTL DEF Spec, AnswersOnce, Abs!Spec
=============================================================================

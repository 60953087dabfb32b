--------------------------- MODULE UspCacheProofs ---------------------------
(***************************************************************************)
(* The safety properties of the data-model cache, for every set of callers *)
(* and sweepers and every number of events.                                *)
(*                                                                         *)
(* SingleFlight is inductive with the types.  The others relate what is in *)
(* memory to what a goroutine carries in its buffer between two steps, so  *)
(* the invariant says what every buffer holds at every place of a sweep    *)
(* and of a write.                                                         *)
(***************************************************************************)
EXTENDS UspCache, TLAPS

\* The parts of TypeOK.  Every write is an event, so versions stay in range.
Numbers ==
  /\ conf \in Nat /\ run \in Nat /\ events \in Nat
  /\ run <= conf /\ conf <= events /\ events <= MaxEvents

Flags ==
  /\ refreshing \in BOOLEAN /\ rerun \in BOOLEAN /\ lastErr \in BOOLEAN
  /\ failed \in BOOLEAN /\ crashed \in BOOLEAN
  /\ raced \in BOOLEAN /\ declared \in BOOLEAN /\ denied \in BOOLEAN
  /\ modem \in {"Live", "Unknown", "Absent"}

Messages ==
  /\ mem \in Message /\ disk \in Message /\ buf \in [Threads -> Message]
  /\ inbox \in 1 .. MaxEvents \cup {None}

Promises == async \in Nat /\ settle \subseteq Versions

Places == pc \in [Threads -> Labels]

\* What a goroutine carries: a collection reports the host and the modem and
\* never an inbox; the patch of a Set carries a value of the host alone.
Carried ==
  /\ \A t \in Threads : pc[t] = "read" =>
       buf[t].modem \in {"Live", "Unknown", "Absent"} /\ buf[t].inbox = None
  /\ \A t \in Threads : pc[t] = "patch" => buf[t].modem = None /\ buf[t].inbox = None
  /\ \A t \in Threads :
       pc[t] \in {"read", "save", "store", "stored", "patch", "file", "mutated"}
         => buf[t].host \in Versions

\* The last write is applied, or its timer runs, or its call is not over.
LastWrite ==
  ~crashed => \/ run = conf \/ conf \in settle
              \/ \E c \in Callers : pc[c] \in {"patch", "file", "mutated"} /\ buf[c].host = conf

\* Owed, without the promises that a running sweep can break: a goroutine of
\* refreshAsync or the warm-up that finds one running returns at once.
Promised ==
  ~failed /\ ~crashed =>
    \/ rerun \/ settle # {} \/ UnderWay
    \/ \E t \in Threads : pc[t] = "collect"
    \/ ~refreshing /\ (async > 0 \/ pc[Warm] = "warm")
    \/ \E t \in Threads : /\ pc[t] \in {"read", "save", "store", "stored"}
                          /\ buf[t].host = conf
                          /\ pc[t] = "stored" => mem.host = conf
    \/ mem.host = conf /\ \A t \in Threads : pc[t] \notin {"read", "save", "store"}

\* What a sweep is about to store has the inbox of the memory it read.
InboxCarried ==
  ~raced => /\ mem.inbox = inbox
            /\ \A t \in Threads : pc[t] \in {"save", "store"} => buf[t].inbox = inbox

\* An absent modem is in the memory or on its way into it.
AbsentCarried ==
  declared /\ ~failed /\ ~crashed =>
    /\ \A t \in Threads : pc[t] = "read" =>
         buf[t].modem = "Absent" \/ (buf[t].modem = "Unknown" /\ mem.modem \notin Rows)
    /\ \A t \in Threads : pc[t] \in {"save", "store"} => buf[t].modem \notin Rows
    /\ (\A t \in Threads : pc[t] \notin {"read", "save", "store"}) => mem.modem \notin Rows

\* A stored sweep, and the callers it has woken, find a memory with fields.
Warmed ==
  /\ \A t \in Threads : pc[t] = "stored" => mem.host # None
  /\ \A t \in Threads : pc[t] = "woken" /\ ~failed => mem.host # None
  /\ (\E t \in Threads : pc[t] = "failed") \/ lastErr => failed
  /\ ~failed => ~denied

IInv ==
  /\ Numbers /\ Flags /\ Messages /\ Promises /\ Places
  /\ SingleFlight /\ Carried /\ LastWrite /\ Promised
  /\ InboxCarried /\ AbsentCarried /\ Warmed
-----------------------------------------------------------------------------
LEMMA TypeParts ==
  Numbers /\ Flags /\ Messages /\ Promises /\ Places => TypeOK
<1> SUFFICES ASSUME Numbers, Flags, Messages, Promises, Places PROVE TypeOK
  OBVIOUS
<1>1. conf \in Versions /\ run \in 0 .. conf /\ events \in 0 .. MaxEvents
  BY CacheAssumption DEF Numbers, Versions
<1>2. /\ {refreshing, rerun, lastErr, failed, crashed} \subseteq BOOLEAN
      /\ {raced, declared, denied} \subseteq BOOLEAN
      /\ modem \in {"Live", "Unknown", "Absent"}
  BY DEF Flags
<1>3. QED BY <1>1, <1>2 DEF TypeOK, Messages, Promises, Places

LEMMA MessageFacts ==
  ASSUME NEW m \in Message
  PROVE  /\ m.host \in Versions \cup {None}
         /\ m.modem \in Rows \cup {"Unknown", "Absent", None}
         /\ m.inbox \in 1 .. MaxEvents \cup {None}
BY DEF Message

LEMMA NoneFacts == None \notin Versions /\ None \notin 1 .. MaxEvents /\ Blank \in Message
<1>1. None \notin Versions /\ None \notin 1 .. MaxEvents
  BY CacheAssumption DEF Versions
<1>2. QED BY <1>1 DEF Blank, Message

\* mergeCachedMessageFields, field by field.
LEMMA MergeFacts ==
  ASSUME NEW m \in Message, NEW p \in Message
  PROVE  /\ Merge(m, p) \in Message
         /\ Merge(m, p).host = IF p.host # None THEN p.host ELSE m.host
         /\ Merge(m, p).modem = IF p.modem # None THEN p.modem ELSE m.modem
         /\ Merge(m, p).inbox = IF p.inbox # None THEN p.inbox ELSE m.inbox
<1> DEFINE h == IF p.host # None THEN p.host ELSE m.host
           o == IF p.modem # None THEN p.modem ELSE m.modem
           i == IF p.inbox # None THEN p.inbox ELSE m.inbox
<1>1. DOMAIN m = {"host", "modem", "inbox"} BY DEF Message
<1>2. Merge(m, p) = [host |-> h, modem |-> o, inbox |-> i]
  BY <1>1 DEF Merge
<1>3. /\ h \in Versions \cup {None}
      /\ o \in Rows \cup {"Unknown", "Absent", None}
      /\ i \in 1 .. MaxEvents \cup {None}
  BY MessageFacts
<1>4. QED BY <1>2, <1>3 DEF Message

\* What a sweep stores: the host it collected, the inbox it found in memory,
\* and rows only if it collected them or did not hear of the modem.
LEMMA PreserveFacts ==
  ASSUME NEW m \in Message, NEW b \in Message, b.inbox = None,
         b.modem \in {"Live", "Unknown", "Absent"}
  PROVE  LET r == PreserveInbox(m, PreserveCellular(m, b))
         IN  /\ r \in Message
             /\ r.host = b.host /\ r.inbox = m.inbox
             /\ r.modem \in Rows =>
                  b.modem = "Live" \/ (b.modem = "Unknown" /\ m.modem \in Rows)
BY DEF PreserveInbox, PreserveCellular, Unreported, Message, Rows

LEMMA EventNumbers ==
  ASSUME Numbers, Event, UNCHANGED <<conf, run>>
  PROVE  Numbers' /\ events' \in 1 .. MaxEvents /\ events' = events + 1
BY CacheAssumption DEF Numbers, Event
-----------------------------------------------------------------------------
LEMMA AppliesKeeps ==
  ASSUME IInv, Applies
  PROVE  IInv'
<1> USE DEF IInv, Applies, device, flags, faults, history
<1>1. Numbers' BY CacheAssumption DEF Numbers
<1>2. Flags' BY DEF Flags
<1>3. Messages' BY NoneFacts, CacheAssumption DEF Messages
<1>4. Promises' BY DEF Promises, Versions
<1>5. Places' BY DEF Places, Labels, Threads
<1>6. SingleFlight' BY DEF Places, SingleFlight, Sweeping, Threads
<1>7. Carried' BY NoneFacts, MessageFacts DEF Carried, Messages, Places
<1>8. LastWrite' BY DEF LastWrite, Numbers, Messages, Places, Threads
<1>9. Promised'
  BY DEF Promised, UnderWay, Promises, Messages, Places, Threads, SingleFlight, Sweeping
<1>10. InboxCarried'
  BY NoneFacts DEF InboxCarried, Messages, Places, SingleFlight, Sweeping
<1>11. AbsentCarried'
  BY NoneFacts DEF AbsentCarried, Rows, Messages, Places, SingleFlight, Sweeping
<1>12. Warmed' BY NoneFacts DEF Warmed, Messages, Places, Flags
<1> QED BY <1>1, <1>2, <1>3, <1>4, <1>5, <1>6, <1>7, <1>8, <1>9, <1>10, <1>11, <1>12

LEMMA ModemChangesKeeps ==
  ASSUME IInv, NEW s \in {"Live", "Unknown", "Absent"}, ModemChanges(s)
  PROVE  IInv'
<1> USE DEF IInv, ModemChanges, Event, device, flags, faults, history
<1>1. Numbers' BY CacheAssumption DEF Numbers
<1>2. Flags' BY DEF Flags
<1>3. Messages' BY NoneFacts, CacheAssumption DEF Messages
<1>4. Promises' BY DEF Promises, Versions
<1>5. Places' BY DEF Places, Labels, Threads
<1>6. SingleFlight' BY DEF Places, SingleFlight, Sweeping, Threads
<1>7. Carried' BY NoneFacts, MessageFacts DEF Carried, Messages, Places
<1>8. LastWrite' BY DEF LastWrite, Numbers, Messages, Places, Threads
<1>9. Promised'
  BY DEF Promised, UnderWay, Promises, Messages, Places, Threads, SingleFlight, Sweeping
<1>10. InboxCarried'
  BY NoneFacts DEF InboxCarried, Messages, Places, SingleFlight, Sweeping
<1>11. AbsentCarried'
  BY NoneFacts DEF AbsentCarried, Rows, Messages, Places, SingleFlight, Sweeping
<1>12. Warmed' BY NoneFacts DEF Warmed, Messages, Places, Flags
<1> QED BY <1>1, <1>2, <1>3, <1>4, <1>5, <1>6, <1>7, <1>8, <1>9, <1>10, <1>11, <1>12

LEMMA RefreshAsyncKeeps ==
  ASSUME IInv, RefreshAsync
  PROVE  IInv'
<1> USE DEF IInv, RefreshAsync, Begin, MayBegin, Goto, device, flags, faults, history
<1>1. Numbers' BY CacheAssumption DEF Numbers
<1>2. Flags' BY DEF Flags
<1>3. Messages' BY NoneFacts, CacheAssumption DEF Messages
<1>4. Promises' BY DEF Promises, Versions
<1>5. Places' BY DEF Places, Labels, Threads
<1>6. SingleFlight' BY DEF Places, SingleFlight, Sweeping, Threads
<1>7. Carried' BY NoneFacts, MessageFacts DEF Carried, Messages, Places
<1>8. LastWrite' BY DEF LastWrite, Numbers, Messages, Places, Threads
<1>9. Promised'
  BY DEF Promised, UnderWay, Promises, Messages, Places, Threads, SingleFlight, Sweeping
<1>10. InboxCarried'
  BY NoneFacts DEF InboxCarried, Messages, Places, SingleFlight, Sweeping
<1>11. AbsentCarried'
  BY NoneFacts DEF AbsentCarried, Rows, Messages, Places, SingleFlight, Sweeping
<1>12. Warmed' BY NoneFacts DEF Warmed, Messages, Places, Flags
<1> QED BY <1>1, <1>2, <1>3, <1>4, <1>5, <1>6, <1>7, <1>8, <1>9, <1>10, <1>11, <1>12

LEMMA WarmupKeeps ==
  ASSUME IInv, Warmup
  PROVE  IInv'
<1> USE DEF IInv, Warmup, Begin, MayBegin, Fault, Event, Goto, device, flags, faults, history
<1>1. Numbers' BY CacheAssumption DEF Numbers
<1>2. Flags' BY DEF Flags
<1>3. Messages' BY NoneFacts, CacheAssumption DEF Messages
<1>4. Promises' BY DEF Promises, Versions
<1>5. Places' BY DEF Places, Labels, Threads
<1>6. SingleFlight' BY DEF Places, SingleFlight, Sweeping, Threads
<1>7. Carried' BY NoneFacts, MessageFacts DEF Carried, Messages, Places
<1>8. LastWrite' BY DEF LastWrite, Numbers, Messages, Places, Threads
<1>9. Promised'
  BY DEF Promised, UnderWay, Promises, Messages, Places, Threads, SingleFlight, Sweeping
<1>10. InboxCarried'
  BY NoneFacts DEF InboxCarried, Messages, Places, SingleFlight, Sweeping
<1>11. AbsentCarried'
  BY NoneFacts DEF AbsentCarried, Rows, Messages, Places, SingleFlight, Sweeping
<1>12. Warmed' BY NoneFacts DEF Warmed, Messages, Places, Flags
<1> QED BY <1>1, <1>2, <1>3, <1>4, <1>5, <1>6, <1>7, <1>8, <1>9, <1>10, <1>11, <1>12

LEMMA CollectDeviceKeeps ==
  ASSUME IInv, NEW t \in Threads, CollectDevice(t)
  PROVE  IInv'
<1> USE DEF IInv, CollectDevice, Goto, device, flags, faults, history
<1>a. /\ Collected \in Message /\ Collected.inbox = None
      /\ Collected.host = run /\ run \in Versions
      /\ Collected.modem = modem /\ modem \in {"Live", "Unknown", "Absent"}
  BY CacheAssumption DEF Collected, Message, Numbers, Flags, Versions, Rows
<1> USE <1>a
<1>1. Numbers' BY CacheAssumption DEF Numbers
<1>2. Flags' BY DEF Flags
<1>3. Messages' BY NoneFacts, CacheAssumption DEF Messages
<1>4. Promises' BY DEF Promises, Versions
<1>5. Places' BY DEF Places, Labels, Threads
<1>6. SingleFlight' BY DEF Places, SingleFlight, Sweeping, Threads
<1>7. Carried' BY NoneFacts, MessageFacts DEF Carried, Messages, Places
<1>8. LastWrite' BY DEF LastWrite, Numbers, Messages, Places, Threads
<1>9. Promised' BY DEF Promised, LastWrite, UnderWay, Messages, Places, Threads
<1>10. InboxCarried'
  BY NoneFacts DEF InboxCarried, Messages, Places, SingleFlight, Sweeping
<1>11. AbsentCarried'
  BY NoneFacts DEF AbsentCarried, Rows, Messages, Places, SingleFlight, Sweeping
<1>12. Warmed' BY NoneFacts DEF Warmed, Messages, Places, Flags
<1> QED BY <1>1, <1>2, <1>3, <1>4, <1>5, <1>6, <1>7, <1>8, <1>9, <1>10, <1>11, <1>12

LEMMA ReadPreviousKeeps ==
  ASSUME IInv, NEW t \in Threads, ReadPrevious(t)
  PROVE  IInv'
<1> USE DEF IInv, ReadPrevious, Goto, device, flags, faults, history
<1>a. /\ buf'[t] \in Message
      /\ buf'[t].host = buf[t].host /\ buf'[t].inbox = mem.inbox
      /\ buf'[t].modem \in Rows =>
           buf[t].modem = "Live" \/ (buf[t].modem = "Unknown" /\ mem.modem \in Rows)
  BY PreserveFacts DEF Carried, Messages
<1>b. buf' = [buf EXCEPT ![t] = buf'[t]] BY DEF Messages
<1> USE <1>a, <1>b
<1>1. Numbers' BY CacheAssumption DEF Numbers
<1>2. Flags' BY DEF Flags
<1>3. Messages' BY NoneFacts, CacheAssumption DEF Messages
<1>4. Promises' BY DEF Promises, Versions
<1>5. Places' BY DEF Places, Labels, Threads
<1>6. SingleFlight' BY DEF Places, SingleFlight, Sweeping, Threads
<1>7. Carried' BY NoneFacts, MessageFacts DEF Carried, Messages, Places
<1>8. LastWrite' BY DEF LastWrite, Numbers, Messages, Places, Threads
<1>9. Promised'
  BY DEF Promised, UnderWay, Promises, Messages, Places, Threads, SingleFlight, Sweeping
<1>10. InboxCarried'
  BY NoneFacts DEF InboxCarried, Messages, Places, SingleFlight, Sweeping
<1>11. AbsentCarried'
  BY NoneFacts DEF AbsentCarried, Rows, Messages, Places, SingleFlight, Sweeping
<1>12. Warmed' BY NoneFacts DEF Warmed, Messages, Places, Flags
<1> QED BY <1>1, <1>2, <1>3, <1>4, <1>5, <1>6, <1>7, <1>8, <1>9, <1>10, <1>11, <1>12

LEMMA SaveKeeps ==
  ASSUME IInv, NEW t \in Threads, Save(t)
  PROVE  IInv'
<1> USE DEF IInv, Save, Goto, device, flags, faults, history
<1>1. Numbers' BY CacheAssumption DEF Numbers
<1>2. Flags' BY DEF Flags
<1>3. Messages' BY NoneFacts, CacheAssumption DEF Messages
<1>4. Promises' BY DEF Promises, Versions
<1>5. Places' BY DEF Places, Labels, Threads
<1>6. SingleFlight' BY DEF Places, SingleFlight, Sweeping, Threads
<1>7. Carried' BY NoneFacts, MessageFacts DEF Carried, Messages, Places
<1>8. LastWrite' BY DEF LastWrite, Numbers, Messages, Places, Threads
<1>9. Promised'
  BY DEF Promised, UnderWay, Promises, Messages, Places, Threads, SingleFlight, Sweeping
<1>10. InboxCarried'
  BY NoneFacts DEF InboxCarried, Messages, Places, SingleFlight, Sweeping
<1>11. AbsentCarried'
  BY NoneFacts DEF AbsentCarried, Rows, Messages, Places, SingleFlight, Sweeping
<1>12. Warmed' BY NoneFacts DEF Warmed, Messages, Places, Flags
<1> QED BY <1>1, <1>2, <1>3, <1>4, <1>5, <1>6, <1>7, <1>8, <1>9, <1>10, <1>11, <1>12

LEMMA StoreKeeps ==
  ASSUME IInv, NEW t \in Threads, Store(t)
  PROVE  IInv'
<1> USE DEF IInv, Store, Goto, device, flags, faults, history
<1>1. Numbers' BY CacheAssumption DEF Numbers
<1>2. Flags' BY DEF Flags
<1>3. Messages' BY NoneFacts, CacheAssumption DEF Messages
<1>4. Promises' BY DEF Promises, Versions
<1>5. Places' BY DEF Places, Labels, Threads
<1>6. SingleFlight' BY DEF Places, SingleFlight, Sweeping, Threads
<1>7. Carried' BY NoneFacts, MessageFacts DEF Carried, Messages, Places
<1>8. LastWrite' BY DEF LastWrite, Numbers, Messages, Places, Threads
<1>9. Promised'
  BY DEF Promised, UnderWay, Promises, Messages, Places, Threads, SingleFlight, Sweeping
<1>10. InboxCarried'
  BY NoneFacts DEF InboxCarried, Messages, Places, SingleFlight, Sweeping
<1>11. AbsentCarried'
  BY NoneFacts DEF AbsentCarried, Rows, Messages, Places, SingleFlight, Sweeping
<1>12. Warmed'
  BY NoneFacts DEF Warmed, Carried, Messages, Places, Flags, SingleFlight, Sweeping
<1> QED BY <1>1, <1>2, <1>3, <1>4, <1>5, <1>6, <1>7, <1>8, <1>9, <1>10, <1>11, <1>12

LEMMA SweepFailsKeeps ==
  ASSUME IInv, NEW t \in Threads, SweepFails(t)
  PROVE  IInv'
<1> USE DEF IInv, SweepFails, Fault, Event, Goto, device, flags, faults, history
<1>1. Numbers' BY CacheAssumption DEF Numbers
<1>2. Flags' BY DEF Flags
<1>3. Messages' BY NoneFacts, CacheAssumption DEF Messages
<1>4. Promises' BY DEF Promises, Versions
<1>5. Places' BY DEF Places, Labels, Threads
<1>6. SingleFlight' BY DEF Places, SingleFlight, Sweeping, Threads
<1>7. Carried' BY NoneFacts, MessageFacts DEF Carried, Messages, Places
<1>8. LastWrite' BY DEF LastWrite, Numbers, Messages, Places, Threads
<1>9. Promised'
  BY DEF Promised, UnderWay, Promises, Messages, Places, Threads, SingleFlight, Sweeping
<1>10. InboxCarried'
  BY NoneFacts DEF InboxCarried, Messages, Places, SingleFlight, Sweeping
<1>11. AbsentCarried'
  BY NoneFacts DEF AbsentCarried, Rows, Messages, Places, SingleFlight, Sweeping
<1>12. Warmed' BY NoneFacts DEF Warmed, Messages, Places, Flags
<1> QED BY <1>1, <1>2, <1>3, <1>4, <1>5, <1>6, <1>7, <1>8, <1>9, <1>10, <1>11, <1>12

LEMMA FinishKeeps ==
  ASSUME IInv, NEW t \in Threads, Finish(t)
  PROVE  IInv'
<1> USE DEF IInv, Finish, Rerun, Woken, device, flags, faults, history
<1>1. Numbers' BY CacheAssumption DEF Numbers
<1>2. Flags' BY DEF Flags
<1>3. Messages' BY NoneFacts, CacheAssumption DEF Messages
<1>4. Promises' BY DEF Promises, Versions
<1>5. Places' BY DEF Places, Labels, Threads
<1>6. SingleFlight' BY DEF Places, SingleFlight, Sweeping, Threads
<1>7. Carried' BY NoneFacts, MessageFacts DEF Carried, Messages, Places
<1>8. LastWrite' BY DEF LastWrite, Numbers, Messages, Places, Threads
<1>9. Promised'
  BY DEF Promised, UnderWay, Promises, Messages, Places, Threads, SingleFlight, Sweeping
<1>10. InboxCarried'
  BY NoneFacts DEF InboxCarried, Messages, Places, SingleFlight, Sweeping
<1>11. AbsentCarried'
  BY NoneFacts DEF AbsentCarried, Rows, Messages, Places, SingleFlight, Sweeping
<1>12. Warmed' BY NoneFacts DEF Warmed, Blank, Messages, Places, Flags
<1> QED BY <1>1, <1>2, <1>3, <1>4, <1>5, <1>6, <1>7, <1>8, <1>9, <1>10, <1>11, <1>12

LEMMA CollectMissKeeps ==
  ASSUME IInv, NEW c \in Callers, CollectMiss(c)
  PROVE  IInv'
<1> USE DEF IInv, CollectMiss, Goto, device, flags, faults, history
<1>1. Numbers' BY CacheAssumption DEF Numbers
<1>2. Flags' BY DEF Flags
<1>3. Messages' BY NoneFacts, CacheAssumption DEF Messages
<1>4. Promises' BY DEF Promises, Versions
<1>5. Places' BY DEF Places, Labels, Threads
<1>6. SingleFlight' BY DEF Places, SingleFlight, Sweeping, Threads
<1>7. Carried' BY NoneFacts, MessageFacts DEF Carried, Messages, Places
<1>8. LastWrite' BY DEF LastWrite, Numbers, Messages, Places, Threads
<1>9. Promised'
  BY DEF Promised, UnderWay, Promises, Messages, Places, Threads, SingleFlight, Sweeping
<1>10. InboxCarried'
  BY NoneFacts DEF InboxCarried, Messages, Places, SingleFlight, Sweeping
<1>11. AbsentCarried'
  BY NoneFacts DEF AbsentCarried, Rows, Messages, Places, SingleFlight, Sweeping
<1>12. Warmed' BY NoneFacts DEF Warmed, Messages, Places, Flags
<1> QED BY <1>1, <1>2, <1>3, <1>4, <1>5, <1>6, <1>7, <1>8, <1>9, <1>10, <1>11, <1>12

LEMMA EnsureSnapshotKeeps ==
  ASSUME IInv, NEW c \in Callers, EnsureSnapshot(c)
  PROVE  IInv'
<1> USE DEF IInv, EnsureSnapshot, Begin, MayBegin, Goto, device, flags, faults, history
<1>1. Numbers' BY CacheAssumption DEF Numbers
<1>2. Flags' BY DEF Flags
<1>3. Messages' BY NoneFacts, CacheAssumption DEF Messages
<1>4. Promises' BY DEF Promises, Versions
<1>5. Places' BY DEF Places, Labels, Threads
<1>6. SingleFlight' BY DEF Places, SingleFlight, Sweeping, Threads
<1>7. Carried' BY NoneFacts, MessageFacts DEF Carried, Messages, Places
<1>8. LastWrite' BY DEF LastWrite, Numbers, Messages, Places, Threads
<1>9. Promised'
  BY DEF Promised, UnderWay, Promises, Messages, Places, Threads, SingleFlight, Sweeping
<1>10. InboxCarried'
  BY NoneFacts DEF InboxCarried, Messages, Places, SingleFlight, Sweeping
<1>11. AbsentCarried'
  BY NoneFacts DEF AbsentCarried, Rows, Messages, Places, SingleFlight, Sweeping
<1>12. Warmed' BY NoneFacts DEF Warmed, Messages, Places, Flags
<1> QED BY <1>1, <1>2, <1>3, <1>4, <1>5, <1>6, <1>7, <1>8, <1>9, <1>10, <1>11, <1>12

LEMMA CollectWokenKeeps ==
  ASSUME IInv, NEW c \in Callers, CollectWoken(c)
  PROVE  IInv'
<1> USE DEF IInv, CollectWoken, Goto, device, flags, faults, history
<1>1. Numbers' BY CacheAssumption DEF Numbers
<1>2. Flags' BY DEF Flags
<1>3. Messages' BY NoneFacts, CacheAssumption DEF Messages
<1>4. Promises' BY DEF Promises, Versions
<1>5. Places' BY DEF Places, Labels, Threads
<1>6. SingleFlight' BY DEF Places, SingleFlight, Sweeping, Threads
<1>7. Carried' BY NoneFacts, MessageFacts DEF Carried, Messages, Places
<1>8. LastWrite' BY DEF LastWrite, Numbers, Messages, Places, Threads
<1>9. Promised'
  BY DEF Promised, UnderWay, Promises, Messages, Places, Threads, SingleFlight, Sweeping
<1>10. InboxCarried'
  BY NoneFacts DEF InboxCarried, Messages, Places, SingleFlight, Sweeping
<1>11. AbsentCarried'
  BY NoneFacts DEF AbsentCarried, Rows, Messages, Places, SingleFlight, Sweeping
<1>12. Warmed' BY NoneFacts DEF Warmed, Blank, Messages, Places, Flags, Threads
<1> QED BY <1>1, <1>2, <1>3, <1>4, <1>5, <1>6, <1>7, <1>8, <1>9, <1>10, <1>11, <1>12

LEMMA CollectGivesUpKeeps ==
  ASSUME IInv, NEW c \in Callers, CollectGivesUp(c)
  PROVE  IInv'
<1> USE DEF IInv, CollectGivesUp, Fault, Event, Goto, device, flags, faults, history
<1>1. Numbers' BY CacheAssumption DEF Numbers
<1>2. Flags' BY DEF Flags
<1>3. Messages' BY NoneFacts, CacheAssumption DEF Messages
<1>4. Promises' BY DEF Promises, Versions
<1>5. Places' BY DEF Places, Labels, Threads
<1>6. SingleFlight' BY DEF Places, SingleFlight, Sweeping, Threads
<1>7. Carried' BY NoneFacts, MessageFacts DEF Carried, Messages, Places
<1>8. LastWrite' BY DEF LastWrite, Numbers, Messages, Places, Threads
<1>9. Promised'
  BY DEF Promised, UnderWay, Promises, Messages, Places, Threads, SingleFlight, Sweeping
<1>10. InboxCarried'
  BY NoneFacts DEF InboxCarried, Messages, Places, SingleFlight, Sweeping
<1>11. AbsentCarried'
  BY NoneFacts DEF AbsentCarried, Rows, Messages, Places, SingleFlight, Sweeping
<1>12. Warmed' BY NoneFacts DEF Warmed, Messages, Places, Flags
<1> QED BY <1>1, <1>2, <1>3, <1>4, <1>5, <1>6, <1>7, <1>8, <1>9, <1>10, <1>11, <1>12

LEMMA WriteKeeps ==
  ASSUME IInv, NEW c \in Callers, NEW l \in {"patch", "mutated"}, Write(c, l)
  PROVE  IInv'
<1> USE DEF IInv, Write, Event, Goto, device, flags, faults, history
<1>a. conf' \in Versions BY CacheAssumption DEF Numbers, Versions
<1>b. /\ buf'[c] \in Message /\ buf'[c].host = conf'
      /\ buf'[c].modem = None /\ buf'[c].inbox = None
  BY <1>a DEF Blank, Message, Messages, Threads
<1>c. buf' = [buf EXCEPT ![c] = buf'[c]] BY DEF Messages
<1> USE <1>a, <1>b, <1>c
<1>1. Numbers' BY CacheAssumption DEF Numbers
<1>2. Flags' BY DEF Flags
<1>3. Messages' BY NoneFacts, CacheAssumption DEF Messages
<1>4. Promises' BY DEF Promises, Versions
<1>5. Places' BY DEF Places, Labels, Threads
<1>6. SingleFlight' BY DEF Places, SingleFlight, Sweeping, Threads
<1>7. Carried' BY NoneFacts, MessageFacts DEF Carried, Messages, Places
<1>8. LastWrite' BY DEF LastWrite, Numbers, Messages, Places, Threads
<1>9. Promised'
  BY DEF Promised, UnderWay, Promises, Messages, Places, Threads, SingleFlight, Sweeping
<1>10. InboxCarried'
  BY NoneFacts DEF InboxCarried, Messages, Places, SingleFlight, Sweeping
<1>11. AbsentCarried'
  BY NoneFacts DEF AbsentCarried, Rows, Messages, Places, SingleFlight, Sweeping
<1>12. Warmed' BY NoneFacts DEF Warmed, Messages, Places, Flags
<1> QED BY <1>1, <1>2, <1>3, <1>4, <1>5, <1>6, <1>7, <1>8, <1>9, <1>10, <1>11, <1>12

LEMMA PatchSetKeeps ==
  ASSUME IInv, NEW c \in Callers, PatchSet(c)
  PROVE  IInv'
<1> USE DEF IInv, PatchSet, Patch, Goto, device, flags, faults, history
<1>a. /\ mem' \in Message /\ mem'.modem = mem.modem /\ mem'.inbox = mem.inbox
      /\ mem'.host = buf[c].host /\ buf[c].host \in Versions
  BY MergeFacts, NoneFacts DEF Carried, Messages, Threads
<1> USE <1>a
<1>1. Numbers' BY CacheAssumption DEF Numbers
<1>2. Flags' BY DEF Flags
<1>3. Messages' BY NoneFacts, CacheAssumption DEF Messages
<1>4. Promises' BY DEF Promises, Versions
<1>5. Places' BY DEF Places, Labels, Threads
<1>6. SingleFlight' BY DEF Places, SingleFlight, Sweeping, Threads
<1>7. Carried' BY NoneFacts, MessageFacts DEF Carried, Messages, Places
<1>8. LastWrite' BY DEF LastWrite, Numbers, Messages, Places, Threads
<1>9. Promised'
  BY DEF Promised, UnderWay, Promises, Messages, Places, Threads, SingleFlight, Sweeping
<1>10. InboxCarried'
  BY NoneFacts DEF InboxCarried, Messages, Places, SingleFlight, Sweeping
<1>11. AbsentCarried'
  BY NoneFacts DEF AbsentCarried, Rows, Messages, Places, SingleFlight, Sweeping
<1>12. Warmed' BY NoneFacts DEF Warmed, Messages, Places, Flags
<1> QED BY <1>1, <1>2, <1>3, <1>4, <1>5, <1>6, <1>7, <1>8, <1>9, <1>10, <1>11, <1>12

LEMMA PatchInboxKeeps ==
  ASSUME IInv, NEW c \in Callers, PatchInbox(c)
  PROVE  IInv'
<1> USE DEF IInv, PatchInbox, Event, Between, Goto, device, flags, faults, history
<1>a. events' \in 1 .. MaxEvents /\ events' = events + 1
  BY EventNumbers
<1>b. /\ mem' \in Message /\ mem'.inbox = events'
      /\ mem'.host = mem.host /\ mem'.modem = mem.modem
  BY <1>a DEF Message, Messages
<1> USE <1>a, <1>b
<1>1. Numbers' BY EventNumbers
<1>2. Flags' BY DEF Flags
<1>3. Messages' BY NoneFacts, CacheAssumption DEF Messages
<1>4. Promises' BY DEF Promises, Versions
<1>5. Places' BY DEF Places, Labels, Threads
<1>6. SingleFlight' BY DEF Places, SingleFlight, Sweeping, Threads
<1>7. Carried' BY NoneFacts, MessageFacts DEF Carried, Messages, Places
<1>8. LastWrite' BY DEF LastWrite, Numbers, Messages, Places, Threads
<1>9. Promised'
  BY DEF Promised, UnderWay, Promises, Messages, Places, Threads, SingleFlight, Sweeping
<1>10. InboxCarried'
  BY NoneFacts DEF InboxCarried, Messages, Places, SingleFlight, Sweeping
<1>11. AbsentCarried'
  BY NoneFacts DEF AbsentCarried, Rows, Messages, Places, SingleFlight, Sweeping
<1>12. Warmed' BY NoneFacts DEF Warmed, Messages, Places, Flags
<1> QED BY <1>1, <1>2, <1>3, <1>4, <1>5, <1>6, <1>7, <1>8, <1>9, <1>10, <1>11, <1>12

LEMMA PatchFileSetKeeps ==
  ASSUME IInv, NEW c \in Callers, pc[c] = "file", PatchFile(c)
  PROVE  IInv'
<1> USE DEF IInv, device, flags, history
<1>a. UNCHANGED faults \/ (Event /\ failed' = TRUE /\ UNCHANGED crashed)
  BY DEF PatchFile, Fault
<1>b. /\ pc' = [pc EXCEPT ![c] = "mutated"] /\ buf' = buf
      /\ disk' \in {disk, buf[c]} /\ crashed' = crashed /\ (~failed' => ~failed)
      /\ UNCHANGED <<device, mem, flags, history>>
  BY <1>a DEF PatchFile, Goto, Flags, faults
<1> USE <1>b
<1>1. Numbers' BY <1>a, EventNumbers DEF Numbers, faults
<1>2. Flags' BY <1>a DEF Flags, faults
<1>3. Messages' BY NoneFacts DEF Messages, Threads
<1>4. Promises' BY DEF Promises, Versions
<1>5. Places' BY DEF Places, Labels, Threads
<1>6. SingleFlight' BY DEF Places, SingleFlight, Sweeping, Threads
<1>7. Carried' BY NoneFacts, MessageFacts DEF Carried, Messages, Places
<1>8. LastWrite' BY DEF LastWrite, Numbers, Messages, Places, Threads
<1>9. Promised'
  BY DEF Promised, UnderWay, Promises, Messages, Places, Threads, SingleFlight, Sweeping
<1>10. InboxCarried'
  BY NoneFacts DEF InboxCarried, Messages, Places, SingleFlight, Sweeping
<1>11. AbsentCarried'
  BY NoneFacts DEF AbsentCarried, Rows, Messages, Places, SingleFlight, Sweeping
<1>12. Warmed' BY NoneFacts DEF Warmed, Messages, Places, Flags
<1> QED BY <1>1, <1>2, <1>3, <1>4, <1>5, <1>6, <1>7, <1>8, <1>9, <1>10, <1>11, <1>12

LEMMA PatchFileInboxKeeps ==
  ASSUME IInv, NEW c \in Callers, pc[c] = "inbox file", PatchFile(c)
  PROVE  IInv'
<1> USE DEF IInv, device, flags, history
<1>a. UNCHANGED faults \/ (Event /\ failed' = TRUE /\ UNCHANGED crashed)
  BY DEF PatchFile, Fault
<1>b. crashed' = crashed /\ (~failed' => ~failed)
  BY <1>a DEF Flags, faults
<1>c. /\ pc' = [pc EXCEPT ![c] = "idle"] /\ buf' = [buf EXCEPT ![c] = Blank]
      /\ disk' \in {disk, buf[c]}
      /\ UNCHANGED <<device, mem, flags, history>>
  BY DEF PatchFile, Goto
<1> USE <1>b, <1>c
<1>1. Numbers' BY <1>a, EventNumbers DEF Numbers, faults
<1>2. Flags' BY <1>a DEF Flags, faults
<1>3. Messages' BY NoneFacts DEF Messages, Threads
<1>4. Promises' BY DEF Promises, Versions
<1>5. Places' BY DEF Places, Labels, Threads
<1>6. SingleFlight' BY DEF Places, SingleFlight, Sweeping, Threads
<1>7. Carried' BY NoneFacts, MessageFacts DEF Carried, Messages, Places
<1>8. LastWrite' BY DEF LastWrite, Numbers, Messages, Places, Threads
<1>9. Promised'
  BY DEF Promised, UnderWay, Promises, Messages, Places, Threads, SingleFlight, Sweeping
<1>10. InboxCarried'
  BY NoneFacts DEF InboxCarried, Messages, Places, SingleFlight, Sweeping
<1>11. AbsentCarried'
  BY NoneFacts DEF AbsentCarried, Rows, Messages, Places, SingleFlight, Sweeping
<1>12. Warmed' BY NoneFacts DEF Warmed, Messages, Places, Flags
<1> QED BY <1>1, <1>2, <1>3, <1>4, <1>5, <1>6, <1>7, <1>8, <1>9, <1>10, <1>11, <1>12

LEMMA RefreshAfterMutationKeeps ==
  ASSUME IInv, NEW c \in Callers, RefreshAfterMutation(c)
  PROVE  IInv'
<1> USE DEF IInv, RefreshAfterMutation, RerunAsked, Goto, device, flags, faults, history
<1>1. Numbers' BY CacheAssumption DEF Numbers
<1>2. Flags' BY DEF Flags
<1>3. Messages' BY NoneFacts, CacheAssumption DEF Messages
<1>4. Promises' BY DEF Promises, Carried, Threads
<1>5. Places' BY DEF Places, Labels, Threads
<1>6. SingleFlight' BY DEF Places, SingleFlight, Sweeping, Threads
<1>7. Carried' BY NoneFacts, MessageFacts DEF Carried, Messages, Places
<1>8. LastWrite' BY DEF LastWrite, Numbers, Messages, Places, Threads
<1>9. Promised'
  BY DEF Promised, UnderWay, Promises, Messages, Places, Threads, SingleFlight, Sweeping
<1>10. InboxCarried'
  BY NoneFacts DEF InboxCarried, Messages, Places, SingleFlight, Sweeping
<1>11. AbsentCarried'
  BY NoneFacts DEF AbsentCarried, Rows, Messages, Places, SingleFlight, Sweeping
<1>12. Warmed' BY NoneFacts DEF Warmed, Messages, Places, Flags
<1> QED BY <1>1, <1>2, <1>3, <1>4, <1>5, <1>6, <1>7, <1>8, <1>9, <1>10, <1>11, <1>12

LEMMA SettleFiresKeeps ==
  ASSUME IInv, NEW v \in settle, SettleFires(v)
  PROVE  IInv'
<1> USE DEF IInv, SettleFires, RerunAsked, device, flags, faults, history
<1>1. Numbers' BY CacheAssumption DEF Numbers
<1>2. Flags' BY DEF Flags
<1>3. Messages' BY NoneFacts, CacheAssumption DEF Messages
<1>4. Promises' BY DEF Promises, Versions
<1>5. Places' BY DEF Places, Labels, Threads
<1>6. SingleFlight' BY DEF Places, SingleFlight, Sweeping, Threads
<1>7. Carried' BY NoneFacts, MessageFacts DEF Carried, Messages, Places
<1>8. LastWrite' BY DEF LastWrite, Numbers, Messages, Places, Threads
<1>9. Promised' BY DEF Promised, UnderWay, Promises, Flags
<1>10. InboxCarried'
  BY NoneFacts DEF InboxCarried, Messages, Places, SingleFlight, Sweeping
<1>11. AbsentCarried'
  BY NoneFacts DEF AbsentCarried, Rows, Messages, Places, SingleFlight, Sweeping
<1>12. Warmed' BY NoneFacts DEF Warmed, Messages, Places, Flags
<1> QED BY <1>1, <1>2, <1>3, <1>4, <1>5, <1>6, <1>7, <1>8, <1>9, <1>10, <1>11, <1>12

LEMMA PeriodicRefreshKeeps ==
  ASSUME IInv, PeriodicRefresh
  PROVE  IInv'
<1> USE DEF IInv, PeriodicRefresh, device, flags, faults, history
<1>1. Numbers' BY CacheAssumption DEF Numbers
<1>2. Flags' BY DEF Flags
<1>3. Messages' BY NoneFacts, CacheAssumption DEF Messages
<1>4. Promises' BY DEF Promises, Versions
<1>5. Places' BY DEF Places, Labels, Threads
<1>6. SingleFlight' BY DEF Places, SingleFlight, Sweeping, Threads
<1>7. Carried' BY NoneFacts, MessageFacts DEF Carried, Messages, Places
<1>8. LastWrite' BY DEF LastWrite, Numbers, Messages, Places, Threads
<1>9. Promised'
  BY DEF Promised, UnderWay, Promises, Messages, Places, Threads, SingleFlight, Sweeping
<1>10. InboxCarried'
  BY NoneFacts DEF InboxCarried, Messages, Places, SingleFlight, Sweeping
<1>11. AbsentCarried'
  BY NoneFacts DEF AbsentCarried, Rows, Messages, Places, SingleFlight, Sweeping
<1>12. Warmed' BY NoneFacts DEF Warmed, Messages, Places, Flags
<1> QED BY <1>1, <1>2, <1>3, <1>4, <1>5, <1>6, <1>7, <1>8, <1>9, <1>10, <1>11, <1>12

LEMMA CrashKeeps ==
  ASSUME IInv, Crash
  PROVE  IInv'
<1> USE DEF IInv, Crash, Event, device, flags, faults, history
<1>1. Numbers' BY CacheAssumption DEF Numbers
<1>2. Flags' BY DEF Flags
<1>3. Messages' BY NoneFacts, MessageFacts DEF Messages
<1>4. Promises' BY DEF Promises, Versions
<1>5. Places' BY DEF Places, Labels, Threads
<1>6. SingleFlight' BY DEF Places, SingleFlight, Sweeping, Threads
<1>7. Carried' BY NoneFacts, MessageFacts DEF Carried, Messages, Places
<1>8. LastWrite' BY DEF LastWrite, Numbers, Messages, Places, Threads
<1>9. Promised'
  BY DEF Promised, UnderWay, Promises, Messages, Places, Threads, SingleFlight, Sweeping
<1>10. InboxCarried'
  BY NoneFacts DEF InboxCarried, Messages, Places, SingleFlight, Sweeping
<1>11. AbsentCarried'
  BY NoneFacts DEF AbsentCarried, Rows, Messages, Places, SingleFlight, Sweeping
<1>12. Warmed' BY NoneFacts DEF Warmed, Messages, Places, Flags
<1> QED BY <1>1, <1>2, <1>3, <1>4, <1>5, <1>6, <1>7, <1>8, <1>9, <1>10, <1>11, <1>12

LEMMA InitHolds == Init => IInv
<1> SUFFICES ASSUME Init PROVE IInv OBVIOUS
<1> USE DEF Init
<1>0. Numbers BY CacheAssumption DEF Numbers
<1>1. Flags /\ Promises BY DEF Flags, Promises
<1>2. Messages BY NoneFacts DEF Messages
<1>3. Places /\ pc[Warm] = "warm" BY DEF Places, Labels, Threads
<1>4. \A t \in Threads : pc[t] \in {"idle", "warm"} OBVIOUS
<1>5. SingleFlight /\ Carried BY <1>4 DEF SingleFlight, Sweeping, Carried, Threads
<1>6. LastWrite /\ Promised BY <1>3 DEF LastWrite, Promised
<1>7. InboxCarried /\ AbsentCarried /\ Warmed
  BY <1>4 DEF InboxCarried, AbsentCarried, Warmed, Blank
<1>8. QED BY <1>0, <1>1, <1>2, <1>3, <1>5, <1>6, <1>7 DEF IInv

LEMMA StutterKeeps == IInv /\ UNCHANGED vars => IInv'
<1> SUFFICES ASSUME IInv, UNCHANGED vars PROVE IInv' OBVIOUS
<1> USE DEF vars, device, flags, faults, history
<1>1. (Numbers /\ Flags /\ Messages /\ Promises /\ Places)'
  BY DEF IInv, Numbers, Flags, Messages, Promises, Places
<1>2. (SingleFlight /\ Carried)' BY DEF IInv, SingleFlight, Sweeping, Carried
<1>3. (LastWrite /\ Promised)' BY DEF IInv, LastWrite, Promised, UnderWay
<1>4. (InboxCarried /\ AbsentCarried /\ Warmed)'
  BY DEF IInv, InboxCarried, AbsentCarried, Warmed
<1>5. QED BY <1>1, <1>2, <1>3, <1>4 DEF IInv

LEMMA NextKeeps == IInv /\ [Next]_vars => IInv'
<1> SUFFICES ASSUME IInv, [Next]_vars PROVE IInv' OBVIOUS
<1>1. CASE UNCHANGED vars BY <1>1, StutterKeeps
<1>2. CASE Applies \/ Warmup \/ RefreshAsync \/ PeriodicRefresh \/ Crash
  BY <1>2, AppliesKeeps, WarmupKeeps, RefreshAsyncKeeps, PeriodicRefreshKeeps, CrashKeeps
<1>3. CASE \E s \in {"Live", "Unknown", "Absent"} : ModemChanges(s)
  BY <1>3, ModemChangesKeeps
<1>4. CASE \E v \in settle : SettleFires(v) BY <1>4, SettleFiresKeeps
<1>5. ASSUME NEW t \in Threads, Sweep(t) \/ SweepFails(t) PROVE IInv'
  BY <1>5, CollectDeviceKeeps, ReadPreviousKeeps, SaveKeeps, StoreKeeps, FinishKeeps,
     SweepFailsKeeps DEF Sweep
<1>6. ASSUME NEW c \in Callers,
             CollectMiss(c) \/ CollectGivesUp(c) \/ Set(c) \/ DeleteOrAdd(c) \/ PatchInbox(c)
      PROVE  IInv'
  BY <1>6, CollectMissKeeps, CollectGivesUpKeeps, WriteKeeps, PatchInboxKeeps
     DEF Set, DeleteOrAdd
<1>7. ASSUME NEW c \in Callers, Continue(c) PROVE IInv'
  <2>1. CASE PatchFile(c)
    <3>1. pc[c] \in {"file", "inbox file"} BY <2>1 DEF PatchFile
    <3>2. QED BY <2>1, <3>1, PatchFileSetKeeps, PatchFileInboxKeeps
  <2>2. QED BY <1>7, <2>1, EnsureSnapshotKeeps, CollectWokenKeeps, PatchSetKeeps,
               RefreshAfterMutationKeeps DEF Continue
<1>8. QED BY <1>1, <1>2, <1>3, <1>4, <1>5, <1>6, <1>7 DEF Next
-----------------------------------------------------------------------------
\* What the invariant is for: each property a run checks follows from it.
LEMMA InvariantImplies ==
  IInv => TypeOK /\ Owed /\ SingleFlight /\ InboxKept /\ AbsentStays /\ ColdServed
<1> SUFFICES ASSUME IInv
             PROVE  TypeOK /\ Owed /\ SingleFlight /\ InboxKept /\ AbsentStays /\ ColdServed
  OBVIOUS
<1>1. TypeOK BY TypeParts DEF IInv
<1>2. SingleFlight /\ InboxKept /\ ColdServed
  BY DEF IInv, InboxCarried, InboxKept, Warmed, ColdServed
<1>3. Owed
  BY DEF IInv, Promised, Owed, Due, Sweeping, Threads
<1>4. AbsentStays
  BY DEF IInv, AbsentCarried, AbsentStays, SingleFlight, Sweeping
<1>5. QED BY <1>1, <1>2, <1>3, <1>4

LEMMA Invariance == Spec => []IInv
BY InitHolds, NextKeeps, PTL DEF Spec

\* The device, the messages, the flags and the goroutines keep their types:
\* no message of Merge or of the preserve functions has a field of another kind.
THEOREM TypeCorrect == Spec => []TypeOK
BY Invariance, InvariantImplies, PTL

\* beginRefresh and refreshOwned run one collection at a time, refreshing says
\* whether one runs, and nobody waits for one that does not.
THEOREM OneSweep == Spec => []SingleFlight
BY Invariance, InvariantImplies, PTL

\* A write that lands during a sweep is collected again: memory, or a sweep
\* about to store, disagrees with the device only while another sweep is due.
THEOREM NoWriteForgotten == Spec => []Owed
BY Invariance, InvariantImplies, PTL

\* preserveLastSMSInboxSnapshot keeps the inbox over every sweep and restart, if
\* no patch falls between a sweep's read of the memory and its store.
THEOREM InboxSurvives == Spec => []InboxKept
BY Invariance, InvariantImplies, PTL

\* preserveLastCompleteCellularSnapshot resurrects no modem declared absent.
THEOREM NoResurrection == Spec => []AbsentStays
BY Invariance, InvariantImplies, PTL

\* ensureSnapshot serves every Collect of a cold cache as long as no sweep fails
\* and no caller gives up waiting.
THEOREM ColdIsServed == Spec => []ColdServed
BY Invariance, InvariantImplies, PTL
=============================================================================

------------------------------ MODULE UspCache ------------------------------
(***************************************************************************)
(* persistentDataModelCache: the cached data model of the USP agent.       *)
(*                                                                         *)
(* Reads are served from memory.  A sweep (backend.Collect, which may take *)
(* tens of seconds) replaces the memory and the file; at most one runs.    *)
(* A Set changes the device, patches memory and file with the requested    *)
(* value and asks for a sweep now and one more after the device settled.   *)
(* A sweep that collected before the write may store after it, so a write  *)
(* that finds a sweep running asks it for one more (rerun).                *)
(*                                                                         *)
(* A message has three fields here: the value of a writable parameter (its *)
(* version: the number of writes behind it), the cellular rows with the    *)
(* discovery state, and the SMS inbox, which only patches bring.           *)
(***************************************************************************)
EXTENDS Integers, FiniteSets

CONSTANTS
  Callers,     \* goroutines calling Collect, Set, Delete, Add and Patch
  Sweepers,    \* goroutines started by refreshAsync
  Warm,        \* the goroutine of the warm-up
  None,        \* a field that a message does not have
  MaxEvents    \* bound: writes, inboxes fetched, changes of the modem's
               \* presence, failures and restarts, all together

ASSUME CacheAssumption ==
  /\ Callers \cap Sweepers = {} /\ Warm \notin Callers \cup Sweepers
  /\ None \notin Nat \cup {"Live", "Stale", "Unknown", "Absent"}
  /\ MaxEvents \in Nat

VARIABLES
  conf,        \* the device: the value last written
  run,         \* the device: the value it has applied and reports
  modem,       \* the device: what a scan for the modem finds
  mem,         \* c.msg
  disk,        \* the cache file
  refreshing,  \* c.refreshing
  rerun,       \* c.rerun
  lastErr,     \* c.lastRefreshErr # nil
  async,       \* goroutines of refreshAsync that have not begun
  settle,      \* the writes whose AfterFunc timer is running
  pc,          \* where each goroutine is
  buf,         \* the message it is about to write
  events,      \* bounded events so far
  failed,      \* history: a sweep, a save, a warm-up or a wait failed
  crashed,     \* history: the process was restarted
  inbox,       \* history: the inbox last put into the memory
  raced,       \* history: a patch fell between a sweep's read and its store
  declared,    \* history: the last conclusive scan found no modem
  denied       \* history: a Collect returned an error

device == <<conf, run, modem>>
flags == <<refreshing, rerun, lastErr, async, settle>>
history == <<inbox, raced, declared, denied>>
faults == <<events, failed, crashed>>
vars == <<device, mem, disk, flags, pc, buf, faults, history>>

Threads == Callers \cup Sweepers \cup {Warm}

Versions == 0 .. MaxEvents
Rows == {"Live", "Stale"}   \* indexed cellular objects are present
Message == [host : Versions \cup {None},
            modem : Rows \cup {"Unknown", "Absent", None},
            inbox : 1 .. MaxEvents \cup {None}]

Blank == [host |-> None, modem |-> None, inbox |-> None]   \* no fields
-----------------------------------------------------------------------------
Init ==
  /\ conf = 0 /\ run = 0 /\ modem = "Live"
  /\ mem = Blank /\ disk = Blank
  /\ refreshing = FALSE /\ rerun = FALSE /\ lastErr = FALSE
  /\ async = 0 /\ settle = {}
  /\ pc = [t \in Threads |-> IF t = Warm THEN "warm" ELSE "idle"]
  /\ buf = [t \in Threads |-> Blank]
  /\ events = 0 /\ failed = FALSE /\ crashed = FALSE
  /\ inbox = None /\ raced = FALSE /\ declared = FALSE /\ denied = FALSE

\* Bounds the events that nothing in the code limits.
Event == events < MaxEvents /\ events' = events + 1

Fault == Event /\ failed' = TRUE /\ UNCHANGED crashed

Goto(t, label) == pc' = [pc EXCEPT ![t] = label]
-----------------------------------------------------------------------------
(* The device.  A write is applied some time after backend.Set returned;     *)
(* the settle delay is chosen so that this is before the timer fires.        *)

Applies ==
  /\ run < conf
  /\ run' = run + 1
  /\ UNCHANGED <<conf, modem, mem, disk, flags, pc, buf, faults, history>>

\* The modem reboots, disappears or is back: what backend.Collect reports.
ModemChanges(s) ==
  /\ Event /\ s # modem
  /\ modem' = s
  /\ UNCHANGED <<conf, run, mem, disk, flags, pc, buf, failed, crashed, history>>

-----------------------------------------------------------------------------
(* The sweep: beginRefresh and refreshOwned. *)

\* Mutant: no single flight.
MayBeginAlways == TRUE

MayBegin == ~refreshing

Begin(t) ==
  /\ MayBegin
  /\ refreshing' = TRUE /\ lastErr' = FALSE
  /\ Goto(t, "collect")

\* The goroutine of refreshAsync: Refresh returns at once if a sweep runs.
RefreshAsync ==
  /\ async > 0
  /\ async' = async - 1
  /\ \/ \E t \in Sweepers : pc[t] = "idle" /\ Begin(t)
     \/ ~MayBegin /\ UNCHANGED <<refreshing, lastErr, pc>>
  /\ UNCHANGED <<device, mem, disk, rerun, settle, buf, faults, history>>

\* Warmup, after which the periodic loop starts.
Warmup ==
  /\ pc[Warm] = "warm"
  /\ \/ Begin(Warm) /\ UNCHANGED faults
     \/ ~MayBegin /\ Goto(Warm, "idle") /\ UNCHANGED <<refreshing, lastErr, faults>>
     \/ /\ Fault   \* the backend's own warm-up fails
        /\ Goto(Warm, "idle") /\ UNCHANGED <<refreshing, lastErr>>
  /\ UNCHANGED <<device, mem, disk, rerun, async, settle, buf, history>>

\* backend.Collect: what the device reports at that moment.
Collected == [host |-> run, modem |-> modem, inbox |-> None]

CollectDevice(t) ==
  /\ pc[t] = "collect"
  /\ buf' = [buf EXCEPT ![t] = Collected]
  /\ declared' = IF modem = "Unknown" THEN declared ELSE modem = "Absent"
  /\ Goto(t, "read")
  /\ UNCHANGED <<device, mem, disk, flags, faults, inbox, raced, denied>>

\* Mutant: an authoritative absence is treated like an unknown state.
UnreportedOrAbsent(m) == m.modem \in {"Unknown", "Absent"}

Unreported(m) == m.modem = "Unknown"

\* preserveLastCompleteCellularSnapshot; inbox paths are cellular paths too.
PreserveCellular(prev, cur) ==
  IF (prev.modem \in Rows \/ prev.inbox # None) /\ Unreported(cur)
  THEN [cur EXCEPT !.modem = IF prev.modem \in Rows THEN "Stale" ELSE @,
                   !.inbox = prev.inbox]
  ELSE cur

\* Mutant: the inbox is forgotten.
PreserveNoInbox(prev, cur) == cur

\* preserveLastSMSInboxSnapshot
PreserveInbox(prev, cur) ==
  IF cur.inbox = None THEN [cur EXCEPT !.inbox = prev.inbox] ELSE cur

\* The memory is read under the lock; it may be patched before the store.
ReadPrevious(t) ==
  /\ pc[t] = "read"
  /\ buf' = [buf EXCEPT ![t] = PreserveInbox(mem, PreserveCellular(mem, @))]
  /\ Goto(t, "save")
  /\ UNCHANGED <<device, mem, disk, flags, faults, history>>

\* The callers that wait on refreshDone.
Woken == {c \in Callers : pc[c] = "joined"}

\* Mutant: done is closed when the file is written, before the store.
SaveWakes(t) ==
  /\ pc[t] = "save"
  /\ disk' = buf[t]
  /\ pc' = [x \in Threads |-> IF x = t THEN "store"
                              ELSE IF x \in Woken THEN "woken" ELSE pc[x]]
  /\ UNCHANGED <<device, mem, buf, flags, faults, history>>

Save(t) ==
  /\ pc[t] = "save"
  /\ disk' = buf[t]
  /\ Goto(t, "store")
  /\ UNCHANGED <<device, mem, buf, flags, faults, history>>

Store(t) ==
  /\ pc[t] = "store"
  /\ mem' = buf[t]
  /\ Goto(t, "stored")
  /\ UNCHANGED <<device, disk, buf, flags, faults, history>>

\* An error, a deadline or an empty snapshot; a file that cannot be written.
SweepFails(t) ==
  /\ pc[t] \in {"collect", "save"}
  /\ Fault
  /\ Goto(t, "failed")
  /\ UNCHANGED <<device, mem, disk, buf, flags, history>>

\* Mutant: the sweep asked for is forgotten.
RerunForgotten == 0

Rerun == IF rerun THEN 1 ELSE 0

\* The deferred function: done is closed and the lock released.  A Collect
\* that ran the sweep itself returns the error, or what memory holds now.
Finish(t) ==
  /\ pc[t] \in {"stored", "failed"}
  /\ refreshing' = FALSE /\ lastErr' = (pc[t] = "failed")
  /\ rerun' = FALSE /\ async' = async + Rerun
  /\ pc' = [x \in Threads |-> IF x = t THEN "idle"
                              ELSE IF x \in Woken THEN "woken" ELSE pc[x]]
  /\ denied' = (denied \/ (t \in Callers /\ (pc[t] = "failed" \/ mem = Blank)))
  /\ buf' = [buf EXCEPT ![t] = Blank]
  /\ UNCHANGED <<device, mem, disk, settle, faults, inbox, raced, declared>>
-----------------------------------------------------------------------------
(* The callers. *)

\* Collect finds no fields.  A warm cache is read and nothing changes.
CollectMiss(c) ==
  /\ pc[c] = "idle" /\ mem = Blank
  /\ Goto(c, "cold")
  /\ UNCHANGED <<device, mem, disk, flags, buf, faults, history>>

\* ensureSnapshot runs a sweep or joins the one that runs.
EnsureSnapshot(c) ==
  /\ pc[c] = "cold"
  /\ \/ Begin(c)
     \/ ~MayBegin /\ Goto(c, "joined") /\ UNCHANGED <<refreshing, lastErr>>
  /\ UNCHANGED <<device, mem, disk, rerun, async, settle, buf, faults, history>>

\* The joined sweep ended: its error, or the memory as it is by now.
CollectWoken(c) ==
  /\ pc[c] = "woken"
  /\ denied' = (denied \/ lastErr \/ mem = Blank)
  /\ Goto(c, "idle")
  /\ UNCHANGED <<device, mem, disk, flags, buf, faults, inbox, raced, declared>>

\* ctx of a joined caller ends first.
CollectGivesUp(c) ==
  /\ pc[c] = "joined"
  /\ Fault /\ denied' = TRUE
  /\ Goto(c, "idle")
  /\ UNCHANGED <<device, mem, disk, flags, buf, inbox, raced, declared>>

\* backend.Set: the device takes the value, which buf keeps for the patch.
\* backend.Delete and Add patch nothing.
Write(c, label) ==
  /\ pc[c] = "idle" /\ Event
  /\ conf' = conf + 1
  /\ buf' = [buf EXCEPT ![c] = [Blank EXCEPT !.host = conf']]
  /\ Goto(c, label)
  /\ UNCHANGED <<run, modem, mem, disk, flags, failed, crashed, history>>

Set(c) == Write(c, "patch")

DeleteOrAdd(c) == Write(c, "mutated")

\* mergeCachedMessageFields
Merge(msg, patch) ==
  [f \in DOMAIN msg |-> IF patch[f] # None THEN patch[f] ELSE msg[f]]

\* A sweep has read the memory and not stored yet.
Between == \E t \in Threads : pc[t] \in {"save", "store"}

\* Patch: the memory under the lock, and the file without it.
Patch(c, label) ==
  /\ mem' = Merge(mem, buf[c])
  /\ buf' = [buf EXCEPT ![c] = mem']
  /\ Goto(c, label)

PatchSet(c) ==
  /\ pc[c] = "patch"
  /\ Patch(c, "file")
  /\ UNCHANGED <<device, disk, flags, faults, history>>

\* An operation fetched the SMS inbox: Patch, and nothing after it.
PatchInbox(c) ==
  /\ pc[c] = "idle" /\ Event
  /\ mem' = [mem EXCEPT !.inbox = events']
  /\ buf' = [buf EXCEPT ![c] = mem']
  /\ inbox' = events' /\ raced' = (raced \/ Between)
  /\ Goto(c, "inbox file")
  /\ UNCHANGED <<device, disk, flags, failed, crashed, declared, denied>>

\* The file may not be writable: a warning, and the call goes on.
PatchFile(c) ==
  /\ \/ disk' = buf[c] /\ UNCHANGED faults
     \/ Fault /\ UNCHANGED disk
  /\ \/ pc[c] = "file" /\ Goto(c, "mutated") /\ UNCHANGED buf
     \/ pc[c] = "inbox file" /\ Goto(c, "idle") /\ buf' = [buf EXCEPT ![c] = Blank]
  /\ UNCHANGED <<device, mem, flags, history>>

\* Mutant: a write never asks a running sweep for another.
RerunUnasked == rerun

RerunAsked == rerun \/ refreshing

\* refreshAfterMutation, with the timer for the settled device.
RefreshAfterMutation(c) ==
  /\ pc[c] = "mutated"
  /\ rerun' = RerunAsked /\ async' = async + 1
  /\ settle' = settle \cup {buf[c].host}   \* the write of this call
  /\ Goto(c, "idle") /\ buf' = [buf EXCEPT ![c] = Blank]
  /\ UNCHANGED <<device, mem, disk, refreshing, lastErr, faults, history>>

SettleFires(v) ==
  /\ run >= v
  /\ settle' = settle \ {v}
  /\ rerun' = RerunAsked /\ async' = async + 1
  /\ UNCHANGED <<device, mem, disk, refreshing, lastErr, pc, buf, faults, history>>

\* The periodic loop of Start finds a refresh due.
PeriodicRefresh ==
  /\ pc[Warm] = "idle" /\ async = 0
  /\ async' = 1
  /\ UNCHANGED <<device, mem, disk, refreshing, rerun, lastErr, settle, pc, buf,
                 faults, history>>

\* The process ends and starts again: load reads the file, which a rename
\* replaced as a whole.  Timers and goroutines are gone.
Crash ==
  /\ Event /\ crashed' = TRUE
  /\ mem' = disk
  /\ refreshing' = FALSE /\ rerun' = FALSE /\ lastErr' = FALSE
  /\ async' = 0 /\ settle' = {}
  /\ pc' = [t \in Threads |-> IF t = Warm THEN "warm" ELSE "idle"]
  /\ buf' = [t \in Threads |-> Blank]
  /\ inbox' = disk.inbox /\ raced' = FALSE
  /\ declared' = (declared /\ mem.modem \notin Rows)
  /\ UNCHANGED <<device, disk, failed, denied>>

Sweep(t) ==
  CollectDevice(t) \/ ReadPrevious(t) \/ Save(t) \/ Store(t) \/ Finish(t)

Continue(c) ==
  \/ EnsureSnapshot(c) \/ CollectWoken(c)
  \/ PatchSet(c) \/ PatchFile(c) \/ RefreshAfterMutation(c)

Next ==
  \/ Applies \/ Warmup \/ RefreshAsync \/ PeriodicRefresh \/ Crash
  \/ \E s \in {"Live", "Unknown", "Absent"} : ModemChanges(s)
  \/ \E v \in settle : SettleFires(v)
  \/ \E t \in Threads : Sweep(t) \/ SweepFails(t)
  \/ \E c \in Callers :
       \/ CollectMiss(c) \/ CollectGivesUp(c) \/ Set(c) \/ DeleteOrAdd(c)
       \/ PatchInbox(c) \/ Continue(c)

Spec == Init /\ [][Next]_vars

\* Started goroutines run, timers fire, collections end by their deadline and
\* the device applies what it accepted (one condition is enough for the sweeps,
\* of which one runs at a time).  Nothing is assumed of the callers,
\* the modem and the periodic loop.
FairSpec ==
  /\ Spec
  /\ WF_vars(Applies) /\ WF_vars(Warmup) /\ WF_vars(RefreshAsync)
  /\ WF_vars(\E v \in settle : SettleFires(v))
  /\ WF_vars(\E t \in Threads : Sweep(t))
  /\ \A c \in Callers : WF_vars(Continue(c))
-----------------------------------------------------------------------------
Labels == {"idle", "warm", "collect", "read", "save", "store", "stored", "failed",
           "cold", "joined", "woken", "patch", "file", "inbox file", "mutated"}

(* Types of the device, the messages, the flags and the goroutines' places.   *)
TypeOK ==
  /\ conf \in Versions /\ run \in 0 .. conf
  /\ modem \in {"Live", "Unknown", "Absent"}
  /\ mem \in Message /\ disk \in Message
  /\ {refreshing, rerun, lastErr, failed, crashed} \subseteq BOOLEAN
  /\ {raced, declared, denied} \subseteq BOOLEAN
  /\ async \in Nat /\ settle \subseteq Versions
  /\ pc \in [Threads -> Labels]
  /\ buf \in [Threads -> Message]
  /\ events \in 0 .. MaxEvents
  /\ inbox \in 1 .. MaxEvents \cup {None}

Sweeping(t) == pc[t] \in {"collect", "read", "save", "store", "stored", "failed"}

(* A sweep that has not read the device yet, or the promise of one: somebody  *)
(* will begin it, or the running one was asked for another.                   *)
Due ==
  \/ async > 0 \/ rerun \/ settle # {}
  \/ \E t \in Threads : pc[t] \in {"warm", "collect"}

(* Writes that have not come to refreshAfterMutation.                         *)
UnderWay == \E c \in Callers : pc[c] \in {"patch", "file", "mutated"}

(* A write that landed mid-sweep does not wait for the next periodic refresh: *)
(* when memory, or a sweep about to store, disagrees with the device, a sweep *)
(* that has not collected yet is due (until one fails or the process dies).   *)
Owed ==
  ~failed /\ ~crashed =>
    \/ Due \/ UnderWay
    \/ \E t \in Threads : Sweeping(t) /\ buf[t].host = conf /\ pc[t] # "failed"
    \/ mem.host = conf /\ ~\E t \in Threads : pc[t] \in {"read", "save", "store"}

(* At most one collection runs, whoever asks: a cold cache does not fan out   *)
(* several simultaneous sweeps, and an older sweep never stores over a newer. *)
(* c.refreshing says whether one runs, and whoever joined waits for one that  *)
(* really runs and will close done.                                           *)
SingleFlight ==
  /\ \A t, u \in Threads : Sweeping(t) /\ Sweeping(u) => t = u
  /\ refreshing = \E t \in Threads : Sweeping(t)
  /\ \A c \in Callers : pc[c] = "joined" => refreshing

(* The SMS inbox an operation put into the cache survives every sweep (no     *)
(* collection reports inboxes) and every restart of what the file held, as    *)
(* long as no patch fell between a sweep's read of the memory and its store.  *)
InboxKept == ~raced => mem.inbox = inbox

(* Cached history never resurrects a modem the collector declared absent,     *)
(* however many incomplete snapshots, patches and writes follow.              *)
AbsentStays ==
  declared /\ ~failed /\ ~crashed /\ ~refreshing => mem.modem \notin Rows

(* While no sweep, save or warm-up fails and no caller's context ends while   *)
(* it waits, no Collect returns an error: a caller that finds the cache cold  *)
(* is served by the sweep it runs or joins, or by a later one.                *)
ColdServed == ~failed => ~denied

(* Without the periodic refresh, and as long as no sweep fails and the        *)
(* process lives, memory that disagrees with the device agrees again: after a *)
(* Set, a Delete, an Add and after a sweep that put an older value back.      *)
WritesSeen ==
  [](~failed /\ ~crashed) => (mem.host # conf ~> mem.host = conf)
-----------------------------------------------------------------------------
(* What the code does not keep (see README). *)

(* preserveLastSMSInboxSnapshot keeps the inbox last fetched.                 *)
InboxNeverLost == mem.inbox = inbox

(* "Cached history must never resurrect a modem after the collector declares  *)
(* it absent", after a restart too.                                           *)
AbsentStaysForGood ==
  declared /\ ~failed /\ ~refreshing => mem.modem \notin Rows

(* A cold cache is empty, so that Collect waits for a complete snapshot.      *)
ColdIsEmpty == mem # Blank => mem.host # None

(* When nobody is writing, the file is what memory is.                        *)
FileAgrees ==
  ~failed /\ (\A t \in Threads : pc[t] \notin {"store", "file", "inbox file"})
    => disk = mem
=============================================================================

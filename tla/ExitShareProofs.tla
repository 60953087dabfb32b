-------------------------- MODULE ExitShareProofs --------------------------
(***************************************************************************)
(* The safety properties of ExitShare, for every set of callers and        *)
(* uplinks and every bound.                                                *)
(*                                                                         *)
(* The guard of the receive path.  GuardNeedsOffer is not inductive: a     *)
(* start publishes a new engine while the guard keeps its value, so the    *)
(* invariant says that no engine is current when a start begins, and hence *)
(* that the guard is closed (TunnelInv); that follows from Stop and Halt   *)
(* only together with where each thread may be (CallersInv, LoopInv) and   *)
(* with what the end of the process leaves (OffInv).                       *)
(*                                                                         *)
(* What is left on the host, while removing a rule and writing the file    *)
(* succeed (~Faulty).  Rules are in the record of an engine or in the file *)
(* (Traced, AtRest).  To conclude that a stop removes them, the engine     *)
(* that is stopped must be the only one with a record (Sole, Fresh) and    *)
(* the record must be what its thread goes on with (Held, Undone); the     *)
(* switch must come back with the record's note of it (Switch, Unshared,   *)
(* Forwarding).  HostInv is their conjunction.                             *)
(***************************************************************************)
EXTENDS ExitShare, TLAPS

\* Where the tunnel thread is, and which engine is current there.
TunnelInv ==
  /\ ~running => exit = NoGen
  /\ At(Tunnel, "idle") /\ running => exit \in Gens
  /\ At(Tunnel, "load") => running /\ exit = NoGen /\ n.starts < MaxStarts
  /\ At(Tunnel, "cleanup") => running /\ exit = NoGen /\ thr[Tunnel].gen \in Gens
  /\ thr[Tunnel].pc \in {"enable", "save", "share", "shared"}
       => running /\ exit = thr[Tunnel].gen /\ exit \in Gens
  /\ At(Tunnel, "halt") => ~running /\ thr[Tunnel].gen \in Gens
  /\ At(Tunnel, "unshare") => ~running /\ loop = NoGen
  /\ thr[Tunnel].pc \notin {"disable", "drop", "move"}

CallersInv ==
  \A c \in Callers : /\ thr[c].pc \in {"idle", "enable", "disable", "drop", "save"}
                     /\ thr[c].pc # "idle" => thr[c].gen \in Gens

LoopInv ==
  /\ thr[Loop].pc \in {"idle", "enable", "move", "save"}
  /\ thr[Loop].pc # "idle" => thr[Loop].gen \in Gens
  /\ At(Loop, "move") => thr[Loop].to \in Uplinks

\* No process: nothing of it is left.
OffInv ==
  proc # "on" => /\ ~running /\ ~allow /\ loop = NoGen
                 /\ \A t \in Threads : At(t, "idle")

IInv == TypeOK /\ TunnelInv /\ CallersInv /\ LoopInv /\ OffInv /\ GuardNeedsOffer
-----------------------------------------------------------------------------
(* What the updates of a thread and of a counter leave. *)

(* Goto moves one thread and keeps the engine it uses. *)
LEMMA GotoThread ==
  ASSUME TypeOK, NEW t \in Threads, NEW pc \in PC, Goto(t, pc)
  PROVE  /\ thr' \in [Threads -> Thread]
         /\ thr'[t].pc = pc /\ thr'[t].gen = thr[t].gen /\ thr'[t].to = thr[t].to
         /\ \A u \in Threads : u # t => thr'[u] = thr[u]
BY DEF TypeOK, Goto, Thread

(* A thread at rest is a thread. *)
LEMMA IdleThread == Idle \in Thread /\ Idle.pc = "idle"
BY DEF Idle, Thread, PC

(* Done puts one thread to rest. *)
LEMMA DoneThread ==
  ASSUME TypeOK, NEW t \in Threads, Done(t)
  PROVE  /\ thr' \in [Threads -> Thread]
         /\ thr'[t].pc = "idle"
         /\ \A u \in Threads : u # t => thr'[u] = thr[u]
BY IdleThread DEF TypeOK, Done

(* Enter moves one thread with the localAccessShared it read. *)
LEMMA EnterThread ==
  ASSUME TypeOK, NEW t \in Threads, NEW pc \in PC, NEW keep \in BOOLEAN, Enter(t, pc, keep)
  PROVE  /\ thr' \in [Threads -> Thread]
         /\ thr'[t].pc = pc /\ thr'[t].gen = thr[t].gen
         /\ \A u \in Threads : u # t => thr'[u] = thr[u]
BY DEF TypeOK, Enter, Thread

(* A counter below its bound may be raised; only a start changes n.starts. *)
LEMMA CountType ==
  ASSUME TypeOK
  PROVE  /\ n.starts < MaxStarts /\ Count("starts") => n' \in Counters
         /\ n.stops < MaxStops /\ Count("stops") => n' \in Counters /\ n'.starts = n.starts
         /\ n.quits < MaxQuits /\ Count("quits") => n' \in Counters /\ n'.starts = n.starts
         /\ n.crashes < MaxCrashes /\ Count("crashes") => n' \in Counters /\ n'.starts = n.starts
         /\ n.offers < MaxOffers /\ Count("offers") => n' \in Counters /\ n'.starts = n.starts
         /\ n.failures < MaxFailures /\ Count("failures") => n' \in Counters /\ n'.starts = n.starts
         /\ n.events < MaxEvents /\ Count("events") => n' \in Counters /\ n'.starts = n.starts
BY ShareAssumption DEF TypeOK, Counters, Count
-----------------------------------------------------------------------------
(* One lemma per action: the invariant is preserved. *)

(* The loop, the tunnel and the callers are different threads. *)
LEMMA Roles ==
  /\ Loop \in Threads /\ Tunnel \in Threads /\ Callers \subseteq Threads
  /\ Loop # Tunnel /\ Loop \notin Callers /\ Tunnel \notin Callers
  /\ \A t \in Threads : t \in Callers \/ t = Loop \/ t = Tunnel
BY ShareAssumption DEF Threads

(* enableOffer with nothing to do. *)
LEMMA EnableAgainStep ==
  ASSUME IInv, NEW t \in Threads, EnableAgain(t)
  PROVE  IInv'
<1>1. thr' \in [Threads -> Thread] /\ thr'[t].pc = "save" /\ thr'[t].gen = thr[t].gen
      /\ \A u \in Threads : u # t => thr'[u] = thr[u]
  BY GotoThread DEF IInv, EnableAgain, PC
<1>2. TypeOK'
  BY <1>1 DEF IInv, TypeOK, EnableAgain, device, host
<1>3. (TunnelInv /\ CallersInv /\ LoopInv /\ OffInv /\ GuardNeedsOffer)'
  BY <1>1, Roles
     DEF IInv, EnableAgain, device, host, TunnelInv, CallersInv, LoopInv, OffInv,
     GuardNeedsOffer, Current, At
<1> QED BY <1>2, <1>3 DEF IInv

(* enableOffer opens the guard for the engine it was called on. *)
LEMMA EnableOfferStep ==
  ASSUME IInv, NEW t \in Threads, EnableOffer(t)
  PROVE  IInv'
<1>0. thr[t].gen \in Gens
  BY Roles DEF IInv, EnableOffer, TunnelInv, CallersInv, LoopInv, At
<1>1. thr' \in [Threads -> Thread] /\ thr'[t].pc = "save" /\ thr'[t].gen = thr[t].gen
      /\ \A u \in Threads : u # t => thr'[u] = thr[u]
  BY GotoThread DEF IInv, EnableOffer, PC
<1>4. st' = [st EXCEPT ![thr[t].gen] = [offer |-> TRUE, nat |-> Applied(uplink, fwd)]]
      /\ Applied(uplink, fwd) \in NATState
  BY DEF IInv, TypeOK, EnableOffer, Applied, NATState, UplinkFound
<1>5. st' \in [Gens -> State]
  BY <1>0, <1>4 DEF IInv, TypeOK, State
<1>2. TypeOK'
  BY <1>1, <1>5 DEF IInv, TypeOK, EnableOffer, device, host, Late, UplinkFound
<1>3. (TunnelInv /\ CallersInv /\ LoopInv /\ OffInv)'
  BY <1>1, <1>0, Roles
     DEF IInv, EnableOffer, device, host, TunnelInv, CallersInv, LoopInv, OffInv, At
<1>7. Current' = Current
  BY <1>1, Roles DEF IInv, EnableOffer, Current, At
<1>8. st'[thr[t].gen].offer
  BY <1>0, <1>4 DEF IInv, TypeOK
<1>9. GuardNeedsOffer'
  <2>1. SUFFICES ASSUME ~late'
                 PROVE  Current' # NoGen /\ st'[Current'].offer
    BY DEF GuardNeedsOffer
  <2>2. thr[t].gen = Current
    BY <2>1 DEF EnableOffer, Late
  <2>3. 0 \notin Gens
    BY DEF Gens
  <2> QED BY <1>0, <1>7, <1>8, <2>2, <2>3 DEF NoGen
<1> QED BY <1>2, <1>3, <1>9 DEF IInv

(* enableOffer fails. *)
LEMMA EnableFailsStep ==
  ASSUME IInv, NEW t \in Threads, EnableFails(t)
  PROVE  IInv'
<1>0. thr[t].pc = "enable" /\ thr[t].gen \in Gens
  BY Roles DEF IInv, EnableFails, TunnelInv, CallersInv, LoopInv, At
<1>1. /\ thr' \in [Threads -> Thread]
      /\ \A u \in Threads : u # t => thr'[u] = thr[u]
      /\ t = Loop => thr'[t].pc = "idle"
      /\ t # Loop => thr'[t].pc = "save" /\ thr'[t].gen = thr[t].gen
  <2>1. CASE t = Loop
    BY <2>1, DoneThread DEF IInv, EnableFails
  <2>2. CASE t # Loop
    BY <2>2, GotoThread DEF IInv, EnableFails, PC
  <2> QED BY <2>1, <2>2
<1>4. n' \in Counters /\ n'.starts = n.starts
  BY CountType DEF IInv, TypeOK, EnableFails
<1>2. TypeOK'
  BY <1>1, <1>4 DEF IInv, TypeOK, EnableFails, device, host
<1>3. (TunnelInv /\ CallersInv /\ LoopInv /\ OffInv /\ GuardNeedsOffer)'
  BY <1>1, <1>0, <1>4, Roles
     DEF IInv, EnableFails, device, host, TunnelInv, CallersInv, LoopInv, OffInv,
     GuardNeedsOffer, Current, At
<1> QED BY <1>2, <1>3 DEF IInv

(* save; the loop starts with the engine. *)
LEMMA SaveStep ==
  ASSUME IInv, NEW t \in Threads, Save(t)
  PROVE  IInv'
<1>0. thr[t].pc = "save" /\ thr[t].gen \in Gens
  BY Roles DEF IInv, Save, TunnelInv, CallersInv, LoopInv, At
<1>1. /\ thr' \in [Threads -> Thread]
      /\ \A u \in Threads : u # t => thr'[u] = thr[u]
      /\ \/ thr'[t].pc = "idle"
         \/ t = Tunnel /\ thr'[t].pc = "share" /\ thr'[t].gen = thr[t].gen
  <2>1. CASE t = Tunnel /\ AllowLocalAccess
    BY <2>1, GotoThread DEF IInv, Save, PC
  <2>2. CASE ~(t = Tunnel /\ AllowLocalAccess)
    BY <2>2, DoneThread DEF IInv, Save
  <2> QED BY <2>1, <2>2
<1>2. TypeOK'
  BY <1>1, <1>0 DEF IInv, TypeOK, Save, device, host, Late
<1>3. (TunnelInv /\ CallersInv /\ LoopInv /\ OffInv /\ GuardNeedsOffer)'
  BY <1>1, <1>0, Roles
     DEF IInv, Save, device, host, TunnelInv, CallersInv, LoopInv, OffInv,
     GuardNeedsOffer, Current, At, Late
<1> QED BY <1>2, <1>3 DEF IInv

(* A call of SetExitOffer fetches the current engine. *)
LEMMA SetExitOfferStep ==
  ASSUME IInv, NEW c \in Callers, NEW on \in BOOLEAN, SetExitOffer(c, on)
  PROVE  IInv'
<1>1. thr' \in [Threads -> Thread] /\ thr'[c].pc \in {"enable", "disable"} /\ thr'[c].gen \in Gens
      /\ \A u \in Threads : u # c => thr'[u] = thr[u]
  BY Roles DEF IInv, TypeOK, SetExitOffer, PC, Thread
<1>4. n' \in Counters /\ n'.starts = n.starts
  BY CountType DEF IInv, TypeOK, SetExitOffer
<1>2. TypeOK'
  BY <1>1, <1>4 DEF IInv, TypeOK, SetExitOffer, device, host
<1>3. (TunnelInv /\ CallersInv /\ LoopInv /\ OffInv /\ GuardNeedsOffer)'
  BY <1>1, <1>4, Roles
     DEF IInv, SetExitOffer, device, host, TunnelInv, CallersInv, LoopInv, OffInv,
     GuardNeedsOffer, Current, At
<1> QED BY <1>2, <1>3 DEF IInv

(* disableOffer closes the guard. *)
LEMMA DisableStep ==
  ASSUME IInv, NEW c \in Callers, Disable(c)
  PROVE  IInv'
<1>0. thr[c].gen \in Gens
  BY Roles DEF IInv, Disable, TunnelInv, CallersInv, LoopInv, At
<1>1. thr' \in [Threads -> Thread] /\ thr'[c].pc \in {"drop", "save"} /\ thr'[c].gen = thr[c].gen
      /\ \A u \in Threads : u # c => thr'[u] = thr[u]
  BY EnterThread, Roles DEF IInv, TypeOK, Disable, PC
<1>5. st' \in [Gens -> State]
  BY <1>0 DEF IInv, TypeOK, Disable, State
<1>2. TypeOK'
  BY <1>1, <1>5 DEF IInv, TypeOK, Disable, device, host, Late
<1>3. (TunnelInv /\ CallersInv /\ LoopInv /\ OffInv /\ GuardNeedsOffer)'
  BY <1>1, <1>0, Roles
     DEF IInv, Disable, device, host, TunnelInv, CallersInv, LoopInv, OffInv,
     GuardNeedsOffer, Current, At, Late
<1> QED BY <1>2, <1>3 DEF IInv

(* The rules of an engine are removed; its offer is not touched. *)
LEMMA DropStep ==
  ASSUME IInv, NEW c \in Callers, Drop(c)
  PROVE  IInv'
<1>0. thr[c].gen \in Gens
  BY Roles DEF IInv, Drop, TunnelInv, CallersInv, LoopInv, At
<1>1. thr' \in [Threads -> Thread] /\ thr'[c].pc = "save" /\ thr'[c].gen = thr[c].gen
      /\ \A u \in Threads : u # c => thr'[u] = thr[u]
  BY GotoThread, Roles DEF IInv, Drop, PC
<1>5. st' \in [Gens -> State] /\ \A x \in Gens : st'[x].offer = st[x].offer
  BY <1>0 DEF IInv, TypeOK, Drop, State
<1>6. rules' \subseteq Uplinks /\ fwd' \in BOOLEAN
  BY DEF IInv, TypeOK, Drop, Removed, Restored
<1>2. TypeOK'
  BY <1>1, <1>5, <1>6 DEF IInv, TypeOK, Drop, device, host
<1>3. (TunnelInv /\ CallersInv /\ LoopInv /\ OffInv /\ GuardNeedsOffer)'
  BY <1>1, <1>0, <1>5, Roles
     DEF IInv, Drop, device, host, TunnelInv, CallersInv, LoopInv, OffInv,
     GuardNeedsOffer, Current, At
<1> QED BY <1>2, <1>3 DEF IInv

(* ensureNAT finds another uplink. *)
LEMMA EnsureMoveStep ==
  ASSUME IInv, NEW g \in Gens, EnsureMove(g)
  PROVE  IInv'
<1>1. /\ thr' \in [Threads -> Thread] /\ thr'[Loop].pc = "move" /\ thr'[Loop].gen = g
      /\ thr'[Loop].to \in Uplinks
      /\ \A u \in Threads : u # Loop => thr'[u] = thr[u]
  BY Roles, ZenonT(60) DEF IInv, TypeOK, EnsureMove, Moved, PC, Thread
<1>2. TypeOK'
  BY <1>1 DEF IInv, TypeOK, EnsureMove, device, host
<1>3. (TunnelInv /\ CallersInv /\ LoopInv /\ OffInv /\ GuardNeedsOffer)'
  BY <1>1, Roles
     DEF IInv, EnsureMove, device, host, TunnelInv, CallersInv, LoopInv, OffInv,
     GuardNeedsOffer, Current, At, Ready
<1> QED BY <1>2, <1>3 DEF IInv

(* The NAT follows the uplink. *)
LEMMA MoveStep ==
  ASSUME IInv, Move
  PROVE  IInv'
<1>0. thr[Loop].gen \in Gens
  BY Roles DEF IInv, Move, TunnelInv, CallersInv, LoopInv, At
<1>1. thr' \in [Threads -> Thread] /\ thr'[Loop].pc = "idle"
      /\ \A u \in Threads : u # Loop => thr'[u] = thr[u]
  BY DoneThread, Roles DEF IInv, Move
<1>4. n' \in Counters /\ n'.starts = n.starts
  BY CountType DEF IInv, TypeOK, Move
<1>5. thr[Loop].to \in Uplinks
  BY DEF IInv, LoopInv, Move, At
<1>6. Restored(st[thr[Loop].gen].nat, thr[Loop].keep) \in BOOLEAN
  BY DEF IInv, TypeOK, Restored
<1>7. st' \in [Gens -> State] /\ \A x \in Gens : st'[x].offer = st[x].offer
  BY <1>0, <1>5, <1>6 DEF IInv, TypeOK, Move, State, NATState, Applied
<1>8. rules' \subseteq Uplinks /\ fwd' \in BOOLEAN
  BY <1>5, <1>6 DEF IInv, TypeOK, Move, Removed
<1>2. TypeOK'
  BY <1>1, <1>0, <1>4, <1>7, <1>8 DEF IInv, TypeOK, Move, device, host
<1>3. (TunnelInv /\ CallersInv /\ LoopInv /\ OffInv)'
  BY <1>1, <1>0, <1>4, Roles
     DEF IInv, Move, device, host, TunnelInv, CallersInv, LoopInv, OffInv, At
<1>5a. Current' = Current
  BY <1>1, Roles DEF IInv, Move, Current, At
<1>5b. GuardNeedsOffer /\ allow' = allow /\ late' = late /\ Current \in Gens \cup {NoGen}
  BY DEF IInv, Move, TypeOK, Current, TunnelInv
<1>9. GuardNeedsOffer'
  BY <1>5a, <1>5b, <1>7 DEF GuardNeedsOffer
<1> QED BY <1>2, <1>3, <1>9 DEF IInv

(* EnsureNAT brings rules back. *)
LEMMA EnsureRepairStep ==
  ASSUME IInv, NEW g \in Gens, EnsureRepair(g)
  PROVE  IInv'
<1>1. n' \in Counters /\ n'.starts = n.starts
  BY CountType DEF IInv, TypeOK, EnsureRepair
<1>4. rules' \subseteq Uplinks
  BY DEF IInv, TypeOK, EnsureRepair, State, NATState
<1>2. TypeOK'
  BY <1>1, <1>4 DEF IInv, TypeOK, EnsureRepair, device, host
<1>3. (TunnelInv /\ CallersInv /\ LoopInv /\ OffInv /\ GuardNeedsOffer)'
  BY <1>1, Roles
     DEF IInv, EnsureRepair, device, host, TunnelInv, CallersInv, LoopInv, OffInv,
     GuardNeedsOffer, Current, At
<1> QED BY <1>2, <1>3 DEF IInv

(* ensureNAT retries an offer that is not installed. *)
LEMMA EnsureRetryStep ==
  ASSUME IInv, NEW g \in Gens, EnsureRetry(g)
  PROVE  IInv'
<1>0. thr \in [Threads -> Thread] /\ Loop \in Threads
      /\ thr' = [thr EXCEPT ![Loop].pc = "enable", ![Loop].gen = g]
  BY Roles DEF IInv, TypeOK, EnsureRetry
<1>1. thr' \in [Threads -> Thread] /\ thr'[Loop].pc = "enable" /\ thr'[Loop].gen = g
      /\ \A u \in Threads : u # Loop => thr'[u] = thr[u]
  BY <1>0 DEF PC, Thread
<1>2. TypeOK'
  BY <1>1 DEF IInv, TypeOK, EnsureRetry, device, host
<1>3. (TunnelInv /\ CallersInv /\ LoopInv /\ OffInv /\ GuardNeedsOffer)'
  BY <1>1, Roles
     DEF IInv, EnsureRetry, device, host, TunnelInv, CallersInv, LoopInv, OffInv,
     GuardNeedsOffer, Current, At, Ready
<1> QED BY <1>2, <1>3 DEF IInv

(* Agent.Start of a new process. *)
LEMMA BootStep ==
  ASSUME IInv, Boot
  PROVE  IInv'
<1>1. thr' \in [Threads -> Thread] /\ thr'[Tunnel].pc = "load"
      /\ \A u \in Threads : u # Tunnel => thr'[u] = thr[u]
  BY Roles, IdleThread DEF IInv, TypeOK, Boot, Begin, Idle, PC, Thread
<1>2. TypeOK'
  BY <1>1 DEF IInv, TypeOK, Boot, device, host, State
<1>3. (TunnelInv /\ CallersInv /\ LoopInv /\ OffInv /\ GuardNeedsOffer)'
  BY <1>1, Roles
     DEF IInv, Boot, device, host, TunnelInv, CallersInv, LoopInv, OffInv,
     GuardNeedsOffer, Current, At, TypeOK
<1> QED BY <1>2, <1>3 DEF IInv

(* Connect. *)
LEMMA ConnectStep ==
  ASSUME IInv, Connect
  PROVE  IInv'
<1>1. thr' \in [Threads -> Thread] /\ thr'[Tunnel].pc = "load"
      /\ \A u \in Threads : u # Tunnel => thr'[u] = thr[u]
  BY Roles, IdleThread DEF IInv, TypeOK, Connect, Begin, Idle, PC, Thread
<1>2. TypeOK'
  BY <1>1 DEF IInv, TypeOK, Connect, device, host
<1>3. (TunnelInv /\ CallersInv /\ LoopInv /\ OffInv /\ GuardNeedsOffer)'
  BY <1>1, Roles
     DEF IInv, Connect, device, host, TunnelInv, CallersInv, LoopInv, OffInv,
     GuardNeedsOffer, Current, At, TypeOK
<1> QED BY <1>2, <1>3 DEF IInv

(* startExitEngine loads the state: no engine is current. *)
LEMMA StartLoadStep ==
  ASSUME IInv, StartLoad
  PROVE  IInv'
<1>0. n.starts \in Nat /\ n.starts + 1 \in Gens /\ n' \in Counters
  <2>1. n.starts < MaxStarts /\ Count("starts") /\ TypeOK
    BY DEF IInv, TunnelInv, StartLoad
  <2>2. n.starts \in 0 .. MaxStarts
    BY <2>1 DEF TypeOK, Counters
  <2> QED BY <2>1, <2>2, CountType, ShareAssumption DEF Gens
<1>1. thr' \in [Threads -> Thread] /\ thr'[Tunnel].pc = "cleanup" /\ thr'[Tunnel].gen = n.starts + 1
      /\ \A u \in Threads : u # Tunnel => thr'[u] = thr[u]
  BY <1>0, Roles, ZenonT(90) DEF IInv, TypeOK, StartLoad, PC, Thread
<1>4. st' \in [Gens -> State]
  BY <1>0 DEF IInv, TypeOK, StartLoad
<1>2. TypeOK'
  BY <1>1, <1>0, <1>4 DEF IInv, TypeOK, StartLoad, device, host
<1>3. (TunnelInv /\ CallersInv /\ LoopInv /\ OffInv /\ GuardNeedsOffer)'
  BY <1>1, <1>0, Roles
     DEF IInv, StartLoad, device, host, TunnelInv, CallersInv, LoopInv, OffInv,
     GuardNeedsOffer, Current, At, TypeOK, NoGen, Gens
<1> QED BY <1>2, <1>3 DEF IInv

(* The engine is published with the guard closed. *)
LEMMA StartCleanupStep ==
  ASSUME IInv, StartCleanup
  PROVE  IInv'
<1>0. thr[Tunnel].gen \in Gens
  BY Roles DEF IInv, StartCleanup, TunnelInv, CallersInv, LoopInv, At
<1>1. /\ thr' \in [Threads -> Thread] /\ thr'[Tunnel].pc \in {"enable", "save"}
      /\ thr'[Tunnel].gen = thr[Tunnel].gen
      /\ \A u \in Threads : u # Tunnel => thr'[u] = thr[u]
  BY GotoThread, Roles DEF IInv, StartCleanup, PC
<1>5. st' \in [Gens -> State]
  BY <1>0 DEF IInv, TypeOK, StartCleanup, State
<1>6. rules' \subseteq Uplinks /\ fwd' \in BOOLEAN
  BY DEF IInv, TypeOK, StartCleanup, Removed, Restored
<1>2. TypeOK'
  BY <1>1, <1>0, <1>5, <1>6 DEF IInv, TypeOK, StartCleanup, device, host
<1>3. (TunnelInv /\ CallersInv /\ LoopInv /\ OffInv /\ GuardNeedsOffer)'
  BY <1>1, <1>0, Roles
     DEF IInv, StartCleanup, device, host, TunnelInv, CallersInv, LoopInv, OffInv,
     GuardNeedsOffer, Current, At, TypeOK
<1> QED BY <1>2, <1>3 DEF IInv

(* EnableLocalAccess; its failure stops a booting agent. *)
LEMMA ShareStep ==
  ASSUME IInv, Share
  PROVE  IInv'
<1>0. thr[Tunnel].pc = "share" /\ exit = thr[Tunnel].gen /\ exit \in Gens /\ running
  BY DEF IInv, Share, TunnelInv, At
<1>1. /\ thr' \in [Threads -> Thread]
      /\ \A u \in Threads : u # Tunnel => thr'[u] = thr[u]
      /\ \/ thr'[Tunnel].pc = "idle" /\ UNCHANGED <<running, exit>>
         \/ /\ thr'[Tunnel].pc = "shared" /\ thr'[Tunnel].gen = thr[Tunnel].gen
            /\ UNCHANGED <<running, exit>>
         \/ /\ thr'[Tunnel].pc = "halt" /\ thr'[Tunnel].gen = thr[Tunnel].gen
            /\ ~running' /\ exit' = NoGen
  <2>1. TypeOK /\ Tunnel \in Threads /\ shared \in BOOLEAN
    BY Roles DEF IInv, TypeOK
  <2>2. CASE Done(Tunnel) /\ UNCHANGED <<running, exit>>
    BY <2>1, <2>2, DoneThread
  <2>3. CASE Goto(Tunnel, "shared") /\ UNCHANGED <<running, exit>>
    BY <2>1, <2>3, GotoThread DEF PC
  <2>4. CASE Enter(Tunnel, "halt", shared) /\ running' = FALSE /\ exit' = NoGen
    BY <2>1, <2>4, EnterThread DEF PC
  <2> QED BY <2>2, <2>3, <2>4 DEF Share
<1>4. n' \in Counters /\ n'.starts = n.starts
  BY CountType DEF IInv, TypeOK, Share
<1>5. running' \in BOOLEAN /\ exit' \in Gens \cup {NoGen} /\ fwd' \in BOOLEAN /\ lan' \in BOOLEAN
  BY DEF IInv, TypeOK, Share, host
<1>2. TypeOK'
  BY <1>1, <1>4, <1>5 DEF IInv, TypeOK, Share, device, host
<1>3. (TunnelInv /\ CallersInv /\ LoopInv /\ OffInv /\ GuardNeedsOffer)'
  BY <1>1, <1>0, <1>4, Roles
     DEF IInv, Share, device, host, TunnelInv, CallersInv, LoopInv, OffInv,
     GuardNeedsOffer, Current, At, TypeOK
<1> QED BY <1>2, <1>3 DEF IInv

(* The flag of local access. *)
LEMMA SharedStep ==
  ASSUME IInv, Shared
  PROVE  IInv'
<1>1. thr' \in [Threads -> Thread] /\ thr'[Tunnel].pc = "idle"
      /\ \A u \in Threads : u # Tunnel => thr'[u] = thr[u]
  BY DoneThread, Roles DEF IInv, Shared
<1>2. TypeOK'
  BY <1>1 DEF IInv, TypeOK, Shared, device, host
<1>3. (TunnelInv /\ CallersInv /\ LoopInv /\ OffInv /\ GuardNeedsOffer)'
  BY <1>1, Roles
     DEF IInv, Shared, device, host, TunnelInv, CallersInv, LoopInv, OffInv,
     GuardNeedsOffer, Current, At, TypeOK
<1> QED BY <1>2, <1>3 DEF IInv

(* Device.Stop takes the engine away. *)
LEMMA StopStep ==
  ASSUME IInv, NEW quit \in BOOLEAN, Stop(quit)
  PROVE  IInv'
<1>0. exit \in Gens /\ thr[Tunnel].pc = "idle"
  BY DEF IInv, TunnelInv, Stop, At
<1>4. shared' \in BOOLEAN /\ lan' \in BOOLEAN /\ n' \in Counters /\ n'.starts = n.starts
  BY CountType DEF IInv, TypeOK, Stop
<1>1. thr' \in [Threads -> Thread] /\ thr'[Tunnel].pc = "halt" /\ thr'[Tunnel].gen = exit
      /\ \A u \in Threads : u # Tunnel => thr'[u] = thr[u]
  BY <1>0, <1>4, Roles DEF IInv, TypeOK, Stop, Idle, PC, Thread
<1>2. TypeOK'
  BY <1>1, <1>4 DEF IInv, TypeOK, Stop, device, host
<1>3. (TunnelInv /\ CallersInv /\ LoopInv /\ OffInv /\ GuardNeedsOffer)'
  BY <1>1, <1>0, <1>4, Roles
     DEF IInv, Stop, device, host, TunnelInv, CallersInv, LoopInv, OffInv,
     GuardNeedsOffer, Current, At, TypeOK
<1> QED BY <1>2, <1>3 DEF IInv

(* stopExitEngine closes the guard. *)
LEMMA HaltStep ==
  ASSUME IInv, Halt
  PROVE  IInv'
<1>0. thr[Tunnel].gen \in Gens
  BY Roles DEF IInv, Halt, TunnelInv, CallersInv, LoopInv, At
<1>1. thr' \in [Threads -> Thread] /\ thr'[Tunnel].pc = "unshare"
      /\ \A u \in Threads : u # Tunnel => thr'[u] = thr[u]
  BY GotoThread, Roles DEF IInv, Halt, PC
<1>5. st' \in [Gens -> State]
  BY <1>0 DEF IInv, TypeOK, Halt, State
<1>6. rules' \subseteq Uplinks /\ fwd' \in BOOLEAN
  BY DEF IInv, TypeOK, Halt, Removed, Restored
<1>2. TypeOK'
  BY <1>1, <1>0, <1>5, <1>6, ZenonT(60) DEF IInv, TypeOK, Halt, device, host
<1>3. (TunnelInv /\ CallersInv /\ LoopInv /\ OffInv /\ GuardNeedsOffer)'
  BY <1>1, Roles
     DEF IInv, Halt, device, host, TunnelInv, CallersInv, LoopInv, OffInv,
     GuardNeedsOffer, Current, At, TypeOK
<1> QED BY <1>2, <1>3 DEF IInv

(* The rest of Device.Stop, and the end of the process. *)
LEMMA UnshareStep ==
  ASSUME IInv, Unshare
  PROVE  IInv'
<1>1. /\ thr' \in [Threads -> Thread]
      /\ thr'[Tunnel].pc = "idle"
      /\ \A u \in Threads : u # Tunnel => thr'[u] = thr[u] \/ thr'[u].pc = "idle"
      /\ thr[Tunnel].quit => \A u \in Threads : thr'[u].pc = "idle"
  BY DoneThread, IdleThread, Roles DEF IInv, Unshare
<1>4. /\ proc' \in {"off", "on", "crashed"} /\ shared' \in BOOLEAN /\ allow' \in BOOLEAN
      /\ st' \in [Gens -> State] /\ lost' \in BOOLEAN /\ lan' \in BOOLEAN
  <2>1. NoState \in [Gens -> State]
    BY DEF NoState, State
  <2>2. TypeOK
    BY DEF IInv
  <2>3. lan' \in BOOLEAN
    BY DEF Unshare
  <2>4. CASE thr[Tunnel].quit
    BY <2>1, <2>2, <2>3, <2>4 DEF TypeOK, Unshare
  <2>5. CASE ~thr[Tunnel].quit
    BY <2>2, <2>3, <2>5 DEF TypeOK, Unshare
  <2> QED BY <2>4, <2>5
<1>2. TypeOK'
  BY <1>1, <1>4 DEF IInv, TypeOK, Unshare, device, host
<1>3. (TunnelInv /\ CallersInv /\ LoopInv /\ OffInv /\ GuardNeedsOffer)'
  BY <1>1, Roles
     DEF IInv, Unshare, device, host, TunnelInv, CallersInv, LoopInv, OffInv,
     GuardNeedsOffer, Current, At, TypeOK
<1> QED BY <1>2, <1>3 DEF IInv

(* A crash. *)
LEMMA CrashStep ==
  ASSUME IInv, Crash
  PROVE  IInv'
<1>1. /\ thr' \in [Threads -> Thread]
      /\ \A u \in Threads : thr'[u].pc = "idle"
  BY IdleThread DEF IInv, Crash
<1>4. st' \in [Gens -> State] /\ lost' \in BOOLEAN /\ n' \in Counters /\ n'.starts = n.starts
  BY CountType DEF IInv, TypeOK, Crash, NoState, State
<1>2. TypeOK'
  BY <1>1, <1>4 DEF IInv, TypeOK, Crash, device, host
<1>3. (TunnelInv /\ CallersInv /\ LoopInv /\ OffInv /\ GuardNeedsOffer)'
  BY <1>1, <1>4, Roles
     DEF IInv, Crash, device, host, TunnelInv, CallersInv, LoopInv, OffInv,
     GuardNeedsOffer, Current, At
<1> QED BY <1>2, <1>3 DEF IInv

(* A firewall reload. *)
LEMMA FirewallReloadStep ==
  ASSUME IInv, FirewallReload
  PROVE  IInv'
<1>1. n' \in Counters /\ n'.starts = n.starts
  BY CountType DEF IInv, TypeOK, FirewallReload
<1>2. TypeOK'
  BY <1>1 DEF IInv, TypeOK, FirewallReload, device, host
<1>3. (TunnelInv /\ CallersInv /\ LoopInv /\ OffInv /\ GuardNeedsOffer)'
  BY <1>1, Roles
     DEF IInv, FirewallReload, device, host, TunnelInv, CallersInv, LoopInv, OffInv,
     GuardNeedsOffer, Current, At
<1> QED BY <1>2, <1>3 DEF IInv

(* A change of the default route. *)
LEMMA UplinkChangeStep ==
  ASSUME IInv, UplinkChange
  PROVE  IInv'
<1>1. n' \in Counters /\ n'.starts = n.starts
  BY CountType DEF IInv, TypeOK, UplinkChange
<1>2. TypeOK'
  BY <1>1 DEF IInv, TypeOK, UplinkChange, device, host
<1>3. (TunnelInv /\ CallersInv /\ LoopInv /\ OffInv /\ GuardNeedsOffer)'
  BY <1>1, Roles
     DEF IInv, UplinkChange, device, host, TunnelInv, CallersInv, LoopInv, OffInv,
     GuardNeedsOffer, Current, At
<1> QED BY <1>2, <1>3 DEF IInv
-----------------------------------------------------------------------------
(* A daemon that has not started: no engine, a closed guard. *)
LEMMA InitInv == ASSUME Init PROVE IInv
<1>1. 0 \in 0 .. MaxStarts /\ 0 \in 0 .. MaxStops /\ 0 \in 0 .. MaxQuits
      /\ 0 \in 0 .. MaxCrashes /\ 0 \in 0 .. MaxOffers /\ 0 \in 0 .. MaxFailures
      /\ 0 \in 0 .. MaxEvents
  BY ShareAssumption
<1>2. n \in Counters
  BY <1>1 DEF Init, Counters
<1>3. thr \in [Threads -> Thread] /\ \A t \in Threads : thr[t].pc = "idle"
  BY IdleThread DEF Init
<1>4. st \in [Gens -> State] /\ disk \in State
  BY DEF Init, NoState, State
<1>5. TypeOK
  BY <1>2, <1>3, <1>4 DEF Init, TypeOK
<1>6. TunnelInv /\ CallersInv /\ LoopInv /\ OffInv /\ GuardNeedsOffer
  BY <1>3, Roles DEF Init, TunnelInv, CallersInv, LoopInv, OffInv, GuardNeedsOffer, At
<1> QED BY <1>5, <1>6 DEF IInv

(* What every thread that calls the engine does: enableOffer and save. *)
LEMMA EngineStepInv ==
  ASSUME IInv, NEW t \in Threads, EngineStep(t)
  PROVE  IInv'
BY EnableAgainStep, EnableOfferStep, EnableFailsStep, SaveStep DEF EngineStep, Enable

(* Every step of the daemon and of its environment preserves the invariant. *)
LEMMA NextInv == ASSUME IInv, [Next]_vars PROVE IInv'
<1>1. ASSUME NEW c \in Callers, CallerStep(c) PROVE IInv'
  BY <1>1, Roles, EngineStepInv, DisableStep, DropStep DEF CallerStep
<1>2. ASSUME NEW c \in Callers, NEW on \in BOOLEAN, SetExitOffer(c, on) PROVE IInv'
  BY <1>2, SetExitOfferStep
<1>3. CASE LoopStep
  BY <1>3, Roles, EngineStepInv, MoveStep, EnsureMoveStep, EnsureRepairStep,
     EnsureRetryStep
     DEF LoopStep, EnsureNAT
<1>4. CASE TunnelStep
  BY <1>4, Roles, EngineStepInv, StartLoadStep, StartCleanupStep, ShareStep, SharedStep,
     HaltStep, UnshareStep DEF TunnelStep
<1>5. CASE Boot \/ Connect
  BY <1>5, BootStep, ConnectStep
<1>6. ASSUME NEW quit \in BOOLEAN, Stop(quit) PROVE IInv'
  BY <1>6, StopStep
<1>7. CASE Crash \/ FirewallReload \/ UplinkChange
  BY <1>7, CrashStep, FirewallReloadStep, UplinkChangeStep
<1>8. CASE UNCHANGED vars
  BY <1>8 DEF vars, device, host, IInv, TypeOK, TunnelInv, CallersInv, LoopInv, OffInv,
              GuardNeedsOffer, Current, At
<1> QED BY <1>1, <1>2, <1>3, <1>4, <1>5, <1>6, <1>7, <1>8 DEF Next

(* For every set of callers and uplinks and every bound: as long as no call  *)
(* outlives its engine, exitGuard.allow is TRUE only while the engine in      *)
(* charge offers.                                                             *)
THEOREM GuardHolds == Spec => [](TypeOK /\ GuardNeedsOffer)
<1>1. Init => IInv
  BY InitInv
<1>2. IInv /\ [Next]_vars => IInv'
  BY NextInv
<1>3. IInv => TypeOK /\ GuardNeedsOffer
  BY DEF IInv
<1> QED BY <1>1, <1>2, <1>3, PTL DEF Spec
-----------------------------------------------------------------------------
(* What is left on the host *)

\* Forwarding that was on before the daemon stays on, and every record of it
\* says so.
Switch ==
  /\ base => fwd
  /\ base /\ disk.nat # NoNAT => disk.nat.prev
  /\ \A g \in Gens : base /\ st[g].nat # NoNAT => st[g].nat.prev

\* An engine that was not started records nothing and nobody uses it; until it
\* is published only the tunnel does.
Fresh ==
  /\ \A g \in Gens : g > n.starts => st[g].nat = NoNAT
  /\ exit <= n.starts /\ loop <= n.starts
  /\ \A t \in Threads : thr[t].gen <= n.starts
  /\ At(Tunnel, "cleanup") =>
       /\ thr[Tunnel].gen = n.starts /\ loop # n.starts
       /\ \A t \in Threads \ {Tunnel} : thr[t].gen # n.starts

Busy(t) == thr[t].pc \in {"drop", "move"}

\* Who holds e.mu over two steps finds the record it has read, and is alone.
Held ==
  /\ \A t \in Threads : Busy(t) => st[thr[t].gen].nat # NoNAT
  /\ \A t, u \in Threads : Busy(t) /\ Busy(u) /\ thr[t].gen = thr[u].gen => t = u

\* Rules without an offer are about to be removed.
Undone ==
  \A g \in Gens : st[g].nat # NoNAT /\ ~st[g].offer =>
    \/ At(Tunnel, "cleanup") /\ thr[Tunnel].gen = g
    \/ \E t \in Threads : At(t, "drop") /\ thr[t].gen = g

\* The engine that may have rules on the host: the current one, the one being
\* stopped, or the one that takes over what its file records.
Owner == IF thr[Tunnel].pc \in {"halt", "cleanup"} THEN thr[Tunnel].gen ELSE exit

Sole == ~late => \A g \in Gens : st[g].nat # NoNAT => g = Owner

Installed == UNION {Recorded(st[g]) : g \in Gens}

\* A new process that has not read its file.
Booting ==
  /\ At(Tunnel, "load") /\ loop = NoGen
  /\ \A t \in Threads \ {Tunnel} : At(t, "idle")

\* Rules are recorded by an engine, or by the file a new process will read.
Traced ==
  ~Faulty /\ proc = "on" /\ ~lost =>
    rules \subseteq Installed \/ (Booting /\ rules \subseteq Recorded(disk))

\* Without a process the file accounts for the rules; a clean stop left none.
AtRest ==
  ~Faulty /\ proc # "on" /\ ~lost =>
    rules \subseteq Recorded(disk) /\ (proc = "off" /\ ~late => rules = {})

Unshared == ~AllowLocalAccess =>
  /\ ~shared /\ \A t \in Threads : ~thr[t].keep
  /\ thr[Tunnel].pc \notin {"share", "shared"}

\* DisableNAT of this record brings forwarding back to what it was.
Settles(nat) == nat = NoNAT \/ nat.prev => fwd = base

Kept(g) == IF g \in Gens THEN st[g].nat ELSE NoNAT

Forwarding ==
  ~AllowLocalAccess /\ ~late /\ ~lost =>
    /\ proc = "off" => fwd = base
    /\ proc = "crashed" => Settles(disk.nat)
    /\ proc = "on" => Settles(IF At(Tunnel, "load") THEN disk.nat ELSE Kept(Owner))

HostInv ==
  /\ Switch /\ Fresh /\ Held /\ Undone /\ Sole
  /\ Traced /\ AtRest /\ Unshared /\ Forwarding

\* Thread t alone goes on.
Steps(t, pc, gen, keep) ==
  /\ thr'[t].pc = pc /\ thr'[t].gen = gen /\ thr'[t].keep = keep
  /\ \A u \in Threads : u # t => thr'[u] = thr[u]

\* The state of engine g alone is set.
Sets(g, offer, nat) ==
  /\ st'[g].offer = offer /\ st'[g].nat = nat
  /\ \A h \in Gens : h # g => st'[h] = st[h]

LEMMA GotoSteps ==
  ASSUME TypeOK, NEW t \in Threads, NEW pc \in PC, Goto(t, pc)
  PROVE  Steps(t, pc, thr[t].gen, thr[t].keep)
BY DEF TypeOK, Goto, Thread, Steps

LEMMA DoneSteps ==
  ASSUME TypeOK, NEW t \in Threads, Done(t)
  PROVE  Steps(t, "idle", NoGen, FALSE)
BY DEF TypeOK, Done, Idle, Steps

LEMMA EnterSteps ==
  ASSUME TypeOK, NEW t \in Threads, NEW pc \in PC, NEW keep \in BOOLEAN, Enter(t, pc, keep)
  PROVE  Steps(t, pc, thr[t].gen, keep)
BY DEF TypeOK, Enter, Thread, Steps

LEMMA Numbers ==
  ASSUME IInv
  PROVE  /\ n.starts \in Nat /\ exit \in Nat /\ loop \in Nat /\ NoGen = 0
         /\ \A t \in Threads : thr[t].gen \in Nat /\ thr[t].gen \in Gens \cup {0}
         /\ \A g \in Gens : g \in Nat /\ g # 0
         /\ Gens \cap {NoGen} = {}
         /\ fwd \in BOOLEAN /\ base \in BOOLEAN /\ proc \in {"off", "on", "crashed"}
         /\ thr[Tunnel].pc \in {"load", "cleanup"} => exit = NoGen
         /\ proc # "on" => \A t \in Threads : thr[t].pc = "idle"
         /\ proc # "on" => loop = NoGen
BY ShareAssumption, Roles
   DEF IInv, TypeOK, Counters, Thread, Gens, NoGen, TunnelInv, OffInv, At

\* A rule is recorded by an engine.
LEMMA InstalledIs ==
  \A u : u \in Installed <=> \E g \in Gens : st[g].nat # NoNAT /\ st[g].nat.uplink = u
BY DEF Installed, Recorded

LEMMA InstalledNext ==
  \A u : u \in Installed' <=> \E g \in Gens : st'[g].nat # NoNAT /\ st'[g].nat.uplink = u
BY DEF Installed, Recorded


LEMMA NothingLeft == ~Faulty => \A left \in {FALSE, Faulty} : left = FALSE
BY ShareAssumption

\* A removal takes the rules of the record away.
LEMMA RemovedAll ==
  ASSUME NEW ns, \E left \in {FALSE, Faulty} : rules' = Removed(ns, left)
  PROVE  ~Faulty => rules' = rules \ {ns.uplink}
BY NothingLeft DEF Removed

LEMMA HeldAfter ==
  ASSUME IInv, Held, NEW t \in Threads, NEW pc, NEW gen, NEW keep, Steps(t, pc, gen, keep),
         \A u \in Threads : u # t /\ Busy(u) => st'[thr[u].gen].nat # NoNAT,
         pc \in {"drop", "move"} =>
           st'[gen].nat # NoNAT /\ \A u \in Threads : u # t /\ Busy(u) => thr[u].gen # gen
  PROVE  Held'
<1>1. \A u \in Threads : u # t => (Busy(u)' <=> Busy(u)) /\ thr'[u].gen = thr[u].gen
  BY DEF Steps, Busy
<1>2. (Busy(t)' <=> pc \in {"drop", "move"}) /\ thr'[t].gen = gen
  BY DEF Steps, Busy
<1>3. \A u \in Threads : Busy(u)' => st'[thr'[u].gen].nat # NoNAT
  BY <1>1, <1>2
<1>4. ASSUME NEW u \in Threads, NEW v \in Threads, Busy(u)', Busy(v)', thr'[u].gen = thr'[v].gen
      PROVE  u = v
  <2>1. CASE u # t /\ v # t BY <1>1, <1>4, <2>1 DEF Held
  <2>2. CASE u = t \/ v = t BY <1>1, <1>2, <1>4, <2>2
  <2> QED BY <2>1, <2>2
<1> QED BY <1>3, <1>4 DEF Held

\* Engine g loses its record and its rules, or exchanges them.
LEMMA TracedAfter ==
  ASSUME Traced, NEW g \in Gens, NEW offer, NEW nat, Sets(g, offer, nat), ~Booting,
         ~Faulty => \A x \in rules' :
           \/ x \in rules /\ (st[g].nat # NoNAT => x # st[g].nat.uplink)
           \/ nat # NoNAT /\ x = nat.uplink,
         UNCHANGED <<proc, lost>>
  PROVE  Traced'
<1> SUFFICES ASSUME ~Faulty, proc = "on", ~lost PROVE rules' \subseteq Installed'
  BY DEF Traced
<1>1. rules \subseteq Installed BY DEF Traced
<1> SUFFICES ASSUME NEW x \in rules' PROVE x \in Installed'
  OBVIOUS
<1>2. CASE nat # NoNAT /\ x = nat.uplink BY <1>2, InstalledNext DEF Sets
<1>3. CASE x \in rules /\ (st[g].nat # NoNAT => x # st[g].nat.uplink)
  <2>1. PICK h \in Gens : st[h].nat # NoNAT /\ st[h].nat.uplink = x
    BY <1>1, <1>3, InstalledIs
  <2>2. h # g BY <1>3, <2>1
  <2> QED BY <2>1, <2>2, InstalledNext DEF Sets
<1> QED BY <1>2, <1>3

\* Undoing a record brings forwarding back.
LEMMA Undoes ==
  ASSUME IInv, HostInv, proc = "on", NEW g \in Gens, NEW keep, ~AllowLocalAccess => ~keep,
         st[g].nat # NoNAT
  PROVE  /\ ~AllowLocalAccess /\ ~late /\ ~lost => Restored(st[g].nat, keep) = base /\ g = Owner
         /\ base => Restored(st[g].nat, keep)
<1>1. base => fwd /\ st[g].nat.prev BY DEF HostInv, Switch
<1>2. fwd \in BOOLEAN /\ base \in BOOLEAN BY DEF IInv, TypeOK
<1>3. ASSUME ~AllowLocalAccess, ~late, ~lost
      PROVE  Settles(st[g].nat) /\ ~keep /\ g = Owner
  <2>1. g = Owner BY <1>3 DEF HostInv, Sole
  <2>2. ~At(Tunnel, "load") BY <2>1, Numbers DEF Owner, At
  <2> QED BY <1>3, <2>1, <2>2 DEF HostInv, Forwarding, Kept
<1> QED BY <1>1, <1>2, <1>3 DEF Restored, Settles

(* enableOffer with nothing to do. *)
LEMMA EnableAgainHost ==
  ASSUME IInv, IInv', HostInv, NEW t \in Threads, EnableAgain(t)
  PROVE  HostInv'
<1>0. /\ TypeOK /\ TypeOK' /\ Switch /\ Fresh /\ Held /\ Undone /\ Sole /\ Traced
      /\ AtRest /\ Unshared /\ Forwarding
  BY DEF IInv, HostInv
<1>1. thr[t].pc = "enable" /\ thr[t].gen \in Gens
  BY Roles DEF EnableAgain, IInv, TunnelInv, CallersInv, LoopInv, At
<1>2. Steps(t, "save", thr[t].gen, thr[t].keep)
  BY <1>0, GotoSteps, Roles DEF EnableAgain, PC
<1>3. UNCHANGED <<proc, exit, loop, st, disk, shared, rules, fwd, base, lost, late, n>>
  BY DEF EnableAgain, device, host
<1>4. Switch'
  BY <1>0, <1>1, <1>2, <1>3, Numbers, Roles DEF Steps, Sets, Switch
<1>5. Fresh'
  BY <1>0, <1>1, <1>2, <1>3, Numbers, Roles DEF Steps, Sets, Fresh, At
<1>6. Held'
  BY <1>0, <1>1, <1>2, <1>3, Numbers, Roles DEF Steps, Sets, Held, Busy
<1>7. Undone'
  BY <1>0, <1>1, <1>2, <1>3, Numbers, Roles DEF Steps, Sets, Undone, At
<1>8. Sole'
  BY <1>0, <1>1, <1>2, <1>3, Numbers, Roles DEF Steps, Sets, Sole, Owner
<1>9. Traced'
  BY <1>0, <1>1, <1>2, <1>3, Numbers, Roles, InstalledIs, InstalledNext
     DEF Steps, Sets, Traced, Booting, At
<1>10. AtRest'
  BY <1>0, <1>1, <1>2, <1>3, Numbers, Roles DEF Steps, Sets, AtRest
<1>11. Unshared'
  BY <1>0, <1>1, <1>2, <1>3, Numbers, Roles DEF Steps, Sets, Unshared
<1>12. Forwarding'
  BY <1>0, <1>1, <1>2, <1>3, Numbers, Roles
     DEF Steps, Sets, Forwarding, Settles, Kept, Owner, At
<1> QED BY <1>4, <1>5, <1>6, <1>7, <1>8, <1>9, <1>10, <1>11, <1>12 DEF HostInv

(* enableOffer takes over the uplink: the engine had no other. *)
LEMMA EnableOfferHost ==
  ASSUME IInv, IInv', HostInv, NEW t \in Threads, EnableOffer(t)
  PROVE  HostInv'
<1>0. /\ TypeOK /\ TypeOK' /\ Switch /\ Fresh /\ Held /\ Undone /\ Sole /\ Traced
      /\ AtRest /\ Unshared /\ Forwarding
  BY DEF IInv, HostInv
<1>1. thr[t].pc = "enable" /\ thr[t].gen \in Gens
  BY Roles DEF EnableOffer, IInv, TunnelInv, CallersInv, LoopInv, At
<1>2. Steps(t, "save", thr[t].gen, thr[t].keep)
  BY <1>0, GotoSteps, Roles DEF EnableOffer, PC
<1>3. Sets(thr[t].gen, TRUE, Applied(uplink, fwd))
  BY <1>0, <1>1 DEF EnableOffer, Sets, TypeOK
<1>4. /\ fwd' = TRUE /\ rules' = rules \cup {uplink} /\ Applied(uplink, fwd).prev = fwd
      /\ Applied(uplink, fwd).uplink = uplink /\ Applied(uplink, fwd) # NoNAT
  BY <1>0, ShareAssumption DEF EnableOffer, Applied, TypeOK, NATState, UplinkFound
<1>5. st[thr[t].gen].nat = NoNAT
  BY <1>0, <1>1, Roles DEF EnableOffer, Free, Undone, Fresh, At, TypeOK
<1>6. ~late' => ~late /\ thr[t].gen = Owner /\ thr[Tunnel].pc \notin {"load", "cleanup"}
  BY <1>1, Numbers DEF EnableOffer, Late, Current, Owner, At
<1>7. UNCHANGED <<proc, exit, loop, disk, shared, base, lost, n>>
  BY DEF EnableOffer, device, host
<1>8. Switch'
  BY <1>0, <1>1, <1>2, <1>3, <1>4, <1>5, <1>6, <1>7, Numbers, Roles
     DEF Steps, Sets, Switch
<1>9. Fresh'
  BY <1>0, <1>1, <1>2, <1>3, <1>4, <1>5, <1>6, <1>7, Numbers, Roles
     DEF Steps, Sets, Fresh, At
<1>10. Held'
  <2>1. \A u \in Threads : u # t /\ Busy(u) => st'[thr[u].gen].nat # NoNAT
    BY <1>0, <1>1, <1>2, <1>3, <1>4, <1>5, <1>6, <1>7, Roles
       DEF Sets, Held, IInv, CallersInv, LoopInv, TunnelInv, Busy
  <2> QED BY <1>0, <1>2, <2>1, HeldAfter
<1>11. Undone'
  BY <1>0, <1>1, <1>2, <1>3, <1>4, <1>5, <1>6, <1>7, Numbers, Roles
     DEF Steps, Sets, Undone, At
<1>12. Sole'
  BY <1>0, <1>1, <1>2, <1>3, <1>4, <1>5, <1>6, <1>7, Numbers, Roles
     DEF Steps, Sets, Sole, Owner
<1>13. Traced'
  BY <1>0, <1>1, <1>2, <1>3, <1>4, <1>5, <1>6, <1>7, Numbers, Roles, InstalledIs, InstalledNext
     DEF Sets, Traced, Booting, At
<1>14. AtRest'
  BY <1>0, <1>1, <1>2, <1>3, <1>4, <1>5, <1>6, <1>7, Numbers, Roles DEF Steps, AtRest
<1>15. Unshared'
  BY <1>0, <1>1, <1>2, <1>3, <1>4, <1>5, <1>6, <1>7, Numbers, Roles DEF Steps, Unshared
<1>16. Forwarding'
  <2>0. proc' = "on" /\ proc = "on"
    BY <1>0, <1>1, <1>2, <1>3, <1>4, <1>5, <1>6, <1>7, Numbers
  <2> SUFFICES ASSUME ~AllowLocalAccess, ~late', ~lost
               PROVE  thr'[Tunnel].pc # "load" /\ Settles(Kept(Owner))'
    BY <1>0, <1>1, <1>2, <1>3, <1>4, <1>5, <1>6, <1>7, <2>0 DEF Forwarding, At
  <2>1. fwd = base
    BY <1>0, <1>1, <1>2, <1>3, <1>4, <1>5, <1>6, <1>7, <2>0
       DEF Forwarding, Settles, Kept, At
  <2>2. Owner' = thr[t].gen /\ thr'[Tunnel].pc # "load"
    BY <1>0, <1>1, <1>2, <1>3, <1>4, <1>5, <1>6, <1>7, Roles DEF Owner, Steps
  <2>3. Kept(Owner)' = Applied(uplink, fwd)
    BY <1>0, <1>1, <1>2, <1>3, <1>4, <1>5, <1>6, <1>7, <2>2 DEF Kept, Sets
  <2> QED
    BY <1>0, <1>1, <1>2, <1>3, <1>4, <1>5, <1>6, <1>7, <2>1, <2>2, <2>3 DEF Settles
<1> QED BY <1>8, <1>9, <1>10, <1>11, <1>12, <1>13, <1>14, <1>15, <1>16 DEF HostInv

(* enableOffer fails: no rule is added. *)
LEMMA EnableFailsHost ==
  ASSUME IInv, IInv', HostInv, NEW t \in Threads, EnableFails(t)
  PROVE  HostInv'
<1>0. /\ TypeOK /\ TypeOK' /\ Switch /\ Fresh /\ Held /\ Undone /\ Sole /\ Traced
      /\ AtRest /\ Unshared /\ Forwarding
  BY DEF IInv, HostInv
<1>1. thr[t].pc = "enable" /\ thr[t].gen \in Gens
  BY Roles DEF EnableFails, IInv, TunnelInv, CallersInv, LoopInv, At
<1>2. Steps(t, "save", thr[t].gen, thr[t].keep) \/ Steps(t, "idle", NoGen, FALSE)
  BY <1>0, GotoSteps, DoneSteps, Roles DEF EnableFails, PC
<1>3. n'.starts = n.starts
  BY <1>0, CountType DEF EnableFails
<1>4. rules' \subseteq rules
  BY DEF EnableFails
<1>5. UNCHANGED <<proc, exit, loop, st, disk, shared, fwd, base, lost, late>>
  BY DEF EnableFails, device, host
<1>6. Switch'
  BY <1>0, <1>1, <1>2, <1>3, <1>4, <1>5, Numbers, Roles DEF Steps, Sets, Switch
<1>7. Fresh'
  BY <1>0, <1>1, <1>2, <1>3, <1>4, <1>5, Numbers, Roles DEF Steps, Sets, Fresh, At
<1>8. Held'
  BY <1>0, <1>1, <1>2, <1>3, <1>4, <1>5, Numbers, Roles DEF Steps, Sets, Held, Busy
<1>9. Undone'
  BY <1>0, <1>1, <1>2, <1>3, <1>4, <1>5, Numbers, Roles DEF Steps, Sets, Undone, At
<1>10. Sole'
  BY <1>0, <1>1, <1>2, <1>3, <1>4, <1>5, Numbers, Roles DEF Steps, Sets, Sole, Owner
<1>11. Traced'
  BY <1>0, <1>1, <1>2, <1>3, <1>4, <1>5, Numbers, Roles, InstalledIs, InstalledNext
     DEF Steps, Traced, Booting, At
<1>12. AtRest'
  BY <1>0, <1>1, <1>2, <1>3, <1>4, <1>5, Numbers, Roles DEF Steps, Sets, AtRest
<1>13. Unshared'
  BY <1>0, <1>1, <1>2, <1>3, <1>4, <1>5, Numbers, Roles DEF Steps, Sets, Unshared
<1>14. Forwarding'
  BY <1>0, <1>1, <1>2, <1>3, <1>4, <1>5, Numbers, Roles
     DEF Steps, Sets, Forwarding, Settles, Kept, Owner, At
<1> QED BY <1>6, <1>7, <1>8, <1>9, <1>10, <1>11, <1>12, <1>13, <1>14 DEF HostInv

(* save. *)
LEMMA SaveHost ==
  ASSUME IInv, IInv', HostInv, NEW t \in Threads, Save(t)
  PROVE  HostInv'
<1>0. /\ TypeOK /\ TypeOK' /\ Switch /\ Fresh /\ Held /\ Undone /\ Sole /\ Traced
      /\ AtRest /\ Unshared /\ Forwarding
  BY DEF IInv, HostInv
<1>1. thr[t].pc = "save" /\ thr[t].gen \in Gens
  BY Roles DEF Save, IInv, TunnelInv, CallersInv, LoopInv, At
<1>2. \/ Steps(t, "idle", NoGen, FALSE)
      \/ Steps(t, "share", thr[t].gen, thr[t].keep) /\ t = Tunnel /\ AllowLocalAccess
  BY <1>0, GotoSteps, DoneSteps, Roles DEF Save, PC
<1>3. disk' \in {st[thr[t].gen], disk} /\ loop' \in {loop, thr[t].gen}
  BY DEF Save
<1>4. t = Tunnel => thr[t].gen = exit
  BY <1>1 DEF IInv, TunnelInv
<1>5. ~late' => ~late /\ thr[Tunnel].pc # "load"
  BY <1>1, Numbers DEF Save, Late, Current, At
<1>6. t = Tunnel \/ loop' = loop
  BY DEF Save
<1>7. UNCHANGED <<proc, exit, st, shared, rules, fwd, base, lost, n>>
  BY DEF Save, device, host
<1>8. Switch'
  BY <1>0, <1>1, <1>2, <1>3, <1>4, <1>5, <1>6, <1>7, Numbers, Roles DEF Steps, Switch
<1>9. Fresh'
  BY <1>0, <1>1, <1>2, <1>3, <1>4, <1>5, <1>6, <1>7, Numbers, Roles DEF Steps, Fresh, At
<1>10. Held'
  BY <1>0, <1>1, <1>2, <1>3, <1>4, <1>5, <1>6, <1>7, Numbers, Roles
     DEF Steps, Held, Busy
<1>11. Undone'
  BY <1>0, <1>1, <1>2, <1>3, <1>4, <1>5, <1>6, <1>7, Numbers, Roles
     DEF Steps, Undone, At
<1>12. Sole'
  BY <1>0, <1>1, <1>2, <1>3, <1>4, <1>5, <1>6, <1>7, Numbers, Roles
     DEF Steps, Sole, Owner
<1>13. Traced'
  BY <1>0, <1>1, <1>2, <1>3, <1>4, <1>5, <1>6, <1>7, Numbers, Roles, InstalledIs, InstalledNext
     DEF Traced, Booting, At
<1>14. AtRest'
  BY <1>0, <1>1, <1>2, <1>3, <1>4, <1>5, <1>6, <1>7, Numbers, Roles DEF Steps, AtRest
<1>15. Unshared'
  BY <1>0, <1>1, <1>2, <1>3, <1>4, <1>5, <1>6, <1>7, Numbers, Roles DEF Steps, Unshared
<1>16. Forwarding'
  BY <1>0, <1>1, <1>2, <1>3, <1>4, <1>5, <1>6, <1>7, Numbers, Roles
     DEF Steps, Forwarding, Settles, Kept, Owner, At
<1> QED BY <1>8, <1>9, <1>10, <1>11, <1>12, <1>13, <1>14, <1>15, <1>16 DEF HostInv

(* SetExitOffer fetches the current engine. *)
LEMMA SetExitOfferHost ==
  ASSUME IInv, IInv', HostInv, NEW c \in Callers, NEW on \in BOOLEAN, SetExitOffer(c, on)
  PROVE  HostInv'
<1>0. /\ TypeOK /\ TypeOK' /\ Switch /\ Fresh /\ Held /\ Undone /\ Sole /\ Traced
      /\ AtRest /\ Unshared /\ Forwarding
  BY DEF IInv, HostInv
<1>1. exit # NoGen /\ thr[c].pc = "idle" /\ c \in Threads
  BY Roles DEF SetExitOffer, At
<1>2. Steps(c, "enable", exit, thr[c].keep) \/ Steps(c, "disable", exit, thr[c].keep)
  BY <1>0, <1>1 DEF SetExitOffer, TypeOK, Thread, Steps
<1>3. n'.starts = n.starts
  BY <1>0, CountType DEF SetExitOffer
<1>4. thr[Tunnel].pc \notin {"load", "cleanup"}
  BY <1>1 DEF IInv, TunnelInv, At
<1>5. UNCHANGED <<proc, exit, loop, st, disk, shared, rules, fwd, base, lost, late>>
  BY DEF SetExitOffer, device, host
<1>6. Switch'
  BY <1>0, <1>1, <1>2, <1>3, <1>4, <1>5, Numbers, Roles DEF Steps, Sets, Switch
<1>7. Fresh'
  BY <1>0, <1>1, <1>2, <1>3, <1>4, <1>5, Numbers, Roles DEF Steps, Sets, Fresh, At
<1>8. Held'
  BY <1>0, <1>1, <1>2, <1>3, <1>4, <1>5, Numbers, Roles DEF Steps, Sets, Held, Busy
<1>9. Undone'
  BY <1>0, <1>1, <1>2, <1>3, <1>4, <1>5, Numbers, Roles DEF Steps, Sets, Undone, At
<1>10. Sole'
  BY <1>0, <1>1, <1>2, <1>3, <1>4, <1>5, Numbers, Roles DEF Steps, Sets, Sole, Owner
<1>11. Traced'
  BY <1>0, <1>1, <1>2, <1>3, <1>4, <1>5, Numbers, Roles, InstalledIs, InstalledNext
     DEF Steps, Traced, Booting, At
<1>12. AtRest'
  BY <1>0, <1>1, <1>2, <1>3, <1>4, <1>5, Numbers, Roles DEF Steps, Sets, AtRest
<1>13. Unshared'
  BY <1>0, <1>1, <1>2, <1>3, <1>4, <1>5, Numbers, Roles DEF Steps, Sets, Unshared
<1>14. Forwarding'
  BY <1>0, <1>1, <1>2, <1>3, <1>4, <1>5, Numbers, Roles
     DEF Steps, Sets, Forwarding, Settles, Kept, Owner, At
<1> QED BY <1>6, <1>7, <1>8, <1>9, <1>10, <1>11, <1>12, <1>13, <1>14 DEF HostInv

(* disableOffer. *)
LEMMA DisableHost ==
  ASSUME IInv, IInv', HostInv, NEW c \in Callers, Disable(c)
  PROVE  HostInv'
<1>0. /\ TypeOK /\ TypeOK' /\ Switch /\ Fresh /\ Held /\ Undone /\ Sole /\ Traced
      /\ AtRest /\ Unshared /\ Forwarding
  BY DEF IInv, HostInv
<1>1. thr[c].pc = "disable" /\ thr[c].gen \in Gens
  BY Roles DEF Disable, IInv, TunnelInv, CallersInv, LoopInv, At
<1>2. Steps(c, IF st[thr[c].gen].nat # NoNAT THEN "drop" ELSE "save", thr[c].gen, shared)
  BY <1>0, EnterSteps, Roles DEF Disable, PC, TypeOK
<1>3. Sets(thr[c].gen, FALSE, st[thr[c].gen].nat)
  BY <1>0, <1>1 DEF Disable, Sets, TypeOK, State
<1>4. Free(thr[c].gen) /\ (~late' => ~late)
  BY DEF Disable, Late
<1>5. UNCHANGED <<proc, exit, loop, disk, shared, rules, fwd, base, lost, n>>
  BY DEF Disable, device, host
<1>6. Switch'
  BY <1>0, <1>1, <1>2, <1>3, <1>4, <1>5, Numbers, Roles DEF Steps, Sets, Switch
<1>7. Fresh'
  BY <1>0, <1>1, <1>2, <1>3, <1>4, <1>5, Numbers, Roles DEF Steps, Sets, Fresh, At
<1>8. Held'
  <2>1. \A u \in Threads : u # c /\ Busy(u) => st'[thr[u].gen].nat # NoNAT
    BY <1>0, <1>1, <1>2, <1>3, <1>4, <1>5, Roles
       DEF Sets, Held, IInv, CallersInv, LoopInv, TunnelInv, Busy
  <2>2. \A u \in Threads : u # c /\ Busy(u) => thr[u].gen # thr[c].gen
    BY <1>0, <1>1, <1>2, <1>3, <1>4, <1>5 DEF Free, Busy
  <2> QED BY <1>0, <1>2, <1>3, <2>1, <2>2, HeldAfter, Roles DEF Sets
<1>9. Undone'
  BY <1>0, <1>1, <1>2, <1>3, <1>4, <1>5, Numbers, Roles DEF Steps, Sets, Undone, At
<1>10. Sole'
  BY <1>0, <1>1, <1>2, <1>3, <1>4, <1>5, Numbers, Roles DEF Steps, Sets, Sole, Owner
<1>11. Traced'
  BY <1>0, <1>1, <1>2, <1>3, <1>4, <1>5, Numbers, Roles, InstalledIs, InstalledNext
     DEF Steps, Sets, Traced, Booting, At
<1>12. AtRest'
  BY <1>0, <1>1, <1>2, <1>3, <1>4, <1>5, Numbers, Roles DEF Steps, Sets, AtRest
<1>13. Unshared'
  BY <1>0, <1>1, <1>2, <1>3, <1>4, <1>5, Numbers, Roles DEF Steps, Sets, Unshared
<1>14. Forwarding'
  BY <1>0, <1>1, <1>2, <1>3, <1>4, <1>5, Numbers, Roles
     DEF Steps, Sets, Forwarding, Settles, Kept, Owner, At
<1> QED BY <1>6, <1>7, <1>8, <1>9, <1>10, <1>11, <1>12, <1>13, <1>14 DEF HostInv

(* disableNATLocked removes the rules it finds recorded. *)
LEMMA DropHost ==
  ASSUME IInv, IInv', HostInv, NEW c \in Callers, Drop(c)
  PROVE  HostInv'
<1>0. /\ TypeOK /\ TypeOK' /\ Switch /\ Fresh /\ Held /\ Undone /\ Sole /\ Traced
      /\ AtRest /\ Unshared /\ Forwarding
  BY DEF IInv, HostInv
<1>1. thr[c].pc = "drop" /\ thr[c].gen \in Gens
  BY Roles DEF Drop, IInv, TunnelInv, CallersInv, LoopInv, At
<1>2. Steps(c, "save", thr[c].gen, thr[c].keep)
  BY <1>0, GotoSteps, Roles DEF Drop, PC
<1>3. Sets(thr[c].gen, st[thr[c].gen].offer, NoNAT)
  BY <1>0, <1>1 DEF Drop, Sets, TypeOK, State
<1>4. /\ ~Faulty => rules' = rules \ {st[thr[c].gen].nat.uplink}
      /\ fwd' = Restored(st[thr[c].gen].nat, thr[c].keep)
  BY RemovedAll DEF Drop
<1>5. st[thr[c].gen].nat # NoNAT
  BY <1>0, <1>1, Roles DEF Held, Busy
<1>6. UNCHANGED <<proc, exit, loop, disk, shared, base, lost, late, n>>
  BY DEF Drop, device, host
<1>7. Switch'
  <2>1. base => fwd' BY <1>0, <1>1, <1>4, <1>5 DEF Switch, Restored
  <2>2. \A g \in Gens : base /\ st'[g].nat # NoNAT => st'[g].nat.prev
    BY <1>0, <1>3 DEF Switch, Sets
  <2> QED BY <1>0, <1>6, <2>1, <2>2 DEF Switch
<1>8. Fresh'
  BY <1>0, <1>1, <1>2, <1>3, <1>4, <1>5, <1>6, Numbers, Roles DEF Steps, Sets, Fresh, At
<1>9. Held'
  <2>1. \A u \in Threads : u # c /\ Busy(u) => thr[u].gen # thr[c].gen
    BY <1>0, <1>1, <1>2, <1>3, <1>4, <1>5, <1>6, Roles DEF Held, Busy
  <2>2. \A u \in Threads : u # c /\ Busy(u) => st'[thr[u].gen].nat # NoNAT
    BY <1>0, <1>1, <1>2, <1>3, <1>4, <1>5, <1>6, <2>1, Roles
       DEF Sets, Held, IInv, CallersInv, LoopInv, TunnelInv, Busy
  <2> QED BY <1>0, <1>2, <2>2, HeldAfter, Roles
<1>10. Undone'
  BY <1>0, <1>1, <1>2, <1>3, <1>4, <1>5, <1>6, Numbers, Roles
     DEF Steps, Sets, Undone, At
<1>11. Sole'
  BY <1>0, <1>1, <1>2, <1>3, <1>4, <1>5, <1>6, Numbers, Roles DEF Steps, Sets, Sole
<1>12. Traced'
  BY <1>0, <1>1, <1>2, <1>3, <1>4, <1>5, <1>6, Numbers, Roles, InstalledIs, InstalledNext
     DEF Sets, Traced, Booting, At
<1>13. AtRest'
  BY <1>0, <1>1, <1>2, <1>3, <1>4, <1>5, <1>6, Numbers, Roles DEF Steps, Sets, AtRest
<1>14. Unshared'
  BY <1>0, <1>1, <1>2, <1>3, <1>4, <1>5, <1>6, Numbers, Roles DEF Steps, Sets, Unshared
<1>15. Forwarding'
  <2>1. ~AllowLocalAccess /\ ~late /\ ~lost => fwd' = base
    BY <1>0, <1>1, <1>2, <1>3, <1>4, <1>5, <1>6, Undoes, Numbers, Roles DEF Unshared
  <2> QED BY <1>6, <2>1 DEF Forwarding, Settles
<1> QED BY <1>7, <1>8, <1>9, <1>10, <1>11, <1>12, <1>13, <1>14, <1>15 DEF HostInv

(* ensureNAT finds another uplink. *)
LEMMA EnsureMoveHost ==
  ASSUME IInv, IInv', HostInv, NEW g \in Gens, EnsureMove(g)
  PROVE  HostInv'
<1>0. /\ TypeOK /\ TypeOK' /\ Switch /\ Fresh /\ Held /\ Undone /\ Sole /\ Traced
      /\ AtRest /\ Unshared /\ Forwarding
  BY DEF IInv, HostInv
<1>1. Free(g) /\ loop = g /\ st[g].nat # NoNAT /\ thr[Loop].pc = "idle"
  BY DEF EnsureMove, Ready, Moved, At
<1>2. Steps(Loop, "move", g, shared)
  BY <1>0, Roles DEF EnsureMove, TypeOK, Thread, Steps
<1>3. UNCHANGED <<proc, exit, loop, st, disk, shared, rules, fwd, base, lost, late, n>>
  BY DEF EnsureMove, device, host
<1>4. Switch'
  BY <1>0, <1>1, <1>2, <1>3, Numbers, Roles DEF Steps, Sets, Switch
<1>5. Fresh'
  BY <1>0, <1>1, <1>2, <1>3, Numbers, Roles DEF Steps, Sets, Fresh, At
<1>6. Held'
  <2>1. \A u \in Threads : u # Loop /\ Busy(u) => st'[thr[u].gen].nat # NoNAT
    BY <1>0, <1>1, <1>2, <1>3 DEF Held
  <2>2. \A u \in Threads : u # Loop /\ Busy(u) => thr[u].gen # g
    BY <1>0, <1>1, <1>2, <1>3 DEF Free, Busy
  <2> QED BY <1>0, <1>1, <1>2, <1>3, <2>1, <2>2, HeldAfter, Roles
<1>7. Undone'
  BY <1>0, <1>1, <1>2, <1>3, Numbers, Roles DEF Steps, Sets, Undone, At
<1>8. Sole'
  BY <1>0, <1>1, <1>2, <1>3, Numbers, Roles DEF Steps, Sets, Sole, Owner
<1>9. Traced'
  BY <1>0, <1>1, <1>2, <1>3, Numbers, Roles, InstalledIs, InstalledNext
     DEF Steps, Sets, Traced, Booting
<1>10. AtRest'
  BY <1>0, <1>1, <1>2, <1>3, Numbers, Roles DEF Steps, Sets, AtRest
<1>11. Unshared'
  BY <1>0, <1>1, <1>2, <1>3, Numbers, Roles DEF Steps, Sets, Unshared
<1>12. Forwarding'
  BY <1>0, <1>1, <1>2, <1>3, Numbers, Roles
     DEF Steps, Sets, Forwarding, Settles, Kept, Owner, At
<1> QED BY <1>4, <1>5, <1>6, <1>7, <1>8, <1>9, <1>10, <1>11, <1>12 DEF HostInv

(* EnsureNAT brings back what is recorded. *)
LEMMA EnsureRepairHost ==
  ASSUME IInv, IInv', HostInv, NEW g \in Gens, EnsureRepair(g)
  PROVE  HostInv'
<1>0. /\ TypeOK /\ TypeOK' /\ Switch /\ Fresh /\ Held /\ Undone /\ Sole /\ Traced
      /\ AtRest /\ Unshared /\ Forwarding
  BY DEF IInv, HostInv
<1>1. /\ st[g].nat # NoNAT /\ loop = g /\ rules' \subseteq rules \cup {st[g].nat.uplink}
      /\ disk' \in {disk, st[g]}
  BY DEF EnsureRepair, Ready
<1>2. n'.starts = n.starts
  BY <1>0, CountType DEF EnsureRepair
<1>3. ~late => thr[Tunnel].pc # "load"
  BY <1>0, <1>1, Numbers DEF Sole, Owner
<1>4. UNCHANGED <<proc, exit, loop, st, shared, fwd, base, thr, lost, late>>
  BY DEF EnsureRepair, device, host
<1>5. Switch'
  BY <1>0, <1>1, <1>2, <1>3, <1>4, Numbers, Roles DEF Steps, Sets, Switch
<1>6. Fresh'
  BY <1>0, <1>1, <1>2, <1>3, <1>4, Numbers, Roles DEF Steps, Sets, Fresh, At
<1>7. Held'
  BY <1>0, <1>1, <1>2, <1>3, <1>4, Numbers, Roles DEF Steps, Sets, Held, Busy
<1>8. Undone'
  BY <1>0, <1>1, <1>2, <1>3, <1>4, Numbers, Roles DEF Steps, Sets, Undone, At
<1>9. Sole'
  BY <1>0, <1>1, <1>2, <1>3, <1>4, Numbers, Roles DEF Steps, Sets, Sole, Owner
<1>10. Traced'
  BY <1>0, <1>1, <1>2, <1>3, <1>4, Numbers, Roles, InstalledIs, InstalledNext
     DEF Steps, Sets, Traced, Booting
<1>11. AtRest'
  BY <1>0, <1>1, <1>2, <1>3, <1>4, Numbers, Roles DEF Steps, Sets, AtRest
<1>12. Unshared'
  BY <1>0, <1>1, <1>2, <1>3, <1>4, Numbers, Roles DEF Steps, Sets, Unshared
<1>13. Forwarding'
  BY <1>0, <1>1, <1>2, <1>3, <1>4, Numbers, Roles
     DEF Steps, Sets, Forwarding, Settles, Kept, Owner, At
<1> QED BY <1>5, <1>6, <1>7, <1>8, <1>9, <1>10, <1>11, <1>12, <1>13 DEF HostInv

(* ensureNAT retries an offer. *)
LEMMA EnsureRetryHost ==
  ASSUME IInv, IInv', HostInv, NEW g \in Gens, EnsureRetry(g)
  PROVE  HostInv'
<1>0. /\ TypeOK /\ TypeOK' /\ Switch /\ Fresh /\ Held /\ Undone /\ Sole /\ Traced
      /\ AtRest /\ Unshared /\ Forwarding
  BY DEF IInv, HostInv
<1>1. loop = g /\ thr[Loop].pc = "idle"
  BY DEF EnsureRetry, Ready, At
<1>2. Steps(Loop, "enable", g, thr[Loop].keep)
  BY <1>0, Roles DEF EnsureRetry, TypeOK, Thread, Steps
<1>3. UNCHANGED <<proc, exit, loop, st, disk, shared, rules, fwd, base, lost, late, n>>
  BY DEF EnsureRetry, device, host
<1>4. Switch'
  BY <1>0, <1>1, <1>2, <1>3, Numbers, Roles DEF Steps, Sets, Switch
<1>5. Fresh'
  BY <1>0, <1>1, <1>2, <1>3, Numbers, Roles DEF Steps, Sets, Fresh, At
<1>6. Held'
  BY <1>0, <1>1, <1>2, <1>3, Numbers, Roles DEF Steps, Sets, Held, Busy
<1>7. Undone'
  BY <1>0, <1>1, <1>2, <1>3, Numbers, Roles DEF Steps, Sets, Undone, At
<1>8. Sole'
  BY <1>0, <1>1, <1>2, <1>3, Numbers, Roles DEF Steps, Sets, Sole, Owner
<1>9. Traced'
  BY <1>0, <1>1, <1>2, <1>3, Numbers, Roles, InstalledIs, InstalledNext
     DEF Steps, Sets, Traced, Booting
<1>10. AtRest'
  BY <1>0, <1>1, <1>2, <1>3, Numbers, Roles DEF Steps, Sets, AtRest
<1>11. Unshared'
  BY <1>0, <1>1, <1>2, <1>3, Numbers, Roles DEF Steps, Sets, Unshared
<1>12. Forwarding'
  BY <1>0, <1>1, <1>2, <1>3, Numbers, Roles
     DEF Steps, Sets, Forwarding, Settles, Kept, Owner, At
<1> QED BY <1>4, <1>5, <1>6, <1>7, <1>8, <1>9, <1>10, <1>11, <1>12 DEF HostInv

(* The rules and their record move to the new uplink. *)
LEMMA MoveHost ==
  ASSUME IInv, IInv', HostInv, Move
  PROVE  HostInv'
<1>0. /\ TypeOK /\ TypeOK' /\ Switch /\ Fresh /\ Held /\ Undone /\ Sole /\ Traced
      /\ AtRest /\ Unshared /\ Forwarding
  BY DEF IInv, HostInv
<1>1. thr[Loop].pc = "move" /\ thr[Loop].gen \in Gens
  BY Roles DEF Move, IInv, TunnelInv, CallersInv, LoopInv, At
<1>2. Steps(Loop, "idle", NoGen, FALSE)
  BY <1>0, DoneSteps, Roles DEF Move
<1>3. st[thr[Loop].gen].nat # NoNAT
  BY <1>0, <1>1, Roles DEF Held, Busy
<1>4. PICK nat : /\ Sets(thr[Loop].gen, st[thr[Loop].gen].offer, nat)
                 /\ nat # NoNAT => /\ fwd' = TRUE
                                   /\ nat.prev = Restored(st[thr[Loop].gen].nat, thr[Loop].keep)
                 /\ nat = NoNAT => fwd' = Restored(st[thr[Loop].gen].nat, thr[Loop].keep)
                 /\ ~Faulty => \A x \in rules' :
                      \/ x \in rules /\ x # st[thr[Loop].gen].nat.uplink
                      \/ nat # NoNAT /\ x = nat.uplink
  <2> DEFINE g == thr[Loop].gen
             to == thr[Loop].to
             off == Restored(st[g].nat, thr[Loop].keep)
  <2>1. to \in Uplinks /\ off \in BOOLEAN
    BY <1>1 DEF IInv, LoopInv, At, TypeOK, Restored
  <2>2. Applied(to, off) # NoNAT /\ Applied(to, off).prev = off /\ Applied(to, off).uplink = to
    BY <2>1, ShareAssumption DEF Applied
  <2>3. CASE /\ st' = [st EXCEPT ![g].nat = Applied(to, off)] /\ fwd' = TRUE
             /\ ~Faulty => rules' = (rules \ {st[g].nat.uplink}) \cup {to}
    <3>1. Sets(g, st[g].offer, Applied(to, off))
      BY <1>0, <1>1, <2>3 DEF Sets, TypeOK, State
    <3> HIDE DEF g, to, off
    <3> QED BY <2>2, <2>3, <3>1 DEF g, off
  <2>4. CASE /\ st' = [st EXCEPT ![g].nat = NoNAT] /\ fwd' = off
             /\ ~Faulty => rules' \subseteq rules \ {st[g].nat.uplink}
    BY <1>0, <1>1, <2>4 DEF Sets, TypeOK, State
  <2>5. \A left \in {FALSE, Faulty} :
          ~Faulty => Removed(st[g].nat, left) = rules \ {st[g].nat.uplink}
    BY NothingLeft DEF Removed
  <2> QED BY <2>3, <2>4, <2>5 DEF Move
<1>5. disk' \in {disk, st'[thr[Loop].gen]}
  BY DEF Move
<1>6. n'.starts = n.starts
  BY <1>0, CountType DEF Move
<1>7. UNCHANGED <<proc, exit, loop, shared, base, lost, late>>
  BY DEF Move, device, host
<1>8. Switch'
  <2>1. base => Restored(st[thr[Loop].gen].nat, thr[Loop].keep)
    BY <1>0, <1>1, <1>3 DEF Switch, Restored
  <2>2. base' = base BY <1>7
  <2>3. (base => fwd)' BY <1>4, <2>1, <2>2
  <2>4. \A g \in Gens : base /\ st'[g].nat # NoNAT => st'[g].nat.prev
    BY <1>0, <1>4, <2>1 DEF Switch, Sets
  <2>5. base /\ disk'.nat # NoNAT => disk'.nat.prev BY <1>0, <1>1, <1>5, <2>4 DEF Switch
  <2> QED BY <2>2, <2>3, <2>4, <2>5 DEF Switch
<1>9. Fresh'
  <2>1. thr[Loop].gen <= n.starts BY <1>0, Roles DEF Fresh
  <2>2. \A g \in Gens : g > n.starts => st'[g].nat = NoNAT
    BY <1>0, <1>1, <1>4, <2>1, Numbers DEF Fresh, Sets
  <2> QED BY <1>0, <1>2, <1>6, <1>7, <2>2, Numbers, Roles DEF Fresh, Steps, At
<1>10. Held'
  <2>1. \A u \in Threads : u # Loop /\ Busy(u) => thr[u].gen # thr[Loop].gen
    BY <1>0, <1>1, Roles DEF Held, Busy
  <2>2. \A u \in Threads : u # Loop /\ Busy(u) => st'[thr[u].gen].nat # NoNAT
    BY <1>0, <1>1, <1>4, <2>1, Roles
       DEF Sets, Held, IInv, CallersInv, LoopInv, TunnelInv, Busy
  <2> QED BY <1>0, <1>2, <2>2, HeldAfter, Roles
<1>11. Undone'
  <2>1. \A g \in Gens : st'[g].offer = st[g].offer /\ (st'[g].nat # NoNAT => st[g].nat # NoNAT)
    BY <1>1, <1>3, <1>4 DEF Sets
  <2> QED BY <1>0, <1>1, <1>2, <2>1, Roles DEF Undone, Steps, At
<1>12. Sole'
  <2>1. \A g \in Gens : st'[g].nat # NoNAT => st[g].nat # NoNAT BY <1>3, <1>4 DEF Sets
  <2>2. Owner' = Owner BY <1>2, <1>7, Roles DEF Owner, Steps
  <2> QED BY <1>0, <1>7, <2>1, <2>2 DEF Sole
<1>13. Traced'
  <2>1. ~Booting BY <1>1, Roles DEF Booting, At
  <2> QED BY <1>0, <1>1, <1>3, <1>4, <1>7, <2>1, TracedAfter
<1>14. AtRest'
  BY <1>0, <1>1, <1>2, <1>3, <1>4, <1>5, <1>6, <1>7, Numbers, Roles DEF Steps, AtRest
<1>15. Unshared'
  BY <1>0, <1>1, <1>2, <1>3, <1>4, <1>5, <1>6, <1>7, Numbers, Roles DEF Steps, Unshared
<1>16. Forwarding'
  <2> SUFFICES ASSUME ~AllowLocalAccess, ~late, ~lost
               PROVE  proc = "on" => Settles(IF At(Tunnel, "load") THEN disk.nat ELSE Kept(Owner))'
    BY <1>0, <1>1, <1>7, Numbers, Roles DEF Forwarding
  <2> SUFFICES ASSUME proc = "on" PROVE thr[Tunnel].pc # "load" /\ Settles(Kept(Owner))'
    BY <1>2, <1>7, Roles DEF Steps, At
  <2>1. ~AllowLocalAccess => ~thr[Loop].keep BY <1>0, Roles DEF Unshared
  <2>2. Restored(st[thr[Loop].gen].nat, thr[Loop].keep) = base /\ thr[Loop].gen = Owner
    BY <1>1, <1>3, <2>1, Undoes
  <2>3. thr[Tunnel].pc # "load" BY <1>1, <2>2, Numbers DEF Owner
  <2>4. Owner' = thr[Loop].gen BY <1>2, <1>7, <2>2, Roles DEF Owner, Steps
  <2>5. Kept(Owner)' = nat BY <1>1, <1>4, <2>4 DEF Kept, Sets
  <2> QED BY <1>4, <1>7, <2>2, <2>3, <2>5 DEF Settles
<1> QED BY <1>8, <1>9, <1>10, <1>11, <1>12, <1>13, <1>14, <1>15, <1>16 DEF HostInv

(* A new process has only its file. *)
LEMMA BootHost ==
  ASSUME IInv, IInv', HostInv, Boot
  PROVE  HostInv'
<1>0. /\ TypeOK /\ TypeOK' /\ Switch /\ Fresh /\ Held /\ Undone /\ Sole /\ Traced
      /\ AtRest /\ Unshared /\ Forwarding
  BY DEF IInv, HostInv
<1>1. /\ proc # "on" /\ proc' = "on" /\ loop = NoGen /\ ~running
      /\ \A t \in Threads : thr[t].pc = "idle" 
  BY DEF Boot, IInv, OffInv, At
<1>2. Steps(Tunnel, "load", NoGen, FALSE)
  BY <1>0, Roles DEF Boot, Begin, Idle, TypeOK, Steps
<1>3. UNCHANGED <<exit, loop, st, disk, shared, rules, fwd, base, lost, late, n>>
  BY DEF Boot, device, host
<1>4. Switch'
  BY <1>0, <1>1, <1>2, <1>3, Numbers, Roles DEF Steps, Sets, Switch
<1>5. Fresh'
  BY <1>0, <1>1, <1>2, <1>3, Numbers, Roles DEF Steps, Sets, Fresh, At
<1>6. Held'
  BY <1>0, <1>1, <1>2, <1>3, Numbers, Roles DEF Steps, Sets, Held, Busy
<1>7. Undone'
  BY <1>0, <1>1, <1>2, <1>3, Numbers, Roles DEF Steps, Sets, Undone, At
<1>8. Sole'
  BY <1>0, <1>1, <1>2, <1>3, Numbers, Roles DEF Steps, Sets, Sole, Owner
<1>9. Traced'
  <2>1. Booting' BY <1>1, <1>2, <1>3 DEF Booting, Steps, At
  <2>2. ~Faulty /\ ~lost => rules \subseteq Recorded(disk) BY <1>0, <1>1 DEF AtRest
  <2> QED BY <1>3, <2>1, <2>2 DEF Traced, Recorded
<1>10. AtRest'
  BY <1>0, <1>1, <1>2, <1>3, Numbers, Roles DEF Steps, Sets, AtRest
<1>11. Unshared'
  BY <1>0, <1>1, <1>2, <1>3, Numbers, Roles DEF Steps, Sets, Unshared
<1>12. Forwarding'
  BY <1>0, <1>1, <1>2, <1>3, Numbers, Roles
     DEF Steps, Sets, Forwarding, Settles, Kept, At
<1> QED BY <1>4, <1>5, <1>6, <1>7, <1>8, <1>9, <1>10, <1>11, <1>12 DEF HostInv

(* Connect. *)
LEMMA ConnectHost ==
  ASSUME IInv, IInv', HostInv, Connect
  PROVE  HostInv'
<1>0. /\ TypeOK /\ TypeOK' /\ Switch /\ Fresh /\ Held /\ Undone /\ Sole /\ Traced
      /\ AtRest /\ Unshared /\ Forwarding
  BY DEF IInv, HostInv
<1>1. proc = "on" /\ exit = NoGen /\ thr[Tunnel].pc = "idle"
  BY DEF Connect, IInv, TunnelInv, At
<1>2. Steps(Tunnel, "load", NoGen, FALSE)
  BY <1>0, Roles DEF Connect, Begin, Idle, TypeOK, Steps
<1>3. UNCHANGED <<proc, exit, loop, st, disk, shared, rules, fwd, base, lost, late, n>>
  BY DEF Connect, device, host
<1>4. Switch'
  BY <1>0, <1>1, <1>2, <1>3, Numbers, Roles DEF Steps, Sets, Switch
<1>5. Fresh'
  BY <1>0, <1>1, <1>2, <1>3, Numbers, Roles DEF Steps, Sets, Fresh, At
<1>6. Held'
  BY <1>0, <1>1, <1>2, <1>3, Numbers, Roles DEF Steps, Sets, Held, Busy
<1>7. Undone'
  BY <1>0, <1>1, <1>2, <1>3, Numbers, Roles DEF Steps, Sets, Undone, At
<1>8. Sole'
  BY <1>0, <1>1, <1>2, <1>3, Numbers, Roles DEF Steps, Sets, Sole, Owner
<1>9. Traced'
  BY <1>0, <1>1, <1>2, <1>3, Numbers, Roles, InstalledIs, InstalledNext
     DEF Steps, Sets, Traced, Booting, At
<1>10. AtRest'
  BY <1>0, <1>1, <1>2, <1>3, Numbers, Roles DEF Steps, Sets, AtRest
<1>11. Unshared'
  BY <1>0, <1>1, <1>2, <1>3, Numbers, Roles DEF Steps, Sets, Unshared
<1>12. Forwarding'
  BY <1>0, <1>1, <1>2, <1>3, Numbers, Roles
     DEF Steps, Sets, Forwarding, Settles, Kept, Owner, At
<1> QED BY <1>4, <1>5, <1>6, <1>7, <1>8, <1>9, <1>10, <1>11, <1>12 DEF HostInv

(* startExitEngine takes over what the file records. *)
LEMMA StartLoadHost ==
  ASSUME IInv, IInv', HostInv, StartLoad
  PROVE  HostInv'
<1>0. /\ TypeOK /\ TypeOK' /\ Switch /\ Fresh /\ Held /\ Undone /\ Sole /\ Traced
      /\ AtRest /\ Unshared /\ Forwarding
  BY DEF IInv, HostInv
<1>1. thr[Tunnel].pc = "load" /\ exit = NoGen /\ n.starts < MaxStarts
  BY DEF StartLoad, IInv, TunnelInv, At
<1>2. n.starts + 1 \in Gens /\ n'.starts = n.starts + 1
  BY <1>0, <1>1, ShareAssumption DEF StartLoad, Count, TypeOK, Counters, Gens
<1>3. Steps(Tunnel, "cleanup", n.starts + 1, thr[Tunnel].keep)
  BY <1>0, Roles DEF StartLoad, TypeOK, Thread, Steps
<1>4. Sets(n.starts + 1, disk.offer, disk.nat) /\ st[n.starts + 1].nat = NoNAT
  BY <1>0, <1>2, Numbers DEF StartLoad, Sets, TypeOK, Fresh
<1>5. UNCHANGED <<proc, exit, loop, disk, shared, rules, fwd, base, lost, late>>
  BY DEF StartLoad, device, host
<1>6. Switch'
  BY <1>0, <1>1, <1>2, <1>3, <1>4, <1>5, Numbers, Roles DEF Steps, Sets, Switch
<1>7. Fresh'
  BY <1>0, <1>1, <1>2, <1>3, <1>4, <1>5, Numbers, Roles DEF Steps, Sets, Fresh
<1>8. Held'
  <2>1. \A u \in Threads : u # Tunnel /\ Busy(u) => st'[thr[u].gen].nat # NoNAT
    BY <1>0, <1>1, <1>2, <1>3, <1>4, <1>5, Roles, Numbers
       DEF Sets, Held, IInv, CallersInv, LoopInv, Busy
  <2> QED BY <1>0, <1>3, <2>1, HeldAfter, Roles
<1>9. Undone'
  BY <1>0, <1>1, <1>2, <1>3, <1>4, <1>5, Numbers, Roles DEF Steps, Sets, Undone, At
<1>10. Sole'
  BY <1>0, <1>1, <1>2, <1>3, <1>4, <1>5, Numbers, Roles DEF Steps, Sets, Sole, Owner
<1>11. Traced'
  <2> SUFFICES ASSUME ~Faulty, proc = "on", ~lost, NEW x \in rules PROVE x \in Installed'
    BY <1>5 DEF Traced
  <2>1. CASE x \in Recorded(disk)
    BY <1>2, <1>4, <2>1, InstalledNext DEF Sets, Recorded
  <2>2. CASE x \in Installed
    BY <1>2, <1>4, <2>2, InstalledIs, InstalledNext DEF Sets
  <2> QED BY <1>0, <2>1, <2>2 DEF Traced
<1>12. AtRest'
  BY <1>0, <1>1, <1>2, <1>3, <1>4, <1>5, Numbers, Roles DEF Steps, Sets, AtRest
<1>13. Unshared'
  BY <1>0, <1>1, <1>2, <1>3, <1>4, <1>5, Numbers, Roles DEF Steps, Sets, Unshared
<1>14. Forwarding'
  BY <1>0, <1>1, <1>2, <1>3, <1>4, <1>5, Numbers, Roles
     DEF Steps, Sets, Forwarding, Settles, Kept, Owner
<1> QED BY <1>6, <1>7, <1>8, <1>9, <1>10, <1>11, <1>12, <1>13, <1>14 DEF HostInv

(* cleanupStale removes it. *)
LEMMA StartCleanupHost ==
  ASSUME IInv, IInv', HostInv, StartCleanup
  PROVE  HostInv'
<1>0. /\ TypeOK /\ TypeOK' /\ Switch /\ Fresh /\ Held /\ Undone /\ Sole /\ Traced
      /\ AtRest /\ Unshared /\ Forwarding
  BY DEF IInv, HostInv
<1>1. thr[Tunnel].pc = "cleanup" /\ exit = NoGen /\ thr[Tunnel].gen \in Gens
  BY DEF StartCleanup, IInv, TunnelInv, At
<1>2. \E pc \in {"enable", "save"} : Steps(Tunnel, pc, thr[Tunnel].gen, thr[Tunnel].keep)
  BY <1>0, GotoSteps, Roles DEF StartCleanup, PC
<1>3. Sets(thr[Tunnel].gen, st[thr[Tunnel].gen].offer, NoNAT)
  BY <1>0, <1>1 DEF StartCleanup, Sets, TypeOK, State
<1>4. /\ exit' = thr[Tunnel].gen
      /\ st[thr[Tunnel].gen].nat = NoNAT => rules' = rules /\ fwd' = fwd
      /\ st[thr[Tunnel].gen].nat # NoNAT =>
           /\ ~Faulty => rules' = rules \ {st[thr[Tunnel].gen].nat.uplink}
           /\ fwd' = Restored(st[thr[Tunnel].gen].nat, FALSE)
  BY RemovedAll DEF StartCleanup
<1>5. UNCHANGED <<proc, loop, disk, shared, base, lost, late, n>>
  BY DEF StartCleanup, device, host
<1>6. Switch'
  <2>1. base => fwd'
    <3>1. CASE st[thr[Tunnel].gen].nat = NoNAT BY <1>0, <1>4, <3>1 DEF Switch
    <3>2. CASE st[thr[Tunnel].gen].nat # NoNAT
      BY <1>0, <1>1, <1>4, <3>2 DEF Switch, Restored
    <3> QED BY <3>1, <3>2
  <2>2. \A g \in Gens : base /\ st'[g].nat # NoNAT => st'[g].nat.prev
    BY <1>0, <1>3 DEF Switch, Sets
  <2>3. base /\ disk'.nat # NoNAT => disk'.nat.prev
    BY <1>0, <1>1, <1>4, <1>5, <2>2 DEF Switch
  <2> QED BY <1>5, <2>1, <2>2, <2>3 DEF Switch
<1>7. Fresh'
  BY <1>0, <1>1, <1>2, <1>3, <1>4, <1>5, Numbers, Roles DEF Steps, Sets, Fresh, At
<1>8. Held'
  <2>1. \A u \in Threads : u # Tunnel /\ Busy(u) => thr[u].gen # thr[Tunnel].gen
    BY <1>0, <1>1 DEF Fresh, At
  <2>2. \A u \in Threads : u # Tunnel /\ Busy(u) => st'[thr[u].gen].nat # NoNAT
    BY <1>0, <1>1, <1>2, <1>3, <1>4, <1>5, <2>1, Roles
       DEF Sets, Held, IInv, CallersInv, LoopInv, Busy
  <2>3. \A pc \in {"enable", "save"} : pc \notin {"drop", "move"} OBVIOUS
  <2> QED BY <1>0, <1>2, <2>2, <2>3, HeldAfter, Roles
<1>9. Undone'
  BY <1>0, <1>1, <1>2, <1>3, <1>4, <1>5, Numbers, Roles DEF Steps, Sets, Undone, At
<1>10. Sole'
  BY <1>0, <1>1, <1>2, <1>3, <1>4, <1>5, Numbers, Roles DEF Steps, Sets, Sole, Owner
<1>11. Traced'
  <2>1. ~Booting BY <1>1 DEF Booting, At
  <2> QED BY <1>0, <1>1, <1>3, <1>4, <1>5, <2>1, TracedAfter
<1>12. AtRest'
  BY <1>0, <1>1, <1>2, <1>3, <1>4, <1>5, Numbers, Roles DEF Steps, Sets, AtRest
<1>13. Unshared'
  BY <1>0, <1>1, <1>2, <1>3, <1>4, <1>5, Numbers, Roles DEF Steps, Sets, Unshared
<1>14. Forwarding'
  <2>0. proc = "on" BY <1>1, Numbers, Roles
  <2>1. ASSUME ~AllowLocalAccess, ~late, ~lost PROVE fwd' = base
    <3>1. CASE st[thr[Tunnel].gen].nat = NoNAT
      BY <1>0, <1>1, <1>4, <2>0, <2>1, <3>1 DEF Forwarding, Settles, Kept, Owner, At
    <3>2. CASE st[thr[Tunnel].gen].nat # NoNAT
      BY <1>0, <1>1, <1>4, <2>0, <2>1, <3>2, Undoes DEF Unshared
    <3> QED BY <3>1, <3>2
  <2> QED BY <1>5, <2>1 DEF Forwarding, Settles
<1> QED BY <1>6, <1>7, <1>8, <1>9, <1>10, <1>11, <1>12, <1>13, <1>14 DEF HostInv

(* EnableLocalAccess. *)
LEMMA ShareHost ==
  ASSUME IInv, IInv', HostInv, Share
  PROVE  HostInv'
<1>0. /\ TypeOK /\ TypeOK' /\ Switch /\ Fresh /\ Held /\ Undone /\ Sole /\ Traced
      /\ AtRest /\ Unshared /\ Forwarding
  BY DEF IInv, HostInv
<1>1. thr[Tunnel].pc = "share" /\ exit = thr[Tunnel].gen
  BY DEF Share, IInv, TunnelInv, At
<1>2. \/ Steps(Tunnel, "idle", NoGen, FALSE) /\ exit' = exit
      \/ Steps(Tunnel, "shared", thr[Tunnel].gen, thr[Tunnel].keep) /\ exit' = exit
      \/ Steps(Tunnel, "halt", thr[Tunnel].gen, shared) /\ exit' = NoGen
  BY <1>0, GotoSteps, DoneSteps, EnterSteps, Roles DEF Share, PC, TypeOK
<1>3. fwd' \in {fwd, TRUE} /\ rules' = rules /\ base' = base
  BY DEF Share, host
<1>4. n'.starts = n.starts
  BY <1>0, CountType DEF Share
<1>5. AllowLocalAccess
  BY <1>0, <1>1 DEF Unshared
<1>6. UNCHANGED <<proc, loop, st, disk, shared, lost, late>>
  BY DEF Share, device, host
<1>7. Switch'
  BY <1>0, <1>1, <1>2, <1>3, <1>4, <1>5, <1>6, Numbers, Roles DEF Steps, Sets, Switch
<1>8. Fresh'
  BY <1>0, <1>1, <1>2, <1>3, <1>4, <1>5, <1>6, Numbers, Roles DEF Steps, Sets, Fresh, At
<1>9. Held'
  BY <1>0, <1>1, <1>2, <1>3, <1>4, <1>5, <1>6, Numbers, Roles
     DEF Steps, Sets, Held, Busy
<1>10. Undone'
  BY <1>0, <1>1, <1>2, <1>3, <1>4, <1>5, <1>6, Numbers, Roles
     DEF Steps, Sets, Undone, At
<1>11. Sole'
  BY <1>0, <1>1, <1>2, <1>3, <1>4, <1>5, <1>6, Numbers, Roles
     DEF Steps, Sets, Sole, Owner
<1>12. Traced'
  BY <1>0, <1>1, <1>2, <1>3, <1>4, <1>5, <1>6, Numbers, Roles, InstalledIs, InstalledNext
     DEF Traced, Booting, At
<1>13. AtRest'
  BY <1>0, <1>1, <1>2, <1>3, <1>4, <1>5, <1>6, Numbers, Roles DEF Steps, Sets, AtRest
<1>14. Unshared'
  BY <1>0, <1>1, <1>2, <1>3, <1>4, <1>5, <1>6, Numbers, Roles DEF Steps, Sets, Unshared
<1>15. Forwarding'
  BY <1>0, <1>1, <1>2, <1>3, <1>4, <1>5, <1>6, Numbers, Roles
     DEF Steps, Sets, Forwarding
<1> QED BY <1>7, <1>8, <1>9, <1>10, <1>11, <1>12, <1>13, <1>14, <1>15 DEF HostInv

(* The flag of local access. *)
LEMMA SharedHost ==
  ASSUME IInv, IInv', HostInv, Shared
  PROVE  HostInv'
<1>0. /\ TypeOK /\ TypeOK' /\ Switch /\ Fresh /\ Held /\ Undone /\ Sole /\ Traced
      /\ AtRest /\ Unshared /\ Forwarding
  BY DEF IInv, HostInv
<1>1. thr[Tunnel].pc = "shared"
  BY DEF Shared, At
<1>2. Steps(Tunnel, "idle", NoGen, FALSE)
  BY <1>0, DoneSteps, Roles DEF Shared
<1>3. AllowLocalAccess
  BY <1>0, <1>1 DEF Unshared
<1>4. UNCHANGED <<proc, exit, loop, st, disk, rules, fwd, base, lost, late, n>>
  BY DEF Shared, device, host
<1>5. Switch'
  BY <1>0, <1>1, <1>2, <1>3, <1>4, Numbers, Roles DEF Steps, Sets, Switch
<1>6. Fresh'
  BY <1>0, <1>1, <1>2, <1>3, <1>4, Numbers, Roles DEF Steps, Sets, Fresh, At
<1>7. Held'
  BY <1>0, <1>1, <1>2, <1>3, <1>4, Numbers, Roles DEF Steps, Sets, Held, Busy
<1>8. Undone'
  BY <1>0, <1>1, <1>2, <1>3, <1>4, Numbers, Roles DEF Steps, Sets, Undone, At
<1>9. Sole'
  BY <1>0, <1>1, <1>2, <1>3, <1>4, Numbers, Roles DEF Steps, Sets, Sole, Owner
<1>10. Traced'
  BY <1>0, <1>1, <1>2, <1>3, <1>4, Numbers, Roles, InstalledIs, InstalledNext
     DEF Steps, Sets, Traced, Booting, At
<1>11. AtRest'
  BY <1>0, <1>1, <1>2, <1>3, <1>4, Numbers, Roles DEF Steps, Sets, AtRest
<1>12. Unshared'
  BY <1>0, <1>1, <1>2, <1>3, <1>4, Numbers, Roles DEF Steps, Sets, Unshared
<1>13. Forwarding'
  BY <1>0, <1>1, <1>2, <1>3, <1>4, Numbers, Roles DEF Steps, Sets, Forwarding, Settles
<1> QED BY <1>5, <1>6, <1>7, <1>8, <1>9, <1>10, <1>11, <1>12, <1>13 DEF HostInv

(* Device.Stop takes the engine away. *)
LEMMA StopHost ==
  ASSUME IInv, IInv', HostInv, NEW quit \in BOOLEAN, Stop(quit)
  PROVE  HostInv'
<1>0. /\ TypeOK /\ TypeOK' /\ Switch /\ Fresh /\ Held /\ Undone /\ Sole /\ Traced
      /\ AtRest /\ Unshared /\ Forwarding
  BY DEF IInv, HostInv
<1>1. thr[Tunnel].pc = "idle" /\ exit' = NoGen /\ shared' \in {shared, FALSE} /\ proc = "on" 
  BY <1>0 DEF Stop, At
<1>2. Steps(Tunnel, "halt", exit, shared')
  BY <1>0, Roles DEF Stop, Idle, TypeOK, Steps
<1>3. n'.starts = n.starts
  BY <1>0, CountType DEF Stop
<1>4. UNCHANGED <<proc, loop, st, disk, rules, fwd, base, lost, late>>
  BY DEF Stop, device, host
<1>5. Switch'
  BY <1>0, <1>1, <1>2, <1>3, <1>4, Numbers, Roles DEF Steps, Sets, Switch
<1>6. Fresh'
  BY <1>0, <1>1, <1>2, <1>3, <1>4, Numbers, Roles DEF Steps, Sets, Fresh, At
<1>7. Held'
  BY <1>0, <1>1, <1>2, <1>3, <1>4, Numbers, Roles DEF Steps, Sets, Held, Busy
<1>8. Undone'
  BY <1>0, <1>1, <1>2, <1>3, <1>4, Numbers, Roles DEF Steps, Sets, Undone, At
<1>9. Sole'
  BY <1>0, <1>1, <1>2, <1>3, <1>4, Numbers, Roles DEF Steps, Sets, Sole, Owner
<1>10. Traced'
  BY <1>0, <1>1, <1>2, <1>3, <1>4, Numbers, Roles, InstalledIs, InstalledNext
     DEF Steps, Sets, Traced, Booting, At
<1>11. AtRest'
  BY <1>0, <1>1, <1>2, <1>3, <1>4, Numbers, Roles DEF Steps, Sets, AtRest
<1>12. Unshared'
  BY <1>0, <1>1, <1>2, <1>3, <1>4, Numbers, Roles DEF Steps, Sets, Unshared
<1>13. Forwarding'
  BY <1>0, <1>1, <1>2, <1>3, <1>4, Numbers, Roles
     DEF Steps, Sets, Forwarding, Settles, Kept, Owner, At
<1> QED BY <1>5, <1>6, <1>7, <1>8, <1>9, <1>10, <1>11, <1>12, <1>13 DEF HostInv

(* stopExitEngine removes the rules of its engine. *)
LEMMA HaltHost ==
  ASSUME IInv, IInv', HostInv, Halt
  PROVE  HostInv'
<1>0. /\ TypeOK /\ TypeOK' /\ Switch /\ Fresh /\ Held /\ Undone /\ Sole /\ Traced
      /\ AtRest /\ Unshared /\ Forwarding
  BY DEF IInv, HostInv
<1>1. thr[Tunnel].pc = "halt" /\ thr[Tunnel].gen \in Gens /\ exit = NoGen /\ thr[Loop].pc = "idle"
  BY DEF Halt, IInv, TunnelInv, At
<1>2. Steps(Tunnel, "unshare", thr[Tunnel].gen, thr[Tunnel].keep)
  BY <1>0, GotoSteps, Roles DEF Halt, PC
<1>3. Sets(thr[Tunnel].gen, st[thr[Tunnel].gen].offer, NoNAT)
  BY <1>0, <1>1 DEF Halt, Sets, TypeOK, State
<1>4. /\ loop' = NoGen /\ disk' \in {disk, st'[thr[Tunnel].gen]} /\ Free(thr[Tunnel].gen)
      /\ st[thr[Tunnel].gen].nat = NoNAT => rules' = rules /\ fwd' = fwd
      /\ st[thr[Tunnel].gen].nat # NoNAT =>
           /\ ~Faulty => rules' = rules \ {st[thr[Tunnel].gen].nat.uplink}
           /\ fwd' = Restored(st[thr[Tunnel].gen].nat, shared)
  BY RemovedAll DEF Halt
<1>5. UNCHANGED <<proc, exit, shared, base, lost, late, n>>
  BY DEF Halt, device, host
<1>6. Switch'
  <2>1. base => fwd'
    <3>1. CASE st[thr[Tunnel].gen].nat = NoNAT BY <1>0, <1>4, <3>1 DEF Switch
    <3>2. CASE st[thr[Tunnel].gen].nat # NoNAT
      BY <1>0, <1>1, <1>4, <3>2 DEF Switch, Restored
    <3> QED BY <3>1, <3>2
  <2>2. \A g \in Gens : base /\ st'[g].nat # NoNAT => st'[g].nat.prev
    BY <1>0, <1>3 DEF Switch, Sets
  <2>3. base /\ disk'.nat # NoNAT => disk'.nat.prev
    BY <1>0, <1>1, <1>4, <1>5, <2>2 DEF Switch
  <2> QED BY <1>5, <2>1, <2>2, <2>3 DEF Switch
<1>7. Fresh'
  BY <1>0, <1>1, <1>2, <1>3, <1>4, <1>5, Numbers, Roles DEF Steps, Sets, Fresh, At
<1>8. Held'
  <2>1. \A u \in Threads : u # Tunnel /\ Busy(u) => thr[u].gen # thr[Tunnel].gen
    BY <1>4 DEF Free, Busy
  <2>2. \A u \in Threads : u # Tunnel /\ Busy(u) => st'[thr[u].gen].nat # NoNAT
    BY <1>0, <1>1, <1>2, <1>3, <1>4, <1>5, <2>1, Roles
       DEF Sets, Held, IInv, CallersInv, Busy
  <2> QED BY <1>0, <1>2, <2>2, HeldAfter, Roles
<1>9. Undone'
  BY <1>0, <1>1, <1>2, <1>3, <1>4, <1>5, Numbers, Roles DEF Steps, Sets, Undone, At
<1>10. Sole'
  BY <1>0, <1>1, <1>2, <1>3, <1>4, <1>5, Numbers, Roles DEF Steps, Sets, Sole, Owner
<1>11. Traced'
  <2>1. ~Booting BY <1>1 DEF Booting, At
  <2> QED BY <1>0, <1>1, <1>3, <1>4, <1>5, <2>1, TracedAfter
<1>12. AtRest'
  BY <1>0, <1>1, <1>2, <1>3, <1>4, <1>5, Numbers, Roles DEF Steps, Sets, AtRest
<1>13. Unshared'
  BY <1>0, <1>1, <1>2, <1>3, <1>4, <1>5, Numbers, Roles DEF Steps, Sets, Unshared
<1>14. Forwarding'
  <2>0. proc = "on" BY <1>1, Numbers, Roles
  <2>1. ASSUME ~AllowLocalAccess, ~late, ~lost PROVE fwd' = base
    <3>1. CASE st[thr[Tunnel].gen].nat = NoNAT
      BY <1>0, <1>1, <1>4, <2>0, <2>1, <3>1 DEF Forwarding, Settles, Kept, Owner, At
    <3>2. CASE st[thr[Tunnel].gen].nat # NoNAT
      BY <1>0, <1>1, <1>4, <2>0, <2>1, <3>2, Undoes DEF Unshared
    <3> QED BY <3>1, <3>2
  <2> QED BY <1>5, <2>1 DEF Forwarding, Settles
<1> QED BY <1>6, <1>7, <1>8, <1>9, <1>10, <1>11, <1>12, <1>13, <1>14 DEF HostInv

(* The process ends with the Agent. *)
LEMMA UnshareHost ==
  ASSUME IInv, IInv', HostInv, Unshare
  PROVE  HostInv'
<1>0. /\ TypeOK /\ TypeOK' /\ Switch /\ Fresh /\ Held /\ Undone /\ Sole /\ Traced
      /\ AtRest /\ Unshared /\ Forwarding
  BY DEF IInv, HostInv
<1>1. thr[Tunnel].pc = "unshare" /\ exit = NoGen /\ loop = NoGen
  BY DEF Unshare, IInv, TunnelInv, At
<1>2. \/ /\ Steps(Tunnel, "idle", NoGen, FALSE) /\ UNCHANGED <<proc, shared, st, lost>>
      \/ /\ proc' = "off" /\ ~shared' /\ st' = NoState
         /\ thr' = [t \in Threads |-> Idle]
         /\ lost' = (lost \/ (late /\ Behind))
  BY <1>0, DoneSteps, Roles DEF Unshare
<1>3. /\ \A g \in Gens : NoState[g].nat = NoNAT
      /\ \A t \in Threads : [u \in Threads |-> Idle][t] = Idle
      /\ Idle.pc = "idle" /\ Idle.gen = NoGen /\ ~Idle.keep
  BY DEF NoState, Idle
<1>4. UNCHANGED <<exit, loop, disk, rules, fwd, base, late, n>>
  BY DEF Unshare, device, host
<1>5. Switch'
  BY <1>0, <1>1, <1>2, <1>3, <1>4, Numbers, Roles DEF Steps, Sets, Switch
<1>6. Fresh'
  BY <1>0, <1>1, <1>2, <1>3, <1>4, Numbers, Roles DEF Steps, Sets, Fresh, At
<1>7. Held'
  BY <1>0, <1>1, <1>2, <1>3, <1>4, Numbers, Roles DEF Steps, Sets, Held, Busy
<1>8. Undone'
  BY <1>0, <1>1, <1>2, <1>3, <1>4, Numbers, Roles DEF Steps, Sets, Undone, At
<1>9. Sole'
  BY <1>0, <1>1, <1>2, <1>3, <1>4, Numbers, Roles DEF Steps, Sets, Sole, Owner
<1>10. Traced'
  BY <1>0, <1>1, <1>2, <1>3, <1>4, Numbers, Roles, InstalledIs, InstalledNext
     DEF Steps, Sets, Traced, Booting, At
<1>11. AtRest'
  <2> SUFFICES ASSUME ~Faulty, proc' # "on", ~lost'
               PROVE  rules \subseteq Recorded(disk) /\ (proc' = "off" /\ ~late => rules = {})
    BY <1>4 DEF AtRest, Recorded
  <2>1. proc = "on" BY <1>1, Numbers, Roles
  <2>2. ~lost /\ (late => ~Behind) BY <1>2, <2>1
  <2>3. rules \subseteq Installed BY <1>0, <1>1, <2>1, <2>2 DEF Traced, Booting, At
  <2>4. ~late => Installed = {} BY <1>0, <1>1, Numbers, InstalledIs DEF Sole, Owner
  <2> QED BY <2>2, <2>3, <2>4 DEF Behind
<1>12. Unshared'
  BY <1>0, <1>1, <1>2, <1>3, <1>4, Numbers, Roles DEF Steps, Sets, Unshared
<1>13. Forwarding'
  BY <1>0, <1>1, <1>2, <1>3, <1>4, Numbers, Roles
     DEF Steps, Sets, Forwarding, Settles, Kept, Owner, At
<1> QED BY <1>5, <1>6, <1>7, <1>8, <1>9, <1>10, <1>11, <1>12, <1>13 DEF HostInv

(* A crash leaves the host and the file. *)
LEMMA CrashHost ==
  ASSUME IInv, IInv', HostInv, Crash
  PROVE  HostInv'
<1>0. /\ TypeOK /\ TypeOK' /\ Switch /\ Fresh /\ Held /\ Undone /\ Sole /\ Traced
      /\ AtRest /\ Unshared /\ Forwarding
  BY DEF IInv, HostInv
<1>1. /\ proc' = "crashed" /\ ~shared' /\ st' = NoState /\ thr' = [t \in Threads |-> Idle]
      /\ exit' = NoGen /\ loop' = NoGen
      /\ lost' = (lost \/ Behind)
  BY DEF Crash
<1>2. /\ \A g \in Gens : NoState[g].nat = NoNAT
      /\ \A t \in Threads : [u \in Threads |-> Idle][t] = Idle
      /\ Idle.pc = "idle" /\ Idle.gen = NoGen /\ ~Idle.keep
  BY DEF NoState, Idle
<1>3. n'.starts = n.starts
  BY <1>0, CountType DEF Crash
<1>4. UNCHANGED <<disk, rules, fwd, base, late>>
  BY DEF Crash, device, host
<1>5. Switch'
  BY <1>0, <1>1, <1>2, <1>3, <1>4, Numbers, Roles DEF Steps, Sets, Switch
<1>6. Fresh'
  BY <1>0, <1>1, <1>2, <1>3, <1>4, Numbers, Roles DEF Steps, Sets, Fresh, At
<1>7. Held'
  BY <1>0, <1>1, <1>2, <1>3, <1>4, Numbers, Roles DEF Steps, Sets, Held, Busy
<1>8. Undone'
  BY <1>0, <1>1, <1>2, <1>3, <1>4, Numbers, Roles DEF Steps, Sets, Undone, At
<1>9. Sole'
  BY <1>0, <1>1, <1>2, <1>3, <1>4, Numbers, Roles DEF Steps, Sets, Sole, Owner
<1>10. Traced'
  BY <1>0, <1>1, <1>2, <1>3, <1>4, Numbers, Roles, InstalledIs, InstalledNext
     DEF Steps, Sets, Traced
<1>11. AtRest'
  <2>1. ~lost' => ~Behind BY <1>1
  <2> QED BY <1>1, <1>4, <2>1 DEF AtRest, Behind, Recorded
<1>12. Unshared'
  BY <1>0, <1>1, <1>2, <1>3, <1>4, Numbers, Roles DEF Steps, Sets, Unshared
<1>13. Forwarding'
  <2>1. ~lost' => ~Behind BY <1>1
  <2> QED BY <1>1, <1>4, <2>1 DEF Forwarding, Settles, Behind
<1> QED BY <1>5, <1>6, <1>7, <1>8, <1>9, <1>10, <1>11, <1>12, <1>13 DEF HostInv

(* A firewall reload. *)
LEMMA FirewallReloadHost ==
  ASSUME IInv, IInv', HostInv, FirewallReload
  PROVE  HostInv'
<1>0. /\ TypeOK /\ TypeOK' /\ Switch /\ Fresh /\ Held /\ Undone /\ Sole /\ Traced
      /\ AtRest /\ Unshared /\ Forwarding
  BY DEF IInv, HostInv
<1>1. rules' = {}
  BY DEF FirewallReload
<1>2. n'.starts = n.starts
  BY <1>0, CountType DEF FirewallReload
<1>3. UNCHANGED <<proc, exit, loop, st, disk, shared, fwd, base, thr, lost, late>>
  BY DEF FirewallReload, device, host
<1>4. Switch'
  BY <1>0, <1>1, <1>2, <1>3, Numbers, Roles DEF Steps, Sets, Switch
<1>5. Fresh'
  BY <1>0, <1>1, <1>2, <1>3, Numbers, Roles DEF Steps, Sets, Fresh, At
<1>6. Held'
  BY <1>0, <1>1, <1>2, <1>3, Numbers, Roles DEF Steps, Sets, Held, Busy
<1>7. Undone'
  BY <1>0, <1>1, <1>2, <1>3, Numbers, Roles DEF Steps, Sets, Undone, At
<1>8. Sole'
  BY <1>0, <1>1, <1>2, <1>3, Numbers, Roles DEF Steps, Sets, Sole, Owner
<1>9. Traced'
  BY <1>0, <1>1, <1>2, <1>3, Numbers, Roles, InstalledIs, InstalledNext
     DEF Steps, Sets, Traced
<1>10. AtRest'
  BY <1>0, <1>1, <1>2, <1>3, Numbers, Roles DEF Steps, Sets, AtRest
<1>11. Unshared'
  BY <1>0, <1>1, <1>2, <1>3, Numbers, Roles DEF Steps, Sets, Unshared
<1>12. Forwarding'
  BY <1>0, <1>1, <1>2, <1>3, Numbers, Roles
     DEF Steps, Sets, Forwarding, Settles, Kept, Owner, At
<1> QED BY <1>4, <1>5, <1>6, <1>7, <1>8, <1>9, <1>10, <1>11, <1>12 DEF HostInv

(* A change of the default route. *)
LEMMA UplinkChangeHost ==
  ASSUME IInv, IInv', HostInv, UplinkChange
  PROVE  HostInv'
<1>0. /\ TypeOK /\ TypeOK' /\ Switch /\ Fresh /\ Held /\ Undone /\ Sole /\ Traced
      /\ AtRest /\ Unshared /\ Forwarding
  BY DEF IInv, HostInv
<1>1. n'.starts = n.starts
  BY <1>0, CountType DEF UplinkChange
<1>2. UNCHANGED <<proc, exit, loop, st, disk, shared, rules, fwd, base, thr, lost, late>>
  BY DEF UplinkChange, device, host
<1>3. Switch'
  BY <1>0, <1>1, <1>2, Numbers, Roles DEF Steps, Sets, Switch
<1>4. Fresh'
  BY <1>0, <1>1, <1>2, Numbers, Roles DEF Steps, Sets, Fresh, At
<1>5. Held'
  BY <1>0, <1>1, <1>2, Numbers, Roles DEF Steps, Sets, Held, Busy
<1>6. Undone'
  BY <1>0, <1>1, <1>2, Numbers, Roles DEF Steps, Sets, Undone, At
<1>7. Sole'
  BY <1>0, <1>1, <1>2, Numbers, Roles DEF Steps, Sets, Sole, Owner
<1>8. Traced'
  BY <1>0, <1>1, <1>2, Numbers, Roles, InstalledIs, InstalledNext
     DEF Steps, Sets, Traced, Booting, At
<1>9. AtRest'
  BY <1>0, <1>1, <1>2, Numbers, Roles DEF Steps, Sets, AtRest
<1>10. Unshared'
  BY <1>0, <1>1, <1>2, Numbers, Roles DEF Steps, Sets, Unshared
<1>11. Forwarding'
  BY <1>0, <1>1, <1>2, Numbers, Roles
     DEF Steps, Sets, Forwarding, Settles, Kept, Owner, At
<1> QED BY <1>3, <1>4, <1>5, <1>6, <1>7, <1>8, <1>9, <1>10, <1>11 DEF HostInv

LEMMA InitHost == ASSUME Init PROVE HostInv
<1>1. /\ \A t \in Threads : thr[t] = Idle
      /\ \A g \in Gens : st[g].nat = NoNAT
      /\ disk.nat = NoNAT /\ n.starts = 0 /\ exit = 0 /\ loop = 0
      /\ Idle.pc = "idle" /\ Idle.gen = 0 /\ ~Idle.keep
  BY DEF Init, NoState, Idle, NoGen
<1>2. Switch /\ Held /\ Undone /\ Sole
  BY <1>1 DEF Init, Switch, Held, Busy, Undone, Sole
<1>3. Fresh BY <1>1, Roles DEF Fresh, At
<1>4. Traced /\ AtRest BY DEF Init, Traced, AtRest
<1>5. Unshared /\ Forwarding BY <1>1, Roles DEF Init, Unshared, Forwarding
<1> QED BY <1>2, <1>3, <1>4, <1>5 DEF HostInv

LEMMA EngineStepHost ==
  ASSUME IInv, IInv', HostInv, NEW t \in Threads, EngineStep(t)
  PROVE  HostInv'
BY EnableAgainHost, EnableOfferHost, EnableFailsHost, SaveHost DEF EngineStep, Enable

LEMMA NextHost == ASSUME IInv, HostInv, [Next]_vars PROVE HostInv'
<1>0. IInv' BY NextInv
<1>1. ASSUME NEW c \in Callers, CallerStep(c) PROVE HostInv'
  BY <1>0, <1>1, Roles, EngineStepHost, DisableHost, DropHost DEF CallerStep
<1>2. ASSUME NEW c \in Callers, NEW on \in BOOLEAN, SetExitOffer(c, on) PROVE HostInv'
  BY <1>0, <1>2, SetExitOfferHost
<1>3. CASE LoopStep
  BY <1>0, <1>3, Roles, EngineStepHost, MoveHost, EnsureMoveHost, EnsureRepairHost,
     EnsureRetryHost
     DEF LoopStep, EnsureNAT
<1>4. CASE TunnelStep
  BY <1>0, <1>4, Roles, EngineStepHost, StartLoadHost, StartCleanupHost, ShareHost,
     SharedHost,
     HaltHost, UnshareHost DEF TunnelStep
<1>5. CASE Boot \/ Connect
  BY <1>0, <1>5, BootHost, ConnectHost
<1>6. ASSUME NEW quit \in BOOLEAN, Stop(quit) PROVE HostInv'
  BY <1>0, <1>6, StopHost
<1>7. CASE Crash \/ FirewallReload \/ UplinkChange
  BY <1>0, <1>7, CrashHost, FirewallReloadHost, UplinkChangeHost
<1>8. CASE UNCHANGED vars
  BY <1>8
     DEF vars, device, host, HostInv, Switch, Fresh, Held, Busy, Undone, Sole, Owner,
     Traced,
              Installed, Booting, AtRest, Unshared, Forwarding, Settles, Kept, At
<1> QED BY <1>1, <1>2, <1>3, <1>4, <1>5, <1>6, <1>7, <1>8 DEF Next

LEMMA HostInvariance == Spec => [](IInv /\ HostInv)
<1>1. Init => IInv /\ HostInv BY InitInv, InitHost
<1>2. IInv /\ HostInv /\ [Next]_vars => (IInv /\ HostInv)' BY NextInv, NextHost
<1> QED BY <1>1, <1>2, PTL DEF Spec

(* If no removal of a rule and no write of the state file fails: every NAT    *)
(* rule on the host is recorded by an engine or by the file, for all calls,   *)
(* moves of the uplink, restarts and crashes, those that outlive their engine *)
(* included, until a crash hits while the file is behind the host             *)
(* (enableOffer, ensureNAT, disableNATLocked, cleanupStale).                  *)
THEOREM RulesTraced == ~Faulty => (Spec => []RulesRecorded)
<1> SUFFICES ASSUME ~Faulty PROVE Spec => []RulesRecorded OBVIOUS
<1>1. HostInv => (proc = "on" /\ ~lost => rules \subseteq Installed \cup Recorded(disk))
  BY DEF HostInv, Traced
<1>2. HostInv => RulesRecorded
  <2> DEFINE I == UNION {Recorded(st[g]) : g \in Gens}
  <2>1. Installed = I BY DEF Installed
  <2>2. (proc = "on" /\ ~lost => rules \subseteq I \cup Recorded(disk)) => RulesRecorded
    BY Zenon DEF RulesRecorded
  <2> HIDE DEF I
  <2> QED BY <1>1, <2>1, <2>2
<1> QED BY <1>2, HostInvariance, PTL

(* If no removal of a rule and no write of the state file fails: a clean stop *)
(* leaves no rule and the forwarding the daemon found, also after crashes     *)
(* (stopExitEngine, cleanupStale, restoreForwarding).                         *)
THEOREM CleanStop == ~Faulty => (Spec => []NothingLingers)
<1> SUFFICES ASSUME ~Faulty PROVE Spec => []NothingLingers OBVIOUS
<1>1. HostInv => NothingLingers
  BY DEF HostInv, AtRest, Forwarding, NothingLingers, Stopped
<1> QED BY <1>1, HostInvariance, PTL
=============================================================================

----------------------------- MODULE P2PClient -----------------------------
(***************************************************************************)
(* Direct-path negotiation of one device (p2p_client.go): the coordinator  *)
(* introduces peers, both sides punch, an authenticated punch installs a   *)
(* WireGuard candidate, and only a fresh handshake moves the peer's /32    *)
(* route from the relay to it.                                             *)
(*                                                                         *)
(* `tab' is everything guarded by P2PClient.mu; a locked section is one    *)
(* action.  What the code does after it unlocks (RemovePeer,               *)
(* restoreRelayRoute, prepareDirectPeer, activateDirectPeer) is a step of  *)
(* its own, so the threads interleave exactly where the code lets them:    *)
(*   Control      controlWorker: HandleMessage and HandlePunch, one event  *)
(*                at a time                                                *)
(*   Workers      promotionWorker                                          *)
(*   Maintenance  maintenanceLoop                                          *)
(*   punching     the sessions whose holePunch is queued or running        *)
(* TryP2P is called by the attempt worker and by outside callers.          *)
(*                                                                         *)
(* Time: every comparison of a clock with a threshold (retry delay, nonce  *)
(* grace, relay grace, stall, staleness, forget) is a choice made where    *)
(* the code compares.  A session is a number in the order of creation; a   *)
(* peer's VPN address is identified with its key.                          *)
(***************************************************************************)
EXTENDS Naturals, FiniteSets

CONSTANTS
  IDs,          \* peer numbers the coordinator hands out
  Keys,         \* public keys of the peers
  NoID, NoKey,  \* the zero ID and the zero key
  ServerKey,    \* the coordinator's own key
  Capable,      \* keys the peer list marks P2P capable
  Relays,       \* <<id, key>> pairs a punch relay may carry
  Lists,        \* <<id, key>> pairs an entry of a peer list may carry
  Nonces,       \* session nonces
  NoNonce,
  Workers, Control, Maintenance,
  MaxSessions,  \* bound: sessions created
  QueueSize     \* p2pPromotionQueueSize

ASSUME ClientAssumption ==
  /\ NoID \notin IDs /\ NoKey \notin Keys /\ NoNonce \notin Nonces
  /\ Capable \subseteq Keys \cup {NoKey}
  /\ Relays \subseteq IDs \X (Keys \cup {NoKey})
  /\ Lists \subseteq IDs \X (Keys \cup {NoKey})
  /\ MaxSessions \in Nat /\ QueueSize \in Nat
  /\ Control # Maintenance /\ Control \notin Workers /\ Maintenance \notin Workers

Sess == 1 .. MaxSessions
NoSession == 0
Threads == Workers \cup {Control, Maintenance}

VARIABLES
  tab,       \* peers, sessions, sessionByNonce, peerKeyIndex, destinations
  thr,       \* what each thread is doing outside the lock
  punching,  \* sessions with a queued or running holePunch
  promoQ,    \* promotionQueue
  stale,     \* teardowns the maintenance pass still has to run
  wg,        \* the WireGuard device: its direct peers
  route,     \* who owns each peer's /32
  learned    \* history: keys that an entry got from a relay joining its attempt

vars == <<tab, thr, punching, promoQ, stale, wg, route, learned>>
-----------------------------------------------------------------------------
(* Types *)

States == {"None", "Discovered", "Trying", "Established", "Failed"}

\* DiscoveredPeer; state "None" stands for an ID that is not in the map.
Peer == [key : Keys \cup {NoKey}, state : States, capable : BOOLEAN]

NoPeer == [key |-> NoKey, state |-> "None", capable |-> FALSE]

\* P2PSession.  Established and Promoting are set together.
Session == [target : IDs \cup {NoID}, key : Keys \cup {NoKey},
            nonce : Nonces \cup {NoNonce}, alt : Nonces \cup {NoNonce},
            promoting : BOOLEAN, done : BOOLEAN]

NoSess == [target |-> NoID, key |-> NoKey, nonce |-> NoNonce, alt |-> NoNonce,
           promoting |-> FALSE, done |-> FALSE]

Table == [peers : [IDs -> Peer],
          sessions : [IDs -> Sess \cup {NoSession}],
          sess : [Sess -> Session],
          created : 0 .. MaxSessions,
          byNonce : [Nonces -> Sess \cup {NoSession}],
          keyIndex : [Keys -> IDs \cup {NoID}],
          destinations : [Keys -> IDs \cup {NoID}]]

\* p2pPromotionJob and p2pDirectTeardown.
Job == [id : IDs \cup {NoID}, sess : Sess \cup {NoSession}, key : Keys \cup {NoKey}]

NoJob == [id |-> NoID, sess |-> NoSession, key |-> NoKey]

PC == {"idle", "list", "teardown", "reroute", "schedule", "prepare", "validate",
       "activate", "commit", "fail", "orphan", "remove", "restore"}

\* A peer of the WireGuard device: configured, has shaken hands since it was
\* configured, and the promotions that started before its last handshake.
WGPeer == [up : BOOLEAN, shook : BOOLEAN, fresh : SUBSET Sess]

NoWGPeer == [up |-> FALSE, shook |-> FALSE, fresh |-> {}]
-----------------------------------------------------------------------------
(* Operations on the table, with the lock held *)

Known(t, id) == t.peers[id].state # "None"
Active(t, id) == t.peers[id].state \in {"Trying", "Established"}

\* Mutant: the session leaves the maps but its punch loop is not told to stop.
ForgetOnly(t, ids) ==
  LET gone == {t.sessions[id] : id \in ids}
  IN [t EXCEPT
        !.sessions = [id \in IDs |-> IF id \in ids THEN NoSession ELSE t.sessions[id]],
        !.byNonce = [n \in Nonces |-> IF t.byNonce[n] \in gone THEN NoSession ELSE t.byNonce[n]]]

\* discardSessionLocked for each of `ids': forgetSessionLocked and signalDone.
DiscardSessions(t, ids) ==
  LET gone == {t.sessions[id] : id \in ids}
  IN [t EXCEPT
        !.sessions = [id \in IDs |-> IF id \in ids THEN NoSession ELSE t.sessions[id]],
        !.byNonce = [n \in Nonces |-> IF t.byNonce[n] \in gone THEN NoSession ELSE t.byNonce[n]],
        !.sess = [s \in Sess |-> [t.sess[s] EXCEPT !.done = @ \/ s \in gone]]]

\* rebuildIndexesLocked.  It ranges over a map, in any order: of two entries
\* that share a key either may be the one the key leads to.
Entry(t, k) == {id \in IDs : t.peers[id].key = k}

Offered(t, k) ==
  {id \in Entry(t, k) : k # ServerKey /\ t.peers[id].capable /\ ~Active(t, id)}

Pick(ids) == IF ids = {} THEN {NoID} ELSE ids

Indexes(held) ==
  {x \in [Keys -> UNION {Pick(held[k]) : k \in Keys}] : \A k \in Keys : x[k] \in Pick(held[k])}

Rebuild(t) ==
  UNION {{[t EXCEPT !.keyIndex = x, !.destinations = d] :
            x \in Indexes([k \in Keys |-> Entry(t, k)])} :
            d \in Indexes([k \in Keys |-> Offered(t, k)])}

Fails(t, id) == [t EXCEPT !.peers[id].state = "Failed"]

\* Mutants: a renumbering that keeps the stale entry, and one that keeps the
\* sessions of the IDs it touches.
RenumberCopies(t, k, id) ==
  IF k = NoKey \/ t.keyIndex[k] \in {NoID, id} THEN t
  ELSE [DiscardSessions(t, {t.keyIndex[k], id}) EXCEPT
          !.peers[id] = [t.peers[t.keyIndex[k]] EXCEPT !.state = "Discovered"],
          !.keyIndex[k] = id]

RenumberKeepsSessions(t, k, id) ==
  IF k = NoKey \/ t.keyIndex[k] \in {NoID, id} THEN t
  ELSE [t EXCEPT !.peers = [t.peers EXCEPT ![t.keyIndex[k]] = NoPeer,
                                           ![id] = t.peers[t.keyIndex[k]]],
                 !.keyIndex[k] = id]

\* renumberPeerLocked.
Renumbers(t, k, id) ==
  /\ k # NoKey /\ t.keyIndex[k] \notin {NoID, id}
  /\ t.peers[t.keyIndex[k]].key = k

Renumber(t, k, id) ==
  IF k = NoKey \/ t.keyIndex[k] \in {NoID, id} THEN t
  ELSE IF ~Renumbers(t, k, id) THEN [t EXCEPT !.keyIndex[k] = NoID]
  ELSE LET old == t.keyIndex[k]
           moved == IF t.peers[old].state = "Trying"
                    THEN [t.peers[old] EXCEPT !.state = "Discovered"] ELSE t.peers[old]
       IN [DiscardSessions(t, {old, id}) EXCEPT
             !.peers = [t.peers EXCEPT ![old] = NoPeer, ![id] = moved],
             !.keyIndex[k] = id]

\* Mutants: a timeout that leaves the session, and one that leaves the indexes.
FailPunchNever(t, s) == {t}

FailPunchUnindexed(t, s) ==
  {IF t.sessions[t.sess[s].target] = s
   THEN DiscardSessions(Fails(t, t.sess[s].target), {t.sess[s].target}) ELSE t}

\* failPunchSessionIfCurrentLocked.
FailPunch(t, s) ==
  LET id == t.sess[s].target
  IN IF /\ Known(t, id) /\ ~t.sess[s].promoting
        /\ t.peers[id].state # "Established" /\ t.sessions[id] = s
     THEN Rebuild(DiscardSessions(Fails(t, id), {id}))
     ELSE {t}
-----------------------------------------------------------------------------
Init ==
  /\ tab = [peers |-> [id \in IDs |-> NoPeer],
            sessions |-> [id \in IDs |-> NoSession],
            sess |-> [s \in Sess |-> NoSess],
            created |-> 0,
            byNonce |-> [n \in Nonces |-> NoSession],
            keyIndex |-> [k \in Keys |-> NoID],
            destinations |-> [k \in Keys |-> NoID]]
  /\ thr = [t \in Threads |-> [pc |-> "idle", job |-> NoJob]]
  /\ punching = {}
  /\ promoQ = {}
  /\ stale = {}
  /\ wg = [k \in Keys |-> NoWGPeer]
  /\ route = [k \in Keys |-> "relay"]
  /\ learned = {}

At(t, pc) == thr[t].pc = pc
Go(t, pc, job) == thr' = [thr EXCEPT ![t] = [pc |-> pc, job |-> job]]
Idle(t) == Go(t, "idle", NoJob)

\* handlePeerList holds the lock for its whole loop; nobody else may enter.
LockFree == thr[Control].pc # "list"
-----------------------------------------------------------------------------
(* The control worker: handlePeerList *)

ListBegin ==
  /\ At(Control, "idle")
  /\ Go(Control, "list", NoJob)
  /\ UNCHANGED <<tab, punching, promoQ, stale, wg, route, learned>>

\* One entry.  A recycled ID does not replace an active peer; a failed peer
\* seen at a new address (`moved') is tried again.  An entry without a key is
\* taken like any other: whoever has the ID loses its key, active or not.
MergeEntry(t, id, k, moved) ==
  LET u == Renumber(t, k, id)
      p == u.peers[id]
      state == IF p.state = "None" \/ (p.state = "Failed" /\ moved)
               THEN "Discovered" ELSE p.state
  IN [u EXCEPT !.peers[id] = [key |-> k, state |-> state, capable |-> k \in Capable],
               !.keyIndex = IF k = NoKey THEN u.keyIndex ELSE [u.keyIndex EXCEPT ![k] = id]]

\* Mutant: a recycled ID replaces whatever it meets.
NeverRecycled(t, id, k) == FALSE

Recycled(t, id, k) == Active(t, id) /\ t.peers[id].key \notin {NoKey, k} /\ k # NoKey

ListEntry(id, k) ==
  /\ At(Control, "list")
  /\ tab' \in IF Recycled(tab, id, k) THEN {tab}
              ELSE {MergeEntry(tab, id, k, moved) : moved \in BOOLEAN}
  /\ UNCHANGED <<thr, punching, promoQ, stale, wg, route, learned>>

ListEnd ==
  /\ At(Control, "list")
  /\ tab' \in Rebuild(tab)
  /\ Idle(Control)
  /\ UNCHANGED <<punching, promoQ, stale, wg, route, learned>>
-----------------------------------------------------------------------------
(* The control worker: handlePunchRelay *)

\* The entry the relay is about, before its key is checked.
RelayTable(id, k) ==
  LET own == tab.peers[id].key \in {NoKey, k}
      t == IF k # NoKey /\ own THEN Renumber(tab, k, id) ELSE tab
  IN IF Known(t, id) THEN t
     ELSE [t EXCEPT !.peers[id] = [key |-> NoKey, state |-> "Discovered", capable |-> TRUE]]

\* The key the entry has once an unknown one has been learned.
RelayKey(p, k) == IF p.key = NoKey THEN k ELSE p.key

\* A relay for an established peer counts when it names the entry's key or none.
Heard(p, k) == p.state = "Established" => k \in {NoKey, p.key}

\* A relay for an established peer, in its grace or under another key.
RelayIgnored(id, k) ==
  /\ At(Control, "idle")
  /\ RelayTable(id, k).peers[id].state = "Established"
  /\ tab' = RelayTable(id, k)
  /\ UNCHANGED <<thr, punching, promoQ, stale, wg, route, learned>>

\* The relay names another key than the entry, none at all, or the coordinator.
RelayRefused(id, k) ==
  LET t == RelayTable(id, k)
      p == t.peers[id]
      key == RelayKey(p, k)
  IN /\ At(Control, "idle") /\ Heard(p, k)
     /\ k \notin {NoKey, key} \/ key \in {NoKey, ServerKey}
     /\ tab' \in Rebuild(Fails([t EXCEPT !.peers[id].key = key], id))
     /\ UNCHANGED <<thr, punching, promoQ, stale, wg, route, learned>>

\* Mutant: the coordinator's own key is not refused.
RelayAcceptedAny(id, k) ==
  LET p == RelayTable(id, k).peers[id]
  IN /\ At(Control, "idle") /\ Heard(p, k)
     /\ k \in {NoKey, RelayKey(p, k)} /\ RelayKey(p, k) # NoKey

RelayAccepted(id, k) ==
  LET p == RelayTable(id, k).peers[id]
  IN /\ At(Control, "idle") /\ Heard(p, k)
     /\ k \in {NoKey, RelayKey(p, k)}
     /\ RelayKey(p, k) \notin {NoKey, ServerKey}

\* A second relay inside p2pNonceGrace: the running session also accepts its
\* nonce.  An entry without a key has just learned it, and this return leaves
\* the indexes as they were.
RelayJoins(id, k, n) ==
  LET t == RelayTable(id, k)
      p == t.peers[id]
      s == t.sessions[id]
      evicted == t.sess[s].alt
      u == [t EXCEPT !.peers[id].key = RelayKey(p, k)]
  IN /\ RelayAccepted(id, k)
     /\ p.state # "Established"
     /\ s # NoSession
     /\ t.sess[s].key = RelayKey(p, k)
     /\ tab' = IF n \in {t.sess[s].nonce, t.sess[s].alt} THEN u
               ELSE [u EXCEPT !.sess[s].alt = n,
                       !.byNonce = [m \in Nonces |-> IF m = n THEN s
                                                     ELSE IF m = evicted THEN NoSession
                                                     ELSE t.byNonce[m]]]
     /\ learned' = IF p.key = NoKey THEN learned \cup {k} ELSE learned
     /\ UNCHANGED <<thr, punching, promoQ, stale, wg, route>>

\* A new attempt: a new session replaces the current one.  An established
\* peer past its grace lost the direct path and is torn down first.
RelayStarts(id, k, n) ==
  LET t == RelayTable(id, k)
      key == RelayKey(t.peers[id], k)
      s == tab.created + 1
      fresh == [target |-> id, key |-> key, nonce |-> n, alt |-> NoNonce,
                promoting |-> FALSE, done |-> FALSE]
      u == DiscardSessions([t EXCEPT !.peers[id].key = key,
                                     !.peers[id].state = "Trying"], {id})
  IN /\ RelayAccepted(id, k)
     /\ tab.created < MaxSessions
     /\ tab' \in Rebuild([u EXCEPT !.sess[s] = fresh, !.created = s,
                                   !.sessions[id] = s, !.byNonce[n] = s])
     /\ Go(Control, IF t.peers[id].state = "Established" THEN "teardown" ELSE "schedule",
           [id |-> id, sess |-> s, key |-> key])
     /\ UNCHANGED <<punching, promoQ, stale, wg, route, learned>>

\* The punch job is queued, or (no target, queue full) the session fails.
Schedule ==
  LET s == thr[Control].job.sess
  IN /\ At(Control, "schedule")
     /\ \/ punching' = punching \cup {s} /\ tab' = tab
        \/ punching' = punching /\ tab' \in FailPunch(tab, s)
     /\ Idle(Control)
     /\ UNCHANGED <<promoQ, stale, wg, route, learned>>
-----------------------------------------------------------------------------
(* The control worker: HandlePunch *)

\* Mutant: an authenticated punch counts as an established path.
HandlePunchEstablishes(n) ==
  LET s == tab.byNonce[n]
      id == tab.sess[s].target
  IN /\ At(Control, "idle")
     /\ s # NoSession
     /\ tab' \in Rebuild(DiscardSessions([tab EXCEPT !.peers[id].state = "Established"], {id}))
     /\ UNCHANGED <<thr, punching, promoQ, stale, wg, route, learned>>

\* An authenticated punch: the first one of a session starts its promotion.
\* The job is for the key the entry has now.
HandlePunch(n) ==
  LET s == tab.byNonce[n]
      id == tab.sess[s].target
  IN /\ At(Control, "idle")
     /\ s # NoSession
     /\ tab.sessions[id] = s /\ n \in {tab.sess[s].nonce, tab.sess[s].alt}
     /\ Known(tab, id) /\ tab.peers[id].state # "Established"
     /\ ~tab.sess[s].promoting
     /\ tab' = [tab EXCEPT !.sess[s].promoting = TRUE]
     /\ Go(Control, "prepare", [id |-> id, sess |-> s, key |-> tab.peers[id].key])
     /\ UNCHANGED <<punching, promoQ, stale, wg, route, learned>>

\* prepareDirectPeer configures the candidate without a route, then the job is
\* queued; a configuration error or a full queue fails the promotion.
Prepare ==
  LET job == thr[Control].job
  IN /\ At(Control, "prepare")
     /\ \/ /\ job.key # NoKey /\ job.key # ServerKey
           /\ wg' = [wg EXCEPT ![job.key].up = TRUE]
           /\ route' = [route EXCEPT ![job.key] = "relay"]
           /\ \/ /\ Cardinality(promoQ) < QueueSize
                 /\ promoQ' = promoQ \cup {job}
                 /\ Idle(Control)
              \/ /\ Cardinality(promoQ) = QueueSize
                 /\ promoQ' = promoQ
                 /\ Go(Control, "fail", job)
        \/ /\ Go(Control, "fail", job)
           /\ UNCHANGED <<wg, route, promoQ>>
     /\ UNCHANGED <<tab, punching, stale, learned>>
-----------------------------------------------------------------------------
(* tryP2PByID: the attempt worker, and any caller of TryP2P *)

TryP2P(id) ==
  LET p == tab.peers[id]
  IN /\ LockFree
     /\ p.state \in {"Discovered", "Failed"}   \* Failed: its retry delay is over
     /\ p.capable /\ p.key \notin {NoKey, ServerKey}
     /\ tab' \in Rebuild([tab EXCEPT !.peers[id].state = "Trying"])
     /\ UNCHANGED <<thr, punching, promoQ, stale, wg, route, learned>>
-----------------------------------------------------------------------------
(* holePunch: the loop ends on done, on its deadline, or (promoting) on the  *)
(* extended deadline.                                                        *)

PunchEnds(s) ==
  /\ s \in punching
  /\ tab.sess[s].done \/ LockFree
  /\ punching' = punching \ {s}
  /\ tab' \in IF tab.sess[s].done \/ tab.sess[s].promoting THEN {tab} ELSE FailPunch(tab, s)
  /\ UNCHANGED <<thr, promoQ, stale, wg, route, learned>>
-----------------------------------------------------------------------------
(* validateAndPromote *)

TakeJob(w) ==
  /\ At(w, "idle")
  /\ \E job \in promoQ :
       /\ promoQ' = promoQ \ {job}
       /\ Go(w, "validate", job)
  /\ UNCHANGED <<tab, punching, stale, wg, route, learned>>

Current(job) ==
  /\ tab.peers[job.id].state = "Trying"
  /\ tab.sessions[job.id] = job.sess

\* A poll that finds a handshake newer than the job, and the first check.
Validated(w) ==
  LET job == thr[w].job
  IN /\ At(w, "validate") /\ LockFree
     /\ wg[job.key].up /\ job.sess \in wg[job.key].fresh
     /\ Go(w, IF Current(job) THEN "activate" ELSE "orphan", job)
     /\ UNCHANGED <<tab, punching, promoQ, stale, wg, route, learned>>

\* p2pHandshakeTimeout.
ValidationTimeout(w) ==
  /\ At(w, "validate")
  /\ Go(w, "fail", thr[w].job)
  /\ UNCHANGED <<tab, punching, promoQ, stale, wg, route, learned>>

\* activateDirectPeer: IpcSet creates the peer when it is not configured.
Activate(w) ==
  LET job == thr[w].job
  IN /\ At(w, "activate")
     /\ \/ /\ wg' = [wg EXCEPT ![job.key].up = TRUE]
           /\ route' = [route EXCEPT ![job.key] = "direct"]
           /\ Go(w, "commit", job)
        \/ /\ Go(w, "fail", job)
           /\ UNCHANGED <<wg, route>>
     /\ UNCHANGED <<tab, punching, promoQ, stale, learned>>

\* The second check, with the write lock.
Commit(w) ==
  LET job == thr[w].job
      done == [tab EXCEPT !.sess[job.sess].done = TRUE]
  IN /\ At(w, "commit") /\ LockFree
     /\ IF Current(job)
        THEN /\ tab' \in Rebuild(DiscardSessions(
                           [tab EXCEPT !.peers[job.id].state = "Established"], {job.id}))
             /\ Idle(w)
        ELSE /\ tab' = done
             /\ Go(w, "remove", job)
     /\ UNCHANGED <<punching, promoQ, stale, wg, route, learned>>
-----------------------------------------------------------------------------
(* failDirectPromotion, dropOrphanCandidate and teardownDirect, run by       *)
(* whichever thread gave up a candidate or a direct path                     *)

FailDirectPromotion(t) ==
  LET job == thr[t].job
      mine == /\ Known(tab, job.id) /\ tab.sessions[job.id] = job.sess
              /\ tab.peers[job.id].state # "Established"
  IN /\ At(t, "fail") /\ LockFree
     /\ tab' \in IF mine
                 THEN Rebuild(DiscardSessions(Fails(tab, job.id), {job.id}))
                 ELSE {[tab EXCEPT !.sess[job.sess].done = TRUE]}
     /\ IF job.key = NoKey THEN Idle(t)
        ELSE Go(t, IF mine THEN "remove" ELSE "orphan", job)
     /\ UNCHANGED <<punching, promoQ, stale, wg, route, learned>>

Owned(job) ==
  LET other == tab.keyIndex[job.key]
  IN \/ tab.sessions[job.id] # NoSession \/ tab.peers[job.id].state = "Established"
     \/ /\ other \notin {NoID, job.id}
        /\ tab.sessions[other] # NoSession \/ tab.peers[other].state = "Established"

DropOrphanCandidate(t) ==
  /\ At(t, "orphan") /\ LockFree
  /\ IF Owned(thr[t].job) THEN Idle(t) ELSE Go(t, "remove", thr[t].job)
  /\ UNCHANGED <<tab, punching, promoQ, stale, wg, route, learned>>

\* RemovePeer: the peer and its routes go.
Remove(t) ==
  /\ thr[t].pc \in {"remove", "teardown"}
  /\ wg' = [wg EXCEPT ![thr[t].job.key] = NoWGPeer]
  /\ route' = [route EXCEPT ![thr[t].job.key] = "relay"]
  /\ Go(t, IF At(t, "remove") THEN "restore" ELSE "reroute", thr[t].job)
  /\ UNCHANGED <<tab, punching, promoQ, stale, learned>>

\* restoreRelayRoute: the relay takes the /32, whoever has it now.
Restore(t) ==
  /\ thr[t].pc \in {"restore", "reroute"}
  /\ route' = [route EXCEPT ![thr[t].job.key] = "relay"]
  /\ IF At(t, "restore") THEN Idle(t) ELSE Go(t, "schedule", thr[t].job)
  /\ UNCHANGED <<tab, punching, promoQ, stale, wg, learned>>
-----------------------------------------------------------------------------
(* maintenanceLoop *)

\* Mutants: stalled attempts keep their session; forgotten peers are torn down
\* like direct paths.
PassKeepsSessions(forgotten, stalled, dead) ==
  /\ tab' \in Rebuild([tab EXCEPT !.peers = [id \in IDs |->
              IF id \in forgotten THEN NoPeer
              ELSE IF id \in stalled \cup dead THEN [tab.peers[id] EXCEPT !.state = "Failed"]
              ELSE tab.peers[id]]])
  /\ stale' = {tab.peers[id].key : id \in dead} \ {NoKey}

\* One pass over the table: forget unlisted peers, fail stalled attempts,
\* give up direct paths whose handshake is missing or old.  Without a key there
\* is no teardown (teardownDirect).
Pass(forgotten, stalled, dead) ==
  LET fail == stalled \cup dead
      t == DiscardSessions(tab, forgotten \cup stalled)
      u == [t EXCEPT !.peers = [id \in IDs |->
              IF id \in forgotten THEN NoPeer
              ELSE IF id \in fail THEN [t.peers[id] EXCEPT !.state = "Failed"]
              ELSE t.peers[id]]]
  IN /\ tab' \in IF forgotten \cup fail = {} THEN {tab} ELSE Rebuild(u)
     /\ stale' = {tab.peers[id].key : id \in dead} \ {NoKey}

\* Mutant: a missing WireGuard peer is not taken for a stale path.
NeverLost(id) == FALSE

\* The handshake of the entry's WireGuard peer is missing.  Without a key there
\* is no peer; under the coordinator's key LookupPeer finds the coordinator.
Lost(id) ==
  LET k == tab.peers[id].key
  IN k # ServerKey /\ (k # NoKey => ~wg[k].up \/ ~wg[k].shook)

MaintenancePass ==
  /\ At(Maintenance, "idle") /\ stale = {} /\ LockFree
  /\ \E forgotten \in SUBSET {id \in IDs : Known(tab, id) /\ ~Active(tab, id)},
        stalled \in SUBSET {id \in IDs : tab.peers[id].state = "Trying"},
        dead \in SUBSET {id \in IDs : tab.peers[id].state = "Established"} :
       /\ \A id \in IDs : tab.peers[id].state = "Established" /\ Lost(id) => id \in dead
       /\ Pass(forgotten, stalled, dead)
  /\ UNCHANGED <<thr, punching, promoQ, wg, route, learned>>

\* What the next pass must act on.
PathLost == \E id \in IDs : tab.peers[id].state = "Established" /\ Lost(id)

MaintenanceTeardown ==
  /\ At(Maintenance, "idle")
  /\ \E k \in stale :
       /\ stale' = stale \ {k}
       /\ Go(Maintenance, "remove", [NoJob EXCEPT !.key = k])
  /\ UNCHANGED <<tab, punching, promoQ, wg, route, learned>>
-----------------------------------------------------------------------------
\* The sessions whose promotion has started and is not validated yet.
Awaiting ==
  {s \in Sess : \/ \E job \in promoQ : job.sess = s
                \/ \E t \in Threads : /\ thr[t].pc \in {"prepare", "validate"}
                                       /\ thr[t].job.sess = s}

\* WireGuard completes a handshake with a configured peer.
Handshake(k) ==
  /\ wg[k].up
  /\ wg' = [wg EXCEPT ![k].shook = TRUE, ![k].fresh = Awaiting]
  /\ wg' # wg
  /\ UNCHANGED <<tab, thr, punching, promoQ, stale, route, learned>>
-----------------------------------------------------------------------------
HandleMessage ==
  \/ ListBegin
  \/ \E r \in Lists : ListEntry(r[1], r[2])
  \/ ListEnd
  \/ \E r \in Relays : RelayIgnored(r[1], r[2]) \/ RelayRefused(r[1], r[2])
  \/ \E r \in Relays, n \in Nonces : RelayJoins(r[1], r[2], n) \/ RelayStarts(r[1], r[2], n)
  \/ Schedule

Promotion(w) ==
  TakeJob(w) \/ Validated(w) \/ ValidationTimeout(w) \/ Activate(w) \/ Commit(w)

Cleanup(t) ==
  FailDirectPromotion(t) \/ DropOrphanCandidate(t) \/ Remove(t) \/ Restore(t)

Next ==
  \/ HandleMessage
  \/ \E n \in Nonces : HandlePunch(n)
  \/ Prepare
  \/ \E id \in IDs : TryP2P(id)
  \/ \E s \in Sess : PunchEnds(s)
  \/ \E w \in Workers : Promotion(w)
  \/ \E t \in Threads : Cleanup(t)
  \/ MaintenancePass \/ MaintenanceTeardown
  \/ \E k \in Keys : Handshake(k)

Spec == Init /\ [][Next]_vars

(* Fairness.  Every loop of a running thread goes on: a goroutine that can    *)
(* take its next step does (weak fairness), and one that waits for the lock   *)
(* gets it although others come and go (strong fairness: sync.RWMutex does    *)
(* not starve a waiter).  A punch loop has a deadline, a validation has a     *)
(* timeout, and the maintenance ticker finds a lost path; a pass that has     *)
(* nothing to act on is not asked for anything.  Nothing is assumed of the    *)
(* coordinator, of the peers, or of handshakes.                               *)
Fairness ==
  /\ WF_vars(ListEnd) /\ WF_vars(Schedule) /\ WF_vars(Prepare)
  /\ \A s \in Sess : SF_vars(PunchEnds(s))
  /\ \A w \in Workers : SF_vars(Promotion(w))
  /\ \A t \in Threads : SF_vars(Cleanup(t))
  /\ SF_vars(PathLost /\ MaintenancePass) /\ WF_vars(MaintenanceTeardown)

FairSpec == Spec /\ Fairness
-----------------------------------------------------------------------------
(* Types of the table, the threads, the queues and the WireGuard device. *)
TypeOK ==
  /\ tab \in Table
  /\ thr \in [Threads -> [pc : PC, job : Job]]
  /\ punching \subseteq Sess
  /\ promoQ \subseteq Job
  /\ stale \subseteq Keys
  /\ wg \in [Keys -> WGPeer]
  /\ route \in [Keys -> {"relay", "direct"}]
  /\ learned \subseteq Keys

(* No two entries describe the same device: after any sequence of peer lists, *)
(* relays and renumberings a key has at most one ID (renumberPeerLocked).     *)
(* Excepted is a key that an entry learned from a relay joining a running     *)
(* attempt: that section returns without rebuildIndexesLocked, and a list     *)
(* naming the key before the next rebuild does not find the entry.            *)
OneEntryPerKey ==
  \A i, j \in IDs : tab.peers[i].key = tab.peers[j].key
                     /\ tab.peers[i].key \notin learned \cup {NoKey} => i = j

(* A session is in the table only under the ID it was created for and never  *)
(* beside an established path; a nonce leads only to a session that is        *)
(* current and accepts it (HandlePunch authenticates by these maps).          *)
SessionsIndexed ==
  /\ \A id \in IDs : tab.sessions[id] # NoSession =>
       /\ tab.sess[tab.sessions[id]].target = id
       /\ tab.peers[id].state \notin {"None", "Established"}
  /\ \A n \in Nonces : tab.byNonce[n] # NoSession =>
       LET s == tab.byNonce[n]
       IN tab.sessions[tab.sess[s].target] = s /\ n \in {tab.sess[s].nonce, tab.sess[s].alt}

(* A session in the table is a live attempt: its peer is being tried under    *)
(* the session's key and nothing has stopped its punch loop.  It holds while  *)
(* the coordinator keeps its IDs.                                             *)
SessionIsAttempt ==
  \A id \in IDs : tab.sessions[id] # NoSession =>
    LET s == tab.sess[tab.sessions[id]]
    IN ~s.done /\ tab.peers[id].state = "Trying" /\ tab.peers[id].key = s.key

\* The promotions of session s that have started and not ended.
Promoted(s) ==
  \/ \E job \in promoQ : job.sess = s
  \/ \E t \in Threads : thr[t].job.sess = s

(* "Validation always ends (and stops this loop)": once nobody validates a    *)
(* promoting session any more, its punch loop has been told to stop.          *)
ValidationStopsLoop ==
  \A s \in Sess : tab.sess[s].promoting /\ ~Promoted(s) => tab.sess[s].done

(* The coordinator's own key is never negotiated with, whatever ID carries it  *)
(* and however that ID came to carry it: no session is for it, no promotion of *)
(* it is queued, it is never configured as a direct peer, its route stays with *)
(* the relay and the packet path never offers it (tryP2PByID, handlePunchRelay,*)
(* prepareDirectPeer and rebuildIndexesLocked refuse it, each on its own).     *)
CoordinatorNeverDirect ==
  /\ \A s \in Sess : tab.created >= s => tab.sess[s].key # ServerKey
  /\ \A job \in promoQ : job.key # ServerKey
  /\ \A k \in Keys : k = ServerKey =>
       ~wg[k].up /\ route[k] = "relay" /\ tab.destinations[k] = NoID

\* The indexes say of key k what a rebuild would.
Exact(t, k) == t.keyIndex[k] \in Pick(Entry(t, k)) /\ t.destinations[k] \in Pick(Offered(t, k))

(* Whenever the lock is free the published indexes agree with the peers: the *)
(* key index is exact, and the packet path sees a destination exactly for    *)
(* idle capable peers (rebuildIndexesLocked ran in every section that needs  *)
(* it).  Excepted are the keys learned by a joining relay (OneEntryPerKey).  *)
IndexesFresh ==
  LockFree => \A k \in Keys \ learned : Exact(tab, k)

(* An attempt or a direct path is lost from the table in one way only:        *)
(* whatever the coordinator recycles or renumbers, a device that was being    *)
(* tried or was established keeps an entry (handlePeerList,                   *)
(* renumberPeerLocked, forgetUnlistedPeersLocked), unless a peer list names   *)
(* its ID without a key; its entry then goes on in the same state, keyless.   *)
ActiveNeverLost ==
  [][\A id \in IDs : Active(tab, id) /\ tab.peers[id].key # NoKey
       => \/ Entry(tab', tab.peers[id].key) # {}
          \/ /\ At(Control, "list")
             /\ tab'.peers[id] = [key |-> NoKey, state |-> tab.peers[id].state,
                                  capable |-> NoKey \in Capable]]_vars

(* Not so in the code: "Do not let a recycled ID silently replace an active   *)
(* authenticated session".  A listed zero key passes that check and the entry *)
(* loses its key while it is tried or established; the next list may give it  *)
(* any other key, the coordinator's included.                                 *)
ActiveKeepsKey ==
  [][\A id \in IDs : Active(tab, id) /\ Active(tab', id) /\ tab.peers[id].key # NoKey
       => tab'.peers[id].key # NoKey]_vars

(* Not so in the code: a relay that joins a running attempt and teaches the   *)
(* entry its key leaves the key out of the indexes, and the device may then   *)
(* get a second entry.                                                        *)
JoinsIndexed ==
  LockFree => \A k \in Keys : Exact(tab, k) /\ Cardinality(Entry(tab, k)) <= 1

(* Not so in the code: a promotion or a direct path whose entry was given the *)
(* coordinator's key ends in RemovePeer of that key, the relay's own peer.    *)
ServerPeerKept ==
  \A t \in Threads : thr[t].pc \in {"teardown", "remove"} => thr[t].job.key # ServerKey

(* Only the handshake of a path's own key establishes it: an entry that turns *)
(* Established is the entry of the key whose route has just been activated.   *)
EstablishedIsActivated ==
  [][\A id \in IDs :
       tab.peers[id].state # "Established" /\ tab'.peers[id].state = "Established"
         /\ Entry(tab, tab'.peers[id].key) \subseteq {id}
       => \E w \in Workers : At(w, "commit") /\ thr[w].job.key = tab'.peers[id].key]_vars

(* The WireGuard peer of an established path is not removed under it: "an     *)
(* older goroutine must not clobber a newer successful attempt".              *)
PathNotClobbered ==
  [][\A id \in IDs :
       LET k == tab.peers[id].key
       IN tab.peers[id].state = "Established" /\ k # NoKey /\ wg[k].up => wg'[k].up]_vars

(* "Relay routing remains active until promotionWorker observes a fresh       *)
(* authenticated WireGuard handshake": no /32 route on a WireGuard peer that  *)
(* has not shaken hands since it was configured.                              *)
RouteNeedsHandshake == \A k \in Keys : route[k] = "direct" => wg[k].shook

\* Somebody still works on key k: a thread, a queued promotion, a teardown, or
\* an attempt whose punch loop has not ended.
Busy(k) ==
  \/ \E t \in Threads : thr[t].job.key = k
  \/ \E job \in promoQ : job.key = k
  \/ k \in stale
  \/ \E s \in punching : tab.sess[s].key = k

(* A WireGuard candidate nobody works on belongs to an established path: "left *)
(* behind, it keeps sending handshakes to an endpoint that may be gone ... for *)
(* as long as the daemon runs".                                               *)
NoOrphanCandidate ==
  \A k \in Keys : wg[k].up /\ ~Busy(k) =>
    \E id \in IDs : tab.peers[id].key = k /\ tab.peers[id].state \in {"Trying", "Established"}

(* Every attempt ends: a session that was created is eventually stopped, by   *)
(* its punch deadline, by its promotion, or by a newer session.               *)
SessionsEnd == \A s \in Sess : (tab.created >= s) ~> tab.sess[s].done

\* The device has no WireGuard peer for entry id; under the coordinator's key it
\* has the coordinator's.
Peerless(id) ==
  LET k == tab.peers[id].key IN k # ServerKey /\ (k # NoKey => ~wg[k].up)

(* What a late teardown broke is repaired: an established entry whose         *)
(* WireGuard peer is gone does not stay so (maintenanceLoop treats a missing  *)
(* peer as stale), and a route handed to a peer that never shook hands does   *)
(* not stay there (the peer shakes hands or the relay gets the route back).   *)
PathRepaired ==
  /\ \A id \in IDs :
       (tab.peers[id].state = "Established" /\ Peerless(id))
         ~> (tab.peers[id].state # "Established" \/ ~Peerless(id))
  /\ \A k \in Keys : (route[k] = "direct" /\ ~wg[k].shook)
                      ~> (route[k] = "relay" \/ wg[k].shook)
=============================================================================

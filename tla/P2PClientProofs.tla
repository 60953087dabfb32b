-------------------------- MODULE P2PClientProofs --------------------------
(***************************************************************************)
(* Theorems about P2PClient, for every set of IDs, keys, nonces, workers   *)
(* and every bound.                                                        *)
(*                                                                         *)
(* The inductive invariant is a predicate of the table, so that each       *)
(* operation on the table is dealt with once, in a lemma, whichever        *)
(* actions use it.  OneEntryPerKey is not inductive: renumberPeerLocked    *)
(* finds the entry to move through the key index, so the invariant says    *)
(* that the index never misses an entry.  SessionsIndexed needs, besides,  *)
(* that a session number in the maps was handed out before, so that a new  *)
(* session cannot be confused with an old one.                             *)
(*                                                                         *)
(* Whatever the coordinator does, also: the published indexes are fresh    *)
(* whenever the lock is free (IndexesAgree), and a device that is tried or *)
(* established loses its entry only to a peer list that names its ID       *)
(* without a key (ActiveKept).  Such an entry may get its key back from a  *)
(* relay that joins the attempt, in a section that leaves the indexes      *)
(* alone; the history variable `learned' has those keys, and the table     *)
(* facts about indexes and entries are for the others (Plain).  The        *)
(* coordinator's key needs no exception: an entry may carry it, even while *)
(* it is tried, but every section that negotiates refuses it.              *)
(*                                                                         *)
(* While the coordinator keeps its IDs and lists a key with each of them   *)
(* (StableIDs, a condition on the pairs it may send, which the instances   *)
(* Stable and StableLists of MCP2PClient meet): a session is a live        *)
(* attempt, a validation ends by stopping its punch loop, and a path is    *)
(* established for the key that was activated.  None of the three survives *)
(* recycled IDs or keyless lists: TLC refutes each, so the code does rely  *)
(* on the hypothesis.                                                      *)
(*                                                                         *)
(* These three are proved together.  The inductive invariant Steady says   *)
(* of the sessions that one in the map is live (Live) and one out of the   *)
(* map has been stopped (Ended); of the jobs, which carry an ID, a session *)
(* and a key read in an earlier section, that the three still belong       *)
(* together (JobsSteady): that is what a validation that finds its session *)
(* replaced relies on when it stops a loop that somebody else must         *)
(* already have stopped.  Queued adds that a punch loop runs for a session *)
(* that was created.                                                       *)
(***************************************************************************)
EXTENDS P2PClient, TLAPS

\* The keys that no joining relay taught an entry.
Plain(k) == k \notin learned \cup {NoKey}

NoEntryTwice(t) ==
  \A i, j \in IDs : t.peers[i].key = t.peers[j].key /\ Plain(t.peers[i].key) => i = j

\* The key index leads from the plain key of every entry to that entry.
KeysIndexed(t) ==
  \A id \in IDs : Plain(t.peers[id].key) => t.keyIndex[t.peers[id].key] = id

\* An ID that is not in the map has no key.
EntriesKeyed(t) ==
  \A id \in IDs : t.peers[id].state = "None" => t.peers[id].key = NoKey

\* The session maps agree with the sessions and hold no future session; a
\* session has a key, and not the coordinator's.
MapsAgree(t) ==
  /\ \A id \in IDs : t.sessions[id] # NoSession =>
       t.sess[t.sessions[id]].target = id /\ t.sessions[id] <= t.created
  /\ \A n \in Nonces : t.byNonce[n] # NoSession =>
       /\ t.sessions[t.sess[t.byNonce[n]].target] = t.byNonce[n]
       /\ t.sess[t.byNonce[n]].target \in IDs
       /\ t.byNonce[n] <= t.created
       /\ n \in {t.sess[t.byNonce[n]].nonce, t.sess[t.byNonce[n]].alt}
  /\ \A s \in Sess : s <= t.created => t.sess[s].key \notin {NoKey, ServerKey}

\* Outside `ids' a session belongs to an entry that is not established.
SessionsPending(t, ids) ==
  \A id \in IDs \ ids : t.sessions[id] # NoSession => t.peers[id].state \notin {"None", "Established"}

ServerHidden(t) == ServerKey \in Keys => t.destinations[ServerKey] = NoID

TableInv(t) ==
  /\ t \in Table
  /\ KeysIndexed(t)
  /\ EntriesKeyed(t)
  /\ MapsAgree(t)
  /\ SessionsPending(t, {})
  /\ ServerHidden(t)

\* A promotion is never for the coordinator's key; a relay schedules a session.
JobOK(th) ==
  /\ th.pc \in {"validate", "activate"} => th.job.key # ServerKey
  /\ th.pc \in {"teardown", "reroute", "schedule"} => th.job.sess \in Sess

JobsKeyed ==
  /\ \A job \in promoQ : job.key # ServerKey
  /\ \A w \in Threads : JobOK(thr[w])
  /\ ServerKey \in Keys => ~wg[ServerKey].up /\ route[ServerKey] = "relay"

IInv ==
  /\ TypeOK
  /\ TableInv(tab)
  /\ JobsKeyed
-----------------------------------------------------------------------------
(* The table operations *)

(* An index that misses no entry leaves no key with two entries. *)
LEMMA IndexedUnique ==
  ASSUME NEW t, t \in Table, KeysIndexed(t)
  PROVE  NoEntryTwice(t)
  BY DEF KeysIndexed, NoEntryTwice

(* discardSessionLocked changes the session maps alone and leaves none of the *)
(* discarded sessions in them.                                                *)
LEMMA DiscardTable ==
  ASSUME NEW t, t \in Table, NEW ids, MapsAgree(t)
  PROVE  LET u == DiscardSessions(t, ids)
         IN /\ u \in Table
            /\ u.peers = t.peers /\ u.keyIndex = t.keyIndex
            /\ u.destinations = t.destinations /\ u.created = t.created
            /\ \A s \in Sess : /\ u.sess[s].target = t.sess[s].target
                               /\ u.sess[s].nonce = t.sess[s].nonce
                               /\ u.sess[s].alt = t.sess[s].alt
                               /\ u.sess[s].key = t.sess[s].key
            /\ \A id \in IDs : u.sessions[id] = IF id \in ids THEN NoSession ELSE t.sessions[id]
            /\ MapsAgree(u)
<1> DEFINE u == DiscardSessions(t, ids)
<1> DEFINE gone == {t.sessions[id] : id \in ids}
           sess == [s \in Sess |-> [t.sess[s] EXCEPT !.done = @ \/ s \in gone]]
           sessions == [id \in IDs |-> IF id \in ids THEN NoSession ELSE t.sessions[id]]
           byNonce == [n \in Nonces |-> IF t.byNonce[n] \in gone THEN NoSession ELSE t.byNonce[n]]
<1>1. u \in Table
  <2>1. \A s \in Sess : t.sess[s] \in Session
    BY DEF Table
  <2>2. ASSUME NEW s \in Sess
        PROVE  [t.sess[s] EXCEPT !.done = @ \/ s \in gone] \in Session
    <3>1. \A b \in BOOLEAN : [t.sess[s] EXCEPT !.done = b] \in Session
      BY <2>1 DEF Session
    <3>2. (t.sess[s].done \/ s \in gone) \in BOOLEAN
      BY Zenon
    <3> HIDE DEF gone
    <3> QED  BY <3>1, <3>2
  <2>3. sess \in [Sess -> Session]
    BY <2>2
  <2>4. sessions \in [IDs -> Sess \cup {NoSession}] /\ byNonce \in [Nonces -> Sess \cup {NoSession}]
    BY DEF Table
  <2>5. u = [t EXCEPT !.sessions = sessions, !.byNonce = byNonce, !.sess = sess]
    BY DEF DiscardSessions
  <2> HIDE DEF sess, sessions, byNonce, u
  <2> QED  BY <2>3, <2>4, <2>5 DEF Table
<1>2. /\ u.peers = t.peers /\ u.keyIndex = t.keyIndex
      /\ u.destinations = t.destinations /\ u.created = t.created
      /\ \A s \in Sess : /\ u.sess[s].target = t.sess[s].target
                         /\ u.sess[s].nonce = t.sess[s].nonce
                         /\ u.sess[s].alt = t.sess[s].alt
                         /\ u.sess[s].key = t.sess[s].key
      /\ \A id \in IDs : u.sessions[id] = IF id \in ids THEN NoSession ELSE t.sessions[id]
  BY DEF DiscardSessions, Table, Session
<1>3. \A n \in Nonces : u.byNonce[n] # NoSession =>
        u.byNonce[n] = t.byNonce[n] /\ \A id \in ids : t.sessions[id] # t.byNonce[n]
  BY DEF DiscardSessions, Table
<1>4. MapsAgree(u)
  <2>1. \A id \in IDs : t.sessions[id] \in Sess \cup {NoSession}
    BY DEF Table
  <2>2. \A n \in Nonces : t.byNonce[n] \in Sess \cup {NoSession}
    BY DEF Table
  <2> QED  BY <1>2, <1>3, <2>1, <2>2 DEF MapsAgree
<1> QED  BY <1>1, <1>2, <1>4

(* What rebuildIndexesLocked changes, and what the indexes are afterwards. *)
LEMMA RebuildFacts ==
  ASSUME ClientAssumption, NEW t, t \in Table, NEW u \in Rebuild(t)
  PROVE  /\ u \in Table
         /\ u.peers = t.peers /\ u.sessions = t.sessions /\ u.sess = t.sess
         /\ u.byNonce = t.byNonce /\ u.created = t.created
         /\ \A k \in Keys : Exact(u, k)
<1> DEFINE X == Indexes([k \in Keys |-> Entry(t, k)])
           D == Indexes([k \in Keys |-> Offered(t, k)])
<1>0. u \in UNION {{[t EXCEPT !.keyIndex = x, !.destinations = d] : x \in X} : d \in D}
  BY DEF Rebuild
<1> HIDE DEF X, D
<1>8. PICK d \in D : u \in {[t EXCEPT !.keyIndex = x, !.destinations = d] : x \in X}
  BY <1>0, Zenon
<1>1. PICK x \in X : u = [t EXCEPT !.keyIndex = x, !.destinations = d]
  BY <1>8, Zenon
<1> USE DEF X, D
<1>2. ASSUME NEW held, NEW y \in Indexes(held), \A k \in Keys : held[k] \subseteq IDs
      PROVE  y \in [Keys -> IDs \cup {NoID}] /\ \A k \in Keys : y[k] \in Pick(held[k])
  BY <1>2 DEF Indexes, Pick
<1>3. \A k \in Keys : Entry(t, k) \subseteq IDs /\ Offered(t, k) \subseteq IDs
  BY DEF Entry, Offered
<1>4. x \in [Keys -> IDs \cup {NoID}] /\ \A k \in Keys : x[k] \in Pick(Entry(t, k))
  BY <1>2, <1>3
<1>5. d \in [Keys -> IDs \cup {NoID}] /\ \A k \in Keys : d[k] \in Pick(Offered(t, k))
  BY <1>2, <1>3
<1>6. /\ u \in Table /\ u.keyIndex = x /\ u.destinations = d
      /\ u.peers = t.peers /\ u.sessions = t.sessions /\ u.sess = t.sess
      /\ u.byNonce = t.byNonce /\ u.created = t.created
  BY <1>1, <1>4, <1>5 DEF Table
<1>7. \A k \in Keys : Entry(u, k) = Entry(t, k) /\ Offered(u, k) = Offered(t, k)
  BY <1>6 DEF Entry, Offered, Active
<1> QED  BY <1>4, <1>5, <1>6, <1>7 DEF Exact

(* rebuildIndexesLocked indexes every entry and hides the coordinator. *)
LEMMA RebuildTable ==
  ASSUME ClientAssumption, NEW t, t \in Table, NoEntryTwice(t), EntriesKeyed(t), MapsAgree(t),
         SessionsPending(t, {}), NEW u \in Rebuild(t)
  PROVE  TableInv(u)
<1>1. /\ u \in Table
      /\ u.peers = t.peers /\ u.sessions = t.sessions /\ u.sess = t.sess
      /\ u.byNonce = t.byNonce /\ u.created = t.created
      /\ \A k \in Keys : Exact(u, k)
  BY RebuildFacts, ClientAssumption
<1>2. KeysIndexed(u)
  <2> SUFFICES ASSUME NEW id \in IDs, Plain(t.peers[id].key)
               PROVE  u.keyIndex[t.peers[id].key] = id
    BY <1>1 DEF KeysIndexed
  <2>1. t.peers[id].key \in Keys
    BY DEF Table, Peer, Plain
  <2>2. Entry(u, t.peers[id].key) = {id}
    BY <1>1 DEF Entry, NoEntryTwice
  <2> QED  BY <1>1, <2>1, <2>2 DEF Exact, Pick
<1>3. EntriesKeyed(u) /\ MapsAgree(u) /\ SessionsPending(u, {})
  BY <1>1 DEF EntriesKeyed, MapsAgree, SessionsPending
<1>4. ServerHidden(u)
  BY <1>1 DEF ServerHidden, Exact, Offered, Pick
<1> QED  BY <1>1, <1>2, <1>3, <1>4 DEF TableInv

(* renumberPeerLocked keeps the invariant, and afterwards the key is indexed  *)
(* at the new ID or nowhere.                                                  *)
LEMMA RenumberTable ==
  ASSUME ClientAssumption, NEW t, TableInv(t), NEW k \in Keys \cup {NoKey}, NEW id \in IDs
  PROVE  /\ TableInv(Renumber(t, k, id))
         /\ k # NoKey => Renumber(t, k, id).keyIndex[k] \in {NoID, id}
         /\ Renumber(t, k, id).created = t.created
<1> DEFINE r == Renumber(t, k, id)
           old == t.keyIndex[k]
<1>0. t \in Table /\ MapsAgree(t) /\ KeysIndexed(t) /\ EntriesKeyed(t)
      /\ SessionsPending(t, {}) /\ ServerHidden(t)
  BY DEF TableInv
<1>1. CASE k = NoKey \/ old \in {NoID, id}
  BY <1>1 DEF Renumber
<1>2. CASE ~(k = NoKey \/ old \in {NoID, id}) /\ ~Renumbers(t, k, id)
  <2>1. r = [t EXCEPT !.keyIndex[k] = NoID] /\ k \in Keys
    BY <1>2 DEF Renumber
  <2>2. t.keyIndex \in [Keys -> IDs \cup {NoID}]
    BY <1>0 DEF Table
  <2>3. t.peers[old].key # k
    BY <1>2 DEF Renumbers
  <2>4. r \in Table /\ r.peers = t.peers /\ r.sessions = t.sessions /\ r.sess = t.sess
        /\ r.byNonce = t.byNonce /\ r.created = t.created /\ r.destinations = t.destinations
        /\ r.keyIndex = [t.keyIndex EXCEPT ![k] = NoID]
    BY <1>0, <2>1 DEF Table
  <2>5. KeysIndexed(r)
    <3> SUFFICES ASSUME NEW i \in IDs, Plain(t.peers[i].key)
                 PROVE  r.keyIndex[t.peers[i].key] = i
      BY <2>4 DEF KeysIndexed
    <3>1. t.keyIndex[t.peers[i].key] = i /\ t.peers[i].key \in Keys
      BY <1>0 DEF KeysIndexed, Table, Peer, Plain
    <3>2. t.peers[i].key # k
      BY <3>1, <2>3
    <3> QED  BY <3>1, <3>2, <2>4, <2>2
  <2>6. EntriesKeyed(r) /\ MapsAgree(r) /\ SessionsPending(r, {}) /\ ServerHidden(r)
    BY <1>0, <2>4 DEF EntriesKeyed, MapsAgree, SessionsPending, ServerHidden, Active
  <2> QED  BY <2>1, <2>2, <2>4, <2>5, <2>6 DEF TableInv
<1>3. CASE ~(k = NoKey \/ old \in {NoID, id}) /\ Renumbers(t, k, id)
  <2> DEFINE u == DiscardSessions(t, {old, id})
             moved == IF t.peers[old].state = "Trying"
                      THEN [t.peers[old] EXCEPT !.state = "Discovered"] ELSE t.peers[old]
  <2>1. k \in Keys /\ old \in IDs /\ old # id /\ t.peers[old].key = k
    BY <1>3, <1>0 DEF Renumbers, Table
  <2>2. r = [u EXCEPT !.peers = [t.peers EXCEPT ![old] = NoPeer, ![id] = moved], !.keyIndex[k] = id]
    BY <1>3 DEF Renumber
  <2>3. /\ u \in Table /\ u.peers = t.peers /\ u.keyIndex = t.keyIndex
        /\ u.destinations = t.destinations /\ u.created = t.created /\ MapsAgree(u)
        /\ \A i \in IDs : u.sessions[i] = IF i \in {old, id} THEN NoSession ELSE t.sessions[i]
    BY <1>0, DiscardTable
  <2>4. /\ t.peers[old] \in Peer /\ moved \in Peer /\ moved.key = k
        /\ moved.state = "None" => t.peers[old].state = "None"
    BY <1>0, <2>1 DEF Table, Peer, States
  <2>5. r \in Table
    <3>1. NoPeer \in Peer
      BY DEF NoPeer, Peer, States
    <3>2. [t.peers EXCEPT ![old] = NoPeer, ![id] = moved] \in [IDs -> Peer]
      BY <1>0, <2>4, <3>1 DEF Table
    <3> HIDE DEF r, u, moved
    <3> QED  BY <2>1, <2>2, <2>3, <3>2 DEF Table
  <2>6. /\ r.peers = [t.peers EXCEPT ![old] = NoPeer, ![id] = moved]
        /\ r.keyIndex = [t.keyIndex EXCEPT ![k] = id]
        /\ r.sessions = u.sessions /\ r.sess = u.sess /\ r.byNonce = u.byNonce
        /\ r.created = t.created /\ r.destinations = t.destinations
    BY <2>2, <2>3, ZenonT(60) DEF Table
  <2>7. \A i \in IDs : r.peers[i] = IF i = id THEN moved ELSE IF i = old THEN NoPeer ELSE t.peers[i]
    BY <1>0, <2>6, <2>1 DEF Table
  <2>8. KeysIndexed(r)
    <3> SUFFICES ASSUME NEW i \in IDs, Plain(r.peers[i].key)
                 PROVE  r.keyIndex[r.peers[i].key] = i
      BY DEF KeysIndexed
    <3>1. CASE i = id
      BY <3>1, <2>7, <2>4, <2>6, <2>1, <1>0 DEF Table
    <3>2. CASE i = old
      BY <3>2, <2>7, <2>1 DEF NoPeer, Plain
    <3>3. CASE i \notin {id, old}
      <4>1. r.peers[i] = t.peers[i]
        BY <3>3, <2>7
      <4>2. t.keyIndex[t.peers[i].key] = i /\ t.peers[i].key \in Keys
        BY <4>1, <1>0 DEF KeysIndexed, Table, Peer, Plain
      <4>3. t.peers[i].key # k
        BY <4>2, <3>3
      <4> QED  BY <4>1, <4>2, <4>3, <2>6, <1>0 DEF Table
    <3> QED  BY <3>1, <3>2, <3>3
  <2>9. EntriesKeyed(r)
    <3>1. \A i \in IDs : t.peers[i].state = "None" => t.peers[i].key = NoKey
      BY <1>0 DEF EntriesKeyed
    <3> HIDE DEF r, moved
    <3> QED  BY <2>7, <2>4, <2>1, <3>1 DEF EntriesKeyed, NoPeer
  <2>10. MapsAgree(r)
    BY <2>3, <2>6, ZenonT(60) DEF MapsAgree
  <2>11. SessionsPending(r, {}) /\ ServerHidden(r)
    BY <1>0, <2>3, <2>6, <2>7, ZenonT(60) DEF SessionsPending, ServerHidden
  <2>12. r.keyIndex[k] = id
    BY <2>6, <2>1, <1>0 DEF Table
  <2> QED  BY <2>5, <2>6, <2>8, <2>9, <2>10, <2>11, <2>12 DEF TableInv
<1> QED  BY <1>1, <1>2, <1>3

(* A section that discards the sessions of the entries it settles and then    *)
(* rebuilds the indexes restores the invariant.                               *)
LEMMA SettleTable ==
  ASSUME ClientAssumption, NEW t, t \in Table, NoEntryTwice(t), EntriesKeyed(t), MapsAgree(t),
         NEW ids, SessionsPending(t, ids), NEW r \in Rebuild(DiscardSessions(t, ids))
  PROVE  TableInv(r)
<1> DEFINE u == DiscardSessions(t, ids)
<1>1. /\ u \in Table /\ u.peers = t.peers /\ MapsAgree(u)
      /\ \A id \in IDs : u.sessions[id] = IF id \in ids THEN NoSession ELSE t.sessions[id]
  BY DiscardTable
<1>2. r \in Rebuild(u)
  OBVIOUS
<1> HIDE DEF u
<1>3. NoEntryTwice(u) /\ EntriesKeyed(u) /\ SessionsPending(u, {})
  BY <1>1 DEF NoEntryTwice, EntriesKeyed, SessionsPending
<1> QED  BY <1>1, <1>2, <1>3, RebuildTable, ClientAssumption

(* A table that differs from t only in its peers. *)
LEMMA PeersOnly ==
  ASSUME NEW t, t \in Table, MapsAgree(t), NEW P, P \in [IDs -> Peer]
  PROVE  LET v == [t EXCEPT !.peers = P]
         IN /\ v \in Table /\ MapsAgree(v) /\ v.peers = P
            /\ v.sessions = t.sessions /\ v.sess = t.sess /\ v.byNonce = t.byNonce
            /\ v.created = t.created /\ v.keyIndex = t.keyIndex /\ v.destinations = t.destinations
<1> DEFINE v == [t EXCEPT !.peers = P]
<1>1. /\ v \in Table /\ v.peers = P
      /\ v.sessions = t.sessions /\ v.sess = t.sess /\ v.byNonce = t.byNonce
      /\ v.created = t.created /\ v.keyIndex = t.keyIndex /\ v.destinations = t.destinations
  BY DEF Table
<1> HIDE DEF v
<1>2. MapsAgree(v)
  BY <1>1 DEF MapsAgree
<1> QED  BY <1>1, <1>2 DEF v

(* The state of one entry changes. *)
LEMMA RestateTable ==
  ASSUME NEW t, TableInv(t), NEW id
  PROVE  \A st \in {"Trying", "Established", "Failed"} :
           LET v == [t EXCEPT !.peers[id].state = st]
           IN /\ v \in Table /\ NoEntryTwice(v) /\ EntriesKeyed(v) /\ MapsAgree(v)
              /\ SessionsPending(v, {id})
              /\ v.sessions = t.sessions
              /\ \A i \in IDs : v.peers[i].state = IF i = id THEN st ELSE t.peers[i].state
<1> SUFFICES ASSUME NEW st \in {"Trying", "Established", "Failed"},
                    NEW v, v = [t EXCEPT !.peers[id].state = st]
             PROVE  /\ v \in Table /\ NoEntryTwice(v) /\ EntriesKeyed(v) /\ MapsAgree(v)
                    /\ SessionsPending(v, {id})
                    /\ v.sessions = t.sessions
                    /\ \A i \in IDs : v.peers[i].state = IF i = id THEN st ELSE t.peers[i].state
  BY ZenonT(90)
<1>8. st \in States
  BY DEF States
<1> DEFINE P == [t.peers EXCEPT ![id].state = st]
<1>0. t \in Table /\ MapsAgree(t) /\ KeysIndexed(t) /\ EntriesKeyed(t) /\ SessionsPending(t, {})
  BY DEF TableInv
<1>1. \A i \in IDs : t.peers[i] \in Peer
  BY <1>0 DEF Table
<1>2. P \in [IDs -> Peer]
  BY <1>8, <1>0, <1>1 DEF Table, Peer
<1>3. \A i \in IDs : P[i].key = t.peers[i].key /\ P[i].state = IF i = id THEN st ELSE t.peers[i].state
  BY <1>0, <1>1 DEF Table, Peer
<1>7. v = [t EXCEPT !.peers = P]
  OBVIOUS
<1> HIDE DEF P
<1>4. v \in Table /\ MapsAgree(v) /\ v.peers = P /\ v.sessions = t.sessions
  <2>1. LET u == [t EXCEPT !.peers = P]
        IN u \in Table /\ MapsAgree(u) /\ u.peers = P /\ u.sessions = t.sessions
    BY <1>0, <1>2, PeersOnly
  <2> QED  BY <2>1, <1>7
<1>5. NoEntryTwice(t)
  BY <1>0, IndexedUnique
<1>6. NoEntryTwice(v) /\ EntriesKeyed(v) /\ SessionsPending(v, {id})
  BY <1>0, <1>3, <1>4, <1>5 DEF NoEntryTwice, EntriesKeyed, SessionsPending, Active
<1> QED  BY <1>3, <1>4, <1>6

(* An attempt that is failed under the lock: state, session maps, indexes. *)
LEMMA FailTable ==
  ASSUME ClientAssumption, NEW t, TableInv(t), NEW id,
         NEW r \in Rebuild(DiscardSessions(Fails(t, id), {id}))
  PROVE  TableInv(r)
<1> DEFINE v == [t EXCEPT !.peers[id].state = "Failed"]
<1>1. v \in Table /\ NoEntryTwice(v) /\ EntriesKeyed(v) /\ MapsAgree(v) /\ SessionsPending(v, {id})
  BY RestateTable
<1>2. r \in Rebuild(DiscardSessions(v, {id}))
  BY DEF Fails
<1> HIDE DEF v
<1> QED  BY <1>1, <1>2, SettleTable, ClientAssumption

(* failPunchSessionIfCurrentLocked. *)
LEMMA FailPunchTable ==
  ASSUME ClientAssumption, NEW t, TableInv(t), NEW s, NEW r \in FailPunch(t, s)
  PROVE  TableInv(r)
<1> DEFINE id == t.sess[s].target
<1>1. r = t \/ r \in Rebuild(DiscardSessions(Fails(t, id), {id}))
  BY DEF FailPunch
<1> QED  BY <1>1, FailTable, ClientAssumption

(* A flag of one session is set: signalDone, or HandlePunch marking it as promoting. *)
LEMMA FlagTable ==
  ASSUME NEW t, TableInv(t), NEW s, NEW v,
         \/ v = [t EXCEPT !.sess[s].done = TRUE]
         \/ v = [t EXCEPT !.sess[s].promoting = TRUE]
  PROVE  TableInv(v)
<1>0. t \in Table
  BY DEF TableInv
<1>1. \A x \in Sess : t.sess[x] \in Session
  BY <1>0 DEF Table
<1>2. /\ [t.sess EXCEPT ![s].done = TRUE] \in [Sess -> Session]
      /\ [t.sess EXCEPT ![s].promoting = TRUE] \in [Sess -> Session]
  <2>1. \A x \in Sess : [t.sess[x] EXCEPT !.done = TRUE] \in Session
    BY <1>1, Zenon DEF Session
  <2>2. \A x \in Sess : [t.sess[x] EXCEPT !.promoting = TRUE] \in Session
    BY <1>1, Zenon DEF Session
  <2>3. t.sess \in [Sess -> Session]
    BY <1>0 DEF Table
  <2> QED  BY <2>1, <2>2, <2>3, Zenon
<1>3. /\ v \in Table /\ v.peers = t.peers /\ v.sessions = t.sessions /\ v.byNonce = t.byNonce
      /\ v.created = t.created /\ v.keyIndex = t.keyIndex /\ v.destinations = t.destinations
      /\ \/ v.sess = [t.sess EXCEPT ![s].done = TRUE]
         \/ v.sess = [t.sess EXCEPT ![s].promoting = TRUE]
  BY <1>0, <1>2 DEF Table
<1>4. \A x \in Sess : /\ v.sess[x].target = t.sess[x].target
                      /\ v.sess[x].nonce = t.sess[x].nonce /\ v.sess[x].alt = t.sess[x].alt
                      /\ v.sess[x].key = t.sess[x].key
  BY <1>0, <1>1, <1>3 DEF Table, Session
<1>5. /\ \A i \in IDs : t.sessions[i] \in Sess \cup {NoSession}
      /\ \A n \in Nonces : t.byNonce[n] \in Sess \cup {NoSession}
  BY <1>0 DEF Table
<1>6. MapsAgree(v)
  BY <1>3, <1>4, <1>5 DEF MapsAgree, TableInv
<1>7. KeysIndexed(v) /\ EntriesKeyed(v) /\ SessionsPending(v, {}) /\ ServerHidden(v)
  BY <1>3 DEF TableInv, KeysIndexed, EntriesKeyed, SessionsPending, ServerHidden, Active
<1> QED  BY <1>3, <1>6, <1>7 DEF TableInv

(* One entry of a peer list: a listed key ends up at the listed ID and, unless *)
(* a joining relay taught it, nowhere else.                                   *)
LEMMA MergeTable ==
  ASSUME ClientAssumption, NEW t, TableInv(t), NEW id \in IDs, NEW k \in Keys \cup {NoKey}, NEW moved
  PROVE  TableInv(MergeEntry(t, id, k, moved))
<1> DEFINE u == Renumber(t, k, id)
           p == u.peers[id]
           state == IF p.state = "None" \/ (p.state = "Failed" /\ moved) THEN "Discovered" ELSE p.state
           e == [key |-> k, state |-> state, capable |-> k \in Capable]
           x == IF k = NoKey THEN u.keyIndex ELSE [u.keyIndex EXCEPT ![k] = id]
           m == [u EXCEPT !.peers[id] = e, !.keyIndex = x]
<1>0. TableInv(u) /\ (k # NoKey => u.keyIndex[k] \in {NoID, id})
  BY RenumberTable, ClientAssumption
<1> HIDE DEF u
<1>3. u \in Table /\ p \in Peer
  BY <1>0 DEF TableInv, Table
<1>4. e \in Peer /\ e.key = k /\ e.state = state /\ e.state # "None"
  <2>1. state \in States
    BY <1>3 DEF Peer, States
  <2>2. (k \in Capable) \in BOOLEAN
    OBVIOUS
  <2>3. state # "None"
    OBVIOUS
  <2> HIDE DEF state
  <2>4. \A b \in BOOLEAN : [key |-> k, state |-> state, capable |-> b] \in Peer
    BY <2>1 DEF Peer
  <2> QED  BY <2>1, <2>2, <2>3, <2>4
<1>5. state = "Established" => p.state = "Established"
  OBVIOUS
<1>2. x \in [Keys -> IDs \cup {NoID}] /\ \A q \in Keys : x[q] = IF q = k THEN id ELSE u.keyIndex[q]
  BY <1>3, ClientAssumption DEF Table, ClientAssumption
<1> HIDE DEF e, state, p, x
<1>6. /\ m \in Table /\ m.sessions = u.sessions /\ m.sess = u.sess /\ m.byNonce = u.byNonce
      /\ m.created = u.created /\ m.destinations = u.destinations /\ m.keyIndex = x
      /\ \A i \in IDs : m.peers[i] = IF i = id THEN e ELSE u.peers[i]
  BY <1>2, <1>3, <1>4 DEF Table
<1> HIDE DEF m
<1>7. KeysIndexed(m)
  <2> SUFFICES ASSUME NEW i \in IDs, Plain(m.peers[i].key)
               PROVE  m.keyIndex[m.peers[i].key] = i
    BY DEF KeysIndexed
  <2>1. CASE i = id
    BY <2>1, <1>2, <1>6, <1>4 DEF Plain
  <2>2. CASE i # id
    <3>1. m.peers[i] = u.peers[i] /\ u.peers[i].key \in Keys /\ u.keyIndex[u.peers[i].key] = i
      BY <2>2, <1>6, <1>0 DEF TableInv, KeysIndexed, Table, Peer, Plain
    <3>2. u.peers[i].key # k
      BY <3>1, <2>2, <1>0, ClientAssumption DEF ClientAssumption
    <3> QED  BY <3>1, <3>2, <1>2, <1>6
  <2> QED  BY <2>1, <2>2
<1>8. EntriesKeyed(m)
  BY <1>0, <1>4, <1>6 DEF TableInv, EntriesKeyed
<1>9. MapsAgree(m) /\ ServerHidden(m)
  BY <1>0, <1>6 DEF TableInv, MapsAgree, ServerHidden
<1>10. SessionsPending(m, {})
  BY <1>0, <1>4, <1>5, <1>6 DEF TableInv, SessionsPending, p
<1>11. TableInv(m)
  BY <1>6, <1>7, <1>8, <1>9, <1>10 DEF TableInv
<1> QED  BY <1>11 DEF m, e, state, p, u, x, MergeEntry

(* Before its key is checked, the relay's entry exists, and if it has no key  *)
(* then no entry has the relay's key: learning it makes no second entry.      *)
LEMMA RelayTableInv ==
  ASSUME ClientAssumption, TableInv(tab), NEW id \in IDs, NEW k \in Keys \cup {NoKey}
  PROVE  LET t == RelayTable(id, k)
         IN /\ TableInv(t) /\ t.created = tab.created /\ t.peers[id].state # "None"
            /\ Plain(k) /\ t.peers[id].key = NoKey => \A j \in IDs : t.peers[j].key # k
<1> DEFINE own == tab.peers[id].key \in {NoKey, k}
           r == IF k # NoKey /\ own THEN Renumber(tab, k, id) ELSE tab
           new == [key |-> NoKey, state |-> "Discovered", capable |-> TRUE]
           v == [r EXCEPT !.peers[id] = new]
           t == RelayTable(id, k)
<1>1. TableInv(r) /\ r.created = tab.created
  BY RenumberTable, ClientAssumption
<1>2. Plain(k) /\ r.peers[id].key = NoKey => \A j \in IDs : r.peers[j].key # k
  <2>0. Plain(k) => k # NoKey
    BY DEF Plain
  <2> SUFFICES ASSUME Plain(k), r.peers[id].key = NoKey, NEW j \in IDs, r.peers[j].key = k
               PROVE  FALSE
    OBVIOUS
  <2>1. own
    BY <2>0
  <2>2. r.keyIndex[k] \in {NoID, id}
    BY <2>0, <2>1, RenumberTable, ClientAssumption
  <2> HIDE DEF r
  <2>3. r.keyIndex[k] = j
    BY <1>1 DEF TableInv, KeysIndexed
  <2> QED  BY <2>0, <2>2, <2>3, ClientAssumption DEF ClientAssumption
<1>3. t = IF Known(r, id) THEN r ELSE v
  BY DEF RelayTable
<1> HIDE DEF r
<1>4. CASE Known(r, id)
  BY <1>1, <1>2, <1>3, <1>4 DEF Known
<1>5. CASE ~Known(r, id)
  <2>0. /\ r \in Table /\ MapsAgree(r) /\ KeysIndexed(r) /\ EntriesKeyed(r)
        /\ SessionsPending(r, {}) /\ ServerHidden(r)
    BY <1>1 DEF TableInv
  <2>1. new \in Peer /\ new.key = NoKey /\ new.state = "Discovered"
    BY DEF Peer, States
  <2> HIDE DEF new
  <2>2. [r.peers EXCEPT ![id] = new] \in [IDs -> Peer]
    BY <2>0, <2>1 DEF Table
  <2>3. /\ v \in Table /\ MapsAgree(v) /\ v.peers = [r.peers EXCEPT ![id] = new]
        /\ v.sessions = r.sessions /\ v.created = r.created
        /\ v.keyIndex = r.keyIndex /\ v.destinations = r.destinations
    <3> DEFINE P == [r.peers EXCEPT ![id] = new]
    <3>1. v = [r EXCEPT !.peers = P]
      OBVIOUS
    <3>0. P \in [IDs -> Peer]
      BY <2>2
    <3> HIDE DEF P, v
    <3>2. /\ v \in Table /\ MapsAgree(v) /\ v.peers = P
          /\ v.sessions = r.sessions /\ v.created = r.created
          /\ v.keyIndex = r.keyIndex /\ v.destinations = r.destinations
      BY <2>0, <3>0, <3>1, PeersOnly
    <3> QED  BY <3>2 DEF P
  <2>4. \A j \in IDs : v.peers[j] = IF j = id THEN new ELSE r.peers[j]
    BY <2>0, <2>3 DEF Table
  <2> HIDE DEF v
  <2>5. KeysIndexed(v) /\ ServerHidden(v)
    BY <2>0, <2>1, <2>3, <2>4 DEF KeysIndexed, ServerHidden, Plain
  <2>6. EntriesKeyed(v)
    BY <2>0, <2>1, <2>4 DEF EntriesKeyed
  <2>7. SessionsPending(v, {})
    BY <2>0, <2>1, <2>3, <2>4 DEF SessionsPending
  <2>8. TableInv(v)
    BY <2>3, <2>5, <2>6, <2>7 DEF TableInv
  <2>9. r.peers[id].key = NoKey
    BY <2>0, <1>5, SMTT(30) DEF Known, EntriesKeyed
  <2> QED  BY <1>1, <1>2, <1>3, <1>5, <2>1, <2>3, <2>4, <2>8, <2>9 DEF Plain
<1> QED  BY <1>4, <1>5

(* The table a relay leaves once its key is learned or confirmed: no plain    *)
(* key has two entries, whatever state the entry is given.                    *)
LEMMA LearnTable ==
  ASSUME ClientAssumption, TableInv(tab), NEW id \in IDs, NEW k \in Keys \cup {NoKey},
         NEW st \in States \ {"None"}
  PROVE  LET t == RelayTable(id, k)
             v == [t EXCEPT !.peers[id].key = RelayKey(t.peers[id], k), !.peers[id].state = st]
         IN /\ v \in Table /\ NoEntryTwice(v) /\ EntriesKeyed(v) /\ MapsAgree(v)
            /\ SessionsPending(v, {id}) /\ v.created = tab.created
            /\ RelayKey(t.peers[id], k) \in Keys \cup {NoKey}
<1> DEFINE t == RelayTable(id, k)
           key == RelayKey(t.peers[id], k)
           P == [t.peers EXCEPT ![id].key = key, ![id].state = st]
           v == [t EXCEPT !.peers = P]
<1>1. /\ TableInv(t) /\ t.created = tab.created
      /\ Plain(k) /\ t.peers[id].key = NoKey => \A j \in IDs : t.peers[j].key # k
  BY RelayTableInv, ClientAssumption
<1> HIDE DEF t
<1>2. t \in Table /\ MapsAgree(t) /\ KeysIndexed(t) /\ EntriesKeyed(t) /\ SessionsPending(t, {})
  BY <1>1 DEF TableInv
<1>3. NoEntryTwice(t)
  BY <1>2, IndexedUnique
<1>4. \A j \in IDs : t.peers[j] \in Peer
  BY <1>2 DEF Table
<1>5. key \in Keys \cup {NoKey} /\ key = IF t.peers[id].key = NoKey THEN k ELSE t.peers[id].key
  BY <1>4 DEF RelayKey, Peer
<1>7. \A j \in IDs : j # id /\ Plain(key) => t.peers[j].key # key
  BY <1>1, <1>3, <1>5 DEF NoEntryTwice
<1> HIDE DEF key
<1>8. P \in [IDs -> Peer]
  BY <1>2, <1>4, <1>5 DEF Table, Peer
<1>9. \A j \in IDs : /\ P[j].key = IF j = id THEN key ELSE t.peers[j].key
                     /\ P[j].state = IF j = id THEN st ELSE t.peers[j].state
  BY <1>2, <1>4 DEF Table, Peer
<1> HIDE DEF P
<1>10. v \in Table /\ MapsAgree(v) /\ v.peers = P /\ v.sessions = t.sessions /\ v.created = t.created
  BY <1>2, <1>8, PeersOnly
<1>11. v = [t EXCEPT !.peers[id].key = key, !.peers[id].state = st]
  BY DEF P
<1> HIDE DEF v
<1>12. NoEntryTwice(v)
  BY <1>3, <1>7, <1>9, <1>10 DEF NoEntryTwice
<1>13. EntriesKeyed(v)
  BY <1>2, <1>9, <1>10 DEF EntriesKeyed
<1>14. SessionsPending(v, {id})
  BY <1>2, <1>9, <1>10 DEF SessionsPending
<1>15. v.created = tab.created
  BY <1>1, <1>10
<1> QED  BY <1>5, <1>10, <1>11, <1>12, <1>13, <1>14, <1>15 DEF t, key
-----------------------------------------------------------------------------
(* The steps *)

Thread == [pc : PC, job : Job]

(* What Go does to the threads. *)
LEMMA GoType ==
  ASSUME thr \in [Threads -> Thread], NEW x, NEW pc \in PC, NEW job \in Job, Go(x, pc, job)
  PROVE  /\ thr' \in [Threads -> Thread]
         /\ \A y \in Threads : thr'[y] = IF y = x THEN [pc |-> pc, job |-> job] ELSE thr[y]
  BY DEF Go, Thread

(* A thread that goes idle. *)
LEMMA IdleType ==
  ASSUME thr \in [Threads -> Thread], NEW x, Idle(x), ClientAssumption
  PROVE  /\ thr' \in [Threads -> Thread]
         /\ \A y \in Threads : thr'[y] = IF y = x THEN [pc |-> "idle", job |-> NoJob] ELSE thr[y]
<1>1. "idle" \in PC /\ NoJob \in Job
  BY DEF PC, NoJob, Job, NoSession
<1> QED  BY <1>1, GoType, ZenonT(60) DEF Idle

(* A step of the table alone, with the threads at work on nothing new for the *)
(* coordinator's key, keeps the invariant.                                    *)
LEMMA TableStep ==
  ASSUME IInv, TableInv(tab'), thr' \in [Threads -> Thread],
         \A y \in Threads : JobOK(thr'[y]),
         punching' \subseteq Sess, stale' \subseteq Keys,
         UNCHANGED <<promoQ, wg, route, learned>>
  PROVE  IInv'
<1>1. TableInv(tab)'
  BY DEF TableInv, KeysIndexed, Plain
<1> QED  BY <1>1 DEF IInv, TypeOK, TableInv, JobsKeyed, Thread

(* handlePeerList. *)
LEMMA ListIInv ==
  ASSUME ClientAssumption, IInv,
         \/ ListBegin \/ ListEnd
         \/ \E id \in IDs, k \in Keys \cup {NoKey} : ListEntry(id, k)
  PROVE  IInv'
<1>0. /\ TableInv(tab) /\ thr \in [Threads -> Thread] /\ punching \subseteq Sess
      /\ stale \subseteq Keys
      /\ \A y \in Threads : JobOK(thr[y])
  BY DEF IInv, TypeOK, Thread, JobsKeyed
<1>1. CASE ListBegin
  <2>1. "list" \in PC /\ NoJob \in Job
    BY DEF PC, NoJob, Job, NoSession
  <2>2. Go(Control, "list", NoJob)
    BY <1>1 DEF ListBegin
  <2>3. /\ thr' \in [Threads -> Thread]
        /\ \A y \in Threads : thr'[y] = IF y = Control THEN [pc |-> "list", job |-> NoJob] ELSE thr[y]
    BY <1>0, <2>1, <2>2 DEF Go, Thread
  <2>4. \A y \in Threads : JobOK(thr'[y])
    BY <1>0, <2>3 DEF JobOK
  <2>5. TableInv(tab') /\ punching' \subseteq Sess /\ stale' \subseteq Keys
        /\ UNCHANGED <<promoQ, wg, route, learned>>
    BY <1>0, <1>1 DEF ListBegin
  <2> QED  BY <2>3, <2>4, <2>5, TableStep
<1>2. CASE ListEnd
  <2>1. /\ thr' \in [Threads -> Thread]
        /\ \A y \in Threads : thr'[y] = IF y = Control THEN [pc |-> "idle", job |-> NoJob] ELSE thr[y]
    BY <1>0, <1>2, IdleType, ClientAssumption DEF ListEnd
  <2>2. \A y \in Threads : JobOK(thr'[y])
    BY <1>0, <2>1 DEF JobOK
  <2>3. NoEntryTwice(tab)
    BY <1>0, IndexedUnique DEF TableInv
  <2>4. \A r \in Rebuild(tab) : TableInv(r)
    BY <1>0, <2>3, RebuildTable, ClientAssumption DEF TableInv
  <2>5. TableInv(tab') /\ punching' \subseteq Sess /\ stale' \subseteq Keys
        /\ UNCHANGED <<promoQ, wg, route, learned>>
    BY <1>0, <1>2, <2>4 DEF ListEnd
  <2> QED  BY <2>1, <2>2, <2>5, TableStep
<1>3. ASSUME NEW id \in IDs, NEW k \in Keys \cup {NoKey}, ListEntry(id, k)
      PROVE  IInv'
  <2>1. tab' = tab \/ \E moved \in BOOLEAN : tab' = MergeEntry(tab, id, k, moved)
    BY <1>3, Zenon DEF ListEntry
  <2>2. TableInv(tab')
    BY <1>0, <2>1, MergeTable, ClientAssumption
  <2>3. UNCHANGED <<thr, punching, stale, promoQ, wg, route, learned>>
    BY <1>3 DEF ListEntry
  <2> QED  BY <1>0, <2>2, <2>3, TableStep
<1> QED  BY <1>1, <1>2, <1>3

(* handlePunchRelay, the branches that leave the sessions alone. *)
LEMMA RelayIInv ==
  ASSUME ClientAssumption, IInv, NEW id \in IDs, NEW k \in Keys \cup {NoKey},
         RelayIgnored(id, k) \/ RelayRefused(id, k)
  PROVE  IInv'
<1> DEFINE t == RelayTable(id, k)
<1>0. /\ TableInv(tab) /\ thr \in [Threads -> Thread] /\ punching \subseteq Sess
      /\ stale \subseteq Keys
      /\ \A y \in Threads : JobOK(thr[y])
  BY DEF IInv, TypeOK, Thread, JobsKeyed
<1>1. UNCHANGED <<thr, punching, promoQ, stale, wg, route, learned>>
  BY Zenon DEF RelayIgnored, RelayRefused
<1>2. TableInv(t)
  BY <1>0, RelayTableInv, ClientAssumption
<1>3. TableInv(tab')
  <2>1. CASE RelayIgnored(id, k)
    BY <1>2, <2>1 DEF RelayIgnored
  <2>2. CASE RelayRefused(id, k)
    <3> DEFINE v == [t EXCEPT !.peers[id].key = RelayKey(t.peers[id], k), !.peers[id].state = "Failed"]
    <3>1. "Failed" \in States \ {"None"}
      BY DEF States
    <3>2. v \in Table /\ NoEntryTwice(v) /\ EntriesKeyed(v) /\ MapsAgree(v) /\ SessionsPending(v, {id})
      BY <1>0, <3>1, LearnTable, ClientAssumption, Zenon
    <3>3. tab' \in Rebuild(v)
      BY <2>2 DEF RelayRefused, Fails
    <3>4. v.peers[id].state = "Failed"
      BY <1>2 DEF TableInv, Table, Peer
    <3> HIDE DEF v
    <3>5. SessionsPending(v, {})
      BY <3>2, <3>4 DEF SessionsPending
    <3> QED  BY <3>2, <3>3, <3>5, RebuildTable, ClientAssumption
  <2> QED  BY <2>1, <2>2
<1> QED  BY <1>0, <1>1, <1>3, TableStep

(* The table once a joining relay has taught the entry its key. *)
LEMMA JoinTable ==
  ASSUME ClientAssumption, IInv, NEW id \in IDs, NEW k \in Keys \cup {NoKey}, NEW n \in Nonces,
         RelayJoins(id, k, n)
  PROVE  LET t == RelayTable(id, k)
             u == [t EXCEPT !.peers[id].key = RelayKey(t.peers[id], k)]
         IN /\ u \in Table /\ MapsAgree(u) /\ EntriesKeyed(u) /\ SessionsPending(u, {})
            /\ ServerHidden(u) /\ u.sessions = t.sessions /\ u.sess = t.sess
            /\ u.byNonce = t.byNonce /\ u.created = t.created
            /\ learned' \subseteq Keys /\ learned \subseteq learned'
            /\ \A i \in IDs : u.peers[i].key \notin learned' \cup {NoKey}
                               => u.peers[i].key = t.peers[i].key /\ u.keyIndex[u.peers[i].key] = i
<1> DEFINE t == RelayTable(id, k)
           key == RelayKey(t.peers[id], k)
           P == [t.peers EXCEPT ![id].key = key]
           u == [t EXCEPT !.peers = P]
<1>1. TableInv(t) /\ t.peers[id].state # "None"
  <2>1. TableInv(tab)
    BY DEF IInv
  <2> QED  BY <2>1, RelayTableInv, ClientAssumption
<1>2. /\ learned' = IF t.peers[id].key = NoKey THEN learned \cup {k} ELSE learned
      /\ key \notin {NoKey, ServerKey}
  BY Zenon DEF RelayJoins, RelayAccepted
<1>3. learned \subseteq Keys
  BY DEF IInv, TypeOK
<1> HIDE DEF t
<1>4. /\ t \in Table /\ MapsAgree(t) /\ KeysIndexed(t) /\ EntriesKeyed(t)
      /\ SessionsPending(t, {}) /\ ServerHidden(t)
  BY <1>1 DEF TableInv
<1>5. \A j \in IDs : t.peers[j] \in Peer
  BY <1>4 DEF Table
<1>6. key \in Keys /\ key = IF t.peers[id].key = NoKey THEN k ELSE t.peers[id].key
  BY <1>2, <1>5 DEF RelayKey, Peer
<1>7. learned' \subseteq Keys /\ learned \subseteq learned'
  BY <1>2, <1>3, <1>6
<1> HIDE DEF key
<1>8. P \in [IDs -> Peer]
  BY <1>4, <1>5, <1>6 DEF Table, Peer
<1>9. \A j \in IDs : /\ P[j].key = IF j = id THEN key ELSE t.peers[j].key
                     /\ P[j].state = t.peers[j].state
  BY <1>4, <1>5 DEF Table, Peer
<1>10. u = [t EXCEPT !.peers[id].key = key]
  OBVIOUS
<1> HIDE DEF P
<1>11. /\ u \in Table /\ MapsAgree(u) /\ u.peers = P
       /\ u.sessions = t.sessions /\ u.sess = t.sess /\ u.byNonce = t.byNonce
       /\ u.created = t.created /\ u.keyIndex = t.keyIndex /\ u.destinations = t.destinations
  BY <1>4, <1>8, PeersOnly
<1> HIDE DEF u
<1>12. EntriesKeyed(u) /\ SessionsPending(u, {}) /\ ServerHidden(u)
  BY <1>1, <1>4, <1>9, <1>11 DEF EntriesKeyed, SessionsPending, ServerHidden
<1>13. ASSUME NEW i \in IDs, u.peers[i].key \notin learned' \cup {NoKey}
       PROVE  u.peers[i].key = t.peers[i].key /\ u.keyIndex[u.peers[i].key] = i
  <2>1. u.peers[i].key = t.peers[i].key
    BY <1>2, <1>6, <1>9, <1>11, <1>13
  <2> QED  BY <2>1, <1>4, <1>7, <1>11, <1>13 DEF KeysIndexed, Plain
<1>14. /\ u \in Table /\ MapsAgree(u) /\ EntriesKeyed(u) /\ SessionsPending(u, {})
       /\ ServerHidden(u) /\ u.sessions = t.sessions /\ u.sess = t.sess
       /\ u.byNonce = t.byNonce /\ u.created = t.created
       /\ learned' \subseteq Keys /\ learned \subseteq learned'
       /\ \A i \in IDs : u.peers[i].key \notin learned' \cup {NoKey}
                          => u.peers[i].key = t.peers[i].key /\ u.keyIndex[u.peers[i].key] = i
  BY <1>7, <1>11, <1>12, <1>13
<1> QED  BY <1>10, <1>14, Zenon DEF t, key

(* handlePunchRelay joining a running attempt. *)
LEMMA JoinIInv ==
  ASSUME ClientAssumption, IInv, NEW id \in IDs, NEW k \in Keys \cup {NoKey}, NEW n \in Nonces,
         RelayJoins(id, k, n)
  PROVE  IInv'
<1> DEFINE t == RelayTable(id, k)
           u == [t EXCEPT !.peers[id].key = RelayKey(t.peers[id], k)]
           s == t.sessions[id]
           byNonce == [m \in Nonces |-> IF m = n THEN s
                                        ELSE IF m = t.sess[s].alt THEN NoSession
                                        ELSE t.byNonce[m]]
           v == [u EXCEPT !.sess[s].alt = n, !.byNonce = byNonce]
<1>1. s # NoSession /\ UNCHANGED <<thr, punching, promoQ, stale, wg, route>>
  BY Zenon DEF RelayJoins
<1>2. tab' = u \/ (tab' = v /\ n # t.sess[s].nonce /\ n # t.sess[s].alt)
  BY Zenon DEF RelayJoins
<1>3. /\ u \in Table /\ MapsAgree(u) /\ EntriesKeyed(u) /\ SessionsPending(u, {})
      /\ ServerHidden(u) /\ u.sessions = t.sessions /\ u.sess = t.sess
      /\ u.byNonce = t.byNonce /\ u.created = t.created
      /\ learned' \subseteq Keys /\ learned \subseteq learned'
      /\ \A i \in IDs : u.peers[i].key \notin learned' \cup {NoKey}
                         => u.peers[i].key = t.peers[i].key /\ u.keyIndex[u.peers[i].key] = i
  BY JoinTable, ClientAssumption, ZenonT(60)
<1>4. s = u.sessions[id] /\ byNonce = [m \in Nonces |-> IF m = n THEN s
                                         ELSE IF m = u.sess[s].alt THEN NoSession
                                         ELSE u.byNonce[m]]
  BY <1>3
<1> HIDE DEF t, u, s, byNonce
<1>5. s \in Sess /\ \A x \in Sess : u.sess[x] \in Session
  BY <1>1, <1>3, <1>4 DEF Table
<1>6. [u.sess EXCEPT ![s].alt = n] \in [Sess -> Session]
  BY <1>3, <1>5 DEF Session, Table
<1>7. byNonce \in [Nonces -> Sess \cup {NoSession}]
  BY <1>3, <1>4, <1>5 DEF Table
<1>8. /\ v \in Table /\ v.peers = u.peers /\ v.sessions = u.sessions /\ v.created = u.created
      /\ v.keyIndex = u.keyIndex /\ v.destinations = u.destinations
      /\ v.sess = [u.sess EXCEPT ![s].alt = n] /\ v.byNonce = byNonce
  BY <1>3, <1>6, <1>7 DEF Table
<1> HIDE DEF v
<1>9. /\ \A x \in Sess : /\ v.sess[x].target = u.sess[x].target /\ v.sess[x].key = u.sess[x].key
                         /\ v.sess[x].nonce = u.sess[x].nonce
                         /\ v.sess[x].alt = IF x = s THEN n ELSE u.sess[x].alt
      /\ \A m \in Nonces : v.byNonce[m] = IF m = n THEN s
                             ELSE IF m = u.sess[s].alt THEN NoSession ELSE u.byNonce[m]
  BY <1>3, <1>4, <1>5, <1>8 DEF Table, Session
<1>10. MapsAgree(v)
  <2>1. /\ \A i \in IDs : u.sessions[i] \in Sess \cup {NoSession}
        /\ \A m \in Nonces : u.byNonce[m] \in Sess \cup {NoSession}
    BY <1>3 DEF Table
  <2>2. \A i \in IDs : v.sessions[i] # NoSession =>
          v.sess[v.sessions[i]].target = i /\ v.sessions[i] <= v.created
    BY <1>3, <1>8, <1>9, <2>1 DEF MapsAgree
  <2>3. u.sess[s].target = id /\ s <= u.created
    BY <1>1, <1>3, <1>4 DEF MapsAgree
  <2>4. ASSUME NEW m \in Nonces, v.byNonce[m] # NoSession
        PROVE  /\ v.sessions[v.sess[v.byNonce[m]].target] = v.byNonce[m]
               /\ v.sess[v.byNonce[m]].target \in IDs
               /\ v.byNonce[m] <= v.created
               /\ m \in {v.sess[v.byNonce[m]].nonce, v.sess[v.byNonce[m]].alt}
    <3>1. CASE m = n
      BY <3>1, <1>4, <1>5, <1>8, <1>9, <2>3
    <3>2. CASE m # n
      <4>1. v.byNonce[m] = u.byNonce[m] /\ m # u.sess[s].alt /\ u.byNonce[m] \in Sess
        BY <3>2, <2>1, <2>4, <1>9
      <4> QED  BY <4>1, <2>4, <1>3, <1>8, <1>9 DEF MapsAgree
    <3> QED  BY <3>1, <3>2
  <2>5. \A x \in Sess : x <= v.created => v.sess[x].key \notin {NoKey, ServerKey}
    BY <1>3, <1>8, <1>9 DEF MapsAgree
  <2> QED  BY <2>2, <2>4, <2>5 DEF MapsAgree
<1>11. /\ tab' \in Table /\ MapsAgree(tab') /\ tab'.peers = u.peers /\ tab'.sessions = u.sessions
       /\ tab'.keyIndex = u.keyIndex /\ tab'.destinations = u.destinations
  BY <1>2, <1>3, <1>8, <1>10
<1>12. EntriesKeyed(tab') /\ SessionsPending(tab', {}) /\ ServerHidden(tab')
  BY <1>3, <1>11 DEF EntriesKeyed, SessionsPending, ServerHidden
<1>13. KeysIndexed(tab)'
  BY <1>3, <1>11 DEF KeysIndexed, Plain
<1>14. TableInv(tab)'
  BY <1>11, <1>12, <1>13 DEF TableInv
<1> QED  BY <1>1, <1>3, <1>11, <1>14 DEF IInv, TypeOK, JobsKeyed

(* handlePunchRelay starting a session: the new number is in no map yet. *)
LEMMA RelayStartsIInv ==
  ASSUME ClientAssumption, IInv, NEW id \in IDs, NEW k \in Keys \cup {NoKey}, NEW n \in Nonces,
         RelayStarts(id, k, n)
  PROVE  IInv'
<1> DEFINE t == RelayTable(id, k)
           key == RelayKey(t.peers[id], k)
           s == tab.created + 1
           fresh == [target |-> id, key |-> key, nonce |-> n, alt |-> NoNonce,
                     promoting |-> FALSE, done |-> FALSE]
           v == [t EXCEPT !.peers[id].key = key, !.peers[id].state = "Trying"]
           u == DiscardSessions(v, {id})
           w == [u EXCEPT !.sess[s] = fresh, !.created = s, !.sessions[id] = s, !.byNonce[n] = s]
           pc == IF t.peers[id].state = "Established" THEN "teardown" ELSE "schedule"
<1>0. /\ TableInv(tab) /\ thr \in [Threads -> Thread] /\ punching \subseteq Sess
      /\ stale \subseteq Keys
      /\ \A y \in Threads : JobOK(thr[y])
  BY DEF IInv, TypeOK, Thread, JobsKeyed
<1>1. /\ key \notin {NoKey, ServerKey} /\ tab.created < MaxSessions /\ tab' \in Rebuild(w)
      /\ Go(Control, pc, [id |-> id, sess |-> s, key |-> key])
      /\ UNCHANGED <<punching, promoQ, stale, wg, route, learned>>
  BY DEF RelayStarts, RelayAccepted
<1>2. /\ v \in Table /\ NoEntryTwice(v) /\ EntriesKeyed(v) /\ MapsAgree(v)
      /\ SessionsPending(v, {id}) /\ v.created = tab.created /\ key \in Keys \cup {NoKey}
  <2>1. "Trying" \in States \ {"None"}
    BY DEF States
  <2> QED  BY <1>0, <1>1, <2>1, LearnTable, ClientAssumption, Zenon
<1>3. v.peers[id].state = "Trying"
  <2>1. TableInv(t)
    BY <1>0, RelayTableInv, ClientAssumption
  <2> HIDE DEF t, key
  <2> QED  BY <2>1 DEF TableInv, Table, Peer
<1> HIDE DEF t, key, v
<1>4. /\ u \in Table /\ u.peers = v.peers /\ u.created = tab.created /\ MapsAgree(u)
      /\ \A i \in IDs : u.sessions[i] = IF i = id THEN NoSession ELSE v.sessions[i]
  BY <1>2, DiscardTable
<1> HIDE DEF u
<1>5. s \in Sess /\ tab.created \in Nat
  BY <1>0, <1>1, ClientAssumption DEF TableInv, Table, Sess
<1>6. fresh \in Session /\ fresh.target = id /\ fresh.nonce = n /\ fresh.key = key
  BY <1>2 DEF Session
<1> HIDE DEF fresh
<1>7. s \in 0 .. MaxSessions
  BY <1>5 DEF Sess
<1>8. /\ w \in Table /\ w.peers = u.peers /\ w.created = s
      /\ w.sess = [u.sess EXCEPT ![s] = fresh]
      /\ w.sessions = [u.sessions EXCEPT ![id] = s]
      /\ w.byNonce = [u.byNonce EXCEPT ![n] = s]
  <2> HIDE DEF s
  <2> QED  BY <1>4, <1>5, <1>6, <1>7 DEF Table
<1>9. /\ \A x \in Sess : w.sess[x] = IF x = s THEN fresh ELSE u.sess[x]
      /\ \A i \in IDs : w.sessions[i] = IF i = id THEN s ELSE u.sessions[i]
      /\ \A m \in Nonces : w.byNonce[m] = IF m = n THEN s ELSE u.byNonce[m]
      /\ \A i \in IDs : u.sessions[i] \in Sess \cup {NoSession}
      /\ \A m \in Nonces : u.byNonce[m] \in Sess \cup {NoSession}
  <2> HIDE DEF w, s
  <2> QED  BY <1>4, <1>8 DEF Table
<1> HIDE DEF w
<1>10. MapsAgree(w)
  <2>1. ASSUME NEW i \in IDs, w.sessions[i] # NoSession
        PROVE  w.sess[w.sessions[i]].target = i /\ w.sessions[i] <= w.created
    <3>1. CASE i = id
      BY <3>1, <1>5, <1>6, <1>8, <1>9
    <3>2. CASE i # id
      <4>1. /\ w.sessions[i] = u.sessions[i] /\ u.sessions[i] \in Sess
            /\ u.sess[u.sessions[i]].target = i /\ u.sessions[i] <= tab.created
        BY <2>1, <3>2, <1>9, <1>4 DEF MapsAgree
      <4>2. u.sessions[i] # s /\ u.sessions[i] <= s
        BY <4>1, <1>5 DEF Sess
      <4> QED  BY <4>1, <4>2, <1>8, <1>9
    <3> QED  BY <3>1, <3>2
  <2>2. ASSUME NEW m \in Nonces, w.byNonce[m] # NoSession
        PROVE  /\ w.sessions[w.sess[w.byNonce[m]].target] = w.byNonce[m]
               /\ w.sess[w.byNonce[m]].target \in IDs
               /\ w.byNonce[m] <= w.created
               /\ m \in {w.sess[w.byNonce[m]].nonce, w.sess[w.byNonce[m]].alt}
    <3>1. CASE m = n
      BY <3>1, <1>5, <1>6, <1>8, <1>9
    <3>2. CASE m # n
      <4> DEFINE y == u.byNonce[m]
      <4>1. /\ w.byNonce[m] = y /\ y \in Sess /\ u.sessions[u.sess[y].target] = y
            /\ u.sess[y].target \in IDs /\ y <= tab.created
            /\ m \in {u.sess[y].nonce, u.sess[y].alt}
        BY <2>2, <3>2, <1>9, <1>4 DEF MapsAgree
      <4> HIDE DEF y
      <4>2. y # s /\ y <= s /\ y # NoSession
        BY <4>1, <1>5 DEF Sess, NoSession
      <4>3. u.sess[y].target # id
        BY <4>1, <4>2, <1>4
      <4> QED  BY <4>1, <4>2, <4>3, <1>8, <1>9
    <3> QED  BY <3>1, <3>2
  <2>3. ASSUME NEW x \in Sess, x <= w.created
        PROVE  w.sess[x].key \notin {NoKey, ServerKey}
    <3>1. CASE x = s
      BY <3>1, <1>1, <1>6, <1>9
    <3>2. CASE x # s
      <4>1. x <= tab.created
        BY <2>3, <3>2, <1>5, <1>8 DEF Sess
      <4> QED  BY <3>2, <4>1, <1>4, <1>9 DEF MapsAgree
    <3> QED  BY <3>1, <3>2
  <2> QED  BY <2>1, <2>2, <2>3 DEF MapsAgree
<1>11. NoEntryTwice(w) /\ EntriesKeyed(w) /\ SessionsPending(w, {})
  BY <1>2, <1>3, <1>4, <1>8, <1>9 DEF NoEntryTwice, EntriesKeyed, SessionsPending, Active
<1>12. TableInv(tab')
  BY <1>1, <1>8, <1>10, <1>11, RebuildTable, ClientAssumption
<1>13. /\ thr' \in [Threads -> Thread]
       /\ \A y \in Threads : JobOK(thr'[y])
  <2>1. pc \in PC /\ pc \notin {"validate", "activate"}
    BY DEF PC
  <2>2. [id |-> id, sess |-> s, key |-> key] \in Job
    BY <1>2, <1>5 DEF Job
  <2>3. s \in Sess
    BY <1>5
  <2> HIDE DEF pc, s
  <2> QED  BY <1>0, <1>1, <2>1, <2>2, <2>3 DEF Go, Thread, JobOK
<1> QED  BY <1>0, <1>1, <1>12, <1>13, TableStep

(* handlePunchRelay scheduling its punch job; tryP2PByID; the end of a punch loop. *)
LEMMA AttemptIInv ==
  ASSUME ClientAssumption, IInv,
         Schedule \/ (\E id \in IDs : TryP2P(id)) \/ (\E s \in Sess : PunchEnds(s))
  PROVE  IInv'
<1>0. /\ TableInv(tab) /\ thr \in [Threads -> Thread] /\ punching \subseteq Sess
      /\ stale \subseteq Keys
      /\ \A y \in Threads : JobOK(thr[y])
  BY DEF IInv, TypeOK, Thread, JobsKeyed
<1>1. CASE Schedule
  <2>1. /\ thr' \in [Threads -> Thread]
        /\ \A y \in Threads : JobOK(thr'[y])
    BY <1>0, <1>1, IdleType, ClientAssumption DEF Schedule, JobOK
  <2>2. TableInv(tab')
    BY <1>0, <1>1, FailPunchTable, ClientAssumption DEF Schedule
  <2>3. punching' \subseteq Sess
    BY <1>0, <1>1 DEF Schedule, JobOK, At, Threads
  <2> QED  BY <1>0, <1>1, <2>1, <2>2, <2>3, TableStep DEF Schedule
<1>2. ASSUME NEW id \in IDs, TryP2P(id)
      PROVE  IInv'
  <2> DEFINE v == [tab EXCEPT !.peers[id].state = "Trying"]
  <2>1. tab' \in Rebuild(v) /\ tab.peers[id].state \in {"Discovered", "Failed"}
    BY <1>2 DEF TryP2P
  <2>3. /\ v \in Table /\ NoEntryTwice(v) /\ EntriesKeyed(v) /\ MapsAgree(v)
        /\ SessionsPending(v, {id}) /\ v.sessions = tab.sessions
        /\ \A i \in IDs : v.peers[i].state = IF i = id THEN "Trying" ELSE tab.peers[i].state
    <3>1. TableInv(tab)
      BY <1>0
    <3>3. v \in Table /\ NoEntryTwice(v) /\ EntriesKeyed(v) /\ MapsAgree(v) /\ SessionsPending(v, {id})
      BY <3>1, RestateTable
    <3>4. /\ v.sessions = tab.sessions
          /\ \A i \in IDs : v.peers[i].state = IF i = id THEN "Trying" ELSE tab.peers[i].state
      BY <3>1 DEF TableInv, Table, Peer
    <3> QED  BY <3>3, <3>4
  <2> HIDE DEF v
  <2>4. SessionsPending(v, {})
    BY <2>3 DEF SessionsPending
  <2>5. TableInv(tab')
    BY <2>1, <2>3, <2>4, RebuildTable, ClientAssumption
  <2> QED  BY <1>0, <1>2, <2>5, TableStep DEF TryP2P
<1>3. ASSUME NEW s \in Sess, PunchEnds(s)
      PROVE  IInv'
  <2>1. TableInv(tab')
    BY <1>0, <1>3, FailPunchTable, ClientAssumption DEF PunchEnds
  <2> QED  BY <1>0, <1>3, <2>1, TableStep DEF PunchEnds
<1> QED  BY <1>1, <1>2, <1>3

(* IpcSet configures a WireGuard peer. *)
LEMMA ConfigureType ==
  ASSUME wg \in [Keys -> WGPeer], NEW k
  PROVE  [wg EXCEPT ![k].up = TRUE] \in [Keys -> WGPeer]
<1>1. \A q \in Keys : wg[q] \in WGPeer
  OBVIOUS
<1>2. \A q \in Keys : [wg[q] EXCEPT !.up = TRUE] \in WGPeer
  BY <1>1 DEF WGPeer
<1> QED  BY <1>2

(* HandlePunch, and prepareDirectPeer with the queueing of the promotion. *)
LEMMA PunchIInv ==
  ASSUME ClientAssumption, IInv, Prepare \/ \E n \in Nonces : HandlePunch(n)
  PROVE  IInv'
<1>0. /\ TypeOK /\ TableInv(tab) /\ JobsKeyed /\ thr \in [Threads -> Thread]
      /\ punching \subseteq Sess /\ stale \subseteq Keys
     
      /\ \A y \in Threads : JobOK(thr[y])
  BY DEF IInv, TypeOK, Thread, JobsKeyed
<1>1. ASSUME NEW n \in Nonces, HandlePunch(n)
      PROVE  IInv'
  <2> DEFINE s == tab.byNonce[n]
             id == tab.sess[s].target
             job == [id |-> id, sess |-> s, key |-> tab.peers[id].key]
  <2>1. /\ s # NoSession /\ tab' = [tab EXCEPT !.sess[s].promoting = TRUE]
        /\ Go(Control, "prepare", job) /\ UNCHANGED <<punching, promoQ, stale, wg, route, learned>>
    BY <1>1, Zenon DEF HandlePunch
  <2>2. s \in Sess /\ id \in IDs
    <3>1. s # NoSession
      BY <2>1
    <3>2. tab \in Table /\ MapsAgree(tab)
      BY <1>0 DEF TableInv
    <3>3. \A m \in Nonces : tab.byNonce[m] \in Sess \cup {NoSession}
      BY <3>2 DEF Table
    <3> QED  BY <3>1, <3>2, <3>3, Zenon DEF MapsAgree
  <2>3. tab.peers[id].key \in Keys \cup {NoKey}
    <3>1. \A i \in IDs : tab.peers[i].key \in Keys \cup {NoKey}
      BY <1>0 DEF TableInv, Table, Peer
    <3> QED  BY <2>2, <3>1
  <2> HIDE DEF id, s
  <2>4. job \in Job /\ "prepare" \in PC
    BY <2>2, <2>3 DEF Job, PC
  <2>5. TableInv(tab')
    BY <1>0, <2>1, FlagTable
  <2> HIDE DEF job
  <2>6. thr' \in [Threads -> Thread] /\ \A y \in Threads : JobOK(thr'[y])
    BY <1>0, <2>1, <2>4 DEF Go, Thread, JobOK
  <2> QED  BY <1>0, <2>1, <2>5, <2>6, TableStep
<1>2. CASE Prepare
  <2> DEFINE job == thr[Control].job
  <2>1. job \in Job /\ tab' = tab /\ UNCHANGED <<punching, stale, learned>>
    BY <1>0, <1>2 DEF Prepare, Thread, Threads
  <2>2. \/ /\ job.key # NoKey /\ job.key # ServerKey
           /\ wg' = [wg EXCEPT ![job.key].up = TRUE] /\ route' = [route EXCEPT ![job.key] = "relay"]
           /\ promoQ' \subseteq promoQ \cup {job}
        \/ UNCHANGED <<wg, route, promoQ>>
    BY <1>2 DEF Prepare
  <2>3. Idle(Control) \/ Go(Control, "fail", job)
    BY <1>2 DEF Prepare
  <2> HIDE DEF job
  <2>4. thr' \in [Threads -> Thread] /\ \A y \in Threads : JobOK(thr'[y])
    <3>1. "fail" \in PC
      BY DEF PC
    <3>2. CASE Idle(Control)
      BY <1>0, <3>2, IdleType, ClientAssumption DEF JobOK
    <3>3. CASE Go(Control, "fail", job)
      BY <1>0, <2>1, <3>1, <3>3 DEF Go, Thread, JobOK
    <3> QED  BY <2>3, <3>2, <3>3
  <2>5. wg' \in [Keys -> WGPeer] /\ route' \in [Keys -> {"relay", "direct"}] /\ promoQ' \subseteq Job
    <3>1. [wg EXCEPT ![job.key].up = TRUE] \in [Keys -> WGPeer]
      BY <1>0, ConfigureType DEF TypeOK
    <3> QED  BY <1>0, <2>1, <2>2, <3>1 DEF TypeOK
  <2>6. /\ \A j \in promoQ' : j.key # ServerKey
        /\ ServerKey \in Keys => ~wg'[ServerKey].up /\ route'[ServerKey] = "relay"
    BY <1>0, <2>2 DEF TypeOK, JobsKeyed
  <2> QED  BY <1>0, <2>1, <2>4, <2>5, <2>6 DEF IInv, TypeOK, JobsKeyed, TableInv, KeysIndexed, Plain, Thread
<1> QED  BY <1>1, <1>2

(* validateAndPromote. *)
LEMMA PromotionIInv ==
  ASSUME ClientAssumption, IInv, NEW w \in Workers, Promotion(w)
  PROVE  IInv'
<1> DEFINE job == thr[w].job
<1>0. /\ TypeOK /\ TableInv(tab) /\ JobsKeyed /\ thr \in [Threads -> Thread]
      /\ punching \subseteq Sess /\ stale \subseteq Keys
     
      /\ \A y \in Threads : JobOK(thr[y])
  BY DEF IInv, TypeOK, Thread, JobsKeyed
<1>1. w \in Threads /\ job \in Job /\ JobOK(thr[w])
  BY <1>0 DEF Threads, Thread
<1>2. {"validate", "activate", "commit", "fail", "orphan", "remove"} \subseteq PC
  BY DEF PC
<1>3. CASE TakeJob(w)
  <2>1. PICK j \in promoQ : promoQ' = promoQ \ {j} /\ Go(w, "validate", j)
    BY <1>3 DEF TakeJob
  <2>2. UNCHANGED <<tab, punching, stale, wg, route, learned>>
    BY <1>3 DEF TakeJob
  <2>3. j \in Job /\ j.key # ServerKey
    BY <1>0 DEF TypeOK, JobsKeyed
  <2>4. thr' \in [Threads -> Thread] /\ \A y \in Threads : JobOK(thr'[y])
    BY <1>0, <1>2, <2>1, <2>3 DEF Go, Thread, JobOK
  <2> QED  BY <1>0, <2>1, <2>2, <2>4 DEF IInv, TypeOK, JobsKeyed, TableInv, KeysIndexed, Plain, Thread
<1>4. CASE Validated(w) \/ ValidationTimeout(w)
  <2>1. /\ \E pc \in {"activate", "orphan", "fail"} : Go(w, pc, job)
        /\ At(w, "validate") /\ UNCHANGED <<tab, punching, promoQ, stale, wg, route, learned>>
    BY <1>4 DEF Validated, ValidationTimeout
  <2>2. job.key # ServerKey
    BY <1>1, <2>1 DEF At, JobOK
  <2> HIDE DEF job
  <2>3. thr' \in [Threads -> Thread] /\ \A y \in Threads : JobOK(thr'[y])
    BY <1>0, <1>1, <1>2, <2>1, <2>2 DEF Go, Thread, JobOK
  <2> QED  BY <1>0, <2>1, <2>3, TableStep
<1>5. CASE Activate(w)
  <2>1. /\ At(w, "activate") /\ UNCHANGED <<tab, punching, promoQ, stale, learned>>
        /\ \E pc \in {"commit", "fail"} : Go(w, pc, job)
        /\ \/ /\ wg' = [wg EXCEPT ![job.key].up = TRUE]
              /\ route' = [route EXCEPT ![job.key] = "direct"]
           \/ UNCHANGED <<wg, route>>
    BY <1>5 DEF Activate
  <2>2. job.key # ServerKey
    BY <1>1, <2>1 DEF At, JobOK
  <2> HIDE DEF job
  <2>3. thr' \in [Threads -> Thread] /\ \A y \in Threads : JobOK(thr'[y])
    BY <1>0, <1>1, <1>2, <2>1 DEF Go, Thread, JobOK
  <2>4. wg' \in [Keys -> WGPeer] /\ route' \in [Keys -> {"relay", "direct"}]
    <3>1. [wg EXCEPT ![job.key].up = TRUE] \in [Keys -> WGPeer]
      BY <1>0, ConfigureType DEF TypeOK
    <3> QED  BY <1>0, <2>1, <3>1 DEF TypeOK
  <2>5. ServerKey \in Keys => ~wg'[ServerKey].up /\ route'[ServerKey] = "relay"
    BY <1>0, <2>1, <2>2 DEF TypeOK, JobsKeyed
  <2> QED  BY <1>0, <2>1, <2>3, <2>4, <2>5 DEF IInv, TypeOK, JobsKeyed, TableInv, KeysIndexed, Plain, Thread
<1>6. CASE Commit(w)
  <2> DEFINE v == [tab EXCEPT !.peers[job.id].state = "Established"]
  <2>1. /\ UNCHANGED <<punching, promoQ, stale, wg, route, learned>>
        /\ \/ tab' \in Rebuild(DiscardSessions(v, {job.id})) /\ Idle(w)
           \/ tab' = [tab EXCEPT !.sess[job.sess].done = TRUE] /\ Go(w, "remove", job)
    BY <1>6 DEF Commit
  <2>2. thr' \in [Threads -> Thread] /\ \A y \in Threads : JobOK(thr'[y])
    <3>1. CASE Idle(w)
      BY <1>0, <3>1, IdleType, ClientAssumption DEF JobOK
    <3> HIDE DEF job
    <3>2. CASE Go(w, "remove", job)
      BY <1>0, <1>1, <1>2, <3>2 DEF Go, Thread, JobOK
    <3> QED  BY <2>1, <3>1, <3>2
  <2>3. TableInv(tab')
    <3> HIDE DEF job
    <3>1. CASE tab' = [tab EXCEPT !.sess[job.sess].done = TRUE]
      BY <1>0, <3>1, FlagTable
    <3>2. CASE tab' \in Rebuild(DiscardSessions(v, {job.id}))
      <4>1. v \in Table /\ NoEntryTwice(v) /\ EntriesKeyed(v) /\ MapsAgree(v)
            /\ SessionsPending(v, {job.id})
        BY <1>0, RestateTable
      <4> HIDE DEF v
      <4> QED  BY <3>2, <4>1, SettleTable, ClientAssumption
    <3> QED  BY <2>1, <3>1, <3>2
  <2> QED  BY <1>0, <2>1, <2>2, <2>3, TableStep
<1> QED  BY <1>3, <1>4, <1>5, <1>6 DEF Promotion

(* failDirectPromotion, dropOrphanCandidate, RemovePeer and restoreRelayRoute. *)
LEMMA CleanupIInv ==
  ASSUME ClientAssumption, IInv, NEW x \in Threads, Cleanup(x)
  PROVE  IInv'
<1> DEFINE job == thr[x].job
<1>0. /\ TypeOK /\ TableInv(tab) /\ JobsKeyed /\ thr \in [Threads -> Thread]
      /\ punching \subseteq Sess /\ stale \subseteq Keys
     
      /\ \A y \in Threads : JobOK(thr[y])
  BY DEF IInv, TypeOK, Thread, JobsKeyed
<1>1. job \in Job /\ JobOK(thr[x])
  BY <1>0 DEF Thread
<1>2. {"orphan", "remove", "restore", "reroute", "schedule"} \subseteq PC
  BY DEF PC
<1>3. ASSUME \/ Idle(x) \/ Go(x, "remove", job) \/ Go(x, "orphan", job) \/ Go(x, "restore", job)
             \/ job.sess \in Sess /\ (Go(x, "reroute", job) \/ Go(x, "schedule", job))
      PROVE  thr' \in [Threads -> Thread] /\ \A y \in Threads : JobOK(thr'[y])
  <2>1. CASE Idle(x)
    BY <1>0, <2>1, IdleType, ClientAssumption DEF JobOK
  <2> HIDE DEF job
  <2>2. CASE Go(x, "remove", job) \/ Go(x, "orphan", job) \/ Go(x, "restore", job)
    BY <1>0, <1>1, <1>2, <2>2 DEF Go, Thread, JobOK
  <2>3. CASE job.sess \in Sess /\ (Go(x, "reroute", job) \/ Go(x, "schedule", job))
    BY <1>0, <1>1, <1>2, <2>3 DEF Go, Thread, JobOK
  <2> QED  BY <1>3, <2>1, <2>2, <2>3
<1>4. CASE FailDirectPromotion(x)
  <2>1. /\ UNCHANGED <<punching, promoQ, stale, wg, route, learned>>
        /\ Idle(x) \/ Go(x, "remove", job) \/ Go(x, "orphan", job)
        /\ \/ tab' \in Rebuild(DiscardSessions(Fails(tab, job.id), {job.id}))
           \/ tab' = [tab EXCEPT !.sess[job.sess].done = TRUE]
    BY <1>4 DEF FailDirectPromotion
  <2>2. TableInv(tab')
    <3> HIDE DEF job
    <3>1. CASE tab' \in Rebuild(DiscardSessions(Fails(tab, job.id), {job.id}))
      BY <1>0, <3>1, FailTable, ClientAssumption
    <3>2. CASE tab' = [tab EXCEPT !.sess[job.sess].done = TRUE]
      BY <1>0, <3>2, FlagTable
    <3> QED  BY <2>1, <3>1, <3>2
  <2> QED  BY <1>0, <1>3, <2>1, <2>2, TableStep
<1>5. CASE DropOrphanCandidate(x)
  <2>1. /\ UNCHANGED <<tab, punching, promoQ, stale, wg, route, learned>>
        /\ Idle(x) \/ Go(x, "remove", job)
    BY <1>5 DEF DropOrphanCandidate
  <2>2. TableInv(tab')
    BY <1>0, <2>1
  <2> QED  BY <1>0, <1>3, <2>1, <2>2, TableStep
<1>6. CASE Remove(x)
  <2>1. /\ UNCHANGED <<tab, punching, promoQ, stale, learned>>
        /\ wg' = [wg EXCEPT ![job.key] = NoWGPeer] /\ route' = [route EXCEPT ![job.key] = "relay"]
        /\ \/ Go(x, "restore", job)
           \/ thr[x].pc = "teardown" /\ Go(x, "reroute", job)
    <3>1. CASE At(x, "remove")
      BY <1>6, <3>1 DEF Remove
    <3>2. CASE ~At(x, "remove")
      <4>1. thr[x].pc = "teardown"
        BY <1>6, <3>2 DEF Remove, At
      <4> QED  BY <1>6, <3>2, <4>1 DEF Remove
    <3> QED  BY <3>1, <3>2
  <2>2. NoWGPeer \in WGPeer /\ NoWGPeer.up = FALSE
    BY DEF NoWGPeer, WGPeer
  <2>3. wg' \in [Keys -> WGPeer] /\ route' \in [Keys -> {"relay", "direct"}]
        /\ (ServerKey \in Keys => ~wg'[ServerKey].up /\ route'[ServerKey] = "relay")
    <3> HIDE DEF job
    <3> QED  BY <1>0, <2>1, <2>2 DEF TypeOK, JobsKeyed
  <2>4. thr' \in [Threads -> Thread] /\ \A y \in Threads : JobOK(thr'[y])
    BY <1>1, <1>3, <2>1 DEF JobOK
  <2> QED  BY <1>0, <2>1, <2>3, <2>4 DEF IInv, TypeOK, JobsKeyed, TableInv, KeysIndexed, Plain, Thread
<1>7. CASE Restore(x)
  <2>1. /\ UNCHANGED <<tab, punching, promoQ, stale, wg, learned>>
        /\ route' = [route EXCEPT ![job.key] = "relay"]
        /\ \/ Idle(x)
           \/ thr[x].pc = "reroute" /\ Go(x, "schedule", job)
    <3>1. CASE At(x, "restore")
      BY <1>7, <3>1 DEF Restore
    <3>2. CASE ~At(x, "restore")
      <4>1. thr[x].pc = "reroute"
        BY <1>7, <3>2 DEF Restore, At
      <4> QED  BY <1>7, <3>2, <4>1 DEF Restore
    <3> QED  BY <3>1, <3>2
  <2>2. /\ route' \in [Keys -> {"relay", "direct"}]
        /\ (ServerKey \in Keys => route'[ServerKey] = "relay")
    <3> HIDE DEF job
    <3> QED  BY <1>0, <2>1 DEF TypeOK, JobsKeyed
  <2>3. thr' \in [Threads -> Thread] /\ \A y \in Threads : JobOK(thr'[y])
    BY <1>1, <1>3, <2>1 DEF JobOK
  <2> QED  BY <1>0, <2>1, <2>2, <2>3 DEF IInv, TypeOK, JobsKeyed, TableInv, KeysIndexed, Plain, Thread
<1> QED  BY <1>4, <1>5, <1>6, <1>7 DEF Cleanup

(* One pass of maintenanceLoop over the table. *)
LEMMA PassIInv ==
  ASSUME ClientAssumption, IInv,
         NEW forgotten \in SUBSET IDs, NEW stalled \in SUBSET IDs, NEW dead \in SUBSET IDs,
         Pass(forgotten, stalled, dead),
         UNCHANGED <<thr, punching, promoQ, wg, route, learned>>
  PROVE  IInv'
<1> DEFINE fail == stalled \cup dead
           t == DiscardSessions(tab, forgotten \cup stalled)
           P == [id \in IDs |-> IF id \in forgotten THEN NoPeer
                               ELSE IF id \in fail THEN [t.peers[id] EXCEPT !.state = "Failed"]
                               ELSE t.peers[id]]
           u == [t EXCEPT !.peers = P]
<1>0. /\ TableInv(tab) /\ thr \in [Threads -> Thread] /\ punching \subseteq Sess
     
      /\ \A y \in Threads : JobOK(thr[y])
  BY DEF IInv, TypeOK, Thread, JobsKeyed
<1>1. /\ tab \in Table /\ MapsAgree(tab) /\ KeysIndexed(tab) /\ EntriesKeyed(tab)
      /\ SessionsPending(tab, {}) /\ \A id \in IDs : tab.peers[id] \in Peer
  BY <1>0 DEF TableInv, Table
<1>2. tab' = tab \/ tab' \in Rebuild(u)
  BY DEF Pass
<1>3. stale' \subseteq Keys
  BY <1>1 DEF Pass, Peer
<1>4. /\ t \in Table /\ t.peers = tab.peers /\ MapsAgree(t)
      /\ \A id \in IDs : t.sessions[id] = IF id \in forgotten \cup stalled THEN NoSession ELSE tab.sessions[id]
  BY <1>1, DiscardTable
<1>5. NoEntryTwice(tab)
  BY <1>1, IndexedUnique
<1> HIDE DEF t
<1>6. P \in [IDs -> Peer]
  BY <1>1, <1>4 DEF Peer, NoPeer, States
<1>7. \A id \in IDs : /\ P[id].key = IF id \in forgotten THEN NoKey ELSE tab.peers[id].key
                      /\ P[id].state = IF id \in forgotten THEN "None"
                                       ELSE IF id \in fail THEN "Failed" ELSE tab.peers[id].state
  BY <1>1, <1>4 DEF Peer, NoPeer
<1> HIDE DEF P
<1>8. u \in Table /\ MapsAgree(u) /\ u.peers = P /\ u.sessions = t.sessions
  BY <1>4, <1>6, PeersOnly
<1> HIDE DEF u
<1>9. NoEntryTwice(u) /\ EntriesKeyed(u)
  BY <1>1, <1>5, <1>7, <1>8 DEF NoEntryTwice, Plain, EntriesKeyed
<1>10. SessionsPending(u, {})
  BY <1>1, <1>4, <1>7, <1>8 DEF SessionsPending
<1>11. \A r \in Rebuild(u) : TableInv(r)
  BY <1>8, <1>9, <1>10, RebuildTable, ClientAssumption
<1>12. TableInv(tab')
  BY <1>0, <1>2, <1>11
<1> QED  BY <1>0, <1>3, <1>12, TableStep

(* maintenanceLoop. *)
LEMMA MaintenanceIInv ==
  ASSUME ClientAssumption, IInv, MaintenancePass \/ MaintenanceTeardown
  PROVE  IInv'
<1>1. CASE MaintenancePass
  <2>1. PICK forgotten \in SUBSET {id \in IDs : Known(tab, id) /\ ~Active(tab, id)},
             stalled \in SUBSET {id \in IDs : tab.peers[id].state = "Trying"},
             dead \in SUBSET {id \in IDs : tab.peers[id].state = "Established"} :
               Pass(forgotten, stalled, dead)
    BY <1>1 DEF MaintenancePass
  <2>2. UNCHANGED <<thr, punching, promoQ, wg, route, learned>>
    BY <1>1 DEF MaintenancePass
  <2>3. forgotten \in SUBSET IDs /\ stalled \in SUBSET IDs /\ dead \in SUBSET IDs
    OBVIOUS
  <2> QED  BY <2>1, <2>2, <2>3, PassIInv, ClientAssumption
<1>2. CASE MaintenanceTeardown
  <2>1. PICK k \in stale : stale' = stale \ {k} /\ Go(Maintenance, "remove", [NoJob EXCEPT !.key = k])
    BY <1>2 DEF MaintenanceTeardown
  <2>2. UNCHANGED <<tab, punching, promoQ, wg, route, learned>>
    BY <1>2 DEF MaintenanceTeardown
  <2>3. /\ TableInv(tab) /\ thr \in [Threads -> Thread] /\ punching \subseteq Sess
        /\ stale \subseteq Keys
        /\ \A y \in Threads : JobOK(thr[y])
    BY DEF IInv, TypeOK, Thread, JobsKeyed
  <2>4. [NoJob EXCEPT !.key = k] \in Job /\ "remove" \in PC
    BY <2>3 DEF NoJob, Job, PC, NoSession
  <2>5. thr' \in [Threads -> Thread] /\ \A y \in Threads : JobOK(thr'[y])
    BY <2>1, <2>3, <2>4 DEF Go, Thread, JobOK
  <2>6. TableInv(tab') /\ stale' \subseteq Keys
    BY <2>1, <2>2, <2>3
  <2> QED  BY <2>2, <2>3, <2>5, <2>6, TableStep
<1> QED  BY <1>1, <1>2

(* A WireGuard handshake. *)
LEMMA HandshakeIInv ==
  ASSUME IInv, NEW k \in Keys, Handshake(k)
  PROVE  IInv'
<1>1. Awaiting \in SUBSET Sess
  BY DEF Awaiting
<1>2. wg \in [Keys -> WGPeer]
  BY DEF IInv, TypeOK
<1>3. wg' = [wg EXCEPT ![k].shook = TRUE, ![k].fresh = Awaiting]
      /\ UNCHANGED <<tab, thr, punching, promoQ, stale, route, learned>>
  BY DEF Handshake
<1>4. \A A \in SUBSET Sess : [wg EXCEPT ![k].shook = TRUE, ![k].fresh = A] \in [Keys -> WGPeer]
  BY <1>2 DEF WGPeer
<1>5. wg' \in [Keys -> WGPeer]
  BY <1>1, <1>3, <1>4
<1>6. \A q \in Keys : wg'[q].up = wg[q].up
  BY <1>2, <1>3 DEF WGPeer
<1> QED  BY <1>3, <1>5, <1>6 DEF IInv, TypeOK, JobsKeyed, TableInv, KeysIndexed, Plain
-----------------------------------------------------------------------------
(* The initial table satisfies the invariant. *)
LEMMA InitIInv == ClientAssumption /\ Init => IInv
<1> SUFFICES ASSUME ClientAssumption, Init PROVE IInv
  OBVIOUS
<1>1. NoPeer \in Peer /\ NoSess \in Session /\ NoJob \in Job /\ NoWGPeer \in WGPeer
      /\ "idle" \in PC /\ 0 \in 0 .. MaxSessions
  BY ClientAssumption
     DEF ClientAssumption, NoPeer, Peer, States, NoSess, Session, NoJob, Job, NoSession,
         NoWGPeer, WGPeer, PC
<1>2. tab \in Table
  BY <1>1 DEF Init, Table
<1>3. TypeOK
  BY <1>1, <1>2 DEF Init, TypeOK
<1>4. /\ \A id \in IDs : tab.peers[id].key = NoKey /\ tab.peers[id].state = "None"
                         /\ tab.sessions[id] = NoSession
      /\ \A n \in Nonces : tab.byNonce[n] = NoSession
      /\ \A k \in Keys : tab.destinations[k] = NoID
  BY DEF Init, NoPeer
<1>5. TableInv(tab)
  <2>1. \A s \in Sess : ~(s <= tab.created)
    BY DEF Init, Sess
  <2> QED  BY <1>2, <1>4, <2>1
              DEF TableInv, KeysIndexed, Plain, EntriesKeyed, MapsAgree, SessionsPending, ServerHidden
<1>6. JobsKeyed
  BY DEF Init, JobsKeyed, JobOK, NoWGPeer
<1> QED  BY <1>3, <1>5, <1>6 DEF IInv

(* Every step of the client preserves the invariant. *)
LEMMA StepIInv == ClientAssumption /\ IInv /\ [Next]_vars => IInv'
<1> SUFFICES ASSUME ClientAssumption, IInv, [Next]_vars PROVE IInv'
  OBVIOUS
<1>1. /\ \A r \in Relays : r[1] \in IDs /\ r[2] \in Keys \cup {NoKey}
      /\ \A r \in Lists : r[1] \in IDs /\ r[2] \in Keys \cup {NoKey}
  BY ClientAssumption DEF ClientAssumption
<1>2. CASE HandleMessage
  <2>1. CASE ListBegin \/ ListEnd
    BY <2>1, ListIInv, ClientAssumption
  <2>2. ASSUME NEW r \in Lists, ListEntry(r[1], r[2])
        PROVE  IInv'
    BY <1>1, <2>2, ListIInv, ClientAssumption
  <2>3. ASSUME NEW r \in Relays, RelayIgnored(r[1], r[2]) \/ RelayRefused(r[1], r[2])
        PROVE  IInv'
    BY <1>1, <2>3, RelayIInv, ClientAssumption
  <2>4. ASSUME NEW r \in Relays, NEW n \in Nonces, RelayJoins(r[1], r[2], n)
        PROVE  IInv'
    BY <1>1, <2>4, JoinIInv, ClientAssumption
  <2>5. ASSUME NEW r \in Relays, NEW n \in Nonces, RelayStarts(r[1], r[2], n)
        PROVE  IInv'
    BY <1>1, <2>5, RelayStartsIInv, ClientAssumption
  <2>6. CASE Schedule
    BY <2>6, AttemptIInv, ClientAssumption
  <2> QED  BY <1>2, <2>1, <2>2, <2>3, <2>4, <2>5, <2>6 DEF HandleMessage
<1>3. CASE Prepare \/ \E n \in Nonces : HandlePunch(n)
  BY <1>3, PunchIInv, ClientAssumption
<1>4. CASE (\E id \in IDs : TryP2P(id)) \/ (\E s \in Sess : PunchEnds(s))
  BY <1>4, AttemptIInv, ClientAssumption
<1>5. CASE \E w \in Workers : Promotion(w)
  BY <1>5, PromotionIInv, ClientAssumption
<1>6. CASE \E t \in Threads : Cleanup(t)
  BY <1>6, CleanupIInv, ClientAssumption
<1>7. CASE MaintenancePass \/ MaintenanceTeardown
  BY <1>7, MaintenanceIInv, ClientAssumption
<1>8. CASE \E k \in Keys : Handshake(k)
  BY <1>8, HandshakeIInv
<1>9. CASE UNCHANGED vars
  BY <1>9 DEF vars, IInv, TypeOK, JobsKeyed, TableInv, KeysIndexed, Plain
<1> QED  BY <1>2, <1>3, <1>4, <1>5, <1>6, <1>7, <1>8, <1>9 DEF Next

(* The peer table is consistent whatever the coordinator sends, however the   *)
(* threads interleave and whatever fails, entries without a key included:     *)
(* types hold, a device has one entry (a key learned by a joining relay       *)
(* excepted), nonces lead only to current sessions and the coordinator's own  *)
(* key is never negotiated with or given a WireGuard peer.                    *)
THEOREM TableConsistent ==
  Spec => [](TypeOK /\ OneEntryPerKey /\ SessionsIndexed /\ CoordinatorNeverDirect)
<1>1. Init => IInv
  BY InitIInv, ClientAssumption
<1>2. IInv /\ [Next]_vars => IInv'
  BY StepIInv, ClientAssumption
<1>3. IInv => TypeOK /\ OneEntryPerKey /\ SessionsIndexed /\ CoordinatorNeverDirect
  <2> SUFFICES ASSUME IInv
               PROVE  TypeOK /\ OneEntryPerKey /\ SessionsIndexed /\ CoordinatorNeverDirect
    OBVIOUS
  <2>1. TypeOK /\ TableInv(tab) /\ JobsKeyed
    BY DEF IInv
  <2>2. OneEntryPerKey
    BY <2>1, IndexedUnique DEF TableInv, NoEntryTwice, Plain, OneEntryPerKey
  <2>3. SessionsIndexed
    BY <2>1 DEF TableInv, MapsAgree, SessionsPending, SessionsIndexed
  <2>4. CoordinatorNeverDirect
    <3>1. tab.created \in Nat
      BY <2>1, ClientAssumption DEF TableInv, Table, ClientAssumption
    <3>2. \A s \in Sess : tab.created >= s => tab.sess[s].key # ServerKey
      BY <2>1, <3>1 DEF TableInv, MapsAgree, Sess
    <3> QED  BY <2>1, <3>2 DEF TableInv, ServerHidden, JobsKeyed, CoordinatorNeverDirect
  <2> QED  BY <2>1, <2>2, <2>3, <2>4
<1> QED  BY <1>1, <1>2, <1>3, PTL DEF Spec

(* A device has one entry: no sequence of peer lists, relays and              *)
(* renumberings leaves a key with two IDs (renumberPeerLocked), but for a key *)
(* that an entry learned from a relay joining its attempt (JoinsIndexed).     *)
COROLLARY OneEntry == Spec => []OneEntryPerKey
BY TableConsistent, PTL

(* The coordinator's own key is never negotiated with, published to the       *)
(* packet path or given a WireGuard peer of its own, although a keyless list  *)
(* can give it to an active entry (tryP2PByID, handlePunchRelay,              *)
(* prepareDirectPeer and rebuildIndexesLocked each refuse it).                *)
COROLLARY CoordinatorHidden == Spec => []CoordinatorNeverDirect
BY TableConsistent, PTL
-----------------------------------------------------------------------------
(* The published indexes *)

\* rebuildIndexesLocked changes the indexes alone, to what the entries say.
LEMMA RebuildAgain ==
  ASSUME NEW t, NEW u \in Rebuild(t), u \in Table
  PROVE  /\ u.peers = t.peers /\ u.sessions = t.sessions /\ u.sess = t.sess
         /\ u.created = t.created
         /\ \A k \in Keys : Exact(u, k)
<1> DEFINE X == Indexes([k \in Keys |-> Entry(t, k)])
           D == Indexes([k \in Keys |-> Offered(t, k)])
<1>0. u \in UNION {{[t EXCEPT !.keyIndex = x, !.destinations = d] : x \in X} : d \in D}
  BY DEF Rebuild
<1>5. /\ \A x \in X : \A k \in Keys : x[k] \in Pick(Entry(t, k))
      /\ \A d \in D : \A k \in Keys : d[k] \in Pick(Offered(t, k))
  BY DEF Indexes
<1> HIDE DEF X, D
<1>1. PICK d \in D : u \in {[t EXCEPT !.keyIndex = x, !.destinations = d] : x \in X}
  BY <1>0, Zenon
<1>2. PICK x \in X : u = [t EXCEPT !.keyIndex = x, !.destinations = d]
  BY <1>1, Zenon
<1>3. DOMAIN u = DOMAIN t
  BY <1>2
<1>4. DOMAIN u = {"peers", "sessions", "sess", "created", "byNonce", "keyIndex", "destinations"}
  BY DEF Table
<1>6. /\ u.peers = t.peers /\ u.sessions = t.sessions /\ u.sess = t.sess
      /\ u.created = t.created /\ u.keyIndex = x /\ u.destinations = d
  BY <1>2, <1>3, <1>4
<1>7. \A k : Entry(u, k) = Entry(t, k) /\ Offered(u, k) = Offered(t, k)
  BY <1>6 DEF Entry, Offered, Active
<1> QED  BY <1>5, <1>6, <1>7 DEF Exact

\* The indexes are as exact about a key as in a table that has the same entries
\* for it and the same indexes.
LEMMA SameExact ==
  ASSUME NEW t, NEW u, NEW q, Exact(t, q),
         u.keyIndex[q] = t.keyIndex[q], u.destinations[q] = t.destinations[q],
         \A i \in IDs : \/ u.peers[i] = t.peers[i]
                        \/ u.peers[i].key # q /\ t.peers[i].key # q
  PROVE  Exact(u, q)
<1>1. Entry(u, q) = Entry(t, q) /\ Offered(u, q) = Offered(t, q)
  BY DEF Entry, Offered, Active
<1> QED  BY <1>1 DEF Exact

\* What a renumbering does to the entries.
LEMMA RenumberPeers ==
  ASSUME ClientAssumption, NEW t, TableInv(t), NEW k \in Keys \cup {NoKey}, NEW id \in IDs
  PROVE  LET r == Renumber(t, k, id)
             old == t.keyIndex[k]
         IN \/ /\ r.peers = t.peers /\ r.sessions = t.sessions /\ r.sess = t.sess
               /\ r.created = t.created /\ r.destinations = t.destinations
               /\ \A q \in Keys \ {k} : r.keyIndex[q] = t.keyIndex[q]
               /\ r = t \/ (~Renumbers(t, k, id) /\ k \in Keys /\ old \in IDs \ {id})
            \/ /\ k \in Keys /\ old \in IDs \ {id} /\ t.peers[old].key = k
               /\ \A i \in IDs \ {id, old} : r.peers[i] = t.peers[i]
               /\ r.peers[old] = NoPeer
               /\ r.peers[id].key = k
               /\ r.peers[id].state = IF t.peers[old].state = "Trying" THEN "Discovered"
                                      ELSE t.peers[old].state
               /\ r.sessions[id] = NoSession
               /\ r.destinations = t.destinations
               /\ \A q \in Keys : r.keyIndex[q] = IF q = k THEN id ELSE t.keyIndex[q]
<1> DEFINE r == Renumber(t, k, id)
           old == t.keyIndex[k]
<1>0. t \in Table /\ MapsAgree(t) BY DEF TableInv
<1>1. CASE k = NoKey \/ old \in {NoID, id}
  <2>1. r = t BY <1>1 DEF Renumber
  <2> QED BY <2>1
<1>2. CASE ~(k = NoKey \/ old \in {NoID, id}) /\ ~Renumbers(t, k, id)
  <2>1. r = [t EXCEPT !.keyIndex[k] = NoID] BY <1>2 DEF Renumber
  <2>2. k \in Keys /\ old \in IDs \ {id} BY <1>0, <1>2 DEF Table
  <2> QED BY <1>0, <1>2, <2>1, <2>2 DEF Table
<1>3. CASE ~(k = NoKey \/ old \in {NoID, id}) /\ Renumbers(t, k, id)
  <2> DEFINE u == DiscardSessions(t, {old, id})
             moved == IF t.peers[old].state = "Trying"
                      THEN [t.peers[old] EXCEPT !.state = "Discovered"] ELSE t.peers[old]
             P == [t.peers EXCEPT ![old] = NoPeer, ![id] = moved]
             I == [t.keyIndex EXCEPT ![k] = id]
  <2>1. k \in Keys /\ old \in IDs \ {id} /\ t.peers[old].key = k
    BY <1>0, <1>3 DEF Renumbers, Table
  <2>2. /\ u \in Table /\ u.keyIndex = t.keyIndex /\ u.destinations = t.destinations
        /\ u.sessions[id] = NoSession
    BY <1>0, DiscardTable
  <2>3. r = [u EXCEPT !.peers = P, !.keyIndex[k] = id] BY <1>3 DEF Renumber
  <2>4. moved.key = k /\ moved.state = IF t.peers[old].state = "Trying" THEN "Discovered"
                                       ELSE t.peers[old].state
    BY <1>0, <2>1 DEF Table, Peer
  <2> HIDE DEF u, moved
  <2>5. /\ P[id] = moved /\ P[old] = NoPeer
        /\ \A i \in IDs \ {id, old} : P[i] = t.peers[i]
    BY <1>0, <2>1 DEF Table
  <2>6. \A q \in Keys : I[q] = IF q = k THEN id ELSE t.keyIndex[q]
    BY <1>0, <2>1 DEF Table
  <2> HIDE DEF P
  <2>7. r.peers = P /\ r.keyIndex = I /\ r.destinations = t.destinations /\ r.sessions = u.sessions
    BY <2>2, <2>3 DEF Table
  <2> HIDE DEF r, I
  <2> QED BY <2>1, <2>2, <2>4, <2>5, <2>6, <2>7 DEF r
<1> QED BY <1>1, <1>2, <1>3

\* A relay that finds an established path or an attempt leaves fresh indexes
\* fresh, but for a learned key: what it renumbers is an established path, which
\* is no destination before or after.
LEMMA RelayExact ==
  ASSUME ClientAssumption, TableInv(tab), \A q \in Keys \ learned : Exact(tab, q), NEW id \in IDs,
         NEW k \in Keys \cup {NoKey},
         \/ RelayTable(id, k).peers[id].state = "Established"
         \/ RelayTable(id, k).sessions[id] # NoSession
  PROVE  \A q \in Keys \ learned : Exact(RelayTable(id, k), q)
<1> DEFINE own == k # NoKey /\ tab.peers[id].key \in {NoKey, k}
           r == Renumber(tab, k, id)
           w == IF own THEN r ELSE tab
           old == tab.keyIndex[k]
           t == RelayTable(id, k)
           new == [key |-> NoKey, state |-> "Discovered", capable |-> TRUE]
<1>0. tab \in Table /\ NoEntryTwice(tab)
  BY IndexedUnique DEF TableInv
<1>1. t = IF Known(w, id) THEN w ELSE [w EXCEPT !.peers[id] = new]
  BY DEF RelayTable
<1>2. TableInv(w)
  BY RenumberTable, ClientAssumption
<1>3. \/ w = tab
      \/ own /\ w = r
  OBVIOUS
<1>4. t = w
  <2> HIDE DEF w, own
  <2>1. CASE Known(w, id)
    BY <1>1, <2>1
  <2>2. CASE ~Known(w, id)
    <3>1. t.peers[id] = new /\ t.sessions = w.sessions
      BY <1>1, <1>2, <2>2 DEF TableInv, Table
    <3>2. w.sessions[id] = NoSession
      BY <1>2, <2>2 DEF TableInv, SessionsPending, Known
    <3> QED  BY <3>1, <3>2
  <2> QED  BY <2>1, <2>2
<1>5. CASE w = tab
  BY <1>4, <1>5
<1>6. CASE own /\ w = r
  <2> DEFINE Same == /\ r.peers = tab.peers /\ r.destinations = tab.destinations
                     /\ \A q \in Keys \ {k} : r.keyIndex[q] = tab.keyIndex[q]
                     /\ r = tab \/ (~Renumbers(tab, k, id) /\ k \in Keys /\ old \in IDs \ {id})
             Moved == /\ k \in Keys /\ old \in IDs \ {id} /\ tab.peers[old].key = k
                      /\ \A i \in IDs \ {id, old} : r.peers[i] = tab.peers[i]
                      /\ r.peers[old] = NoPeer /\ r.peers[id].key = k
                      /\ r.peers[id].state = IF tab.peers[old].state = "Trying" THEN "Discovered"
                                             ELSE tab.peers[old].state
                      /\ r.sessions[id] = NoSession
                      /\ r.destinations = tab.destinations
                      /\ \A q \in Keys : r.keyIndex[q] = IF q = k THEN id ELSE tab.keyIndex[q]
  <2>1. Same \/ Moved
    BY RenumberPeers, ClientAssumption
  <2> HIDE DEF r
  <2>2. t = r
    BY <1>4, <1>6
  <2>3. CASE Same
    <3>1. CASE r = tab
      BY <2>2, <3>1
    <3>2. CASE r # tab
      <4>1. k \in Keys /\ old \in IDs \ {id} /\ tab.peers[old].key # k
        BY <2>3, <3>2, ClientAssumption DEF Renumbers, ClientAssumption
      <4>2. k \in learned
        BY <4>1, ClientAssumption DEF Exact, Entry, Pick, ClientAssumption
      <4>3. ASSUME NEW q \in Keys \ learned
            PROVE  Exact(r, q)
        BY <2>3, <4>2, SameExact
      <4> QED  BY <2>2, <4>3
    <3> QED  BY <3>1, <3>2
  <2>4. CASE Moved
    <3>1. tab.peers[old].state = "Established" /\ r.peers[id].state = "Established"
      BY <2>2, <2>4
    <3>2. ASSUME NEW q \in Keys \ learned, q # k
          PROVE  Exact(r, q)
      <4>1. ASSUME NEW i \in IDs
            PROVE  r.peers[i] = tab.peers[i] \/ (r.peers[i].key # q /\ tab.peers[i].key # q)
        <5>1. CASE i \notin {id, old}
          BY <2>4, <5>1
        <5>2. CASE i = id
          BY <1>6, <2>4, <3>2, <5>2, ClientAssumption DEF ClientAssumption
        <5>3. CASE i = old
          BY <2>4, <3>2, <5>3, ClientAssumption DEF ClientAssumption, NoPeer
        <5> QED  BY <5>1, <5>2, <5>3
      <4> QED  BY <2>4, <3>2, <4>1, SameExact
    <3>3. ASSUME k \notin learned
          PROVE  Exact(r, k)
      <4>1. \A i \in IDs : tab.peers[i].key = k => i = old
        BY <1>0, <2>4, <3>3, ClientAssumption DEF NoEntryTwice, Plain, ClientAssumption
      <4>2. Offered(tab, k) = {}
        BY <3>1, <4>1 DEF Offered, Entry, Active
      <4>3. tab.destinations[k] = NoID
        BY <2>4, <3>3, <4>2 DEF Exact, Pick
      <4>4. \A i \in IDs : r.peers[i].key = k <=> i = id
        <5>1. ASSUME NEW i \in IDs
              PROVE  r.peers[i].key = k <=> i = id
          <6>1. CASE i \notin {id, old}
            BY <2>4, <4>1, <6>1
          <6>2. CASE i = id
            BY <2>4, <6>2
          <6>3. CASE i = old
            BY <2>4, <6>3, ClientAssumption DEF ClientAssumption, NoPeer
          <6> QED  BY <6>1, <6>2, <6>3
        <5> QED  BY <5>1
      <4>5. Entry(r, k) = {id} /\ Offered(r, k) = {}
        BY <3>1, <4>4 DEF Entry, Offered, Active
      <4>6. r.keyIndex[k] = id /\ r.destinations[k] = NoID
        BY <2>4, <4>3
      <4> QED  BY <4>5, <4>6 DEF Exact, Pick
    <3> QED  BY <2>2, <3>2, <3>3
  <2> QED  BY <2>1, <2>3, <2>4
<1> QED  BY <1>3, <1>5, <1>6

\* A relay that joins an attempt leaves the indexes exact about the keys that
\* are still plain.
LEMMA JoinExact ==
  ASSUME ClientAssumption, IInv, \A q \in Keys \ learned : Exact(tab, q), NEW id \in IDs,
         NEW k \in Keys \cup {NoKey}, NEW n \in Nonces, RelayJoins(id, k, n), tab' \in Table
  PROVE  \A q \in Keys \ learned' : Exact(tab', q)
<1> DEFINE t == RelayTable(id, k)
           key == RelayKey(t.peers[id], k)
           u == [t EXCEPT !.peers[id].key = key]
<1>1. /\ t.sessions[id] # NoSession
      /\ learned' = IF t.peers[id].key = NoKey THEN learned \cup {k} ELSE learned
      /\ \/ tab' = u
         \/ \E S, B : tab' = [u EXCEPT !.sess = S, !.byNonce = B]
  BY Zenon DEF RelayJoins
<1>2. TableInv(tab)
  BY DEF IInv
<1>3. TableInv(t)
  BY <1>2, RelayTableInv, ClientAssumption
<1>4. \A q \in Keys \ learned : Exact(t, q)
  BY <1>1, <1>2, RelayExact, ClientAssumption
<1> HIDE DEF t
<1>5. t \in Table /\ t.peers[id] \in Peer
  BY <1>3 DEF TableInv, Table
<1>6. key = IF t.peers[id].key = NoKey THEN k ELSE t.peers[id].key
  BY DEF RelayKey
<1> HIDE DEF key
<1>7. /\ u.keyIndex = t.keyIndex /\ u.destinations = t.destinations
      /\ u.peers = [t.peers EXCEPT ![id].key = key] /\ DOMAIN u = DOMAIN t
  BY <1>5 DEF Table
<1> HIDE DEF u
<1>8. tab'.keyIndex = t.keyIndex /\ tab'.destinations = t.destinations
      /\ tab'.peers = [t.peers EXCEPT ![id].key = key]
  BY <1>1, <1>5, <1>7 DEF Table
<1>9. ASSUME NEW q \in Keys \ learned', NEW i \in IDs
      PROVE  tab'.peers[i] = t.peers[i] \/ (tab'.peers[i].key # q /\ t.peers[i].key # q)
  <2>1. CASE i # id
    BY <1>5, <1>8, <2>1 DEF Table
  <2>2. CASE i = id
    <3>1. tab'.peers[id] = [t.peers[id] EXCEPT !.key = key]
      BY <1>5, <1>8 DEF Table
    <3>2. CASE t.peers[id].key = NoKey
      BY <1>1, <1>5, <1>6, <1>9, <2>2, <3>1, <3>2, ClientAssumption DEF ClientAssumption, Peer
    <3>3. CASE t.peers[id].key # NoKey
      BY <1>5, <1>6, <2>2, <3>1, <3>3 DEF Peer
    <3> QED  BY <3>2, <3>3
  <2> QED  BY <2>1, <2>2
<1>10. ASSUME NEW q \in Keys \ learned'
       PROVE  Exact(tab', q)
  <2>1. Exact(t, q)
    BY <1>1, <1>4, <1>10
  <2>2. \A i \in IDs : \/ tab'.peers[i] = t.peers[i]
                       \/ tab'.peers[i].key # q /\ t.peers[i].key # q
    BY <1>9, <1>10
  <2>3. tab'.keyIndex[q] = t.keyIndex[q] /\ tab'.destinations[q] = t.destinations[q]
    BY <1>8
  <2> QED  BY <2>1, <2>2, <2>3, SameExact
<1> QED  BY <1>10

\* The lock of handlePeerList is given up by ListEnd alone.
LEMMA LockKept ==
  ASSUME ClientAssumption, IInv, [Next]_vars, LockFree'
  PROVE  LockFree \/ ListEnd
<1>0. thr \in [Threads -> Thread] /\ Control \in Threads
  BY DEF IInv, TypeOK, Thread, Threads
<1> SUFFICES ASSUME ~LockFree PROVE ListEnd OBVIOUS
<1>1. thr[Control].pc = "list" /\ thr'[Control].pc # "list" BY DEF LockFree
<1>2. ASSUME NEW x \in Threads \ {Control}, NEW pc, NEW job, Go(x, pc, job) PROVE FALSE
  BY <1>0, <1>1, <1>2 DEF Go
<1>3. CASE HandleMessage
  BY <1>1, <1>3
     DEF HandleMessage, ListBegin, ListEntry, RelayIgnored, RelayRefused, RelayJoins,
     RelayStarts, RelayAccepted, Schedule, At
<1>4. CASE Prepare \/ \E n \in Nonces : HandlePunch(n)
  BY <1>1, <1>4 DEF Prepare, HandlePunch, At
<1>5. ASSUME NEW w \in Workers, Promotion(w) PROVE FALSE
  <2>1. w \in Threads \ {Control} BY ClientAssumption, SMTT(30) DEF ClientAssumption, Threads
  <2>2. \E pc, job : Go(w, pc, job)
    BY <1>5 DEF Promotion, TakeJob, Validated, ValidationTimeout, Activate, Commit, Idle
  <2> QED BY <1>2, <2>1, <2>2
<1>6. ASSUME NEW x \in Threads, Cleanup(x) PROVE FALSE
  <2>1. x # Control
    BY <1>1, <1>6
       DEF Cleanup, FailDirectPromotion, DropOrphanCandidate, Remove, Restore, At
  <2>2. \E pc, job : Go(x, pc, job)
    BY <1>6 DEF Cleanup, FailDirectPromotion, DropOrphanCandidate, Remove, Restore, Idle
  <2> QED BY <1>2, <2>1, <2>2
<1>7. CASE MaintenanceTeardown
  <2>1. Maintenance \in Threads \ {Control}
    BY ClientAssumption DEF ClientAssumption, Threads
  <2> QED BY <1>2, <1>7, <2>1 DEF MaintenanceTeardown
<1>8. CASE UNCHANGED thr BY <1>1, <1>8
<1>9. MaintenancePass \/ (\E id \in IDs : TryP2P(id)) \/ (\E s \in Sess : PunchEnds(s))
        \/ (\E k \in Keys : Handshake(k)) => UNCHANGED thr
  BY DEF MaintenancePass, TryP2P, PunchEnds, Handshake
<1> QED BY <1>3, <1>4, <1>5, <1>6, <1>7, <1>8, <1>9 DEF Next, vars

\* A section rebuilds the indexes, or leaves entries and indexes alone, or
\* ignores a relay, or joins an attempt, or is inside a peer list.
LEMMA IndexSteps ==
  ASSUME ClientAssumption, IInv, [Next]_vars
  PROVE  \/ \E t : tab' \in Rebuild(t) /\ learned' = learned
         \/ tab'.peers = tab.peers /\ tab'.keyIndex = tab.keyIndex
            /\ tab'.destinations = tab.destinations /\ learned' = learned
         \/ \E r \in Relays : RelayIgnored(r[1], r[2])
         \/ \E r \in Relays, n \in Nonces : RelayJoins(r[1], r[2], n)
         \/ ~LockFree'
<1>0. TableInv(tab) /\ tab \in Table BY DEF IInv, TableInv
<1>2. CASE HandleMessage
  <2>1. CASE ListBegin \/ \E r \in Lists : ListEntry(r[1], r[2])
    <3>1. thr \in [Threads -> Thread] /\ Control \in Threads
      BY DEF IInv, TypeOK, Thread, Threads
    <3> QED BY <2>1, <3>1 DEF ListBegin, ListEntry, LockFree, Go, At
  <2>2. CASE ListEnd BY <2>2 DEF ListEnd
  <2>3. CASE \E r \in Relays : RelayIgnored(r[1], r[2]) \/ RelayRefused(r[1], r[2])
    BY <2>3 DEF RelayRefused
  <2>4. CASE \E r \in Relays, n \in Nonces : RelayJoins(r[1], r[2], n) \/ RelayStarts(r[1], r[2], n)
    BY <2>4 DEF RelayStarts
  <2>5. CASE Schedule BY <2>5, Zenon DEF Schedule, FailPunch
  <2> QED BY <1>2, <2>1, <2>2, <2>3, <2>4, <2>5 DEF HandleMessage
<1>3. ASSUME NEW s, \/ tab' = [tab EXCEPT !.sess[s].promoting = TRUE]
                    \/ tab' = [tab EXCEPT !.sess[s].done = TRUE]
      PROVE  tab'.peers = tab.peers /\ tab'.keyIndex = tab.keyIndex
             /\ tab'.destinations = tab.destinations
  BY <1>0, <1>3 DEF Table
<1>4. CASE Prepare \/ \E n \in Nonces : HandlePunch(n)
  BY <1>3, <1>4, Zenon DEF Prepare, HandlePunch
<1>5. CASE (\E id \in IDs : TryP2P(id)) \/ (\E s \in Sess : PunchEnds(s))
  BY <1>5 DEF TryP2P, PunchEnds, FailPunch
<1>6. CASE \E w \in Workers : Promotion(w)
  BY <1>3, <1>6 DEF Promotion, TakeJob, Validated, ValidationTimeout, Activate, Commit
<1>7. CASE \E x \in Threads : Cleanup(x)
  BY <1>3, <1>7 DEF Cleanup, FailDirectPromotion, DropOrphanCandidate, Remove, Restore
<1>8. CASE MaintenancePass \/ MaintenanceTeardown \/ \E k \in Keys : Handshake(k)
  BY <1>8 DEF MaintenancePass, MaintenanceTeardown, Pass, Handshake
<1>9. CASE UNCHANGED vars BY <1>9 DEF vars
<1> QED BY <1>2, <1>4, <1>5, <1>6, <1>7, <1>8, <1>9 DEF Next

LEMMA StepFresh == ClientAssumption /\ IInv /\ IndexesFresh /\ [Next]_vars => IndexesFresh'
<1> SUFFICES ASSUME ClientAssumption, IInv, IndexesFresh, [Next]_vars, LockFree'
             PROVE  \A k \in Keys \ learned' : Exact(tab', k)
  BY DEF IndexesFresh
<1>1. IInv' BY StepIInv, ClientAssumption
<1>2. tab \in Table /\ tab' \in Table /\ TableInv(tab) BY <1>1 DEF IInv, TypeOK
<1>3. ASSUME NEW t, tab' \in Rebuild(t) PROVE \A k \in Keys : Exact(tab', k)
  BY <1>2, <1>3, RebuildAgain
<1>4. CASE ListEnd BY <1>3, <1>4 DEF ListEnd
<1>5. CASE ~ListEnd
  <2>1. \A k \in Keys \ learned : Exact(tab, k)
    BY <1>5, LockKept, ClientAssumption DEF IndexesFresh
  <2>2. CASE tab'.peers = tab.peers /\ tab'.keyIndex = tab.keyIndex
             /\ tab'.destinations = tab.destinations /\ learned' = learned
    BY <2>1, <2>2, SameExact
  <2>3. ASSUME NEW r \in Relays PROVE r[1] \in IDs /\ r[2] \in Keys \cup {NoKey}
    BY ClientAssumption DEF ClientAssumption
  <2>4. ASSUME NEW r \in Relays, RelayIgnored(r[1], r[2])
        PROVE  \A k \in Keys \ learned' : Exact(tab', k)
    BY <1>2, <2>1, <2>3, <2>4, RelayExact, ClientAssumption DEF RelayIgnored
  <2>5. ASSUME NEW r \in Relays, NEW n \in Nonces, RelayJoins(r[1], r[2], n)
        PROVE  \A k \in Keys \ learned' : Exact(tab', k)
    BY <1>2, <2>1, <2>3, <2>5, JoinExact, ClientAssumption
  <2> QED BY <1>3, <2>2, <2>4, <2>5, IndexSteps, ClientAssumption
<1> QED BY <1>4, <1>5

(* Whenever the lock is free the key index and the destinations agree with    *)
(* the entries, whatever the coordinator recycles, renumbers or lists without *)
(* a key: no section leaves without rebuildIndexesLocked what it had to       *)
(* rebuild, but the one that joins an attempt (JoinsIndexed), and that one    *)
(* leaves only the key it learned out of the indexes.                         *)
THEOREM IndexesAgree == Spec => []IndexesFresh
<1>1. Init => IInv /\ IndexesFresh
  <2> SUFFICES ASSUME Init PROVE IndexesFresh BY InitIInv, ClientAssumption
  <2>1. tab \in Table BY InitIInv, ClientAssumption DEF IInv, TypeOK
  <2>2. \A k \in Keys : Entry(tab, k) = {} /\ Offered(tab, k) = {}
    BY ClientAssumption DEF Init, NoPeer, Entry, Offered, ClientAssumption
  <2>3. \A k \in Keys : tab.keyIndex[k] = NoID /\ tab.destinations[k] = NoID
    BY DEF Init
  <2> QED BY <2>2, <2>3 DEF Exact, Pick, IndexesFresh
<1>2. IInv /\ IndexesFresh /\ [Next]_vars => IInv' /\ IndexesFresh'
  BY StepIInv, StepFresh, ClientAssumption
<1> QED BY <1>1, <1>2, PTL DEF Spec
-----------------------------------------------------------------------------
(* What the sections leave of entries and sessions *)

\* The flags of the sessions after discardSessionLocked.
LEMMA DiscardFlags ==
  ASSUME NEW t, t \in Table, NEW ids, NEW s \in Sess
  PROVE  LET u == DiscardSessions(t, ids)
         IN /\ u.sess[s].promoting = t.sess[s].promoting
            /\ u.sess[s].done <=> t.sess[s].done \/ \E i \in ids : t.sessions[i] = s
<1> DEFINE gone == {t.sessions[i] : i \in ids}
           S == [x \in Sess |-> [t.sess[x] EXCEPT !.done = @ \/ x \in gone]]
<1>1. DiscardSessions(t, ids).sess = S BY DEF DiscardSessions, Table
<1>2. t.sess[s] \in Session BY DEF Table
<1>3. S[s] = [t.sess[s] EXCEPT !.done = (t.sess[s].done \/ s \in gone)] OBVIOUS
<1>4. s \in gone <=> \E i \in ids : t.sessions[i] = s OBVIOUS
<1> HIDE DEF S, gone
<1> QED BY <1>1, <1>2, <1>3, <1>4 DEF Session

\* One entry is given another state, its sessions are discarded and the
\* indexes rebuilt.
Settle(t, id, st) == Rebuild(DiscardSessions([t EXCEPT !.peers[id].state = st], {id}))

IsSettled(t, u, id, st) ==
  /\ \A i \in IDs : /\ u.peers[i].key = t.peers[i].key
                    /\ u.peers[i].state = IF i = id THEN st ELSE t.peers[i].state
  /\ \A i \in IDs : u.sessions[i] = IF i = id THEN NoSession ELSE t.sessions[i]
  /\ u.created = t.created
  /\ \A s \in Sess : /\ u.sess[s].target = t.sess[s].target
                     /\ u.sess[s].key = t.sess[s].key
                     /\ u.sess[s].promoting = t.sess[s].promoting
                     /\ u.sess[s].done <=> t.sess[s].done \/ t.sessions[id] = s
  /\ \A k \in Keys : u.keyIndex[k] \in Pick(Entry(u, k))

LEMMA SettleFacts ==
  ASSUME ClientAssumption, NEW t, TableInv(t), NEW id, NEW st \in {"Established", "Failed"},
         NEW u \in Settle(t, id, st)
  PROVE  IsSettled(t, u, id, st)
<1> DEFINE v == [t EXCEPT !.peers[id].state = st]
           d == DiscardSessions(v, {id})
<1>0. t \in Table /\ \A i \in IDs : t.peers[i] \in Peer BY DEF TableInv, Table
<1>1. /\ v \in Table /\ NoEntryTwice(v) /\ EntriesKeyed(v) /\ MapsAgree(v)
      /\ SessionsPending(v, {id}) /\ v.sessions = t.sessions
  BY RestateTable, ZenonT(60)
<1>2. /\ v.sess = t.sess /\ v.created = t.created
      /\ \A i \in IDs : /\ v.peers[i].key = t.peers[i].key
                        /\ v.peers[i].state = IF i = id THEN st ELSE t.peers[i].state
  BY <1>0 DEF Table, Peer
<1> HIDE DEF v
<1>3. /\ d \in Table /\ d.peers = v.peers /\ d.created = v.created
      /\ \A s \in Sess : d.sess[s].target = v.sess[s].target /\ d.sess[s].key = v.sess[s].key
      /\ \A i \in IDs : d.sessions[i] = IF i = id THEN NoSession ELSE v.sessions[i]
  BY <1>1, DiscardTable
<1>4. \A s \in Sess : /\ d.sess[s].promoting = v.sess[s].promoting
                      /\ d.sess[s].done <=> v.sess[s].done \/ \E i \in {id} : v.sessions[i] = s
  BY <1>1, DiscardFlags
<1>5. u \in Rebuild(d) BY DEF v, Settle
<1> HIDE DEF d
<1>6. /\ u.peers = d.peers /\ u.sessions = d.sessions /\ u.sess = d.sess
      /\ u.created = d.created /\ \A k \in Keys : Exact(u, k)
  BY <1>3, <1>5, RebuildFacts, ClientAssumption
<1>7. u.peers = d.peers /\ u.sessions = d.sessions /\ u.sess = d.sess /\ u.created = d.created
  BY <1>6
<1>9. \A k \in Keys : u.keyIndex[k] \in Pick(Entry(u, k)) BY <1>6 DEF Exact
<1>10. \A s \in Sess : /\ u.sess[s].target = t.sess[s].target
                       /\ u.sess[s].key = t.sess[s].key
                       /\ u.sess[s].promoting = t.sess[s].promoting
  BY <1>2, <1>3, <1>4, <1>7
<1>11. \A s \in Sess : u.sess[s].done <=> t.sess[s].done \/ t.sessions[id] = s
  BY <1>1, <1>2, <1>4, <1>7
<1>12. \A i \in IDs : u.sessions[i] = IF i = id THEN NoSession ELSE t.sessions[i]
  BY <1>1, <1>3, <1>7
<1>13. \A i \in IDs : /\ u.peers[i].key = t.peers[i].key
                     /\ u.peers[i].state = IF i = id THEN st ELSE t.peers[i].state
  BY <1>2, <1>3, <1>7
<1>14. u.created = t.created BY <1>2, <1>3, <1>7
<1> QED BY <1>9, <1>10, <1>11, <1>12, <1>13, <1>14 DEF IsSettled

\* The entry a relay is about: no key is lost, and nothing else is touched
\* unless a renumbering moved the entry.
LEMMA RelayKeeps ==
  ASSUME ClientAssumption, TableInv(tab), NEW id \in IDs, NEW k \in Keys \cup {NoKey},
         NEW j \in IDs, tab.peers[j].key # NoKey
  PROVE  \E i \in IDs : RelayTable(id, k).peers[i].key = tab.peers[j].key
<1> DEFINE own == tab.peers[id].key \in {NoKey, k}
           r == IF k # NoKey /\ own THEN Renumber(tab, k, id) ELSE tab
           new == [key |-> NoKey, state |-> "Discovered", capable |-> TRUE]
<1>1. TableInv(r) BY RenumberTable, ClientAssumption
<1>2. PICK i \in IDs : r.peers[i].key = tab.peers[j].key
  BY RenumberPeers, ClientAssumption
<1>3. RelayTable(id, k) = IF Known(r, id) THEN r ELSE [r EXCEPT !.peers[id] = new]
  BY DEF RelayTable
<1> HIDE DEF r, new
<1>4. Known(r, id) \/ i # id BY <1>1, <1>2 DEF TableInv, EntriesKeyed, Known
<1> QED BY <1>1, <1>2, <1>3, <1>4 DEF TableInv, Table

\* The entries once the relay's key is learned and the state is set.
LEMMA LearnPeers ==
  ASSUME ClientAssumption, TableInv(tab), NEW id \in IDs, NEW k \in Keys \cup {NoKey},
         NEW st \in States
  PROVE  LET t == RelayTable(id, k)
             v == [t EXCEPT !.peers[id].key = RelayKey(t.peers[id], k), !.peers[id].state = st]
         IN /\ v.sessions = t.sessions /\ v.sess = t.sess /\ v.created = t.created
            /\ \A i \in IDs :
                 /\ v.peers[i].key = IF i = id THEN RelayKey(t.peers[id], k) ELSE t.peers[i].key
                 /\ v.peers[i].state = IF i = id THEN st ELSE t.peers[i].state
<1> DEFINE t == RelayTable(id, k)
           key == RelayKey(t.peers[id], k)
<1>1. t \in Table /\ \A i \in IDs : t.peers[i] \in Peer
  BY RelayTableInv, ClientAssumption DEF TableInv, Table
<1> HIDE DEF t, key
<1> DEFINE P == [t.peers EXCEPT ![id].key = key, ![id].state = st]
           v == [t EXCEPT !.peers = P]
<1>2. \A i \in IDs : /\ P[i].key = IF i = id THEN key ELSE t.peers[i].key
                    /\ P[i].state = IF i = id THEN st ELSE t.peers[i].state
  BY <1>1 DEF Table, Peer
<1>3. v = [t EXCEPT !.peers[id].key = key, !.peers[id].state = st] OBVIOUS
<1> HIDE DEF P
<1>4. v.peers = P /\ v.sessions = t.sessions /\ v.sess = t.sess /\ v.created = t.created
  BY <1>1 DEF Table
<1> HIDE DEF v
<1> QED BY <1>2, <1>3, <1>4 DEF t, key

\* The table with a new session in it.
IsStarted(id, k, n) ==
  LET t == RelayTable(id, k)
      key == RelayKey(t.peers[id], k)
      s == tab.created + 1
  IN /\ \A i \in IDs :
          /\ tab'.peers[i].key = IF i = id THEN key ELSE t.peers[i].key
          /\ tab'.peers[i].state = IF i = id THEN "Trying" ELSE t.peers[i].state
     /\ \A i \in IDs : tab'.sessions[i] = IF i = id THEN s ELSE t.sessions[i]
     /\ tab'.created = s /\ s \in Sess
     /\ tab'.sess[s] = [target |-> id, key |-> key, nonce |-> n, alt |-> NoNonce,
                        promoting |-> FALSE, done |-> FALSE]
     /\ \A x \in Sess \ {s} : /\ tab'.sess[x].target = t.sess[x].target
                              /\ tab'.sess[x].key = t.sess[x].key
                              /\ tab'.sess[x].promoting = t.sess[x].promoting
                              /\ tab'.sess[x].done <=> t.sess[x].done \/ t.sessions[id] = x
     /\ \A q \in Keys : tab'.keyIndex[q] \in Pick(Entry(tab', q))

LEMMA StartFacts ==
  ASSUME ClientAssumption, IInv, IInv',
         NEW id \in IDs, NEW k \in Keys \cup {NoKey}, NEW n \in Nonces,
         RelayStarts(id, k, n)
  PROVE  IsStarted(id, k, n)
<1> DEFINE t == RelayTable(id, k)
           key == RelayKey(t.peers[id], k)
           s == tab.created + 1
           fresh == [target |-> id, key |-> key, nonce |-> n, alt |-> NoNonce,
                     promoting |-> FALSE, done |-> FALSE]
           v == [t EXCEPT !.peers[id].key = key, !.peers[id].state = "Trying"]
           u == DiscardSessions(v, {id})
           w == [u EXCEPT !.sess[s] = fresh, !.created = s, !.sessions[id] = s, !.byNonce[n] = s]
<1>0. TableInv(tab) /\ tab' \in Table BY DEF IInv, TableInv
<1>1. key \notin {NoKey, ServerKey} /\ tab.created < MaxSessions /\ tab' \in Rebuild(w)
  BY DEF RelayStarts, RelayAccepted
<1>2. "Trying" \in States /\ "Trying" \in States \ {"None"} BY DEF States
<1>3. v \in Table /\ MapsAgree(v) /\ v.created = tab.created
  BY <1>0, <1>1, <1>2, LearnTable, ClientAssumption, Zenon
<1>4. /\ v.sessions = t.sessions /\ v.sess = t.sess
      /\ \A i \in IDs : /\ v.peers[i].key = IF i = id THEN key ELSE t.peers[i].key
                        /\ v.peers[i].state = IF i = id THEN "Trying" ELSE t.peers[i].state
  BY <1>0, <1>2, LearnPeers, ClientAssumption
<1> HIDE DEF t, key, v
<1>5. /\ u \in Table /\ u.peers = v.peers /\ u.created = v.created
      /\ \A x \in Sess : u.sess[x].target = v.sess[x].target /\ u.sess[x].key = v.sess[x].key
      /\ \A i \in IDs : u.sessions[i] = IF i \in {id} THEN NoSession ELSE v.sessions[i]
  BY <1>3, DiscardTable
<1>6. \A x \in Sess : /\ u.sess[x].promoting = v.sess[x].promoting
                      /\ u.sess[x].done <=> v.sess[x].done \/ \E i \in {id} : v.sessions[i] = x
  BY <1>3, DiscardFlags
<1> HIDE DEF u, fresh
<1>7. s \in Sess
  BY <1>0, <1>1, ClientAssumption DEF TableInv, Table, Sess, ClientAssumption
<1> HIDE DEF s
<1>8. /\ w.peers = u.peers /\ w.created = s
      /\ w.sess = [u.sess EXCEPT ![s] = fresh] /\ w.sessions = [u.sessions EXCEPT ![id] = s]
  BY <1>5 DEF Table
<1> HIDE DEF w
<1>9. /\ \A x \in Sess : w.sess[x] = IF x = s THEN fresh ELSE u.sess[x]
      /\ \A i \in IDs : w.sessions[i] = IF i = id THEN s ELSE u.sessions[i]
  BY <1>5, <1>7, <1>8 DEF Table
<1>10. /\ tab'.peers = w.peers /\ tab'.sessions = w.sessions /\ tab'.sess = w.sess
       /\ tab'.created = w.created
  BY <1>0, <1>1, RebuildAgain
<1>11. \A q \in Keys : Exact(tab', q) BY <1>0, <1>1, RebuildAgain
<1>12. \A q \in Keys : tab'.keyIndex[q] \in Pick(Entry(tab', q)) BY <1>11 DEF Exact
<1>13. \A i \in IDs : /\ tab'.peers[i].key = IF i = id THEN key ELSE t.peers[i].key
                     /\ tab'.peers[i].state = IF i = id THEN "Trying" ELSE t.peers[i].state
  BY <1>4, <1>5, <1>8, <1>10
<1>14. \A i \in IDs : tab'.sessions[i] = IF i = id THEN s ELSE t.sessions[i]
  BY <1>4, <1>5, <1>9, <1>10
<1>15. tab'.sess[s] = fresh /\ tab'.created = s BY <1>7, <1>8, <1>9, <1>10
<1>16. \A x \in Sess \ {s} : tab'.sess[x] = u.sess[x] BY <1>9, <1>10
<1>17. \A x \in Sess \ {s} : /\ tab'.sess[x].target = t.sess[x].target
                             /\ tab'.sess[x].key = t.sess[x].key
                             /\ tab'.sess[x].promoting = t.sess[x].promoting
  BY <1>4, <1>5, <1>6, <1>16
<1>18. \A x \in Sess \ {s} : tab'.sess[x].done <=> t.sess[x].done \/ t.sessions[id] = x
  BY <1>4, <1>6, <1>16
<1> QED
  BY <1>7, <1>12, <1>13, <1>14, <1>15, <1>17, <1>18 DEF IsStarted, t, key, s, fresh

\* One pass of maintenanceLoop.
IsPassed(forgotten, stalled, dead) ==
  /\ \A i \in IDs : /\ tab'.peers[i].key = IF i \in forgotten THEN NoKey ELSE tab.peers[i].key
                    /\ tab'.peers[i].state = IF i \in forgotten THEN "None"
                                            ELSE IF i \in stalled \cup dead THEN "Failed"
                                            ELSE tab.peers[i].state
  /\ \A i \in IDs : tab'.sessions[i] = IF i \in forgotten \cup stalled THEN NoSession
                                       ELSE tab.sessions[i]
  /\ tab'.created = tab.created
  /\ \A s \in Sess :
       /\ tab'.sess[s].target = tab.sess[s].target
       /\ tab'.sess[s].key = tab.sess[s].key
       /\ tab'.sess[s].promoting = tab.sess[s].promoting
       /\ tab'.sess[s].done <=>
            tab.sess[s].done \/ \E i \in forgotten \cup stalled : tab.sessions[i] = s
  /\ tab'.keyIndex = tab.keyIndex \/ \A k \in Keys : tab'.keyIndex[k] \in Pick(Entry(tab', k))

LEMMA PassFacts ==
  ASSUME ClientAssumption, TableInv(tab), tab' \in Table,
         NEW forgotten \in SUBSET IDs, NEW stalled \in SUBSET IDs, NEW dead \in SUBSET IDs,
         Pass(forgotten, stalled, dead)
  PROVE  IsPassed(forgotten, stalled, dead)
<1> DEFINE fail == stalled \cup dead
           ids == forgotten \cup stalled
           t == DiscardSessions(tab, ids)
           P == [id \in IDs |-> IF id \in forgotten THEN NoPeer
                               ELSE IF id \in fail THEN [t.peers[id] EXCEPT !.state = "Failed"]
                               ELSE t.peers[id]]
           u == [t EXCEPT !.peers = P]
<1>0. tab \in Table /\ MapsAgree(tab) /\ \A i \in IDs : tab.peers[i] \in Peer
  BY DEF TableInv, Table
<1>1. CASE forgotten \cup fail = {}
  <2>1. tab' = tab BY <1>1 DEF Pass
  <2> QED BY <1>1, <2>1 DEF IsPassed
<1>2. CASE forgotten \cup fail # {}
  <2>1. tab' \in Rebuild(u) BY <1>2 DEF Pass
  <2>2. /\ t \in Table /\ t.peers = tab.peers /\ t.created = tab.created
        /\ \A s \in Sess : t.sess[s].target = tab.sess[s].target /\ t.sess[s].key = tab.sess[s].key
        /\ \A i \in IDs : t.sessions[i] = IF i \in ids THEN NoSession ELSE tab.sessions[i]
    BY <1>0, DiscardTable
  <2>3. \A s \in Sess : /\ t.sess[s].promoting = tab.sess[s].promoting
                        /\ t.sess[s].done <=> tab.sess[s].done \/ \E i \in ids : tab.sessions[i] = s
    BY <1>0, DiscardFlags
  <2> HIDE DEF t
  <2>4. \A i \in IDs : /\ P[i].key = IF i \in forgotten THEN NoKey ELSE tab.peers[i].key
                      /\ P[i].state = IF i \in forgotten THEN "None"
                                      ELSE IF i \in fail THEN "Failed" ELSE tab.peers[i].state
    BY <1>0, <2>2 DEF Peer, NoPeer
  <2> HIDE DEF P
  <2>5. u.peers = P /\ u.sessions = t.sessions /\ u.sess = t.sess /\ u.created = t.created
    BY <2>2 DEF Table
  <2> HIDE DEF u
  <2>6. /\ tab'.peers = u.peers /\ tab'.sessions = u.sessions /\ tab'.sess = u.sess
        /\ tab'.created = u.created
    BY <2>1, RebuildAgain
  <2>7. \A k \in Keys : Exact(tab', k) BY <2>1, RebuildAgain
  <2>8. \A k \in Keys : tab'.keyIndex[k] \in Pick(Entry(tab', k)) BY <2>7 DEF Exact
  <2>9. \A i \in IDs : /\ tab'.peers[i].key = IF i \in forgotten THEN NoKey ELSE tab.peers[i].key
                      /\ tab'.peers[i].state = IF i \in forgotten THEN "None"
                                              ELSE IF i \in stalled \cup dead THEN "Failed"
                                              ELSE tab.peers[i].state
    BY <2>4, <2>5, <2>6
  <2>10. \A s \in Sess : /\ tab'.sess[s].target = tab.sess[s].target
                         /\ tab'.sess[s].key = tab.sess[s].key
                         /\ tab'.sess[s].promoting = tab.sess[s].promoting
    BY <2>2, <2>3, <2>5, <2>6
  <2>11. \A s \in Sess : tab'.sess[s].done <=>
           tab.sess[s].done \/ \E i \in ids : tab.sessions[i] = s
    BY <2>3, <2>5, <2>6
  <2>12. \A i \in IDs : tab'.sessions[i] = IF i \in ids THEN NoSession ELSE tab.sessions[i]
    BY <2>2, <2>5, <2>6
  <2>13. tab'.created = tab.created BY <2>2, <2>5, <2>6
  <2> QED BY <2>8, <2>9, <2>10, <2>11, <2>12, <2>13 DEF IsPassed
<1> QED BY <1>1, <1>2

\* One entry of a peer list is merged.
LEMMA MergeFacts ==
  ASSUME ClientAssumption, NEW t, TableInv(t), NEW id \in IDs, NEW k \in Keys \cup {NoKey}, NEW moved
  PROVE  LET u == Renumber(t, k, id)
             m == MergeEntry(t, id, k, moved)
             p == u.peers[id]
         IN /\ m.sessions = u.sessions /\ m.sess = u.sess /\ m.created = u.created
            /\ \A i \in IDs \ {id} : m.peers[i] = u.peers[i]
            /\ m.peers[id].key = k /\ m.peers[id].capable = (k \in Capable)
            /\ m.peers[id] \in Peer
            /\ m.peers[id].state = IF p.state = "None" \/ (p.state = "Failed" /\ moved)
                                   THEN "Discovered" ELSE p.state
            /\ \A q \in Keys : m.keyIndex[q] = IF q = k THEN id ELSE u.keyIndex[q]
<1> DEFINE u == Renumber(t, k, id)
           p == u.peers[id]
           state == IF p.state = "None" \/ (p.state = "Failed" /\ moved)
                    THEN "Discovered" ELSE p.state
           e == [key |-> k, state |-> state, capable |-> k \in Capable]
           x == IF k = NoKey THEN u.keyIndex ELSE [u.keyIndex EXCEPT ![k] = id]
           m == MergeEntry(t, id, k, moved)
<1>1. u \in Table BY RenumberTable, ClientAssumption DEF TableInv
<1>2. m = [u EXCEPT !.peers[id] = e, !.keyIndex = x] BY DEF MergeEntry
<1>3. e.key = k /\ e.state = state /\ e.capable = (k \in Capable) OBVIOUS
<1>6. \A q \in Keys : x[q] = IF q = k THEN id ELSE u.keyIndex[q]
  BY <1>1, ClientAssumption DEF Table, ClientAssumption
<1>7. m \in Table
  BY MergeTable, ClientAssumption DEF TableInv
<1> HIDE DEF u, e, m, state, x
<1>4. /\ m.sessions = u.sessions /\ m.sess = u.sess /\ m.created = u.created
      /\ m.peers = [u.peers EXCEPT ![id] = e] /\ m.keyIndex = x
  BY <1>1, <1>2 DEF Table
<1>5. /\ \A i \in IDs \ {id} : m.peers[i] = u.peers[i]
      /\ m.peers[id] = e
      /\ \A q \in Keys : m.keyIndex[q] = IF q = k THEN id ELSE u.keyIndex[q]
  BY <1>1, <1>4, <1>6 DEF Table
<1>8. m.peers[id] \in Peer
  BY <1>7 DEF Table
<1> QED BY <1>3, <1>4, <1>5, <1>8 DEF u, m, state
-----------------------------------------------------------------------------
(* Attempts and direct paths keep an entry *)

LEMMA StepKeepsActive ==
  ASSUME ClientAssumption, IInv, [Next]_vars, NEW id \in IDs, Active(tab, id),
         tab.peers[id].key # NoKey
  PROVE  \/ Entry(tab', tab.peers[id].key) # {}
         \/ /\ At(Control, "list")
            /\ tab'.peers[id] = [key |-> NoKey, state |-> tab.peers[id].state,
                                 capable |-> NoKey \in Capable]
<1> DEFINE q == tab.peers[id].key
<1>0. TableInv(tab) /\ tab \in Table /\ tab' \in Table /\ IInv'
  <2>1. IInv' BY StepIInv, ClientAssumption
  <2> QED BY <2>1 DEF IInv, TableInv, TypeOK
<1> DEFINE Keyless == /\ At(Control, "list")
                      /\ tab'.peers[id] = [key |-> NoKey, state |-> tab.peers[id].state,
                                           capable |-> NoKey \in Capable]
<1> SUFFICES (\E i \in IDs : tab'.peers[i].key = q) \/ Keyless BY DEF Entry
<1>1. ASSUME NEW r \in Relays PROVE r[1] \in IDs /\ r[2] \in Keys \cup {NoKey}
  BY ClientAssumption DEF ClientAssumption
<1>2. CASE tab' = tab BY <1>2
<1>3. ASSUME NEW r \in Lists, ListEntry(r[1], r[2])
      PROVE  (\E i \in IDs : tab'.peers[i].key = q) \/ Keyless
  <2> DEFINE j == r[1]
             k == r[2]
             u == Renumber(tab, k, j)
  <2>1. j \in IDs /\ k \in Keys \cup {NoKey} BY ClientAssumption DEF ClientAssumption
  <2>0. At(Control, "list") /\ ListEntry(j, k) BY <1>3 DEF ListEntry
  <2> HIDE DEF j, k
  <2>2. \/ tab' = tab
        \/ ~Recycled(tab, j, k) /\ \E moved \in BOOLEAN : tab' = MergeEntry(tab, j, k, moved)
    BY <2>0, Zenon DEF ListEntry
  <2>3. ASSUME ~Recycled(tab, j, k), NEW moved \in BOOLEAN, tab' = MergeEntry(tab, j, k, moved)
        PROVE  (\E i \in IDs : tab'.peers[i].key = q) \/ Keyless
    <3>1. /\ tab'.peers[j].key = k /\ \A i \in IDs \ {j} : tab'.peers[i] = u.peers[i]
          /\ tab'.peers[j].capable = (k \in Capable) /\ tab'.peers[j] \in Peer
          /\ tab'.peers[j].state = IF u.peers[j].state = "None" \/ (u.peers[j].state = "Failed" /\ moved)
                                   THEN "Discovered" ELSE u.peers[j].state
      <4> DEFINE m == MergeEntry(tab, j, k, moved)
                 p == u.peers[j]
      <4>1. /\ \A i \in IDs \ {j} : m.peers[i] = u.peers[i]
            /\ m.peers[j].key = k /\ m.peers[j].capable = (k \in Capable)
            /\ m.peers[j] \in Peer
            /\ m.peers[j].state = IF p.state = "None" \/ (p.state = "Failed" /\ moved)
                                  THEN "Discovered" ELSE p.state
        BY <1>0, <2>1, MergeFacts, ClientAssumption
      <4> QED BY <2>3, <4>1
    <3>2. CASE q = k BY <2>1, <3>1, <3>2
    <3>3. CASE q # k /\ id # j
      <4>1. u.peers[id] = tab.peers[id]
        BY <1>0, <2>1, <3>3, RenumberPeers, ClientAssumption
      <4> QED BY <3>1, <3>3, <4>1
    <3>4. CASE q # k /\ id = j
      <4>1. k = NoKey BY <2>3, <3>4 DEF Recycled
      <4>2. u = tab BY <4>1 DEF Renumber
      <4>3. tab'.peers[id].key = NoKey /\ tab'.peers[id].state = tab.peers[id].state
            /\ tab'.peers[id].capable = (NoKey \in Capable)
        BY <3>1, <3>4, <4>1, <4>2 DEF Active
      <4>4. tab'.peers[id] = [key |-> NoKey, state |-> tab.peers[id].state,
                              capable |-> NoKey \in Capable]
        <5> DEFINE p == tab'.peers[id]
                   c == NoKey \in Capable
        <5>1. p \in Peer /\ p.key = NoKey /\ p.state = tab.peers[id].state /\ p.capable = c
          BY <3>1, <3>4, <4>3
        <5> HIDE DEF p, c
        <5>2. p = [key |-> NoKey, state |-> tab.peers[id].state, capable |-> c]
          BY <5>1 DEF Peer
        <5> QED BY <5>2 DEF p, c
      <4> QED BY <2>0, <4>4
    <3> QED BY <3>2, <3>3, <3>4
  <2> QED BY <1>2, <2>2, <2>3
<1>4. ASSUME NEW r \in Relays PROVE \E i \in IDs : RelayTable(r[1], r[2]).peers[i].key = q
  <2> DEFINE j == r[1]
             k == r[2]
  <2>1. j \in IDs /\ k \in Keys \cup {NoKey} BY <1>1
  <2> HIDE DEF j, k
  <2>2. \E i \in IDs : RelayTable(j, k).peers[i].key = q
    BY <1>0, <2>1, RelayKeeps, ClientAssumption
  <2> QED BY <2>2 DEF j, k
<1>5. ASSUME NEW r \in Relays, RelayIgnored(r[1], r[2])
      PROVE  \E i \in IDs : tab'.peers[i].key = q
  BY <1>4, <1>5 DEF RelayIgnored
<1>6. ASSUME NEW r \in Relays,
             \A i \in IDs : tab'.peers[i].key = IF i = r[1]
                THEN RelayKey(RelayTable(r[1], r[2]).peers[r[1]], r[2])
                ELSE RelayTable(r[1], r[2]).peers[i].key
      PROVE  \E i \in IDs : tab'.peers[i].key = q
  <2>1. PICK i \in IDs : RelayTable(r[1], r[2]).peers[i].key = q BY <1>4
  <2> QED BY <1>6, <2>1 DEF RelayKey
<1>7. ASSUME NEW r \in Relays, RelayRefused(r[1], r[2])
      PROVE  \E i \in IDs : tab'.peers[i].key = q
  <2> DEFINE t == RelayTable(r[1], r[2])
             v == [t EXCEPT !.peers[r[1]].key = RelayKey(t.peers[r[1]], r[2]),
                            !.peers[r[1]].state = "Failed"]
  <2>1. tab' \in Rebuild(v) BY <1>7 DEF RelayRefused, Fails
  <2>2. "Failed" \in States BY DEF States
  <2>3. \A i \in IDs : v.peers[i].key = IF i = r[1] THEN RelayKey(t.peers[r[1]], r[2])
                                        ELSE t.peers[i].key
    BY <1>0, <1>1, <2>2, LearnPeers, ClientAssumption
  <2> HIDE DEF v
  <2>4. tab'.peers = v.peers BY <1>0, <2>1, RebuildAgain
  <2> QED BY <1>6, <2>3, <2>4
<1>8. ASSUME NEW r \in Relays, NEW n \in Nonces, RelayStarts(r[1], r[2], n)
      PROVE  \E i \in IDs : tab'.peers[i].key = q
  <2> DEFINE j == r[1]
             k == r[2]
  <2>0. j \in IDs /\ k \in Keys \cup {NoKey} /\ RelayStarts(j, k, n) BY <1>1, <1>8
  <2> HIDE DEF j, k
  <2>1. \A i \in IDs : tab'.peers[i].key = IF i = j THEN RelayKey(RelayTable(j, k).peers[j], k)
                                           ELSE RelayTable(j, k).peers[i].key
    <3>1. IsStarted(j, k, n) BY <1>0, <2>0, StartFacts, ClientAssumption
    <3> QED BY <3>1 DEF IsStarted
  <2> USE DEF j, k
  <2> QED BY <1>6, <2>1
<1>9. ASSUME NEW r \in Relays, NEW n \in Nonces, RelayJoins(r[1], r[2], n)
      PROVE  \E i \in IDs : tab'.peers[i].key = q
  <2> DEFINE j == r[1]
             k == r[2]
             t == RelayTable(j, k)
             key == RelayKey(t.peers[j], k)
             u == [t EXCEPT !.peers[j].key = key]
  <2>1. \/ tab' = u
        \/ \E S, B : tab' = [u EXCEPT !.sess = S, !.byNonce = B]
    BY <1>9, Zenon DEF RelayJoins
  <2>5. j \in IDs /\ k \in Keys \cup {NoKey} BY <1>1
  <2> HIDE DEF j, k
  <2>6. TableInv(t) BY <1>0, <2>5, RelayTableInv, ClientAssumption
  <2>2. t \in Table /\ \A i \in IDs : t.peers[i] \in Peer
    BY <2>6 DEF TableInv, Table
  <2> HIDE DEF t, key
  <2>3. tab'.peers = [t.peers EXCEPT ![j].key = key] BY <2>1, <2>2 DEF Table
  <2>4. \A i \in IDs : tab'.peers[i].key = IF i = j THEN key ELSE t.peers[i].key
    BY <2>2, <2>3, <2>5 DEF Table, Peer
  <2> QED BY <1>6, <2>4 DEF j, k, t, key
<1>10. ASSUME NEW s, tab' \in FailPunch(tab, s) PROVE \E i \in IDs : tab'.peers[i].key = q
  <2> DEFINE j == tab.sess[s].target
  <2>1. tab' = tab \/ tab' \in Settle(tab, j, "Failed")
    BY <1>10 DEF FailPunch, Fails, Settle
  <2> HIDE DEF j
  <2>2. "Failed" \in {"Established", "Failed"} OBVIOUS
  <2>3. \A i \in IDs : tab'.peers[i].key = tab.peers[i].key
    BY <1>0, <2>1, <2>2, SettleFacts, ClientAssumption DEF IsSettled
  <2> QED BY <2>3
<1>11. ASSUME NEW s, tab' = [tab EXCEPT !.sess[s].promoting = TRUE]
                     \/ tab' = [tab EXCEPT !.sess[s].done = TRUE]
       PROVE  \E i \in IDs : tab'.peers[i].key = q
  BY <1>0, <1>11 DEF Table
<1>12. ASSUME NEW j \in IDs, TryP2P(j) PROVE \E i \in IDs : tab'.peers[i].key = q
  <2> DEFINE v == [tab EXCEPT !.peers[j].state = "Trying"]
  <2>1. tab' \in Rebuild(v) BY <1>12 DEF TryP2P
  <2>2. \A i \in IDs : v.peers[i].key = tab.peers[i].key BY <1>0 DEF Table, Peer
  <2> HIDE DEF v
  <2>3. tab'.peers = v.peers BY <1>0, <2>1, RebuildAgain
  <2> QED BY <2>2, <2>3
<1>13. ASSUME NEW w \in Workers, Commit(w) PROVE \E i \in IDs : tab'.peers[i].key = q
  <2> DEFINE j == thr[w].job.id
  <2>1. CASE ~Current(thr[w].job) BY <1>11, <1>13, <2>1 DEF Commit
  <2>2. CASE Current(thr[w].job)
    <3>1. tab' \in Settle(tab, j, "Established")
      BY <1>13, <2>2 DEF Commit, Settle
    <3> HIDE DEF j
    <3>3. "Established" \in {"Established", "Failed"} OBVIOUS
    <3>4. \A i \in IDs : tab'.peers[i].key = tab.peers[i].key
      BY <1>0, <3>1, <3>3, SettleFacts, ClientAssumption DEF IsSettled
    <3> QED BY <3>4
  <2> QED BY <2>1, <2>2
<1>14. ASSUME NEW x \in Threads, FailDirectPromotion(x) PROVE \E i \in IDs : tab'.peers[i].key = q
  <2> DEFINE j == thr[x].job.id
  <2>1. \/ tab' \in Settle(tab, j, "Failed")
        \/ tab' = [tab EXCEPT !.sess[thr[x].job.sess].done = TRUE]
    BY <1>14 DEF FailDirectPromotion, Fails, Settle
  <2> HIDE DEF j
  <2>2. "Failed" \in {"Established", "Failed"} OBVIOUS
  <2>3. CASE tab' \in Settle(tab, j, "Failed")
    <3>1. \A i \in IDs : tab'.peers[i].key = tab.peers[i].key
      BY <1>0, <2>2, <2>3, SettleFacts, ClientAssumption DEF IsSettled
    <3> QED BY <3>1
  <2> QED BY <1>11, <2>1, <2>3
<1>15. CASE MaintenancePass
  <2>1. PICK forgotten \in SUBSET {i \in IDs : Known(tab, i) /\ ~Active(tab, i)},
             stalled \in SUBSET {i \in IDs : tab.peers[i].state = "Trying"},
             dead \in SUBSET {i \in IDs : tab.peers[i].state = "Established"} :
               Pass(forgotten, stalled, dead)
    BY <1>15 DEF MaintenancePass
  <2>2. /\ forgotten \in SUBSET IDs /\ stalled \in SUBSET IDs /\ dead \in SUBSET IDs
        /\ id \notin forgotten
    OBVIOUS
  <2>3. \A i \in IDs : tab'.peers[i].key = IF i \in forgotten THEN NoKey ELSE tab.peers[i].key
    <3>1. IsPassed(forgotten, stalled, dead)
      BY <1>0, <2>1, <2>2, PassFacts, ClientAssumption
    <3> QED BY <3>1 DEF IsPassed
  <2> QED BY <2>2, <2>3
<1>16. CASE HandleMessage
  <2>1. CASE ListBegin BY <1>2, <2>1 DEF ListBegin
  <2>2. CASE ListEnd
    <3>1. tab'.peers = tab.peers BY <1>0, <2>2, RebuildAgain DEF ListEnd
    <3> QED BY <3>1
  <2>3. CASE Schedule BY <1>2, <1>10, <2>3 DEF Schedule
  <2> QED BY <1>3, <1>5, <1>7, <1>8, <1>9, <1>16, <2>1, <2>2, <2>3 DEF HandleMessage
<1>17. CASE Prepare \/ \E n \in Nonces : HandlePunch(n)
  BY <1>2, <1>11, <1>17, Zenon DEF Prepare, HandlePunch
<1>18. CASE \E s \in Sess : PunchEnds(s) BY <1>2, <1>10, <1>18 DEF PunchEnds
<1>19. CASE \E w \in Workers : Promotion(w)
  BY <1>2, <1>13, <1>19 DEF Promotion, TakeJob, Validated, ValidationTimeout, Activate
<1>20. CASE \E x \in Threads : Cleanup(x)
  BY <1>2, <1>14, <1>20 DEF Cleanup, DropOrphanCandidate, Remove, Restore
<1>21. CASE MaintenanceTeardown \/ (\E k \in Keys : Handshake(k)) \/ UNCHANGED vars
  BY <1>2, <1>21 DEF MaintenanceTeardown, Handshake, vars
<1> QED BY <1>12, <1>15, <1>16, <1>17, <1>18, <1>19, <1>20, <1>21 DEF Next

(* A device that is being tried or is established keeps an entry, however the *)
(* coordinator recycles and renumbers: an active entry is never overwritten   *)
(* by another device's ID, and its key moves with it (handlePeerList,         *)
(* renumberPeerLocked, forgetUnlistedPeersLocked).  The one way to lose it is *)
(* a peer list that names the entry's ID without a key (ActiveKeepsKey).      *)
THEOREM ActiveKept == Spec => ActiveNeverLost
<1>1. Init => IInv BY InitIInv, ClientAssumption
<1>2. IInv /\ [Next]_vars => IInv' BY StepIInv, ClientAssumption
<1>3. IInv /\ [Next]_vars =>
        [\A id \in IDs : Active(tab, id) /\ tab.peers[id].key # NoKey
           => \/ Entry(tab', tab.peers[id].key) # {}
              \/ /\ At(Control, "list")
                 /\ tab'.peers[id] = [key |-> NoKey, state |-> tab.peers[id].state,
                                      capable |-> NoKey \in Capable]]_vars
  BY StepKeepsActive, ClientAssumption
<1> QED BY <1>1, <1>2, <1>3, PTL DEF Spec, ActiveNeverLost
-----------------------------------------------------------------------------
(* A coordinator that keeps its IDs *)

\* What the coordinator says of an ID, in a relay or in a peer list.
Pairs == Relays \cup Lists

\* The coordinator never gives the ID of one device to another, nor a device
\* another ID, and its lists name the key of every device.
StableIDs ==
  /\ \A r, q \in Pairs : r[2] # NoKey /\ q[2] # NoKey => (r[1] = q[1] <=> r[2] = q[2])
  /\ \A r \in Lists : r[2] # NoKey

\* Entries and index say what the coordinator said.
Assigned(t) ==
  /\ \A id \in IDs : t.peers[id].key # NoKey => <<id, t.peers[id].key>> \in Pairs
  /\ \A k \in Keys : t.keyIndex[k] # NoID => <<t.keyIndex[k], k>> \in Pairs

\* A session in the map is a live attempt.
Live(t) ==
  \A id \in IDs : t.sessions[id] # NoSession =>
    /\ ~t.sess[t.sessions[id]].done
    /\ t.peers[id].state = "Trying"
    /\ t.peers[id].key = t.sess[t.sessions[id]].key

\* A session that is no longer in the map has been told to stop.
Ended(t) ==
  \A s \in Sess : s <= t.created =>
    /\ t.sess[s].target \in IDs
    /\ t.sessions[t.sess[s].target] = s \/ t.sess[s].done

\* A job is for the entry and the key of its session.
JobOf(t, job) ==
  job.sess # NoSession =>
    /\ job.sess <= t.created
    /\ job.id = t.sess[job.sess].target
    /\ job.key = t.sess[job.sess].key

\* Where a job is dropped its session has stopped; before a punch is queued
\* nobody can have answered it.
JobAt(t, th) ==
  /\ JobOf(t, th.job)
  /\ th.pc \in {"idle", "list"} => th.job.sess = NoSession
  /\ th.pc \in {"prepare", "validate", "activate", "commit", "fail"} => th.job.sess # NoSession
  /\ th.pc \in {"orphan", "remove", "restore"} /\ th.job.sess # NoSession =>
       t.sess[th.job.sess].done
  /\ th.pc \in {"teardown", "reroute", "schedule"} =>
       th.job.sess # NoSession /\ ~t.sess[th.job.sess].promoting

JobsSteady ==
  /\ \A job \in promoQ : job.sess # NoSession /\ JobOf(tab, job)
  /\ \A x \in Threads : /\ JobAt(tab, thr[x])
                        /\ thr[x].pc \in {"teardown", "reroute", "schedule"} => x = Control

Steady ==
  /\ Assigned(tab)
  /\ Live(tab)
  /\ Ended(tab)
  /\ JobsSteady
  /\ ValidationStopsLoop

\* A punch is queued for a session that exists.
Queued == \A s \in punching : s <= tab.created

\* The sessions of u are those of t, or fewer: the discarded ones have been
\* told to stop, the others are untouched and so are their entries.
Evolves(t, u) ==
  /\ u.created = t.created
  /\ \A s \in Sess : /\ u.sess[s].target = t.sess[s].target
                     /\ u.sess[s].key = t.sess[s].key
                     /\ u.sess[s].promoting = t.sess[s].promoting
                     /\ t.sess[s].done => u.sess[s].done
  /\ \A id \in IDs :
       \/ /\ u.sessions[id] = t.sessions[id]
          /\ t.sessions[id] # NoSession =>
               /\ u.peers[id].key = t.peers[id].key
               /\ u.peers[id].state = t.peers[id].state
               /\ u.sess[t.sessions[id]].done => t.sess[t.sessions[id]].done
       \/ /\ u.sessions[id] = NoSession
          /\ t.sessions[id] # NoSession => u.sess[t.sessions[id]].done

\* No entry becomes established and no session is created.
Calm(t, u) ==
  /\ \A id \in IDs : u.peers[id].state = "Established" => t.peers[id].state = "Established"
  /\ u.created = t.created

\* What jobs rely on: sessions keep their target and key, and stay stopped.
Grows(t, u) ==
  \A s \in Sess : s <= t.created =>
    /\ s <= u.created
    /\ u.sess[s].target = t.sess[s].target
    /\ u.sess[s].key = t.sess[s].key
    /\ t.sess[s].done => u.sess[s].done

LEMMA EvolvesSteady ==
  ASSUME NEW t, NEW u, t \in Table, u \in Table, Live(t), Ended(t), Evolves(t, u)
  PROVE  Live(u) /\ Ended(u) /\ Grows(t, u)
<1>0. /\ \A id \in IDs : t.sessions[id] \in Sess \cup {NoSession}
      /\ NoSession \notin Sess
  BY DEF Table, Sess, NoSession
<1>1. Live(u)
  <2> SUFFICES ASSUME NEW id \in IDs, u.sessions[id] # NoSession
               PROVE  /\ ~u.sess[u.sessions[id]].done
                      /\ u.peers[id].state = "Trying"
                      /\ u.peers[id].key = u.sess[u.sessions[id]].key
    BY DEF Live
  <2>1. /\ u.sessions[id] = t.sessions[id] /\ t.sessions[id] \in Sess
        /\ u.peers[id].key = t.peers[id].key /\ u.peers[id].state = t.peers[id].state
        /\ u.sess[t.sessions[id]].done => t.sess[t.sessions[id]].done
        /\ u.sess[t.sessions[id]].key = t.sess[t.sessions[id]].key
    BY <1>0 DEF Evolves
  <2> QED BY <2>1 DEF Live
<1>2. Ended(u)
  <2> SUFFICES ASSUME NEW s \in Sess, s <= u.created
               PROVE  /\ u.sess[s].target \in IDs
                      /\ u.sessions[u.sess[s].target] = s \/ u.sess[s].done
    BY DEF Ended
  <2> DEFINE id == t.sess[s].target
  <2>1. s <= t.created /\ u.sess[s].target = id /\ (t.sess[s].done => u.sess[s].done)
    BY DEF Evolves
  <2>2. id \in IDs /\ (t.sessions[id] = s \/ t.sess[s].done) BY <2>1 DEF Ended
  <2> HIDE DEF id
  <2>3. t.sessions[id] = s => u.sessions[id] = s \/ u.sess[s].done
    BY <1>0, <2>2 DEF Evolves
  <2> QED BY <2>1, <2>2, <2>3
<1>3. Grows(t, u) BY DEF Evolves, Grows
<1> QED BY <1>1, <1>2, <1>3

\* An index that is exact for assigned entries is assigned.
LEMMA AssignedFrom ==
  ASSUME ClientAssumption, NEW u,
         \A i \in IDs : u.peers[i].key # NoKey => <<i, u.peers[i].key>> \in Pairs,
         \A k \in Keys : u.keyIndex[k] \in Pick(Entry(u, k))
  PROVE  Assigned(u)
<1> SUFFICES ASSUME NEW k \in Keys, u.keyIndex[k] # NoID PROVE <<u.keyIndex[k], k>> \in Pairs
  BY DEF Assigned
<1>1. u.keyIndex[k] \in IDs /\ u.peers[u.keyIndex[k]].key = k BY DEF Pick, Entry
<1>2. k # NoKey BY ClientAssumption DEF ClientAssumption
<1> QED BY <1>1, <1>2

\* An attempt that is settled.
LEMMA SettleEvolves ==
  ASSUME ClientAssumption, NEW t, TableInv(t), Assigned(t), NEW id \in IDs, NEW u, NEW st,
         IsSettled(t, u, id, st)
  PROVE  /\ Evolves(t, u) /\ Assigned(u)
         /\ st # "Established" => Calm(t, u)
         /\ t.sessions[id] # NoSession => u.sess[t.sessions[id]].done
<1>0. /\ t \in Table /\ MapsAgree(t)
      /\ \A i \in IDs : t.sessions[i] \in Sess \cup {NoSession}
      /\ NoSession \notin Sess
  BY DEF TableInv, Table, Sess, NoSession
<1>1. Assigned(u)
  <2>1. \A i \in IDs : u.peers[i].key # NoKey => <<i, u.peers[i].key>> \in Pairs
    BY DEF Assigned, IsSettled
  <2>2. \A k \in Keys : u.keyIndex[k] \in Pick(Entry(u, k)) BY DEF IsSettled
  <2> QED BY <2>1, <2>2, AssignedFrom, ClientAssumption
<1>2. st # "Established" => Calm(t, u) BY DEF Calm, IsSettled
<1>3. t.sessions[id] # NoSession => u.sess[t.sessions[id]].done BY <1>0 DEF IsSettled
<1>4. ASSUME NEW i \in IDs, i # id
      PROVE  /\ u.sessions[i] = t.sessions[i]
             /\ t.sessions[i] # NoSession =>
                  /\ u.peers[i].key = t.peers[i].key
                  /\ u.peers[i].state = t.peers[i].state
                  /\ u.sess[t.sessions[i]].done => t.sess[t.sessions[i]].done
  <2>1. t.sessions[i] # NoSession => t.sessions[i] # t.sessions[id] /\ t.sessions[i] \in Sess
    BY <1>0, <1>4 DEF MapsAgree
  <2> QED BY <1>4, <2>1 DEF IsSettled
<1>5. u.sessions[id] = NoSession BY DEF IsSettled
<1>6. /\ u.created = t.created
      /\ \A s \in Sess : /\ u.sess[s].target = t.sess[s].target
                         /\ u.sess[s].key = t.sess[s].key
                         /\ u.sess[s].promoting = t.sess[s].promoting
                         /\ t.sess[s].done => u.sess[s].done
  BY DEF IsSettled
<1>7. Evolves(t, u) BY <1>3, <1>4, <1>5, <1>6 DEF Evolves
<1> QED BY <1>1, <1>2, <1>3, <1>7

\* A session that is not in the map is told to stop.
LEMMA StopEvolves ==
  ASSUME NEW t, TableInv(t), Assigned(t), NEW s \in Sess, \A i \in IDs : t.sessions[i] # s,
         NEW u, u = [t EXCEPT !.sess[s].done = TRUE]
  PROVE  Evolves(t, u) /\ Assigned(u) /\ Calm(t, u) /\ u.sess[s].done
<1>0. /\ t \in Table /\ \A x \in Sess : t.sess[x] \in Session
      /\ \A i \in IDs : t.sessions[i] \in Sess \cup {NoSession}
  BY DEF TableInv, Table
<1>1. /\ u.peers = t.peers /\ u.sessions = t.sessions /\ u.created = t.created
      /\ u.keyIndex = t.keyIndex /\ u.sess = [t.sess EXCEPT ![s].done = TRUE]
  BY <1>0 DEF Table
<1>2. /\ \A x \in Sess \ {s} : u.sess[x] = t.sess[x]
      /\ u.sess[s].target = t.sess[s].target /\ u.sess[s].key = t.sess[s].key
      /\ u.sess[s].promoting = t.sess[s].promoting /\ u.sess[s].done
  BY <1>0, <1>1 DEF Table, Session
<1>3. Assigned(u) /\ Calm(t, u) BY <1>1 DEF Assigned, Calm
<1>4. Evolves(t, u) BY <1>0, <1>1, <1>2 DEF Evolves
<1> QED BY <1>2, <1>3, <1>4

\* Nothing changes for the sessions.
LEMMA PeersEvolve ==
  ASSUME NEW t, NEW u, u.created = t.created, u.sess = t.sess, u.sessions = t.sessions,
         \A i \in IDs : t.sessions[i] # NoSession =>
           u.peers[i].key = t.peers[i].key /\ u.peers[i].state = t.peers[i].state
  PROVE  Evolves(t, u)
BY DEF Evolves

\* failPunchSessionIfCurrentLocked.
LEMMA FailPunchEvolves ==
  ASSUME ClientAssumption, TableInv(tab), Assigned(tab), Ended(tab),
         NEW s \in Sess, s <= tab.created, NEW u \in FailPunch(tab, s)
  PROVE  Evolves(tab, u) /\ Assigned(u) /\ Calm(tab, u)
<1> DEFINE id == tab.sess[s].target
<1>1. id \in IDs BY DEF Ended
<1>2. u = tab \/ u \in Settle(tab, id, "Failed")
  BY DEF FailPunch, Fails, Settle
<1> HIDE DEF id
<1>3. CASE u \in Settle(tab, id, "Failed")
  <2>1. "Failed" \in {"Established", "Failed"} OBVIOUS
  <2>2. IsSettled(tab, u, id, "Failed") BY <1>3, <2>1, SettleFacts, ClientAssumption
  <2> QED BY <1>1, <2>2, SettleEvolves, ClientAssumption
<1>4. CASE u = tab
  <2>1. Evolves(tab, tab) /\ Calm(tab, tab) BY PeersEvolve DEF Calm
  <2> QED BY <1>4, <2>1
<1> QED BY <1>2, <1>3, <1>4
-----------------------------------------------------------------------------
(* The coordinator's messages *)

\* Nothing is ever renumbered.
LEMMA NeverRenumbers ==
  ASSUME ClientAssumption, StableIDs, NEW t, t \in Table, Assigned(t), NEW r \in Pairs
  PROVE  Renumber(t, r[2], r[1]) = t
<1>0. r[1] \in IDs /\ r[2] \in Keys \cup {NoKey}
  BY ClientAssumption DEF ClientAssumption, Pairs
<1>1. CASE r[2] = NoKey BY <1>1 DEF Renumber
<1>2. CASE r[2] # NoKey
  <2> DEFINE q == <<t.keyIndex[r[2]], r[2]>>
  <2>1. t.keyIndex[r[2]] = NoID \/ q \in Pairs BY <1>0, <1>2 DEF Assigned
  <2>2. q[1] = t.keyIndex[r[2]] /\ q[2] = r[2] OBVIOUS
  <2> HIDE DEF q
  <2>3. t.keyIndex[r[2]] \in {NoID, r[1]} BY <1>2, <2>1, <2>2 DEF StableIDs
  <2> QED BY <2>3 DEF Renumber
<1> QED BY <1>1, <1>2

\* An entry has the key the coordinator gives it.
LEMMA OwnKey ==
  ASSUME StableIDs, NEW t, Assigned(t), NEW r \in Pairs, r[1] \in IDs, r[2] # NoKey,
         t.peers[r[1]].key # NoKey
  PROVE  t.peers[r[1]].key = r[2]
<1> DEFINE q == <<r[1], t.peers[r[1]].key>>
<1>1. q \in Pairs BY DEF Assigned
<1>2. q[1] = r[1] /\ q[2] = t.peers[r[1]].key OBVIOUS
<1> HIDE DEF q
<1> QED BY <1>1, <1>2 DEF StableIDs

\* A relay finds its entry, or makes one without a key.
LEMMA StableRelay ==
  ASSUME ClientAssumption, StableIDs, TableInv(tab), Assigned(tab), NEW r \in Relays
  PROVE  LET t == RelayTable(r[1], r[2])
         IN /\ t.sessions = tab.sessions /\ t.sess = tab.sess /\ t.created = tab.created
            /\ \A i \in IDs \ {r[1]} : t.peers[i] = tab.peers[i]
            /\ \/ t = tab
               \/ /\ tab.peers[r[1]].key = NoKey /\ t.peers[r[1]].key = NoKey
                  /\ t.peers[r[1]].state = "Discovered" /\ tab.sessions[r[1]] = NoSession
            /\ t.peers[r[1]].key = tab.peers[r[1]].key
<1> DEFINE id == r[1]
           k == r[2]
           new == [key |-> NoKey, state |-> "Discovered", capable |-> TRUE]
           t == RelayTable(id, k)
<1>0. tab \in Table /\ EntriesKeyed(tab) /\ SessionsPending(tab, {}) /\ id \in IDs
  BY ClientAssumption DEF TableInv, ClientAssumption
<1>1. Renumber(tab, k, id) = tab BY <1>0, NeverRenumbers, ClientAssumption DEF Pairs
<1>2. t = IF Known(tab, id) THEN tab ELSE [tab EXCEPT !.peers[id] = new]
  BY <1>1 DEF RelayTable
<1>3. CASE Known(tab, id) BY <1>2, <1>3
<1>4. CASE ~Known(tab, id)
  <2>1. new.key = NoKey /\ new.state = "Discovered" OBVIOUS
  <2>2. tab.peers[id].key = NoKey /\ tab.sessions[id] = NoSession
    BY <1>0, <1>4 DEF Known, EntriesKeyed, SessionsPending
  <2> HIDE DEF new, t, id
  <2>3. t = [tab EXCEPT !.peers[id] = new] BY <1>2, <1>4
  <2>4. /\ t.sessions = tab.sessions /\ t.sess = tab.sess /\ t.created = tab.created
        /\ t.peers[id] = new /\ \A i \in IDs \ {id} : t.peers[i] = tab.peers[i]
    BY <1>0, <2>3 DEF Table
  <2> QED BY <2>1, <2>2, <2>4 DEF t, id
<1> QED BY <1>3, <1>4

\* The entry of a live attempt has a key, and not the coordinator's.
LEMMA LiveKeyed ==
  ASSUME NEW t, t \in Table, MapsAgree(t), Live(t), NEW id \in IDs, t.sessions[id] # NoSession
  PROVE  t.peers[id].key \notin {NoKey, ServerKey} /\ t.peers[id].state = "Trying"
<1>1. t.sessions[id] \in Sess /\ t.sessions[id] <= t.created BY DEF Table, MapsAgree
<1>2. t.sess[t.sessions[id]].key \notin {NoKey, ServerKey} BY <1>1 DEF MapsAgree
<1> QED BY <1>2 DEF Live

\* handlePeerList and the relays that start nothing.
LEMMA ListMoves ==
  ASSUME ClientAssumption, StableIDs, TableInv(tab), Assigned(tab), Live(tab), NEW r \in Lists,
         ListEntry(r[1], r[2])
  PROVE  Evolves(tab, tab') /\ Assigned(tab') /\ Calm(tab, tab')
<1> DEFINE id == r[1]
           k == r[2]
<1>0. id \in IDs /\ k \in Keys /\ tab \in Table /\ MapsAgree(tab)
  BY ClientAssumption DEF TableInv, ClientAssumption, StableIDs
<1>1. tab' = tab \/ \E moved \in BOOLEAN : tab' = MergeEntry(tab, id, k, moved)
  BY Zenon DEF ListEntry
<1>2. CASE tab' = tab BY <1>2, PeersEvolve DEF Calm
<1>3. ASSUME NEW moved \in BOOLEAN, tab' = MergeEntry(tab, id, k, moved)
      PROVE  Evolves(tab, tab') /\ Assigned(tab') /\ Calm(tab, tab')
  <2>1. Renumber(tab, k, id) = tab BY <1>0, NeverRenumbers, ClientAssumption DEF Pairs
  <2>0. k # NoKey BY DEF StableIDs
  <2>2. tab.peers[id].key # NoKey => tab.peers[id].key = k BY <1>0, <2>0, OwnKey DEF Pairs
  <2>3. <<id, k>> \in Pairs
    BY ClientAssumption DEF ClientAssumption, Pairs
  <2> HIDE DEF id, k
  <2>4. LET u == Renumber(tab, k, id)
            m == MergeEntry(tab, id, k, moved)
            p == u.peers[id]
        IN /\ m.sessions = u.sessions /\ m.sess = u.sess /\ m.created = u.created
           /\ \A i \in IDs \ {id} : m.peers[i] = u.peers[i]
           /\ m.peers[id].key = k
           /\ m.peers[id].state = IF p.state = "None" \/ (p.state = "Failed" /\ moved)
                                  THEN "Discovered" ELSE p.state
           /\ \A q \in Keys : m.keyIndex[q] = IF q = k THEN id ELSE u.keyIndex[q]
    BY <1>0, MergeFacts, ClientAssumption
  <2>5. /\ tab'.sessions = tab.sessions /\ tab'.sess = tab.sess /\ tab'.created = tab.created
        /\ \A i \in IDs \ {id} : tab'.peers[i] = tab.peers[i]
        /\ tab'.peers[id].key = k
        /\ tab'.peers[id].state = IF tab.peers[id].state = "None" \/ (tab.peers[id].state = "Failed" /\ moved)
                                  THEN "Discovered" ELSE tab.peers[id].state
        /\ \A q \in Keys : tab'.keyIndex[q] = IF q = k THEN id ELSE tab.keyIndex[q]
    BY <1>3, <2>1, <2>4
  <2>6. Assigned(tab') BY <2>3, <2>5 DEF Assigned
  <2>7. Calm(tab, tab') BY <2>5 DEF Calm
  <2>8. tab.sessions[id] # NoSession => tab.peers[id].state = "Trying" /\ tab.peers[id].key = k
    <3> SUFFICES ASSUME tab.sessions[id] # NoSession
                 PROVE  tab.peers[id].state = "Trying" /\ tab.peers[id].key = k
      OBVIOUS
    <3>1. tab.peers[id].key # NoKey BY <1>0, LiveKeyed
    <3> QED BY <1>0, <2>2, <3>1 DEF Live
  <2>9. Evolves(tab, tab') BY <2>5, <2>8, PeersEvolve
  <2> QED BY <2>6, <2>7, <2>9
<1> QED BY <1>1, <1>2, <1>3

LEMMA RelayMoves ==
  ASSUME ClientAssumption, StableIDs, TableInv(tab), tab' \in Table, Assigned(tab), Live(tab),
         NEW r \in Relays,
         \/ RelayIgnored(r[1], r[2])
         \/ RelayRefused(r[1], r[2])
         \/ \E n \in Nonces : RelayJoins(r[1], r[2], n)
  PROVE  Evolves(tab, tab') /\ Assigned(tab') /\ Calm(tab, tab')
<1> DEFINE id == r[1]
           k == r[2]
           t == RelayTable(id, k)
<1>0. id \in IDs /\ k \in Keys \cup {NoKey} /\ tab \in Table /\ MapsAgree(tab) /\ r = <<id, k>>
  BY ClientAssumption DEF TableInv, ClientAssumption
<1>1. /\ t.sessions = tab.sessions /\ t.sess = tab.sess /\ t.created = tab.created
      /\ \A i \in IDs \ {id} : t.peers[i] = tab.peers[i]
      /\ \/ t = tab
         \/ /\ tab.peers[id].key = NoKey /\ t.peers[id].key = NoKey
            /\ t.peers[id].state = "Discovered" /\ tab.sessions[id] = NoSession
      /\ t.peers[id].key = tab.peers[id].key
  BY StableRelay, ClientAssumption
<1>2. CASE tab' = tab BY <1>2, PeersEvolve DEF Calm
<1>3. CASE RelayIgnored(id, k)
  <2>1. tab' = t /\ t.peers[id].state = "Established" BY <1>3 DEF RelayIgnored
  <2> QED BY <1>1, <1>2, <2>1
<1>4. ASSUME NEW n \in Nonces, RelayJoins(id, k, n)
      PROVE  Evolves(tab, tab') /\ Assigned(tab') /\ Calm(tab, tab')
  <2> DEFINE s == t.sessions[id]
             key == RelayKey(t.peers[id], k)
             u == [t EXCEPT !.peers[id].key = key]
  <2>0. /\ s # NoSession
        /\ \/ tab' = u
           \/ \E B : tab' = [u EXCEPT !.sess[s].alt = n, !.byNonce = B]
    BY <1>4, ZenonT(60) DEF RelayJoins
  <2>2. t = tab BY <1>1, <2>0, Zenon
  <2>5. key = tab.peers[id].key
    <3>1. tab.peers[id].key # NoKey BY <1>0, <2>0, <2>2, LiveKeyed
    <3> QED BY <2>2, <3>1 DEF RelayKey
  <2>6. u = tab
    <3> HIDE DEF key, t, id, k
    <3>1. tab.peers \in [IDs -> Peer] /\ id \in IDs BY <1>0 DEF Table
    <3>2. [tab.peers EXCEPT ![id].key = tab.peers[id].key] = tab.peers BY <3>1 DEF Peer
    <3>3. u = [tab EXCEPT !.peers = [tab.peers EXCEPT ![id].key = tab.peers[id].key]]
      BY <2>2, <2>5
    <3> QED BY <1>0, <3>2, <3>3 DEF Table
  <2>1. /\ s # NoSession
        /\ \/ tab' = tab
           \/ \E B : tab' = [tab EXCEPT !.sess[s].alt = n, !.byNonce = B]
    BY <2>0, <2>6, Zenon
  <2>3. s \in Sess BY <1>0, <2>1, <2>2 DEF Table
  <2> HIDE DEF t, s
  <2>4. ASSUME NEW B, tab' = [tab EXCEPT !.sess[s].alt = n, !.byNonce = B]
        PROVE  Evolves(tab, tab') /\ Assigned(tab') /\ Calm(tab, tab')
    <3>1. /\ tab'.peers = tab.peers /\ tab'.sessions = tab.sessions /\ tab'.created = tab.created
          /\ tab'.keyIndex = tab.keyIndex /\ tab'.sess = [tab.sess EXCEPT ![s].alt = n]
      BY <1>0, <2>4 DEF Table
    <3>2. \A x \in Sess : tab.sess[x] \in Session /\ tab.sess \in [Sess -> Session]
      BY <1>0 DEF Table
    <3>3. \A x \in Sess : /\ tab'.sess[x].target = tab.sess[x].target
                          /\ tab'.sess[x].key = tab.sess[x].key
                          /\ tab'.sess[x].promoting = tab.sess[x].promoting
                          /\ tab'.sess[x].done = tab.sess[x].done
      BY <3>1, <3>2 DEF Session
    <3>4. \A i \in IDs : tab.sessions[i] \in Sess \cup {NoSession} BY <1>0 DEF Table
    <3>5. Evolves(tab, tab') BY <3>1, <3>3, <3>4 DEF Evolves
    <3> QED BY <3>1, <3>5 DEF Assigned, Calm
  <2> QED BY <1>2, <2>1, <2>4
<1>5. CASE RelayRefused(id, k)
  <2> DEFINE key == RelayKey(t.peers[id], k)
             v == [t EXCEPT !.peers[id].key = key, !.peers[id].state = "Failed"]
  <2>1. /\ tab' \in Rebuild(v)
        /\ \/ k \notin {NoKey, key}
           \/ key \in {NoKey, ServerKey}
    BY <1>5 DEF RelayRefused, Fails
  <2>2. "Failed" \in States BY DEF States
  <2>3. /\ v.sessions = t.sessions /\ v.sess = t.sess /\ v.created = t.created
        /\ \A i \in IDs : /\ v.peers[i].key = IF i = id THEN key ELSE t.peers[i].key
                          /\ v.peers[i].state = IF i = id THEN "Failed" ELSE t.peers[i].state
    BY <1>0, <2>2, LearnPeers, ClientAssumption
  <2>4. key = IF tab.peers[id].key = NoKey THEN k ELSE tab.peers[id].key
    BY <1>1 DEF RelayKey
  <2>5. tab.peers[id].key # NoKey /\ k # NoKey => tab.peers[id].key = k BY <1>0, OwnKey DEF Pairs
  <2> HIDE DEF t, key, v, id, k
  <2>6. /\ tab'.peers = v.peers /\ tab'.sessions = v.sessions /\ tab'.sess = v.sess
        /\ tab'.created = v.created /\ \A h \in Keys : Exact(tab', h)
    BY <2>1, RebuildAgain
  <2>7. tab.sessions[id] = NoSession
    <3> SUFFICES ASSUME tab.sessions[id] # NoSession PROVE FALSE OBVIOUS
    <3>1. tab.peers[id].key \notin {NoKey, ServerKey}
      BY <1>0, LiveKeyed
    <3> QED BY <2>1, <2>4, <2>5, <3>1
  <2>8. \A i \in IDs : tab'.peers[i].key # NoKey => <<i, tab'.peers[i].key>> \in Pairs
    <3>1. <<id, k>> \in Pairs BY <1>0 DEF Pairs, id, k
    <3> QED BY <1>0, <1>1, <2>3, <2>4, <2>6, <3>1 DEF Assigned
  <2>10. \A h \in Keys : tab'.keyIndex[h] \in Pick(Entry(tab', h)) BY <2>6 DEF Exact
  <2>11. Assigned(tab') BY <2>8, <2>10, AssignedFrom, ClientAssumption
  <2>12. Calm(tab, tab') BY <1>1, <2>3, <2>6 DEF Calm
  <2>13. Evolves(tab, tab')
    <3>1. \A i \in IDs : tab.sessions[i] # NoSession =>
            tab'.peers[i].key = tab.peers[i].key /\ tab'.peers[i].state = tab.peers[i].state
      BY <1>1, <2>3, <2>6, <2>7
    <3> QED BY <1>1, <2>3, <2>6, <3>1, PeersEvolve
  <2> QED BY <2>11, <2>12, <2>13
<1> QED BY <1>3, <1>4, <1>5
-----------------------------------------------------------------------------
(* The threads *)

\* One thread goes on with a job; what it worked on is taken further, has
\* stopped or was never answered.
Continues(x, pc, job) ==
  /\ job.sess \in Sess \cup {NoSession}
  /\ JobAt(tab', [pc |-> pc, job |-> job])
  /\ pc \in {"teardown", "reroute", "schedule"} => x = Control
  /\ promoQ' \subseteq promoQ \cup {thr[x].job}
  /\ thr[x].job \in promoQ' => thr[x].job \in promoQ \/ thr[x].job.sess # NoSession
  /\ promoQ \subseteq promoQ' \cup {job}
  /\ \/ thr[x].job.sess \in {NoSession, job.sess}
     \/ thr[x].job \in promoQ'
     \/ tab'.sess[thr[x].job.sess].done
     \/ ~tab'.sess[thr[x].job.sess].promoting

\* Promotion is set by HandlePunch and cleared by a new session.
Answers(x, job) ==
  \A s \in Sess : \/ tab'.sess[s].promoting = tab.sess[s].promoting
                  \/ ~tab'.sess[s].promoting
                  \/ x = Control /\ job.sess = s

LEMMA ThreadSteady ==
  ASSUME ClientAssumption, TypeOK, JobsSteady, ValidationStopsLoop, Grows(tab, tab'),
         NEW x \in Threads, NEW pc, NEW job,
         \A y \in Threads : thr'[y] = IF y = x THEN [pc |-> pc, job |-> job] ELSE thr[y],
         Continues(x, pc, job), Answers(x, job),
         \A s \in Sess : tab'.sess[s].promoting /\ tab.sess[s].done => tab'.sess[s].done
  PROVE  JobsSteady' /\ ValidationStopsLoop'
<1>0. /\ \A y \in Threads : thr[y].job.sess \in Sess \cup {NoSession}
      /\ \A j \in promoQ : j.sess \in Sess \cup {NoSession}
      /\ NoSession \notin Sess
  BY DEF TypeOK, Job, Sess, NoSession
<1> USE DEF Continues, Answers
<1>1. ASSUME NEW j, j.sess \in Sess \cup {NoSession}, JobOf(tab, j) PROVE JobOf(tab', j)
  BY <1>1 DEF JobOf, Grows
<1>2. \A j \in promoQ' : j.sess # NoSession /\ JobOf(tab', j)
  <2> SUFFICES ASSUME NEW j \in promoQ' PROVE j.sess # NoSession /\ JobOf(tab', j) OBVIOUS
  <2>1. CASE j \in promoQ BY <1>0, <1>1, <2>1 DEF JobsSteady
  <2>2. CASE j = thr[x].job /\ j \notin promoQ
    <3>1. JobOf(tab, thr[x].job) BY DEF JobsSteady, JobAt
    <3> QED BY <1>0, <1>1, <2>2, <3>1
  <2> QED BY <2>1, <2>2
<1>3. ASSUME NEW y \in Threads
      PROVE  /\ JobAt(tab', thr'[y])
             /\ thr'[y].pc \in {"teardown", "reroute", "schedule"} => y = Control
  <2>1. CASE y = x BY <2>1
  <2>2. CASE y # x
    <3>1. /\ thr'[y] = thr[y] /\ JobAt(tab, thr[y])
          /\ thr[y].pc \in {"teardown", "reroute", "schedule"} => y = Control
      BY <2>2 DEF JobsSteady
    <3>2. JobOf(tab', thr[y].job) BY <1>0, <1>1, <3>1 DEF JobAt
    <3>3. thr[y].pc \in {"orphan", "remove", "restore"} /\ thr[y].job.sess # NoSession =>
            tab'.sess[thr[y].job.sess].done
      BY <1>0, <3>1 DEF JobAt, JobOf, Grows
    <3>4. thr[y].pc \in {"teardown", "reroute", "schedule"} => ~tab'.sess[thr[y].job.sess].promoting
      BY <1>0, <2>2, <3>1 DEF JobAt
    <3> QED BY <3>1, <3>2, <3>3, <3>4 DEF JobAt
  <2> QED BY <2>1, <2>2
<1>4. ASSUME NEW s \in Sess, tab'.sess[s].promoting, ~Promoted(s)' PROVE tab'.sess[s].done
  <2>1. job.sess # s BY <1>4 DEF Promoted
  <2>2. tab.sess[s].promoting BY <1>4, <2>1
  <2>3. CASE ~Promoted(s) BY <1>4, <2>2, <2>3 DEF ValidationStopsLoop
  <2>4. ASSUME NEW j \in promoQ, j.sess = s PROVE FALSE BY <1>4, <2>1, <2>4 DEF Promoted
  <2>5. ASSUME NEW y \in Threads, thr[y].job.sess = s, y # x PROVE FALSE
    <3>1. thr'[y] = thr[y] BY <2>5
    <3> QED BY <1>4, <2>5, <3>1 DEF Promoted
  <2>6. CASE thr[x].job.sess = s
    <3>1. thr[x].job \notin promoQ' BY <1>4, <2>6 DEF Promoted
    <3> QED BY <1>0, <1>4, <2>1, <2>6, <3>1
  <2> QED BY <2>3, <2>4, <2>5, <2>6 DEF Promoted
<1> QED BY <1>2, <1>3, <1>4 DEF JobsSteady, ValidationStopsLoop

\* No thread moves.
LEMMA ThreadsRest ==
  ASSUME ClientAssumption, TypeOK, JobsSteady, ValidationStopsLoop, Grows(tab, tab'),
         \A s \in Sess : tab'.sess[s].promoting = tab.sess[s].promoting,
         \A s \in Sess : tab.sess[s].done => tab'.sess[s].done,
         UNCHANGED <<thr, promoQ>>
  PROVE  JobsSteady' /\ ValidationStopsLoop'
<1>0. /\ \A y \in Threads : thr[y].job.sess \in Sess \cup {NoSession}
      /\ \A j \in promoQ : j.sess \in Sess \cup {NoSession}
  BY DEF TypeOK, Job
<1>1. ASSUME NEW j, j.sess \in Sess \cup {NoSession}, JobOf(tab, j) PROVE JobOf(tab', j)
  BY <1>1 DEF JobOf, Grows
<1>2. \A j \in promoQ' : j.sess # NoSession /\ JobOf(tab', j)
  BY <1>0, <1>1 DEF JobsSteady
<1>3. ASSUME NEW y \in Threads PROVE JobAt(tab', thr[y])
  <2>1. JobAt(tab, thr[y]) BY DEF JobsSteady
  <2>2. JobOf(tab', thr[y].job) BY <1>0, <1>1, <2>1 DEF JobAt
  <2> QED BY <1>0, <2>1, <2>2 DEF JobAt
<1>4. JobsSteady' BY <1>2, <1>3 DEF JobsSteady
<1>5. \A s : Promoted(s)' <=> Promoted(s) BY DEF Promoted
<1>6. ValidationStopsLoop' BY <1>5 DEF ValidationStopsLoop
<1> QED BY <1>4, <1>6

\* A section in which no thread moves.
LEMMA RestSteady ==
  ASSUME ClientAssumption, IInv, IInv', Steady, Evolves(tab, tab'), Assigned(tab'),
         UNCHANGED <<thr, promoQ>>
  PROVE  Steady'
<1>1. tab \in Table /\ tab' \in Table /\ TypeOK BY DEF IInv, TableInv
<1>2. Live(tab') /\ Ended(tab') /\ Grows(tab, tab') BY <1>1, EvolvesSteady DEF Steady
<1>3. JobsSteady' /\ ValidationStopsLoop'
  BY <1>1, <1>2, ThreadsRest, ClientAssumption DEF Steady, Evolves
<1> QED BY <1>2, <1>3 DEF Steady

\* A section after which thread x goes on at pc with the job.
LEMMA GoSteady ==
  ASSUME ClientAssumption, IInv, IInv', Steady, Evolves(tab, tab'), Assigned(tab'),
         NEW x \in Threads, NEW pc, NEW job,
         Go(x, pc, job), Continues(x, pc, job)
  PROVE  Steady'
<1>1. tab \in Table /\ tab' \in Table /\ TypeOK BY DEF IInv, TableInv
<1>2. Live(tab') /\ Ended(tab') /\ Grows(tab, tab') BY <1>1, EvolvesSteady DEF Steady
<1>3. \A y \in Threads : thr'[y] = IF y = x THEN [pc |-> pc, job |-> job] ELSE thr[y]
  BY <1>1 DEF TypeOK, Go
<1>4. /\ \A s \in Sess : tab'.sess[s].promoting = tab.sess[s].promoting
      /\ \A s \in Sess : tab'.sess[s].promoting /\ tab.sess[s].done => tab'.sess[s].done
  BY DEF Evolves
<1>5. JobsSteady /\ ValidationStopsLoop BY DEF Steady
<1>6. Answers(x, job) BY <1>4 DEF Answers
<1>7. JobsSteady' /\ ValidationStopsLoop'
  BY <1>1, <1>2, <1>3, <1>4, <1>5, <1>6, ThreadSteady, ClientAssumption
<1> QED BY <1>2, <1>7 DEF Steady

\* A thread that ends with nothing.
LEMMA IdleSteady ==
  ASSUME ClientAssumption, IInv, IInv', Steady, Evolves(tab, tab'), Assigned(tab'),
         NEW x \in Threads, NEW pc \in {"idle", "list"}, Go(x, pc, NoJob),
         promoQ' \in {promoQ, promoQ \cup {thr[x].job}},
         \/ thr[x].job.sess = NoSession /\ promoQ' = promoQ
         \/ thr[x].job.sess # NoSession /\ promoQ' = promoQ \cup {thr[x].job}
         \/ tab'.sess[thr[x].job.sess].done /\ promoQ' = promoQ
         \/ ~tab'.sess[thr[x].job.sess].promoting /\ promoQ' = promoQ
  PROVE  Steady'
<1>1. NoJob.sess = NoSession BY DEF NoJob
<1>2. JobAt(tab', [pc |-> pc, job |-> NoJob]) BY <1>1 DEF JobAt, JobOf
<1>3. pc \notin {"teardown", "reroute", "schedule"} OBVIOUS
<1>4. Continues(x, pc, NoJob) BY <1>1, <1>2, <1>3 DEF Continues
<1> QED BY <1>4, GoSteady, ClientAssumption
-----------------------------------------------------------------------------
(* The steps *)

\* An entry that turns established is the entry of the key being activated.
Activates ==
  \A id \in IDs : tab.peers[id].state # "Established" /\ tab'.peers[id].state = "Established" =>
    \E w \in Workers : At(w, "commit") /\ thr[w].job.key = tab'.peers[id].key

\* Sessions are created one at a time.
Ages == tab'.created \in {tab.created, tab.created + 1}

LEMMA CalmActivates ==
  ASSUME Calm(tab, tab')
  PROVE  Activates /\ Ages
BY DEF Calm, Activates, Ages

LEMMA SteadyFacts ==
  ASSUME IInv, Steady
  PROVE  /\ TypeOK /\ TableInv(tab) /\ tab \in Table /\ thr \in [Threads -> Thread]
         /\ Assigned(tab) /\ Live(tab) /\ Ended(tab) /\ JobsSteady /\ ValidationStopsLoop
         /\ Control \in Threads /\ Maintenance \in Threads /\ Workers \subseteq Threads
         /\ NoSession \notin Sess
         /\ \A x \in Threads : thr[x].job \in Job /\ thr[x].job.sess \in Sess \cup {NoSession}
BY DEF IInv, Steady, TypeOK, TableInv, Thread, Threads, Job, Sess, NoSession

\* The table stays and a thread goes on with its job.
LEMMA PassOn ==
  ASSUME ClientAssumption, IInv, IInv', Steady, tab' = tab, promoQ' = promoQ,
         NEW x \in Threads, NEW pc, Go(x, pc, thr[x].job),
         JobAt(tab, [pc |-> pc, job |-> thr[x].job]),
         pc \in {"teardown", "reroute", "schedule"} => x = Control
  PROVE  Steady' /\ Activates /\ Ages
<1>0. thr[x].job.sess \in Sess \cup {NoSession} /\ Assigned(tab) BY SteadyFacts
<1>1. Evolves(tab, tab') /\ Assigned(tab') /\ Calm(tab, tab')
  BY <1>0, PeersEvolve DEF Calm
<1>2. Continues(x, pc, thr[x].job) BY <1>0 DEF Continues
<1> QED BY <1>1, <1>2, GoSteady, CalmActivates, ClientAssumption

\* The table stays and a thread ends with nothing to see to.
LEMMA PassOff ==
  ASSUME ClientAssumption, IInv, IInv', Steady, tab' = tab, promoQ' = promoQ,
         NEW x \in Threads, NEW pc \in {"idle", "list"}, Go(x, pc, NoJob),
         \/ thr[x].job.sess = NoSession
         \/ tab.sess[thr[x].job.sess].done
         \/ ~tab.sess[thr[x].job.sess].promoting
  PROVE  Steady' /\ Activates /\ Ages
<1>0. Assigned(tab) BY SteadyFacts
<1>1. Evolves(tab, tab') /\ Assigned(tab') /\ Calm(tab, tab')
  BY <1>0, PeersEvolve DEF Calm
<1>2. promoQ' \in {promoQ, promoQ \cup {thr[x].job}} OBVIOUS
<1> QED BY <1>1, <1>2, IdleSteady, CalmActivates, ClientAssumption, Zenon

\* handlePeerList, and the relays that start nothing.
LEMMA MessageSteady ==
  ASSUME ClientAssumption, StableIDs, IInv, IInv', Steady,
         \/ ListBegin
         \/ ListEnd
         \/ \E r \in Lists : ListEntry(r[1], r[2])
         \/ \E r \in Relays : RelayIgnored(r[1], r[2]) \/ RelayRefused(r[1], r[2])
         \/ \E r \in Relays, n \in Nonces : RelayJoins(r[1], r[2], n)
  PROVE  Steady' /\ Activates /\ Ages
<1>0. /\ TableInv(tab) /\ tab \in Table /\ Assigned(tab) /\ Live(tab) /\ Ended(tab) /\ JobsSteady
      /\ Control \in Threads /\ tab' \in Table
  BY SteadyFacts DEF IInv, TableInv
<1>1. CASE ListBegin
  <2>1. /\ tab' = tab /\ promoQ' = promoQ /\ Go(Control, "list", NoJob) /\ thr[Control].pc = "idle"
    BY <1>1 DEF ListBegin, At
  <2>2. thr[Control].job.sess = NoSession BY <1>0, <2>1 DEF JobsSteady, JobAt
  <2> QED BY <1>0, <2>1, <2>2, PassOff, ClientAssumption
<1>2. CASE ListEnd
  <2>1. /\ tab' \in Rebuild(tab) /\ promoQ' = promoQ /\ Go(Control, "idle", NoJob)
        /\ thr[Control].pc = "list"
    BY <1>2 DEF ListEnd, At, Idle
  <2>2. thr[Control].job.sess = NoSession BY <1>0, <2>1 DEF JobsSteady, JobAt
  <2>3. /\ tab'.peers = tab.peers /\ tab'.sessions = tab.sessions /\ tab'.sess = tab.sess
        /\ tab'.created = tab.created /\ \A q \in Keys : Exact(tab', q)
    BY <1>0, <2>1, RebuildAgain
  <2>5. \A q \in Keys : tab'.keyIndex[q] \in Pick(Entry(tab', q)) BY <2>3 DEF Exact
  <2>6. \A i \in IDs : tab'.peers[i].key # NoKey => <<i, tab'.peers[i].key>> \in Pairs
    BY <1>0, <2>3 DEF Assigned
  <2>7. Assigned(tab') BY <2>5, <2>6, AssignedFrom, ClientAssumption
  <2>8. Evolves(tab, tab') /\ Calm(tab, tab') BY <2>3, PeersEvolve DEF Calm
  <2>9. promoQ' \in {promoQ, promoQ \cup {thr[Control].job}} BY <2>1
  <2> QED
    BY <1>0, <2>1, <2>2, <2>7, <2>8, <2>9, IdleSteady, CalmActivates, ClientAssumption
<1>3. ASSUME Evolves(tab, tab') /\ Assigned(tab') /\ Calm(tab, tab'), UNCHANGED <<thr, promoQ>>
      PROVE  Steady' /\ Activates /\ Ages
  BY <1>3, RestSteady, CalmActivates, ClientAssumption
<1>4. ASSUME NEW r \in Lists, ListEntry(r[1], r[2])
      PROVE  Steady' /\ Activates /\ Ages
  <2>1. Evolves(tab, tab') /\ Assigned(tab') /\ Calm(tab, tab')
    BY <1>0, <1>4, ListMoves, ClientAssumption
  <2>2. UNCHANGED <<thr, promoQ>> BY <1>4 DEF ListEntry
  <2> QED BY <1>3, <2>1, <2>2
<1>5. ASSUME NEW r \in Relays, \/ RelayIgnored(r[1], r[2])
                               \/ RelayRefused(r[1], r[2])
                               \/ \E n \in Nonces : RelayJoins(r[1], r[2], n)
      PROVE  Steady' /\ Activates /\ Ages
  <2>1. Evolves(tab, tab') /\ Assigned(tab') /\ Calm(tab, tab')
    BY <1>0, <1>5, RelayMoves, ClientAssumption
  <2>2. UNCHANGED <<thr, promoQ>> BY <1>5, Zenon DEF RelayIgnored, RelayRefused, RelayJoins
  <2> QED BY <1>3, <2>1, <2>2
<1> QED BY <1>1, <1>2, <1>4, <1>5

\* handlePunchRelay starting a session.
LEMMA StartSteady ==
  ASSUME ClientAssumption, StableIDs, IInv, IInv', Steady, NEW r \in Relays, NEW n \in Nonces,
         RelayStarts(r[1], r[2], n)
  PROVE  Steady' /\ Activates /\ Ages
<1> DEFINE id == r[1]
           k == r[2]
           t == RelayTable(id, k)
           key == RelayKey(t.peers[id], k)
           s == tab.created + 1
           pc == IF t.peers[id].state = "Established" THEN "teardown" ELSE "schedule"
           job == [id |-> id, sess |-> s, key |-> key]
<1>0. /\ TypeOK /\ TableInv(tab) /\ tab \in Table /\ Assigned(tab) /\ Live(tab) /\ Ended(tab)
      /\ JobsSteady /\ ValidationStopsLoop /\ MapsAgree(tab)
      /\ Control \in Threads /\ tab' \in Table /\ NoSession \notin Sess
  BY SteadyFacts DEF IInv, TableInv
<1>1. id \in IDs /\ k \in Keys \cup {NoKey} /\ r = <<id, k>>
  BY ClientAssumption DEF ClientAssumption
<1>2. IsStarted(id, k, n) BY <1>1, StartFacts, ClientAssumption
<1>3. /\ t.sessions = tab.sessions /\ t.sess = tab.sess
      /\ \A i \in IDs \ {id} : t.peers[i] = tab.peers[i]
      /\ t.peers[id].key = tab.peers[id].key
  BY <1>0, StableRelay, ClientAssumption, SMTT(30)
<1>4. /\ key \notin {NoKey, ServerKey} /\ Go(Control, pc, job) /\ thr[Control].pc = "idle"
      /\ promoQ' = promoQ
  BY Zenon DEF RelayStarts, RelayAccepted, At
<1>5. /\ \A i \in IDs : /\ tab'.peers[i].key = IF i = id THEN key ELSE tab.peers[i].key
                        /\ tab'.peers[i].state = IF i = id THEN "Trying" ELSE tab.peers[i].state
      /\ \A i \in IDs : tab'.sessions[i] = IF i = id THEN s ELSE tab.sessions[i]
      /\ tab'.created = s /\ s \in Sess
      /\ \A q \in Keys : tab'.keyIndex[q] \in Pick(Entry(tab', q))
  BY <1>2, <1>3 DEF IsStarted
<1>6. /\ tab'.sess[s].target = id /\ tab'.sess[s].key = key
      /\ ~tab'.sess[s].promoting /\ ~tab'.sess[s].done
  BY <1>2 DEF IsStarted
<1>7. \A x \in Sess \ {s} : /\ tab'.sess[x].target = tab.sess[x].target
                            /\ tab'.sess[x].key = tab.sess[x].key
                            /\ tab'.sess[x].promoting = tab.sess[x].promoting
                            /\ tab'.sess[x].done <=> tab.sess[x].done \/ tab.sessions[id] = x
  BY <1>2, <1>3 DEF IsStarted
<1>8. key = tab.peers[id].key \/ (key = k /\ tab.peers[id].key = NoKey)
  BY <1>3 DEF RelayKey
<1>9. job.sess = s /\ job.id = id /\ job.key = key OBVIOUS
<1>10. pc \in {"teardown", "schedule"} OBVIOUS
<1>11. tab.created \in Nat /\ s > tab.created
  BY <1>0, ClientAssumption DEF Table, ClientAssumption
<1> HIDE DEF id, k, t, key, s, pc, job
<1>12. Assigned(tab')
  <2>1. \A i \in IDs : tab'.peers[i].key # NoKey => <<i, tab'.peers[i].key>> \in Pairs
    <3>1. <<id, k>> \in Pairs BY <1>1 DEF Pairs
    <3> QED BY <1>0, <1>1, <1>5, <1>8, <3>1 DEF Assigned
  <2> QED BY <1>5, <2>1, AssignedFrom, ClientAssumption
<1>13. \A x \in Sess : x <= tab.created => x # s /\ x <= s
  BY <1>11 DEF Sess, s
<1>14. Live(tab')
  <2> SUFFICES ASSUME NEW i \in IDs, tab'.sessions[i] # NoSession
               PROVE  /\ ~tab'.sess[tab'.sessions[i]].done
                      /\ tab'.peers[i].state = "Trying"
                      /\ tab'.peers[i].key = tab'.sess[tab'.sessions[i]].key
    BY DEF Live
  <2>1. CASE i = id BY <1>5, <1>6, <2>1
  <2>2. CASE i # id
    <3> DEFINE x == tab.sessions[i]
    <3>1. x \in Sess /\ x <= tab.created /\ tab.sess[x].target = i /\ tab'.sessions[i] = x
      BY <1>0, <1>5, <2>2 DEF MapsAgree, Table
    <3>2. tab.sessions[id] # x BY <1>0, <1>1, <2>2, <3>1 DEF MapsAgree
    <3>3. x # s BY <1>13, <3>1
    <3>4. ~tab.sess[x].done /\ tab.peers[i].state = "Trying" /\ tab.peers[i].key = tab.sess[x].key
      BY <1>0, <1>5, <2>2 DEF Live
    <3> HIDE DEF x
    <3> QED BY <1>5, <1>7, <2>2, <3>1, <3>2, <3>3, <3>4
  <2> QED BY <2>1, <2>2
<1>15. Ended(tab')
  <2> SUFFICES ASSUME NEW x \in Sess, x <= tab'.created
               PROVE  /\ tab'.sess[x].target \in IDs
                      /\ tab'.sessions[tab'.sess[x].target] = x \/ tab'.sess[x].done
    BY DEF Ended
  <2>1. CASE x = s BY <1>1, <1>5, <1>6, <2>1
  <2>2. CASE x # s
    <3>1. x <= tab.created BY <1>5, <1>11, <2>2 DEF s, Sess
    <3>2. /\ tab.sess[x].target \in IDs
          /\ tab.sessions[tab.sess[x].target] = x \/ tab.sess[x].done
      BY <1>0, <3>1 DEF Ended
    <3> QED BY <1>5, <1>7, <2>2, <3>2
  <2> QED BY <2>1, <2>2
<1>16. Grows(tab, tab') BY <1>5, <1>7, <1>13 DEF Grows
<1>17. Continues(Control, pc, job) /\ Answers(Control, job)
  <2>1. thr[Control].job.sess = NoSession BY <1>0, <1>4 DEF JobsSteady, JobAt
  <2>2. s <= tab'.created BY <1>5, <1>11 DEF s
  <2>3. JobAt(tab', [pc |-> pc, job |-> job])
    BY <1>0, <1>5, <1>6, <1>9, <1>10, <2>2 DEF JobAt, JobOf
  <2> QED BY <1>4, <1>5, <1>6, <1>7, <1>9, <2>1, <2>3 DEF Continues, Answers
<1>18. \A y \in Threads : thr'[y] = IF y = Control THEN [pc |-> pc, job |-> job] ELSE thr[y]
  BY <1>0, <1>4 DEF TypeOK, Go
<1>19. \A x \in Sess : tab'.sess[x].promoting /\ tab.sess[x].done => tab'.sess[x].done
  BY <1>6, <1>7
<1>20. JobsSteady' /\ ValidationStopsLoop'
  BY <1>0, <1>16, <1>17, <1>18, <1>19, ThreadSteady, ClientAssumption
<1>21. Activates BY <1>5 DEF Activates
<1>22. Ages BY <1>5 DEF Ages, s
<1> QED BY <1>12, <1>14, <1>15, <1>20, <1>21, <1>22 DEF Steady

\* HandlePunch: the promotion is for the key of the session.
LEMMA PunchSteady ==
  ASSUME ClientAssumption, IInv, IInv', Steady, NEW n \in Nonces, HandlePunch(n)
  PROVE  Steady' /\ Activates /\ Ages
<1> DEFINE s == tab.byNonce[n]
           id == tab.sess[s].target
           job == [id |-> id, sess |-> s, key |-> tab.peers[id].key]
<1>0. /\ TypeOK /\ TableInv(tab) /\ tab \in Table /\ Assigned(tab) /\ Live(tab) /\ Ended(tab)
      /\ JobsSteady /\ ValidationStopsLoop /\ MapsAgree(tab)
      /\ Control \in Threads /\ tab' \in Table /\ NoSession \notin Sess
  BY SteadyFacts DEF IInv, TableInv
<1>1. /\ s # NoSession /\ tab.sessions[id] = s /\ thr[Control].pc = "idle"
      /\ tab' = [tab EXCEPT !.sess[s].promoting = TRUE]
      /\ Go(Control, "prepare", job) /\ promoQ' = promoQ
  BY Zenon DEF HandlePunch, At
<1>2. s \in Sess /\ id \in IDs /\ s <= tab.created
  <2>1. \A m \in Nonces : tab.byNonce[m] \in Sess \cup {NoSession} BY <1>0, SMTT(30) DEF Table
  <2>2. s # NoSession BY <1>1
  <2> QED BY <1>0, <2>1, <2>2, Zenon DEF MapsAgree
<1>3. tab.peers[id].key = tab.sess[s].key BY <1>0, <1>1, <1>2, Zenon DEF Live
<1>4. job.sess = s /\ job.id = tab.sess[s].target /\ job.key = tab.sess[s].key BY <1>3
<1> HIDE DEF s, id, job
<1>5. /\ tab'.peers = tab.peers /\ tab'.sessions = tab.sessions /\ tab'.created = tab.created
      /\ tab'.keyIndex = tab.keyIndex /\ tab'.sess = [tab.sess EXCEPT ![s].promoting = TRUE]
  BY <1>0, <1>1 DEF Table
<1>6. /\ \A x \in Sess : /\ tab'.sess[x].target = tab.sess[x].target
                         /\ tab'.sess[x].key = tab.sess[x].key
                         /\ tab'.sess[x].done = tab.sess[x].done
      /\ \A x \in Sess \ {s} : tab'.sess[x].promoting = tab.sess[x].promoting
  <2>1. tab.sess \in [Sess -> Session] /\ \A x \in Sess : tab.sess[x] \in Session
    BY <1>0 DEF Table
  <2> QED BY <1>5, <2>1 DEF Session
<1>7. \A i \in IDs : tab.sessions[i] \in Sess \cup {NoSession} BY <1>0 DEF Table
<1>8. Assigned(tab') /\ Calm(tab, tab') BY <1>0, <1>5 DEF Assigned, Calm
<1>9. Live(tab') BY <1>0, <1>5, <1>6, <1>7 DEF Live
<1>10. Ended(tab') BY <1>0, <1>5, <1>6 DEF Ended
<1>11. Grows(tab, tab') BY <1>5, <1>6 DEF Grows
<1>12. Continues(Control, "prepare", job) /\ Answers(Control, job)
  <2>1. thr[Control].job.sess = NoSession BY <1>0, <1>1 DEF JobsSteady, JobAt
  <2>2. JobAt(tab', [pc |-> "prepare", job |-> job])
    BY <1>1, <1>2, <1>4, <1>5, <1>6 DEF JobAt, JobOf
  <2> QED BY <1>1, <1>2, <1>4, <1>6, <2>1, <2>2 DEF Continues, Answers
<1>13. \A y \in Threads : thr'[y] = IF y = Control THEN [pc |-> "prepare", job |-> job] ELSE thr[y]
  BY <1>0, <1>1 DEF TypeOK, Go
<1>14. \A x \in Sess : tab'.sess[x].promoting /\ tab.sess[x].done => tab'.sess[x].done
  BY <1>6
<1>15. JobsSteady' /\ ValidationStopsLoop'
  BY <1>0, <1>11, <1>12, <1>13, <1>14, ThreadSteady, ClientAssumption
<1> QED BY <1>8, <1>9, <1>10, <1>15, CalmActivates DEF Steady

\* handlePunchRelay scheduling its punch, prepareDirectPeer, tryP2PByID and
\* the end of a punch loop.
LEMMA AttemptSteady ==
  ASSUME ClientAssumption, IInv, IInv', Steady, Queued,
         Schedule \/ Prepare \/ (\E id \in IDs : TryP2P(id)) \/ (\E s \in Sess : PunchEnds(s))
  PROVE  Steady' /\ Activates /\ Ages
<1>0. /\ TableInv(tab) /\ tab \in Table /\ Assigned(tab) /\ Live(tab) /\ Ended(tab) /\ JobsSteady
      /\ Control \in Threads /\ tab' \in Table /\ NoSession \notin Sess
      /\ \A x \in Threads : thr[x].job.sess \in Sess \cup {NoSession}
  BY SteadyFacts DEF IInv, TableInv
<1> DEFINE job == thr[Control].job
<1>1. CASE Schedule
  <2>1. /\ thr[Control].pc = "schedule" /\ promoQ' = promoQ /\ Go(Control, "idle", NoJob)
        /\ tab' = tab \/ tab' \in FailPunch(tab, job.sess)
    BY <1>1 DEF Schedule, At, Idle
  <2>2. /\ job.sess \in Sess /\ job.sess <= tab.created /\ ~tab.sess[job.sess].promoting
    BY <1>0, <2>1 DEF JobsSteady, JobAt, JobOf
  <2>3. Evolves(tab, tab') /\ Assigned(tab') /\ Calm(tab, tab')
    <3>1. CASE tab' = tab BY <1>0, <3>1, PeersEvolve DEF Calm
    <3>2. CASE tab' \in FailPunch(tab, job.sess)
      BY <1>0, <2>2, <3>2, FailPunchEvolves, ClientAssumption
    <3> QED BY <2>1, <3>1, <3>2
  <2>4. ~tab'.sess[job.sess].promoting BY <2>2, <2>3 DEF Evolves
  <2>5. promoQ' \in {promoQ, promoQ \cup {thr[Control].job}} BY <2>1
  <2> QED BY <1>0, <2>1, <2>3, <2>4, <2>5, IdleSteady, CalmActivates, ClientAssumption
<1>2. CASE Prepare
  <2>1. /\ thr[Control].pc = "prepare" /\ tab' = tab
        /\ \/ promoQ' = promoQ \cup {job} /\ Go(Control, "idle", NoJob)
           \/ promoQ' = promoQ /\ Go(Control, "fail", job)
    BY <1>2 DEF Prepare, At, Idle
  <2>2. job.sess # NoSession /\ JobOf(tab, job) BY <1>0, <2>1 DEF JobsSteady, JobAt
  <2>3. CASE promoQ' = promoQ \cup {job} /\ Go(Control, "idle", NoJob)
    <3>1. Evolves(tab, tab') /\ Assigned(tab') /\ Calm(tab, tab')
      BY <1>0, <2>1, PeersEvolve DEF Calm
    <3>2. promoQ' \in {promoQ, promoQ \cup {thr[Control].job}} BY <2>3
    <3> QED BY <1>0, <2>2, <2>3, <3>1, <3>2, IdleSteady, CalmActivates, ClientAssumption
  <2>4. CASE promoQ' = promoQ /\ Go(Control, "fail", job)
    <3>1. JobAt(tab, [pc |-> "fail", job |-> job]) BY <2>2 DEF JobAt
    <3> QED BY <1>0, <2>1, <2>4, <3>1, PassOn, ClientAssumption
  <2> QED BY <2>1, <2>3, <2>4
<1>3. ASSUME NEW id \in IDs, TryP2P(id) PROVE Steady' /\ Activates /\ Ages
  <2> DEFINE v == [tab EXCEPT !.peers[id].state = "Trying"]
  <2>1. /\ tab' \in Rebuild(v) /\ tab.peers[id].state \in {"Discovered", "Failed"}
        /\ UNCHANGED <<thr, promoQ>>
    BY <1>3 DEF TryP2P
  <2>2. /\ v.sessions = tab.sessions /\ v.sess = tab.sess /\ v.created = tab.created
        /\ \A i \in IDs : /\ v.peers[i].key = tab.peers[i].key
                          /\ v.peers[i].state = IF i = id THEN "Trying" ELSE tab.peers[i].state
    BY <1>0 DEF Table, Peer
  <2> HIDE DEF v
  <2>3. /\ tab'.peers = v.peers /\ tab'.sessions = v.sessions /\ tab'.sess = v.sess
        /\ tab'.created = v.created /\ \A q \in Keys : Exact(tab', q)
    BY <1>0, <2>1, RebuildAgain
  <2>5. \A q \in Keys : tab'.keyIndex[q] \in Pick(Entry(tab', q)) BY <2>3 DEF Exact
  <2>6. \A i \in IDs : tab'.peers[i].key # NoKey => <<i, tab'.peers[i].key>> \in Pairs
    BY <1>0, <2>2, <2>3 DEF Assigned
  <2>7. Assigned(tab') BY <2>5, <2>6, AssignedFrom, ClientAssumption
  <2>8. tab.sessions[id] = NoSession BY <1>0, <2>1 DEF Live
  <2>9. \A i \in IDs : tab.sessions[i] # NoSession =>
          tab'.peers[i].key = tab.peers[i].key /\ tab'.peers[i].state = tab.peers[i].state
    BY <2>2, <2>3, <2>8
  <2>10. Evolves(tab, tab') BY <2>2, <2>3, <2>9, PeersEvolve
  <2>11. Calm(tab, tab') BY <2>2, <2>3 DEF Calm
  <2> QED BY <2>1, <2>7, <2>10, <2>11, RestSteady, CalmActivates, ClientAssumption
<1>4. ASSUME NEW s \in Sess, PunchEnds(s) PROVE Steady' /\ Activates /\ Ages
  <2>1. /\ tab' = tab \/ tab' \in FailPunch(tab, s)
        /\ UNCHANGED <<thr, promoQ>> /\ s <= tab.created
    BY <1>4 DEF PunchEnds, Queued
  <2>2. Evolves(tab, tab') /\ Assigned(tab') /\ Calm(tab, tab')
    <3>1. CASE tab' = tab BY <1>0, <3>1, PeersEvolve DEF Calm
    <3>2. CASE tab' \in FailPunch(tab, s)
      BY <1>0, <2>1, <3>2, FailPunchEvolves, ClientAssumption
    <3> QED BY <2>1, <3>1, <3>2
  <2> QED BY <2>1, <2>2, RestSteady, CalmActivates, ClientAssumption
<1> QED BY <1>1, <1>2, <1>3, <1>4

\* The end of a job by failing or establishing its entry.
LEMMA JobSettles ==
  ASSUME ClientAssumption, IInv, Steady, NEW job, job.sess \in Sess, JobOf(tab, job),
         NEW st \in {"Established", "Failed"}, tab.sessions[job.id] = job.sess,
         tab' \in Settle(tab, job.id, st)
  PROVE  /\ job.id \in IDs /\ IsSettled(tab, tab', job.id, st)
         /\ Evolves(tab, tab') /\ Assigned(tab')
         /\ st # "Established" => Calm(tab, tab')
         /\ tab'.sess[job.sess].done
<1>0. TableInv(tab) /\ Assigned(tab) /\ Ended(tab) /\ Live(tab) /\ NoSession \notin Sess
  BY SteadyFacts
<1>1. job.id \in IDs BY <1>0 DEF JobOf, Ended
<1>4. IsSettled(tab, tab', job.id, st) BY <1>0, SettleFacts, ClientAssumption
<1>5. /\ Evolves(tab, tab') /\ Assigned(tab')
      /\ st # "Established" => Calm(tab, tab')
      /\ tab.sessions[job.id] # NoSession => tab'.sess[tab.sessions[job.id]].done
  BY <1>0, <1>1, <1>4, SettleEvolves, ClientAssumption
<1> QED BY <1>0, <1>1, <1>4, <1>5

\* A job whose session is not the current one of its entry.
LEMMA JobStale ==
  ASSUME IInv, Steady, NEW job, job.sess \in Sess, JobOf(tab, job), tab.sessions[job.id] # job.sess
  PROVE  tab.sess[job.sess].done /\ \A i \in IDs : tab.sessions[i] # job.sess
<1>0. TableInv(tab) /\ Ended(tab) /\ NoSession \notin Sess BY SteadyFacts
<1>1. job.sess # NoSession BY <1>0
<1>2. job.sess <= tab.created /\ job.id = tab.sess[job.sess].target BY <1>1 DEF JobOf
<1> QED BY <1>0, <1>1, <1>2 DEF Ended, TableInv, MapsAgree

\* A session that has already stopped is told to stop again.
LEMMA StopStale ==
  ASSUME IInv, Steady, NEW job, job.sess \in Sess, JobOf(tab, job), tab.sessions[job.id] # job.sess,
         tab' = [tab EXCEPT !.sess[job.sess].done = TRUE]
  PROVE  Evolves(tab, tab') /\ Assigned(tab') /\ Calm(tab, tab') /\ tab'.sess[job.sess].done
<1>0. TableInv(tab) /\ Assigned(tab) BY SteadyFacts
<1>1. \A i \in IDs : tab.sessions[i] # job.sess BY JobStale
<1> QED BY <1>0, <1>1, StopEvolves

\* validateAndPromote.
LEMMA PromotionSteady ==
  ASSUME ClientAssumption, IInv, IInv', Steady, NEW w \in Workers, Promotion(w)
  PROVE  Steady' /\ Activates /\ Ages
<1> DEFINE job == thr[w].job
<1>0. /\ TypeOK /\ TableInv(tab) /\ tab \in Table /\ Assigned(tab) /\ Live(tab) /\ Ended(tab)
      /\ JobsSteady /\ w \in Threads /\ tab' \in Table /\ NoSession \notin Sess
      /\ job.sess \in Sess \cup {NoSession}
  BY SteadyFacts DEF IInv, TableInv
<1>1. JobAt(tab, thr[w]) BY <1>0 DEF JobsSteady
<1>2. CASE TakeJob(w)
  <2>1. PICK j \in promoQ : promoQ' = promoQ \ {j} /\ Go(w, "validate", j)
    BY <1>2 DEF TakeJob
  <2>2. tab' = tab /\ thr[w].pc = "idle" BY <1>2 DEF TakeJob, At
  <2>3. job.sess = NoSession BY <1>1, <2>2 DEF JobAt
  <2>4. j.sess # NoSession /\ JobOf(tab, j) /\ j.sess \in Sess \cup {NoSession}
    BY <1>0 DEF JobsSteady, TypeOK, Job
  <2>5. JobAt(tab', [pc |-> "validate", job |-> j]) BY <2>2, <2>4 DEF JobAt
  <2>6. Evolves(tab, tab') /\ Assigned(tab') /\ Calm(tab, tab')
    BY <1>0, <2>2, PeersEvolve DEF Calm
  <2>7. Continues(w, "validate", j) BY <2>1, <2>3, <2>4, <2>5 DEF Continues
  <2> QED BY <1>0, <2>1, <2>6, <2>7, GoSteady, CalmActivates, ClientAssumption
<1>3. CASE Validated(w)
  <2>1. /\ thr[w].pc = "validate" /\ tab' = tab /\ promoQ' = promoQ
        /\ \/ Go(w, "activate", job)
           \/ ~Current(job) /\ Go(w, "orphan", job)
    BY <1>3 DEF Validated, At
  <2>2. job.sess \in Sess /\ JobOf(tab, job) BY <1>0, <1>1, <2>1 DEF JobAt
  <2>3. CASE Go(w, "activate", job)
    <3>1. JobAt(tab, [pc |-> "activate", job |-> job]) BY <1>0, <2>2 DEF JobAt
    <3> QED BY <1>0, <2>1, <2>3, <3>1, PassOn, ClientAssumption
  <2>4. CASE ~Current(job) /\ Go(w, "orphan", job)
    <3>1. job.id \in IDs BY <1>0, <2>2 DEF JobOf, Ended
    <3>2. tab.sessions[job.id] # job.sess BY <1>0, <2>2, <2>4, <3>1 DEF Current, Live
    <3>3. tab.sess[job.sess].done BY <2>2, <3>2, JobStale
    <3>4. JobAt(tab, [pc |-> "orphan", job |-> job]) BY <2>2, <3>3 DEF JobAt
    <3> QED BY <1>0, <2>1, <2>4, <3>4, PassOn, ClientAssumption
  <2> QED BY <2>1, <2>3, <2>4
<1>4. CASE ValidationTimeout(w) \/ Activate(w)
  <2>1. /\ thr[w].pc \in {"validate", "activate"} /\ tab' = tab /\ promoQ' = promoQ
        /\ \E pc \in {"fail", "commit"} : Go(w, pc, job)
    BY <1>4 DEF ValidationTimeout, Activate, At
  <2>2. job.sess # NoSession /\ JobOf(tab, job) BY <1>1, <2>1 DEF JobAt
  <2>3. PICK pc \in {"fail", "commit"} : Go(w, pc, job) BY <2>1
  <2>4. JobAt(tab, [pc |-> pc, job |-> job]) BY <2>2 DEF JobAt
  <2>5. pc \notin {"teardown", "reroute", "schedule"} OBVIOUS
  <2> QED BY <1>0, <2>1, <2>3, <2>4, <2>5, PassOn, ClientAssumption
<1>5. CASE Commit(w)
  <2>1. /\ thr[w].pc = "commit" /\ promoQ' = promoQ
        /\ \/ /\ Current(job) /\ tab' \in Settle(tab, job.id, "Established")
              /\ Go(w, "idle", NoJob)
           \/ /\ ~Current(job) /\ tab' = [tab EXCEPT !.sess[job.sess].done = TRUE]
              /\ Go(w, "remove", job)
    BY <1>5 DEF Commit, At, Settle, Idle
  <2>2. job.sess \in Sess /\ JobOf(tab, job) BY <1>0, <1>1, <2>1 DEF JobAt
  <2>3. job.id \in IDs BY <1>0, <2>2 DEF JobOf, Ended
  <2>4. CASE Current(job) /\ tab' \in Settle(tab, job.id, "Established") /\ Go(w, "idle", NoJob)
    <3>1. "Established" \in {"Established", "Failed"} /\ tab.sessions[job.id] = job.sess
      BY <2>4 DEF Current
    <3>2. /\ IsSettled(tab, tab', job.id, "Established") /\ Evolves(tab, tab') /\ Assigned(tab')
          /\ tab'.sess[job.sess].done
      BY <2>2, <2>4, <3>1, JobSettles, ClientAssumption
    <3>3. promoQ' \in {promoQ, promoQ \cup {thr[w].job}} BY <2>1
    <3>4. Steady' BY <1>0, <2>1, <2>4, <3>2, <3>3, IdleSteady, ClientAssumption, Zenon
    <3>5. job.key = tab.peers[job.id].key
      BY <1>0, <2>2, <2>3, <3>1 DEF Live, JobOf
    <3>6. Activates
      <4> SUFFICES ASSUME NEW id \in IDs, tab.peers[id].state # "Established",
                          tab'.peers[id].state = "Established"
                   PROVE  At(w, "commit") /\ job.key = tab'.peers[id].key
        BY DEF Activates
      <4>1. id = job.id /\ tab'.peers[id].key = tab.peers[id].key BY <3>2 DEF IsSettled
      <4> QED BY <2>1, <3>5, <4>1 DEF At
    <3>7. Ages BY <3>2 DEF Ages, Evolves
    <3> QED BY <3>4, <3>6, <3>7
  <2>5. CASE /\ ~Current(job) /\ tab' = [tab EXCEPT !.sess[job.sess].done = TRUE]
             /\ Go(w, "remove", job)
    <3>1. tab.sessions[job.id] # job.sess BY <1>0, <2>2, <2>3, <2>5 DEF Current, Live
    <3>2. Evolves(tab, tab') /\ Assigned(tab') /\ Calm(tab, tab') /\ tab'.sess[job.sess].done
      BY <2>2, <2>5, <3>1, StopStale
    <3>3. JobOf(tab', job)
      BY <2>2, <3>2 DEF JobOf, Evolves
    <3>4. JobAt(tab', [pc |-> "remove", job |-> job]) BY <3>2, <3>3 DEF JobAt
    <3>5. Continues(w, "remove", job) BY <1>0, <2>1, <3>4 DEF Continues
    <3> QED BY <1>0, <2>5, <3>2, <3>5, GoSteady, CalmActivates, ClientAssumption
  <2> QED BY <2>1, <2>4, <2>5
<1> QED BY <1>2, <1>3, <1>4, <1>5 DEF Promotion

\* failDirectPromotion, dropOrphanCandidate, RemovePeer and restoreRelayRoute.
LEMMA CleanupSteady ==
  ASSUME ClientAssumption, IInv, IInv', Steady, NEW x \in Threads, Cleanup(x)
  PROVE  Steady' /\ Activates /\ Ages
<1> DEFINE job == thr[x].job
<1>0. /\ TableInv(tab) /\ tab \in Table /\ Assigned(tab) /\ Live(tab) /\ Ended(tab)
      /\ JobsSteady /\ tab' \in Table /\ NoSession \notin Sess
      /\ job.sess \in Sess \cup {NoSession}
  BY SteadyFacts DEF IInv, TableInv
<1>1. JobAt(tab, thr[x]) BY DEF JobsSteady, Steady
<1>2. CASE FailDirectPromotion(x)
  <2>1. /\ thr[x].pc = "fail" /\ promoQ' = promoQ
        /\ Go(x, "idle", NoJob) \/ Go(x, "remove", job) \/ Go(x, "orphan", job)
        /\ \/ tab.sessions[job.id] = job.sess /\ tab' \in Settle(tab, job.id, "Failed")
           \/ /\ ~(/\ Known(tab, job.id) /\ tab.sessions[job.id] = job.sess
                   /\ tab.peers[job.id].state # "Established")
              /\ tab' = [tab EXCEPT !.sess[job.sess].done = TRUE]
    BY <1>2 DEF FailDirectPromotion, At, Settle, Fails, Idle
  <2>2. job.sess \in Sess /\ JobOf(tab, job) BY <1>0, <1>1, <2>1 DEF JobAt
  <2>3. job.id \in IDs BY <1>0, <2>2 DEF JobOf, Ended
  <2>4. Evolves(tab, tab') /\ Assigned(tab') /\ Calm(tab, tab') /\ tab'.sess[job.sess].done
    <3>1. CASE tab.sessions[job.id] = job.sess /\ tab' \in Settle(tab, job.id, "Failed")
      <4>1. "Failed" \in {"Established", "Failed"} /\ "Failed" # "Established" OBVIOUS
      <4> QED BY <2>2, <3>1, <4>1, JobSettles, ClientAssumption
    <3>2. CASE tab' = [tab EXCEPT !.sess[job.sess].done = TRUE]
               /\ ~(/\ Known(tab, job.id) /\ tab.sessions[job.id] = job.sess
                    /\ tab.peers[job.id].state # "Established")
      <4>1. tab.sessions[job.id] # job.sess
        BY <1>0, <2>2, <2>3, <3>2 DEF Known, Live
      <4> QED BY <2>2, <3>2, <4>1, StopStale
    <3> QED BY <2>1, <3>1, <3>2
  <2>5. CASE Go(x, "idle", NoJob)
    <3>1. promoQ' \in {promoQ, promoQ \cup {thr[x].job}} BY <2>1
    <3> QED BY <2>1, <2>4, <2>5, <3>1, IdleSteady, CalmActivates, ClientAssumption, Zenon
  <2>6. ASSUME NEW pc \in {"remove", "orphan"}, Go(x, pc, job) PROVE Steady' /\ Activates /\ Ages
    <3>1. JobOf(tab', job) BY <2>2, <2>4 DEF JobOf, Evolves
    <3>2. JobAt(tab', [pc |-> pc, job |-> job]) BY <2>4, <3>1 DEF JobAt
    <3>3. Continues(x, pc, job) BY <1>0, <2>1, <3>2 DEF Continues
    <3> QED BY <2>4, <2>6, <3>3, GoSteady, CalmActivates, ClientAssumption
  <2> QED BY <2>1, <2>5, <2>6, SMTT(30)
<1>3. CASE DropOrphanCandidate(x)
  <2>1. /\ thr[x].pc = "orphan" /\ tab' = tab /\ promoQ' = promoQ
        /\ Go(x, "idle", NoJob) \/ Go(x, "remove", job)
    BY <1>3 DEF DropOrphanCandidate, At, Idle
  <2>2. JobOf(tab, job) /\ (job.sess # NoSession => tab.sess[job.sess].done)
    BY <1>1, <2>1 DEF JobAt
  <2>3. CASE Go(x, "idle", NoJob) BY <2>1, <2>2, <2>3, PassOff, ClientAssumption
  <2>4. CASE Go(x, "remove", job)
    <3>1. JobAt(tab, [pc |-> "remove", job |-> job]) BY <2>2 DEF JobAt
    <3> QED BY <2>1, <2>4, <3>1, PassOn, ClientAssumption
  <2> QED BY <2>1, <2>3, <2>4
<1>4. CASE Remove(x) \/ Restore(x)
  <2>1. /\ tab' = tab /\ promoQ' = promoQ
        /\ \/ thr[x].pc = "remove" /\ Go(x, "restore", job)
           \/ thr[x].pc = "teardown" /\ Go(x, "reroute", job)
           \/ thr[x].pc = "restore" /\ Go(x, "idle", NoJob)
           \/ thr[x].pc = "reroute" /\ Go(x, "schedule", job)
    <3>1. tab' = tab /\ promoQ' = promoQ BY <1>4 DEF Remove, Restore
    <3>2. CASE Remove(x) BY <3>1, <3>2 DEF Remove, At
    <3>3. CASE Restore(x) BY <3>1, <3>3 DEF Restore, At, Idle
    <3> QED BY <1>4, <3>2, <3>3
  <2>2. JobOf(tab, job) BY <1>1 DEF JobAt
  <2>3. CASE thr[x].pc = "remove" /\ Go(x, "restore", job)
    <3>1. JobAt(tab, [pc |-> "restore", job |-> job]) BY <1>1, <2>2, <2>3 DEF JobAt
    <3> QED BY <2>1, <2>3, <3>1, PassOn, ClientAssumption
  <2>4. CASE thr[x].pc = "teardown" /\ Go(x, "reroute", job)
    <3>1. JobAt(tab, [pc |-> "reroute", job |-> job]) BY <1>1, <2>2, <2>4 DEF JobAt
    <3>2. x = Control BY <1>0, <2>4 DEF JobsSteady
    <3> QED BY <2>1, <2>4, <3>1, <3>2, PassOn, ClientAssumption
  <2>5. CASE thr[x].pc = "restore" /\ Go(x, "idle", NoJob)
    <3>1. job.sess = NoSession \/ tab.sess[job.sess].done BY <1>1, <2>5 DEF JobAt
    <3> QED BY <2>1, <2>5, <3>1, PassOff, ClientAssumption
  <2>6. CASE thr[x].pc = "reroute" /\ Go(x, "schedule", job)
    <3>1. JobAt(tab, [pc |-> "schedule", job |-> job]) BY <1>1, <2>2, <2>6 DEF JobAt
    <3>2. x = Control BY <1>0, <2>6 DEF JobsSteady
    <3> QED BY <2>1, <2>6, <3>1, <3>2, PassOn, ClientAssumption
  <2> QED BY <2>1, <2>3, <2>4, <2>5, <2>6
<1> QED BY <1>2, <1>3, <1>4 DEF Cleanup

\* maintenanceLoop.
LEMMA MaintenanceSteady ==
  ASSUME ClientAssumption, IInv, IInv', Steady, MaintenancePass \/ MaintenanceTeardown
  PROVE  Steady' /\ Activates /\ Ages
<1>0. /\ TableInv(tab) /\ tab \in Table /\ MapsAgree(tab)
      /\ Assigned(tab) /\ Live(tab) /\ Ended(tab)
      /\ JobsSteady /\ Maintenance \in Threads /\ tab' \in Table /\ NoSession \notin Sess
      /\ \A i \in IDs : tab.sessions[i] \in Sess \cup {NoSession}
  BY SteadyFacts DEF IInv, TableInv, Table
<1>1. CASE MaintenancePass
  <2>1. PICK forgotten \in SUBSET {i \in IDs : Known(tab, i) /\ ~Active(tab, i)},
             stalled \in SUBSET {i \in IDs : tab.peers[i].state = "Trying"},
             dead \in SUBSET {i \in IDs : tab.peers[i].state = "Established"} :
               Pass(forgotten, stalled, dead)
    BY <1>1 DEF MaintenancePass
  <2>2. /\ forgotten \in SUBSET IDs /\ stalled \in SUBSET IDs /\ dead \in SUBSET IDs
        /\ \A i \in dead : tab.peers[i].state = "Established"
    OBVIOUS
  <2>3. IsPassed(forgotten, stalled, dead)
    BY <1>0, <2>1, <2>2, PassFacts, ClientAssumption
  <2> DEFINE ids == forgotten \cup stalled
  <2>4. /\ \A i \in IDs : /\ tab'.peers[i].key = IF i \in forgotten THEN NoKey ELSE tab.peers[i].key
                          /\ tab'.peers[i].state = IF i \in forgotten THEN "None"
                                                  ELSE IF i \in stalled \cup dead THEN "Failed"
                                                  ELSE tab.peers[i].state
        /\ \A i \in IDs : tab'.sessions[i] = IF i \in ids THEN NoSession ELSE tab.sessions[i]
        /\ tab'.created = tab.created
        /\ \A s \in Sess :
             /\ tab'.sess[s].target = tab.sess[s].target
             /\ tab'.sess[s].key = tab.sess[s].key
             /\ tab'.sess[s].promoting = tab.sess[s].promoting
             /\ tab'.sess[s].done <=> tab.sess[s].done \/ \E i \in ids : tab.sessions[i] = s
        /\ tab'.keyIndex = tab.keyIndex \/ \A k \in Keys : tab'.keyIndex[k] \in Pick(Entry(tab', k))
    BY <2>3 DEF IsPassed
  <2>5. Calm(tab, tab') BY <2>4 DEF Calm
  <2>6. \A i \in IDs : tab'.peers[i].key # NoKey => <<i, tab'.peers[i].key>> \in Pairs
    BY <1>0, <2>4 DEF Assigned
  <2>7. Assigned(tab')
    <3>1. CASE tab'.keyIndex = tab.keyIndex BY <1>0, <2>6, <3>1 DEF Assigned
    <3>2. CASE \A k \in Keys : tab'.keyIndex[k] \in Pick(Entry(tab', k))
      BY <2>6, <3>2, AssignedFrom, ClientAssumption
    <3> QED BY <2>4, <3>1, <3>2
  <2>8. ASSUME NEW i \in IDs, i \notin ids, tab.sessions[i] # NoSession
        PROVE  /\ tab'.peers[i].key = tab.peers[i].key
               /\ tab'.peers[i].state = tab.peers[i].state
               /\ tab'.sess[tab.sessions[i]].done => tab.sess[tab.sessions[i]].done
    <3>1. tab.peers[i].state = "Trying" BY <1>0, <2>8 DEF Live
    <3>2. i \notin dead BY <2>2, <3>1
    <3>3. \A j \in ids : tab.sessions[j] # tab.sessions[i]
      BY <1>0, <2>2, <2>8 DEF MapsAgree
    <3>4. tab.sessions[i] \in Sess BY <1>0, <2>8
    <3> QED BY <2>4, <2>8, <3>2, <3>3, <3>4
  <2>9. ASSUME NEW i \in ids, tab.sessions[i] # NoSession PROVE tab'.sess[tab.sessions[i]].done
    <3>1. tab.sessions[i] \in Sess BY <1>0, <2>2, <2>9
    <3> QED BY <2>4, <3>1
  <2> HIDE DEF ids
  <2>10. \A s \in Sess : /\ tab'.sess[s].target = tab.sess[s].target
                         /\ tab'.sess[s].key = tab.sess[s].key
                         /\ tab'.sess[s].promoting = tab.sess[s].promoting
                         /\ tab.sess[s].done => tab'.sess[s].done
    BY <2>4
  <2>11. ASSUME NEW i \in IDs
         PROVE  \/ /\ tab'.sessions[i] = tab.sessions[i]
                   /\ tab.sessions[i] # NoSession =>
                        /\ tab'.peers[i].key = tab.peers[i].key
                        /\ tab'.peers[i].state = tab.peers[i].state
                        /\ tab'.sess[tab.sessions[i]].done => tab.sess[tab.sessions[i]].done
                \/ /\ tab'.sessions[i] = NoSession
                   /\ tab.sessions[i] # NoSession => tab'.sess[tab.sessions[i]].done
    <3>1. tab'.sessions[i] = IF i \in ids THEN NoSession ELSE tab.sessions[i] BY <2>4
    <3> QED BY <2>8, <2>9, <3>1
  <2>12. Evolves(tab, tab') BY <2>4, <2>10, <2>11 DEF Evolves
  <2>13. UNCHANGED <<thr, promoQ>> BY <1>1 DEF MaintenancePass
  <2> QED BY <2>5, <2>7, <2>12, <2>13, RestSteady, CalmActivates, ClientAssumption
<1>2. CASE MaintenanceTeardown
  <2>1. PICK k \in stale : Go(Maintenance, "remove", [NoJob EXCEPT !.key = k])
    BY <1>2 DEF MaintenanceTeardown
  <2>2. tab' = tab /\ promoQ' = promoQ /\ thr[Maintenance].pc = "idle"
    BY <1>2 DEF MaintenanceTeardown, At
  <2>3. thr[Maintenance].job.sess = NoSession BY <1>0, <2>2 DEF JobsSteady, JobAt
  <2> DEFINE job == [NoJob EXCEPT !.key = k]
  <2>4. job.sess = NoSession BY DEF NoJob
  <2> HIDE DEF job
  <2>5. JobAt(tab', [pc |-> "remove", job |-> job]) BY <2>4 DEF JobAt, JobOf
  <2>6. Continues(Maintenance, "remove", job) BY <2>2, <2>3, <2>4, <2>5 DEF Continues
  <2>7. Evolves(tab, tab') /\ Assigned(tab') /\ Calm(tab, tab')
    BY <1>0, <2>2, PeersEvolve DEF Calm
  <2>8. Go(Maintenance, "remove", job) BY <2>1 DEF job
  <2> QED BY <1>0, <2>6, <2>7, <2>8, GoSteady, CalmActivates, ClientAssumption
<1> QED BY <1>1, <1>2
-----------------------------------------------------------------------------
LEMMA InitSteady == ClientAssumption /\ Init => Steady
<1> SUFFICES ASSUME ClientAssumption, Init PROVE Steady OBVIOUS
<1>1. /\ \A id \in IDs : tab.peers[id].key = NoKey /\ tab.sessions[id] = NoSession
      /\ \A k \in Keys : tab.keyIndex[k] = NoID
      /\ tab.created = 0
      /\ \A s \in Sess : ~tab.sess[s].promoting
      /\ promoQ = {}
      /\ \A x \in Threads : thr[x].pc = "idle" /\ thr[x].job = NoJob
  BY DEF Init, NoPeer, NoSess
<1>2. NoJob.sess = NoSession BY DEF NoJob
<1>3. \A s \in Sess : ~(s <= tab.created) BY <1>1 DEF Sess
<1>4. JobsSteady BY <1>1, <1>2 DEF JobsSteady, JobAt, JobOf
<1>5. Assigned(tab) /\ Live(tab) /\ Ended(tab) BY <1>1, <1>3 DEF Assigned, Live, Ended
<1>6. ValidationStopsLoop BY <1>1 DEF ValidationStopsLoop
<1> QED BY <1>4, <1>5, <1>6 DEF Steady

LEMMA StepSteady ==
  ASSUME ClientAssumption, StableIDs, IInv, Steady, Queued, [Next]_vars
  PROVE  Steady' /\ Activates /\ Ages
<1>0. IInv' BY StepIInv, ClientAssumption
<1>1. CASE HandleMessage
  BY <1>0, <1>1, MessageSteady, StartSteady, AttemptSteady, ClientAssumption
     DEF HandleMessage
<1>2. CASE \E n \in Nonces : HandlePunch(n) BY <1>0, <1>2, PunchSteady, ClientAssumption
<1>3. CASE Prepare \/ (\E id \in IDs : TryP2P(id)) \/ (\E s \in Sess : PunchEnds(s))
  BY <1>0, <1>3, AttemptSteady, ClientAssumption
<1>4. CASE \E w \in Workers : Promotion(w)
  BY <1>0, <1>4, PromotionSteady, ClientAssumption
<1>5. CASE \E x \in Threads : Cleanup(x) BY <1>0, <1>5, CleanupSteady, ClientAssumption
<1>6. CASE MaintenancePass \/ MaintenanceTeardown
  BY <1>0, <1>6, MaintenanceSteady, ClientAssumption
<1>7. CASE (\E k \in Keys : Handshake(k)) \/ UNCHANGED vars
  <2>1. tab' = tab /\ UNCHANGED <<thr, promoQ>> BY <1>7 DEF Handshake, vars
  <2>2. Evolves(tab, tab') /\ Assigned(tab') /\ Calm(tab, tab')
    BY <2>1, SteadyFacts, PeersEvolve DEF Calm
  <2> QED BY <1>0, <2>1, <2>2, RestSteady, CalmActivates, ClientAssumption
<1> QED BY <1>1, <1>2, <1>3, <1>4, <1>5, <1>6, <1>7 DEF Next

LEMMA StepQueued ==
  ASSUME IInv, Steady, Queued, Ages, [Next]_vars
  PROVE  Queued'
<1>1. punching' \subseteq punching \cup {s \in Sess : s <= tab.created}
  <2>1. CASE Schedule
    <3>1. /\ thr[Control].pc = "schedule" /\ Control \in Threads
          /\ punching' = punching \/ punching' = punching \cup {thr[Control].job.sess}
      BY <2>1, SteadyFacts DEF Schedule, At
    <3>2. thr[Control].job.sess \in Sess /\ thr[Control].job.sess <= tab.created
      BY <3>1, SteadyFacts DEF JobsSteady, JobAt, JobOf
    <3> QED BY <3>1, <3>2
  <2>2. CASE HandleMessage /\ ~Schedule
    <3>1. CASE ListBegin \/ (\E r \in Lists : ListEntry(r[1], r[2])) \/ ListEnd
      BY <3>1 DEF ListBegin, ListEntry, ListEnd
    <3>2. CASE \E r \in Relays : RelayIgnored(r[1], r[2]) \/ RelayRefused(r[1], r[2])
      BY <3>2, Zenon DEF RelayIgnored, RelayRefused
    <3>3. CASE \E r \in Relays, n \in Nonces :
                 RelayJoins(r[1], r[2], n) \/ RelayStarts(r[1], r[2], n)
      <4>1. \A i, k, n : RelayJoins(i, k, n) => punching' = punching BY DEF RelayJoins
      <4>2. \A i, k, n : RelayStarts(i, k, n) => punching' = punching BY DEF RelayStarts
      <4> QED BY <3>3, <4>1, <4>2
    <3> QED BY <2>2, <3>1, <3>2, <3>3 DEF HandleMessage
  <2>3. CASE \E w \in Workers : Promotion(w)
    BY <2>3 DEF Promotion, TakeJob, Validated, ValidationTimeout, Activate, Commit
  <2>4. CASE \E x \in Threads : Cleanup(x)
    BY <2>4 DEF Cleanup, FailDirectPromotion, DropOrphanCandidate, Remove, Restore
  <2>5. CASE Prepare \/ (\E id \in IDs : TryP2P(id)) \/ (\E s \in Sess : PunchEnds(s))
             \/ (\E n \in Nonces : HandlePunch(n))
    BY <2>5, Zenon DEF Prepare, TryP2P, PunchEnds, HandlePunch
  <2>6. CASE MaintenancePass \/ MaintenanceTeardown \/ (\E k \in Keys : Handshake(k))
             \/ UNCHANGED vars
    BY <2>6 DEF MaintenancePass, MaintenanceTeardown, Handshake, vars
  <2> QED BY <2>1, <2>2, <2>3, <2>4, <2>5, <2>6 DEF Next, HandleMessage
<1>2. punching \subseteq Sess /\ tab.created \in Nat
  BY SteadyFacts DEF TypeOK, Table
<1> QED BY <1>1, <1>2 DEF Queued, Ages, Sess

LEMMA SteadyInvariance == StableIDs => (Spec => [](IInv /\ Steady /\ Queued))
<1> SUFFICES ASSUME StableIDs PROVE Spec => [](IInv /\ Steady /\ Queued) OBVIOUS
<1>1. Init => IInv /\ Steady /\ Queued
  BY InitIInv, InitSteady, ClientAssumption DEF Init, Queued
<1>2. (IInv /\ Steady /\ Queued) /\ [Next]_vars => (IInv /\ Steady /\ Queued)'
  BY StepIInv, StepSteady, StepQueued, ClientAssumption
<1> QED BY <1>1, <1>2, PTL DEF Spec

(* While the coordinator keeps its IDs, a session in the table is a live      *)
(* attempt at the entry's key: every section that ends an attempt takes its   *)
(* session out of the maps and stops its punch loop, and no other does        *)
(* (discardSessionLocked, failPunchSessionIfCurrentLocked).                   *)
THEOREM AttemptsLive == StableIDs => (Spec => []SessionIsAttempt)
<1> SUFFICES ASSUME StableIDs PROVE Spec => []SessionIsAttempt OBVIOUS
<1>1. Steady => SessionIsAttempt BY DEF Steady, Live, SessionIsAttempt
<1>2. Spec => [](IInv /\ Steady /\ Queued) BY SteadyInvariance
<1> QED BY <1>1, <1>2, PTL

(* While the coordinator keeps its IDs, a validation always ends by stopping  *)
(* the punch loop of its session, on whichever of its paths it ends           *)
(* (validateAndPromote, failDirectPromotion, dropOrphanCandidate).            *)
THEOREM ValidationEnds == StableIDs => (Spec => []ValidationStopsLoop)
<1> SUFFICES ASSUME StableIDs PROVE Spec => []ValidationStopsLoop OBVIOUS
<1>1. Steady => ValidationStopsLoop BY DEF Steady
<1>2. Spec => [](IInv /\ Steady /\ Queued) BY SteadyInvariance
<1> QED BY <1>1, <1>2, PTL

(* While the coordinator keeps its IDs, an entry turns Established only by    *)
(* the worker that has activated the route of that entry's key: a promotion   *)
(* is never credited to another device (validateAndPromote's second check).   *)
THEOREM OwnKeyEstablished == StableIDs => (Spec => EstablishedIsActivated)
<1> SUFFICES ASSUME StableIDs PROVE Spec => EstablishedIsActivated OBVIOUS
<1>1. IInv /\ Steady /\ Queued /\ [Next]_vars =>
        [\A id \in IDs :
           tab.peers[id].state # "Established" /\ tab'.peers[id].state = "Established"
             /\ Entry(tab, tab'.peers[id].key) \subseteq {id}
           => \E w \in Workers : At(w, "commit") /\ thr[w].job.key = tab'.peers[id].key]_vars
  BY StepSteady, ClientAssumption DEF Activates
<1>2. Spec => [](IInv /\ Steady /\ Queued) BY SteadyInvariance
<1> QED BY <1>1, <1>2, PTL DEF Spec, EstablishedIsActivated
=============================================================================

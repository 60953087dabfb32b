--------------------------- MODULE WuspFragments ---------------------------
(***************************************************************************)
(* Fragmentation of WUSP control messages over the tunnel, and their       *)
(* reassembly under a per-peer byte budget.                                *)
(*                                                                         *)
(* Senders: Peer.SendWUSP (messages the agent starts, numbered by          *)
(* nextWUSPFragmentMessageID) and uspRuntime.replyControlPayload (answers, *)
(* numbered by the request's ID and cut to the budget the request named).  *)
(* Receiver: Device.consumeWUSPPayload.  Between them WireGuard pads each  *)
(* packet to PaddingMultiple, may lose or reorder it, and never delivers   *)
(* it twice (the replay filter), so the network is a set of packets.       *)
(*                                                                         *)
(* Compression is disabled in the code (compressUSPControlPayload), so     *)
(* Compressed and RawSize are the same in every frame and are left out.    *)
(***************************************************************************)
EXTENDS Integers, FiniteSets, Functions

CONSTANTS
  Peers,            \* the remote peers that send to this device
  Lengths,          \* payload lengths of the messages sent
  MaxDatagram,      \* WUSPMaxDatagramPayload
  ReplyBudgets,     \* response budgets: RequestedResponseMaxControlPayload
  RequestIDs,       \* IDs of the requests being answered
  HeaderSize,       \* uspControlFragmentHeaderSize
  PaddingMultiple,  \* WireGuard's padding multiple
  SlotCost,         \* wuspFragmentSlotCost
  MaxMessage,       \* MaxUSPControlMessageSize
  TTL,              \* wuspFragmentAssemblyTTL
  MaxSent,          \* bound: messages sent
  MaxRestarts,      \* bound: restarts of a sender's process
  MaxTime,          \* bound: the clock
  NoJob,            \* no fragment is being consumed
  Nothing           \* no message has been handed up

ASSUME FragmentAssumption ==
  /\ Lengths \subseteq Nat \ {0}
  /\ RequestIDs \subseteq Nat \ {0}
  /\ HeaderSize \in Nat /\ PaddingMultiple \in Nat \ {0}
  /\ MaxDatagram \in Nat /\ MaxDatagram > HeaderSize
  /\ MaxDatagram % PaddingMultiple = 0
  /\ ReplyBudgets \subseteq {b \in Nat : b > HeaderSize /\ b <= MaxDatagram}
  /\ SlotCost \in Nat \ {0} /\ MaxMessage \in Nat /\ TTL \in Nat
  /\ MaxSent \in Nat /\ MaxRestarts \in Nat /\ MaxTime \in Nat

VARIABLES
  nextID,       \* wuspFragments.nextID of each sender
  sent,         \* messages sent so far
  restarts,     \* restarts of each peer's process so far
  net,          \* packets under way
  job,          \* the fragment whose consumer holds the lock, or NoJob
  pending,      \* wuspFragments.pending
  bytesByPeer,  \* wuspFragments.bytesByPeer (0 where the map has no entry)
  clock,
  delivered     \* the fragments of the message last handed to wuspHandler

vars == <<nextID, sent, restarts, net, job, pending, bytesByPeer, clock,
          delivered>>

MaxBytes == 2 * MaxMessage   \* maxWUSPFragmentBytesPerPeer

-----------------------------------------------------------------------------
(* FragmentUSPControlPayload, EncodeUSPControlFragment, calculatePaddingSize. *)

\* Mutant: one byte short of the budget, so that a full datagram is padded.
ChunkShort(budget) == budget - HeaderSize - 1

Chunk(budget) == budget - HeaderSize

FrameCount(len, budget) == (len + Chunk(budget) - 1) \div Chunk(budget)

DataSize(len, budget, i) ==
  IF (i + 1) * Chunk(budget) > len THEN len - i * Chunk(budget) ELSE Chunk(budget)

\* Zeros WireGuard appends to a packet (the tunnel MTU exceeds MaxDatagram).
Padding(size) == (PaddingMultiple - (size % PaddingMultiple)) % PaddingMultiple

\* `msg' and `budget' say which message a frame was cut from and to what size;
\* no byte of the wire does.  The receiver's Data is everything after the
\* header: the padding stays in.
Frames(p, msg, id, len, budget) ==
  {[peer |-> p, msg |-> msg, budget |-> budget, id |-> id, index |-> i,
    count |-> FrameCount(len, budget),
    data  |-> DataSize(len, budget, i),
    pad   |-> Padding(HeaderSize + DataSize(len, budget, i))]
   : i \in 0 .. FrameCount(len, budget) - 1}

Fragment == [peer : Peers, msg : Nat, budget : Nat, id : Nat \ {0}, index : Nat,
             count : Nat \ {0}, data : Nat \ {0}, pad : Nat]

DataLen(f) == f.data + f.pad
-----------------------------------------------------------------------------
ASSUME NoJobAssumption == NoJob \notin Fragment

\* Mutant: assemblies keyed by peer alone.
KeyWithoutID(f) == <<f.peer, 1>>

Key(f) == <<f.peer, f.id>>

EmptyPending == [k \in {} |-> Nothing]   \* an empty map

Init ==
  /\ nextID = [p \in Peers |-> 0]
  /\ sent = 0
  /\ restarts = [p \in Peers |-> 0]
  /\ net = {}
  /\ job = NoJob
  /\ pending = EmptyPending
  /\ bytesByPeer = [p \in Peers |-> 0]
  /\ clock = 0
  /\ delivered = Nothing

\* A message the peer starts itself.
SendWUSP(p, len) ==
  /\ sent < MaxSent
  /\ nextID' = [nextID EXCEPT ![p] = @ + 1]
  /\ sent' = sent + 1
  /\ net' = net \cup Frames(p, sent', nextID'[p], len, MaxDatagram)
  /\ UNCHANGED <<restarts, job, pending, bytesByPeer, clock, delivered>>

\* A response: the fragment message ID is the ID of the request.
ReplyControlPayload(p, id, len, budget) ==
  /\ sent < MaxSent
  /\ sent' = sent + 1
  /\ net' = net \cup Frames(p, sent', id, len, budget)
  /\ UNCHANGED <<nextID, restarts, job, pending, bytesByPeer, clock, delivered>>

\* The sender's process starts again: nextID lives in memory only.
Restart(p) ==
  /\ restarts[p] < MaxRestarts
  /\ restarts' = [restarts EXCEPT ![p] = @ + 1]
  /\ nextID' = [nextID EXCEPT ![p] = 0]
  /\ UNCHANGED <<sent, net, job, pending, bytesByPeer, clock, delivered>>

Tick ==
  /\ job = NoJob
  /\ clock < MaxTime
  /\ clock' = clock + 1
  /\ UNCHANGED <<nextID, sent, restarts, net, job, pending, bytesByPeer, delivered>>
-----------------------------------------------------------------------------
(* consumeWUSPPayload *)

\* dropWUSPAssemblyLocked, on the tables `pend' and `bytes'.
DropPending(pend, k) == [x \in DOMAIN pend \ {k} |-> pend[x]]

\* Mutants: a drop that releases nothing, and one that releases twice.
DropBytesKeeping(bytes, k, n) == bytes

DropBytes(bytes, k, n) ==
  [bytes EXCEPT ![k[1]] = IF @ - n <= 0 THEN 0 ELSE @ - n]

Expired(k) == clock - pending[k].updated > TTL

\* A packet is decoded and its routine takes the lock.
Receive(f) ==
  /\ job = NoJob
  /\ job' = f
  /\ net' = net \ {f}
  /\ delivered' = Nothing
  /\ UNCHANGED <<nextID, sent, restarts, pending, bytesByPeer, clock>>

\* One iteration of pruneExpiredWUSPFragmentsLocked.
Prune(k) ==
  /\ job # NoJob
  /\ Expired(k)
  /\ pending' = DropPending(pending, k)
  /\ bytesByPeer' = DropBytes(bytesByPeer, k, pending[k].bytes)
  /\ UNCHANGED <<nextID, sent, restarts, net, job, clock, delivered>>

Fresh(f) == [updated |-> clock, count |-> f.count, fragments |-> EmptyPending,
             received |-> 0, bytes |-> f.count * SlotCost]

\* The assembly the fragment belongs to, allocated when there is none, and
\* what its peer is then charged.
Target == IF Key(job) \in DOMAIN pending THEN pending[Key(job)] ELSE Fresh(job)

Charged ==
  bytesByPeer[job.peer] + IF Key(job) \in DOMAIN pending THEN 0 ELSE Fresh(job).bytes

\* The length of Data in each slot.
Loads(fragments) == [i \in DOMAIN fragments |-> DataLen(fragments[i])]

\* ReassembleUSPControlFragments: identifiers, counts and indices agree by the
\* way slots are filled; what is left to refuse is an oversized message.
Reassemble(fragments) ==
  IF SumFunction(Loads(fragments)) > MaxMessage
  THEN Nothing ELSE fragments

Filled(asm) == job.index \in DOMAIN asm.fragments

\* chargeWUSPFragmentsLocked for the data of a slot that was empty.
Store(asm) ==
  IF Filled(asm) THEN [asm EXCEPT !.updated = clock]
  ELSE [updated |-> clock, count |-> asm.count,
        fragments |-> [i \in DOMAIN asm.fragments \cup {job.index} |->
                         IF i = job.index THEN job ELSE asm.fragments[i]],
        received |-> asm.received + 1,
        bytes |-> asm.bytes + DataLen(job)]

NoRoomForSlots == Key(job) \notin DOMAIN pending /\ Charged > MaxBytes
\* Mutant: only the slots are checked against the budget.
NoRoomUnchecked == FALSE

NoRoomForData == ~Filled(Target) /\ Charged + DataLen(job) > MaxBytes
WrongCount == Target.count # job.count

Consume ==
  /\ job # NoJob
  /\ \A k \in DOMAIN pending : ~Expired(k)
  /\ job' = NoJob
  /\ LET bytes == [bytesByPeer EXCEPT ![job.peer] = Charged]
         stored == Store(Target)
         charged == [bytes EXCEPT ![job.peer] = @ + stored.bytes - Target.bytes]
     IN \/ /\ NoRoomForSlots
           /\ UNCHANGED <<pending, bytesByPeer, delivered>>
        \/ /\ ~NoRoomForSlots
           /\ WrongCount \/ NoRoomForData
           /\ pending' = DropPending(pending, Key(job))
           /\ bytesByPeer' = DropBytes(bytes, Key(job), Target.bytes)
           /\ UNCHANGED delivered
        \/ /\ ~NoRoomForSlots /\ ~WrongCount /\ ~NoRoomForData
           /\ stored.received # job.count
           /\ pending' = [k \in DOMAIN pending \cup {Key(job)} |->
                            IF k = Key(job) THEN stored ELSE pending[k]]
           /\ bytesByPeer' = charged
           /\ UNCHANGED delivered
        \/ /\ ~NoRoomForSlots /\ ~WrongCount /\ ~NoRoomForData
           /\ stored.received = job.count
           /\ pending' = DropPending(pending, Key(job))
           /\ bytesByPeer' = DropBytes(charged, Key(job), stored.bytes)
           /\ delivered' = Reassemble(stored.fragments)
  /\ UNCHANGED <<nextID, sent, restarts, net, clock>>

Next ==
  \/ \E p \in Peers, len \in Lengths :
       \/ SendWUSP(p, len)
       \/ \E id \in RequestIDs, b \in ReplyBudgets : ReplyControlPayload(p, id, len, b)
  \/ \E p \in Peers : Restart(p)
  \/ Tick
  \/ \E f \in net : Receive(f)
  \/ \E k \in DOMAIN pending : Prune(k)
  \/ Consume

Spec == Init /\ [][Next]_vars
-----------------------------------------------------------------------------
(* Types of the sender's counters, the network and the receiver's tables. *)
TypeOK ==
  /\ nextID \in [Peers -> Nat] /\ sent \in Nat /\ restarts \in [Peers -> Nat]
  /\ net \subseteq Fragment
  /\ job \in Fragment \cup {NoJob}
  /\ DOMAIN pending \subseteq Peers \X (Nat \ {0})
  /\ \A k \in DOMAIN pending :
       /\ pending[k].updated \in Nat /\ pending[k].count \in Nat \ {0}
       /\ pending[k].received \in Nat /\ pending[k].bytes \in Nat
  /\ bytesByPeer \in [Peers -> Nat]
  /\ clock \in Nat

(* The memory charged to a peer never exceeds maxWUSPFragmentBytesPerPeer,    *)
(* whatever it starts and never finishes (consumeWUSPPayload checks before    *)
(* both charges).                                                             *)
BudgetKept == \A p \in Peers : bytesByPeer[p] <= MaxBytes

\* What the assemblies of a peer hold.
Held(pend, p) ==
  SumFunctionOnSet([k \in DOMAIN pend |-> pend[k].bytes], {k \in DOMAIN pend : k[1] = p})

(* bytesByPeer is exactly what the peer's incomplete messages hold, their     *)
(* slots and the data that has come, and a complete message never waits: no   *)
(* charge is lost and none outlives its assembly, over every mix of           *)
(* completions, expiries, refusals and count mismatches.                      *)
Accounted ==
  /\ \A k \in DOMAIN pending :
       LET a == pending[k]
       IN /\ a.received = Cardinality(DOMAIN a.fragments) /\ a.received < a.count
          /\ a.bytes = a.count * SlotCost + SumFunction(Loads(a.fragments))
  /\ \A p \in Peers : bytesByPeer[p] = Held(pending, p)

(* What reaches wuspHandler is one whole message: every index once, all cut   *)
(* from the same payload.                                                     *)
Unmixed ==
  delivered # Nothing =>
    /\ \A i, j \in DOMAIN delivered : delivered[i].msg = delivered[j].msg
    /\ \A i \in DOMAIN delivered : DOMAIN delivered = 0 .. delivered[i].count - 1

(* A handed-up message has every index, all of one count and one peer, and    *)
(* its fragments are of one payload while its sender has not restarted and    *)
(* its ID is no request's: loss, reordering, expiry and refusals alone never  *)
(* join messages.  Nothing is said of the IDs that can be used twice: those   *)
(* of a peer that has restarted (nextID begins again) and those of answers.   *)
JoinedOnlyByReuse ==
  delivered # Nothing =>
    \A i, j \in DOMAIN delivered :
      /\ DOMAIN delivered = 0 .. delivered[i].count - 1
      /\ delivered[i].peer = delivered[j].peer
      /\ \/ delivered[i].msg = delivered[j].msg
         \/ restarts[delivered[i].peer] > 0
         \/ delivered[i].id \in RequestIDs

\* No padding, or an answer whose request named a budget that WireGuard pads.
Unpadded(f) == f.pad = 0 \/ (f.id \in RequestIDs /\ f.budget % PaddingMultiple # 0)

(* Padding zeros appear only behind the last byte of a delivered message,     *)
(* where the request and response decoders accept them (remainingAllZero),    *)
(* unless the request asked for an answer in datagrams that are no multiple   *)
(* of the padding: RequestedResponseMaxControlPayload takes any size from 24  *)
(* to 1200 (NoPaddingInside).                                                 *)
PaddingOnlyAtEnd ==
  delivered # Nothing =>
    \A i \in DOMAIN delivered : i < delivered[i].count - 1 => Unpadded(delivered[i])

(* What the decoders rely on, whatever budget a request names: no zeros that  *)
(* were not sent between two fragments.                                       *)
NoPaddingInside ==
  delivered # Nothing =>
    \A i \in DOMAIN delivered : i < delivered[i].count - 1 => delivered[i].pad = 0

(* The claim of SendWUSPFragmented's comment: the receiver strips WireGuard's *)
(* padding, so no zero that was not sent is delivered.                        *)
PaddingStripped ==
  delivered # Nothing => \A i \in DOMAIN delivered : delivered[i].pad = 0
=============================================================================

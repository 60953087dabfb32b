------------------------ MODULE WuspFragmentsProofs ------------------------
(* The per-peer byte budget of consumeWUSPPayload, and what it hands to      *)
(* wuspHandler, for every set of peers, every size and every bound. The      *)
(* budget is inductive with the types (IInv). What is handed up follows from *)
(* Parcels, which says of every fragment under way, in hand or in an         *)
(* assembly where it was cut (Cut), that its ID was counted up (Numbered)    *)
(* and that one ID is one message unless the peer used it twice (Once); of   *)
(* every assembly which slots are filled (Slots); and of a message handed up *)
(* that all are (Whole). The accounts of the reassembly are exact (Ledger):  *)
(* the charge of a peer is the sum over its assemblies, that of an assembly  *)
(* the sum over its slots; the facts about sums are those of Sums.           *)
EXTENDS WuspFragments, Sums

USE DEF MaxBytes

(* FragmentUSPControlPayload cuts a payload into at least one frame and puts *)
(* at least one byte into each.                                              *)
LEMMA CountPositive ==
  ASSUME NEW len \in Nat \ {0}, NEW b \in Nat, b > HeaderSize
  PROVE  /\ FrameCount(len, b) \in Nat \ {0}
         /\ \A i \in 0 .. FrameCount(len, b) - 1 : DataSize(len, b, i) \in Nat \ {0}
<1>. DEFINE c == Chunk(b)
            n == FrameCount(len, b)
<1>1. c \in Nat \ {0}
  BY FragmentAssumption DEF Chunk
<1>2. /\ n \in Nat
      /\ c * n <= len + c - 1 /\ len + c - 1 < c * (n + 1)
  BY <1>1 DEF FrameCount, Chunk
<1> QED BY <1>1, <1>2 DEF DataSize

(* calculatePaddingSize never asks for a negative number of zeros. *)
LEMMA PaddingNat ==
  ASSUME NEW size \in Nat
  PROVE  Padding(size) \in Nat
<1>1. PaddingMultiple \in Nat /\ PaddingMultiple > 0
  BY FragmentAssumption
<1>2. size % PaddingMultiple \in 0 .. PaddingMultiple - 1
  BY <1>1
<1>3. PaddingMultiple - (size % PaddingMultiple) \in Nat
  BY <1>1, <1>2
<1> QED BY <1>1, <1>3 DEF Padding

(* Every frame a sender cuts is a well-formed fragment. *)
LEMMA FramesType ==
  ASSUME NEW p \in Peers, NEW msg \in Nat, NEW id \in Nat \ {0},
         NEW len \in Nat \ {0}, NEW b \in Nat, b > HeaderSize
  PROVE  Frames(p, msg, id, len, b) \subseteq Fragment
<1>1. FrameCount(len, b) \in Nat \ {0}
  BY CountPositive
<1> SUFFICES ASSUME NEW i \in 0 .. FrameCount(len, b) - 1
             PROVE  [peer |-> p, msg |-> msg, budget |-> b, id |-> id, index |-> i,
                     count |-> FrameCount(len, b),
                     data |-> DataSize(len, b, i),
                     pad |-> Padding(HeaderSize + DataSize(len, b, i))] \in Fragment
  BY DEF Frames
<1>2. i \in Nat
  BY <1>1
<1>3. DataSize(len, b, i) \in Nat \ {0}
  BY CountPositive
<1>4. HeaderSize + DataSize(len, b, i) \in Nat
  BY <1>3, FragmentAssumption
<1>5. Padding(HeaderSize + DataSize(len, b, i)) \in Nat
  BY <1>4, PaddingNat
<1> QED BY <1>1, <1>2, <1>3, <1>5 DEF Fragment

(* What a drop does to a table of charges: it stays a table of charges, and  *)
(* nobody's charge grows.                                                    *)
LEMMA DropBytesBound ==
  ASSUME NEW bytes \in [Peers -> Nat], NEW k \in Peers \X (Nat \ {0}), NEW n \in Nat
  PROVE  /\ DropBytes(bytes, k, n) \in [Peers -> Nat]
         /\ \A p \in Peers : DropBytes(bytes, k, n)[p] <= bytes[p]
         /\ \A p \in Peers : p # k[1] => DropBytes(bytes, k, n)[p] = bytes[p]
         /\ DropBytes(bytes, k, n)[k[1]] <= IF n <= bytes[k[1]] THEN bytes[k[1]] - n ELSE 0
<1>1. k[1] \in Peers
  OBVIOUS
<1> QED BY <1>1 DEF DropBytes

-----------------------------------------------------------------------------
(* What consumeWUSPPayload computes before it decides: the assembly and the  *)
(* charge of the fragment in hand.                                           *)
LEMMA ConsumeTypes ==
  ASSUME TypeOK, job # NoJob
  PROVE  /\ job \in Fragment
         /\ Key(job) \in Peers \X (Nat \ {0})
         /\ Key(job)[1] = job.peer
         /\ Target.bytes \in Nat /\ Target.count \in Nat \ {0}
         /\ Target.received \in Nat /\ Target.updated \in Nat
         /\ Charged \in Nat
         /\ Key(job) \in DOMAIN pending => Charged = bytesByPeer[job.peer]
         /\ Key(job) \notin DOMAIN pending =>
               Charged = bytesByPeer[job.peer] + Target.bytes
         /\ DataLen(job) \in Nat
<1>1. job \in Fragment
  BY DEF TypeOK
<1>2. job.count * SlotCost \in Nat
  BY <1>1, FragmentAssumption DEF Fragment
<1>3. Key(job) \in Peers \X (Nat \ {0}) /\ Key(job)[1] = job.peer
  BY <1>1 DEF Key, Fragment
<1>4. Fresh(job).bytes \in Nat /\ Fresh(job).count \in Nat \ {0}
      /\ Fresh(job).received \in Nat /\ Fresh(job).updated \in Nat
  BY <1>1, <1>2 DEF Fresh, Fragment, TypeOK
<1>5. /\ Target.bytes \in Nat /\ Target.count \in Nat \ {0}
      /\ Target.received \in Nat /\ Target.updated \in Nat
  BY <1>4 DEF Target, TypeOK
<1>6. /\ Charged \in Nat
      /\ Key(job) \in DOMAIN pending => Charged = bytesByPeer[job.peer]
      /\ Key(job) \notin DOMAIN pending =>
            Charged = bytesByPeer[job.peer] + Target.bytes
  BY <1>1, <1>4 DEF Charged, Target, TypeOK, Fragment
<1>7. DataLen(job) \in Nat
  BY <1>1 DEF DataLen, Fragment
<1> QED BY <1>1, <1>3, <1>5, <1>6, <1>7

(* Storing a fragment adds its bytes to the assembly once. *)
LEMMA StoreTypes ==
  ASSUME TypeOK, job # NoJob
  PROVE  /\ Store(Target).bytes \in Nat /\ Store(Target).count \in Nat \ {0}
         /\ Store(Target).received \in Nat /\ Store(Target).updated \in Nat
         /\ Store(Target).bytes = Target.bytes + IF Filled(Target) THEN 0 ELSE DataLen(job)
<1>1. Target.bytes \in Nat /\ Target.count \in Nat \ {0}
      /\ Target.received \in Nat /\ Target.updated \in Nat
      /\ DataLen(job) \in Nat
  BY ConsumeTypes
<1>2. CASE Filled(Target)
  BY <1>1, <1>2 DEF Store, TypeOK
<1>3. CASE ~Filled(Target)
  BY <1>1, <1>3 DEF Store, TypeOK
<1> QED BY <1>2, <1>3

(* The inductive invariant: types, and the budget itself.                    *)
IInv == TypeOK /\ BudgetKept

(* A new device has charged nobody. *)
LEMMA InitIInv == Init => IInv
  BY FragmentAssumption DEF Init, IInv, TypeOK, BudgetKept, EmptyPending

(* consumeWUSPPayload keeps the budget on each of its four ways out. *)
LEMMA ConsumeIInv ==
  ASSUME IInv, Consume
  PROVE  IInv'
<1>. DEFINE key == Key(job)
            bytes == [bytesByPeer EXCEPT ![job.peer] = Charged]
            stored == Store(Target)
            charged == [bytes EXCEPT ![job.peer] = @ + stored.bytes - Target.bytes]
<1>1. /\ TypeOK /\ BudgetKept /\ job # NoJob /\ job' = NoJob
      /\ UNCHANGED <<nextID, sent, restarts, net, clock>>
  BY DEF Consume, IInv
<1>2. /\ job \in Fragment
      /\ key \in Peers \X (Nat \ {0}) /\ key[1] = job.peer /\ job.peer \in Peers
      /\ Target.bytes \in Nat /\ Charged \in Nat /\ DataLen(job) \in Nat
      /\ key \in DOMAIN pending => Charged = bytesByPeer[job.peer]
      /\ key \notin DOMAIN pending => Charged = bytesByPeer[job.peer] + Target.bytes
  BY <1>1, ConsumeTypes DEF Fragment
<1>3. /\ stored.bytes \in Nat /\ stored.count \in Nat \ {0}
      /\ stored.received \in Nat /\ stored.updated \in Nat
      /\ stored.bytes = Target.bytes + IF Filled(Target) THEN 0 ELSE DataLen(job)
  BY <1>1, StoreTypes
<1>4. MaxMessage \in Nat /\ bytesByPeer \in [Peers -> Nat]
      /\ bytes \in [Peers -> Nat] /\ charged \in [Peers -> Nat]
      /\ \A p \in Peers : p # job.peer => /\ bytes[p] = bytesByPeer[p]
                                         /\ charged[p] = bytesByPeer[p]
      /\ bytes[job.peer] = Charged
      /\ charged[job.peer] = Charged + (stored.bytes - Target.bytes)
  BY <1>1, <1>2, <1>3, FragmentAssumption DEF TypeOK
<1>5. \A p \in Peers : bytesByPeer[p] <= MaxBytes
  BY <1>1 DEF BudgetKept
<1>6. NoJob \in Fragment \cup {NoJob}
  OBVIOUS
<1>10. CASE UNCHANGED <<pending, bytesByPeer>>
  BY <1>1, <1>6, <1>10 DEF IInv, TypeOK, BudgetKept
<1>11. CASE /\ ~NoRoomForSlots
            /\ pending' = DropPending(pending, key)
            /\ bytesByPeer' = DropBytes(bytes, key, Target.bytes)
  <2>1. \A p \in Peers : bytes[p] <= MaxBytes
    BY <1>2, <1>4, <1>5, <1>11 DEF NoRoomForSlots
  <2>2. bytesByPeer' \in [Peers -> Nat] /\ \A p \in Peers : bytesByPeer'[p] <= bytes[p]
    BY <1>2, <1>4, <1>11, DropBytesBound
  <2>3. \A p \in Peers : bytesByPeer'[p] <= MaxBytes
    BY <2>1, <2>2, <1>4
  <2>4. \A k \in DOMAIN pending' : k \in DOMAIN pending /\ pending'[k] = pending[k]
    BY <1>11 DEF DropPending
  <2> QED BY <1>1, <1>6, <2>2, <2>3, <2>4 DEF IInv, TypeOK, BudgetKept
<1>12. CASE /\ ~NoRoomForSlots /\ ~NoRoomForData
            /\ pending' = [k \in DOMAIN pending \cup {key} |->
                             IF k = key THEN stored ELSE pending[k]]
            /\ bytesByPeer' = charged
  <2>1. charged[job.peer] <= MaxBytes
    BY <1>2, <1>3, <1>4, <1>5, <1>12 DEF NoRoomForSlots, NoRoomForData
  <2>2. \A p \in Peers : bytesByPeer'[p] <= MaxBytes
    BY <2>1, <1>4, <1>5, <1>12
  <2>3. DOMAIN pending' = DOMAIN pending \cup {key}
        /\ \A k \in DOMAIN pending' :
             pending'[k] = stored \/ (k \in DOMAIN pending /\ pending'[k] = pending[k])
    BY <1>12
  <2> HIDE DEF key, stored, charged, bytes
  <2> QED
    BY <1>1, <1>2, <1>3, <1>4, <1>6, <1>12, <2>2, <2>3 DEF IInv, TypeOK, BudgetKept
<1>13. CASE /\ ~NoRoomForSlots /\ ~NoRoomForData
            /\ pending' = DropPending(pending, key)
            /\ bytesByPeer' = DropBytes(charged, key, stored.bytes)
  <2>1. \A p \in Peers : charged[p] <= MaxBytes
    BY <1>2, <1>3, <1>4, <1>5, <1>13 DEF NoRoomForSlots, NoRoomForData
  <2>2. bytesByPeer' \in [Peers -> Nat] /\ \A p \in Peers : bytesByPeer'[p] <= charged[p]
    BY <1>2, <1>3, <1>4, <1>13, DropBytesBound
  <2>3. \A p \in Peers : bytesByPeer'[p] <= MaxBytes
    BY <2>1, <2>2, <1>4
  <2>4. \A k \in DOMAIN pending' : k \in DOMAIN pending /\ pending'[k] = pending[k]
    BY <1>13 DEF DropPending
  <2> QED BY <1>1, <1>6, <2>2, <2>3, <2>4 DEF IInv, TypeOK, BudgetKept
<1> QED BY <1>10, <1>11, <1>12, <1>13 DEF Consume

(* Every step of senders, network, clock and receiver keeps the budget. *)
LEMMA StepIInv == IInv /\ [Next]_vars => IInv'
<1> SUFFICES ASSUME IInv, [Next]_vars PROVE IInv'
  OBVIOUS
<1>1. TypeOK /\ BudgetKept
  BY DEF IInv
<1>2. ASSUME NEW p \in Peers, NEW len \in Lengths, SendWUSP(p, len) PROVE IInv'
  <2>1. nextID[p] + 1 \in Nat \ {0} /\ sent + 1 \in Nat
    BY <1>1 DEF TypeOK
  <2>2. Frames(p, sent + 1, nextID[p] + 1, len, MaxDatagram) \subseteq Fragment
    BY <2>1, FramesType, FragmentAssumption
  <2>3. sent' = sent + 1 /\ nextID' \in [Peers -> Nat] /\ nextID'[p] = nextID[p] + 1
    BY <1>1, <1>2 DEF SendWUSP, TypeOK
  <2> QED BY <1>1, <1>2, <2>1, <2>2, <2>3 DEF SendWUSP, IInv, TypeOK, BudgetKept
<1>3. ASSUME NEW p \in Peers, NEW len \in Lengths, NEW id \in RequestIDs,
             NEW b \in ReplyBudgets, ReplyControlPayload(p, id, len, b)
      PROVE  IInv'
  <2>1. sent + 1 \in Nat
    BY <1>1 DEF TypeOK
  <2>2. Frames(p, sent + 1, id, len, b) \subseteq Fragment
    BY <2>1, FramesType, FragmentAssumption
  <2> QED BY <1>1, <1>3, <2>1, <2>2 DEF ReplyControlPayload, IInv, TypeOK, BudgetKept
<1>4. ASSUME NEW p \in Peers, Restart(p) PROVE IInv'
  BY <1>1, <1>4 DEF Restart, IInv, TypeOK, BudgetKept
<1>5. CASE Tick
  BY <1>1, <1>5 DEF Tick, IInv, TypeOK, BudgetKept
<1>6. ASSUME NEW f \in net, Receive(f) PROVE IInv'
  BY <1>1, <1>6 DEF Receive, IInv, TypeOK, BudgetKept
<1>7. ASSUME NEW k \in DOMAIN pending, Prune(k) PROVE IInv'
  <2>1. k \in Peers \X (Nat \ {0}) /\ pending[k].bytes \in Nat
        /\ bytesByPeer \in [Peers -> Nat] /\ MaxMessage \in Nat
    BY <1>1, FragmentAssumption DEF TypeOK
  <2>2. bytesByPeer' \in [Peers -> Nat] /\ \A p \in Peers : bytesByPeer'[p] <= bytesByPeer[p]
    BY <1>7, <2>1, DropBytesBound DEF Prune
  <2>3. \A p \in Peers : bytesByPeer'[p] <= MaxBytes
    BY <1>1, <2>1, <2>2 DEF BudgetKept
  <2>4. \A x \in DOMAIN pending' : x \in DOMAIN pending /\ pending'[x] = pending[x]
    BY <1>7 DEF Prune, DropPending
  <2> QED BY <1>1, <1>7, <2>2, <2>3, <2>4 DEF Prune, IInv, TypeOK, BudgetKept
<1>8. CASE Consume
  BY <1>8, ConsumeIInv
<1>9. CASE UNCHANGED vars
  BY <1>1, <1>9 DEF vars, IInv, TypeOK, BudgetKept
<1> QED BY <1>2, <1>3, <1>4, <1>5, <1>6, <1>7, <1>8, <1>9 DEF Next

(* In every behaviour of the sender, the network and consumeWUSPPayload the  *)
(* tables keep their types and no peer is charged more than                  *)
(* maxWUSPFragmentBytesPerPeer.                                              *)
THEOREM BudgetHolds == Spec => [](TypeOK /\ BudgetKept)
<1>1. Init => IInv
  BY InitIInv
<1>2. IInv /\ [Next]_vars => IInv'
  BY StepIInv
<1> QED BY <1>1, <1>2, PTL DEF Spec, IInv
-----------------------------------------------------------------------------
(* What reaches wuspHandler *)

\* A fragment that is under way, in hand or in an assembly.
Piece(f) ==
  \/ f \in net
  \/ f = job /\ job # NoJob
  \/ \E k \in DOMAIN pending : \E i \in DOMAIN pending[k].fragments : f = pending[k].fragments[i]

\* The slots of an assembly: fragments of its message, each at its index.
Slotted(a, k) ==
  /\ DOMAIN a.fragments \subseteq 0 .. a.count - 1
  /\ a.received = Cardinality(DOMAIN a.fragments)
  /\ \A i \in DOMAIN a.fragments :
       /\ a.fragments[i] \in Fragment
       /\ a.fragments[i].index = i /\ a.fragments[i].count = a.count
       /\ Key(a.fragments[i]) = k

Slots == \A k \in DOMAIN pending : Slotted(pending[k], k)

\* Only the last fragment of a message is padded, or an answer's.
Cut ==
  \A f \in Fragment : Piece(f) =>
    /\ f.index < f.count
    /\ f.index < f.count - 1 => Unpadded(f)

\* The peer has used the ID more than once.
Reused(f) == restarts[f.peer] > 0 \/ f.id \in RequestIDs

\* The IDs of a sender that has not restarted are counted up.
Numbered == \A f \in Fragment : Piece(f) => Reused(f) \/ f.id <= nextID[f.peer]

Once ==
  \A f, g \in Fragment :
    Piece(f) /\ Piece(g) /\ Key(f) = Key(g) => f.msg = g.msg \/ Reused(f)

Whole ==
  delivered # Nothing =>
    /\ \A i \in DOMAIN delivered :
         /\ delivered[i] \in Fragment
         /\ DOMAIN delivered = 0 .. delivered[i].count - 1
         /\ i < delivered[i].count - 1 => Unpadded(delivered[i])
    /\ \A i, j \in DOMAIN delivered :
         /\ Key(delivered[i]) = Key(delivered[j])
         /\ delivered[i].msg = delivered[j].msg \/ Reused(delivered[i])

Parcels == Slots /\ Cut /\ Numbered /\ Once /\ Whole

\* Every frame is cut from the message given, and only the last is padded.
LEMMA FramesCut ==
  ASSUME NEW p \in Peers, NEW msg \in Nat, NEW id \in Nat \ {0},
         NEW len \in Nat \ {0}, NEW b \in Nat, b > HeaderSize,
         b % PaddingMultiple = 0 \/ id \in RequestIDs,
         NEW f \in Frames(p, msg, id, len, b)
  PROVE  /\ f.peer = p /\ f.msg = msg /\ f.id = id /\ f.index < f.count
         /\ f.index < f.count - 1 => Unpadded(f)
<1> DEFINE c == Chunk(b)
           n == FrameCount(len, b)
<1>1. c \in Nat \ {0} /\ c + HeaderSize = b /\ HeaderSize \in Nat
  BY FragmentAssumption DEF Chunk
<1>2. /\ n \in Nat
      /\ c * n <= len + c - 1
  BY <1>1 DEF FrameCount, Chunk
<1>3. PICK i \in 0 .. n - 1 :
         f = [peer |-> p, msg |-> msg, budget |-> b, id |-> id, index |-> i, count |-> n,
              data |-> DataSize(len, b, i), pad |-> Padding(HeaderSize + DataSize(len, b, i))]
  BY DEF Frames
<1>4. i < n /\ i \in Nat BY <1>2, <1>3
<1>5. ASSUME b % PaddingMultiple = 0, i < n - 1 PROVE f.pad = 0
  <2> HIDE DEF n, c
  <2>1. (i + 1) * c <= len
    <3>1. i + 2 <= n BY <1>2, <1>4, <1>5
    <3>2. c * (i + 2) <= c * n BY <1>1, <1>2, <1>4, <3>1
    <3>3. c * (i + 2) = c * (i + 1) + c BY <1>1, <1>4
    <3>4. c * (i + 1) = (i + 1) * c BY <1>1, <1>4
    <3>5. c * n \in Nat /\ c * (i + 1) \in Nat BY <1>1, <1>2, <1>4
    <3> QED BY <1>1, <1>2, <3>2, <3>3, <3>4, <3>5
  <2>2. (i + 1) * c \in Nat BY <1>1, <1>4
  <2>3. DataSize(len, b, i) = c BY <2>1, <2>2 DEF DataSize, c
  <2>4. Padding(b) = 0
    <3>1. PaddingMultiple \in Nat \ {0} /\ b % PaddingMultiple = 0
      BY <1>5, FragmentAssumption
    <3>2. (PaddingMultiple - 0) % PaddingMultiple = 0 BY <3>1
    <3> QED BY <3>1, <3>2 DEF Padding
  <2>5. f.pad = Padding(HeaderSize + DataSize(len, b, i)) BY <1>3
  <2>6. HeaderSize + DataSize(len, b, i) = b BY <1>1, <2>3
  <2> QED BY <2>4, <2>5, <2>6
<1> HIDE DEF n
<1> QED BY <1>3, <1>4, <1>5 DEF Unpadded

LEMMA KeyFacts ==
  ASSUME NEW f \in Fragment, NEW g \in Fragment
  PROVE  Key(f) = Key(g) <=> f.peer = g.peer /\ f.id = g.id
BY DEF Key

\* A step that makes no fragment, and in which a sender that starts again at
\* most forgets its number.
LEMMA Fewer ==
  ASSUME TypeOK, TypeOK', Cut, Numbered, Once, Whole, delivered' \in {delivered, Nothing},
         \A f \in Fragment : Piece(f)' => Piece(f),
         \A p \in Peers : \/ restarts'[p] > 0
                          \/ restarts'[p] = restarts[p] /\ nextID'[p] = nextID[p]
  PROVE  Cut' /\ Numbered' /\ Once' /\ Whole'
<1>1. \A f \in Fragment : Reused(f) => Reused(f)'
  BY DEF Reused, Fragment
<1>2. \A f \in Fragment : f.peer \in Peers BY DEF Fragment
<1>3. Cut' BY DEF Cut, Unpadded
<1>4. Numbered' BY <1>1, <1>2 DEF Numbered, Reused
<1>5. Once' BY <1>1 DEF Once, Key
<1>6. Whole' BY <1>1 DEF Whole, Key, Unpadded
<1> QED BY <1>3, <1>4, <1>5, <1>6

\* The fragments of a message that is sent.
LEMMA Sends ==
  ASSUME IInv, Parcels, TypeOK', NEW p \in Peers, NEW id \in Nat \ {0}, NEW len \in Lengths,
         NEW b \in Nat, b > HeaderSize, b % PaddingMultiple = 0 \/ id \in RequestIDs,
         net' = net \cup Frames(p, sent', id, len, b), sent' \in Nat,
         UNCHANGED <<restarts, job, pending, delivered>>,
         \A q \in Peers : nextID'[q] >= nextID[q],
         id \in RequestIDs \/ (id = nextID'[p] /\ id > nextID[p])
  PROVE  Parcels'
<1> DEFINE new == Frames(p, sent', id, len, b)
<1>0. len \in Nat \ {0} /\ nextID \in [Peers -> Nat] /\ nextID' \in [Peers -> Nat]
  BY FragmentAssumption DEF IInv, TypeOK
<1>1. \A f \in new : /\ f.peer = p /\ f.msg = sent' /\ f.id = id /\ f.index < f.count
                     /\ f.index < f.count - 1 => Unpadded(f)
  BY <1>0, FramesCut
<1> HIDE DEF new
<1>2. \A f \in Fragment : Piece(f)' => Piece(f) \/ f \in new
  BY DEF Piece, new
<1>3. \A f \in Fragment : Reused(f)' <=> Reused(f) BY DEF Reused
<1>4. \A f \in Fragment : f.peer \in Peers /\ f.id \in Nat BY DEF Fragment
<1>5. Slots' BY DEF Parcels, Slots, Slotted, Key
<1>6. Cut' BY <1>1, <1>2 DEF Parcels, Cut, Unpadded
<1>7. Numbered'
  <2>1. ASSUME NEW f \in Fragment, Piece(f)' PROVE Reused(f) \/ f.id <= nextID'[f.peer]
    <3>1. CASE Piece(f) BY <1>0, <1>4, <3>1 DEF Parcels, Numbered
    <3>2. CASE f \in new BY <1>0, <1>1, <1>4, <3>2 DEF Reused
    <3> QED BY <1>2, <2>1, <3>1, <3>2
  <2> QED BY <1>3, <2>1 DEF Numbered
<1>8. Once'
  <2>1. ASSUME NEW f \in Fragment, NEW g \in Fragment, Piece(f)', Piece(g)', Key(f) = Key(g)
        PROVE  f.msg = g.msg \/ Reused(f)
    <3>0. f.peer = g.peer /\ f.id = g.id BY <2>1, KeyFacts
    <3>1. CASE Piece(f) /\ Piece(g) BY <2>1, <3>1 DEF Parcels, Once
    <3>2. CASE f \in new /\ g \in new BY <1>1, <3>2
    <3>3. CASE Piece(f) /\ g \in new
      BY <1>0, <1>1, <1>4, <3>0, <3>3 DEF Parcels, Numbered, Reused
    <3>4. CASE f \in new /\ Piece(g)
      BY <1>0, <1>1, <1>4, <3>0, <3>4 DEF Parcels, Numbered, Reused
    <3> QED BY <1>2, <2>1, <3>1, <3>2, <3>3, <3>4
  <2> QED BY <1>3, <2>1 DEF Once, Key
<1>9. Whole' BY <1>3 DEF Parcels, Whole, Key, Unpadded
<1> QED BY <1>5, <1>6, <1>7, <1>8, <1>9 DEF Parcels

\* The assembly of the fragment in hand, before and after it is stored.
LEMMA StoredFacts ==
  ASSUME IInv, Slots, Cut, job # NoJob, ~WrongCount
  PROVE  /\ Slotted(Store(Target), Key(job)) /\ Store(Target).count = job.count
         /\ \A i \in DOMAIN Store(Target).fragments : Piece(Store(Target).fragments[i])
<1> DEFINE t == Target
           s == Store(Target)
<1>0. job \in Fragment /\ job.index \in Nat /\ job.count \in Nat \ {0} /\ Piece(job)
  BY ConsumeTypes DEF IInv, Fragment, Piece
<1>1. job.index < job.count /\ t.count = job.count
  BY <1>0 DEF Cut, WrongCount
<1>2. /\ Slotted(t, Key(job))
      /\ \A i \in DOMAIN t.fragments : Piece(t.fragments[i])
  <2>1. CASE Key(job) \in DOMAIN pending
    BY <2>1 DEF Target, Slots, Piece
  <2>2. CASE Key(job) \notin DOMAIN pending
    <3>1. t = Fresh(job) BY <2>2 DEF Target
    <3>2. /\ t.received = 0 /\ t.fragments = EmptyPending
      BY <3>1 DEF Fresh
    <3>3. DOMAIN t.fragments = {} BY <3>2 DEF EmptyPending
    <3>4. Cardinality({}) = 0 BY FS_EmptySet
    <3> HIDE DEF t
    <3> QED BY <3>2, <3>3, <3>4 DEF Slotted
  <2> QED BY <2>1, <2>2
<1>3. t.count \in Nat \ {0} BY ConsumeTypes DEF IInv
<1>4. IsFiniteSet(DOMAIN t.fragments)
  <2>1. IsFiniteSet(0 .. t.count - 1) BY <1>3, FS_Interval
  <2> QED BY <1>2, <2>1, FS_Subset DEF Slotted
<1> HIDE DEF t
<1>5. CASE Filled(Target)
  <2>1. /\ s.fragments = t.fragments /\ s.received = t.received /\ s.count = t.count
    BY <1>5 DEF Store, t
  <2> HIDE DEF s
  <2>2. Slotted(s, Key(job)) BY <1>2, <2>1 DEF Slotted
  <2> QED BY <1>1, <1>2, <2>1, <2>2 DEF s
<1>6. CASE ~Filled(Target)
  <2>1. /\ s.fragments = [i \in DOMAIN t.fragments \cup {job.index} |->
                            IF i = job.index THEN job ELSE t.fragments[i]]
        /\ s.received = t.received + 1 /\ s.count = t.count
        /\ job.index \notin DOMAIN t.fragments
    BY <1>6 DEF Store, Filled, t
  <2> HIDE DEF s
  <2>2. /\ DOMAIN s.fragments = DOMAIN t.fragments \cup {job.index}
        /\ s.fragments[job.index] = job
        /\ \A i \in DOMAIN t.fragments : s.fragments[i] = t.fragments[i]
    BY <2>1
  <2>3. Cardinality(DOMAIN s.fragments) = Cardinality(DOMAIN t.fragments) + 1
    BY <1>4, <2>1, <2>2, FS_AddElement
  <2>4. DOMAIN s.fragments \subseteq 0 .. s.count - 1
    BY <1>0, <1>1, <1>2, <1>3, <2>1, <2>2 DEF Slotted
  <2>5. Slotted(s, Key(job))
    BY <1>0, <1>1, <1>2, <2>1, <2>2, <2>3, <2>4 DEF Slotted
  <2> QED BY <1>0, <1>1, <1>2, <2>1, <2>2, <2>5 DEF s
<1> QED BY <1>5, <1>6

\* A message that is handed up is whole.
LEMMA HandedUp ==
  ASSUME IInv, Parcels, job # NoJob, ~WrongCount, Store(Target).received = job.count,
         delivered' \in {Nothing, Store(Target).fragments}, restarts' = restarts
  PROVE  Whole'
<1> DEFINE s == Store(Target)
<1>1. /\ Slotted(s, Key(job)) /\ s.count = job.count
      /\ \A i \in DOMAIN s.fragments : Piece(s.fragments[i])
  BY StoredFacts DEF Parcels
<1>2. job.count \in Nat \ {0} BY ConsumeTypes DEF IInv, Fragment
<1>3. DOMAIN s.fragments = 0 .. job.count - 1
  <2> HIDE DEF s
  <2> DEFINE top == job.count - 1
  <2>a. top \in Int /\ 0 \in Int /\ ~(0 > top) /\ top - 0 + 1 = job.count BY <1>2
  <2> HIDE DEF top
  <2>b. IsFiniteSet(0 .. top) /\ Cardinality(0 .. top) = top - 0 + 1
    BY <2>a, FS_Interval, Zenon
  <2>1. IsFiniteSet(0 .. job.count - 1) /\ Cardinality(0 .. job.count - 1) = job.count
    BY <2>a, <2>b DEF top
  <2>2. DOMAIN s.fragments \subseteq 0 .. job.count - 1 BY <1>1 DEF Slotted
  <2>3. Cardinality(DOMAIN s.fragments) = job.count BY <1>1 DEF Slotted, s
  <2> QED BY <2>1, <2>2, <2>3, FS_Subset
<1> HIDE DEF s
<1>4. \A f \in Fragment : Reused(f)' <=> Reused(f) BY DEF Reused
<1>5. CASE delivered' = s.fragments
  <2>1. \A i \in DOMAIN s.fragments :
          /\ s.fragments[i] \in Fragment /\ s.fragments[i].index = i
          /\ s.fragments[i].count = job.count /\ Key(s.fragments[i]) = Key(job)
          /\ Piece(s.fragments[i])
    BY <1>1 DEF Slotted
  <2>2. \A i \in DOMAIN s.fragments :
          i < job.count - 1 => Unpadded(s.fragments[i])
    BY <2>1 DEF Parcels, Cut
  <2>3. \A i, j \in DOMAIN s.fragments :
          s.fragments[i].msg = s.fragments[j].msg \/ Reused(s.fragments[i])
    BY <2>1 DEF Parcels, Once
  <2> QED BY <1>3, <1>4, <1>5, <2>1, <2>2, <2>3, ZenonT(60) DEF Whole, Key, Unpadded
<1>6. CASE delivered' = Nothing BY <1>6 DEF Whole
<1> QED BY <1>5, <1>6 DEF s

LEMMA ConsumeParcels == ASSUME IInv, Parcels, Consume PROVE Parcels'
<1>0. /\ job # NoJob /\ job' = NoJob /\ UNCHANGED <<nextID, restarts, net>>
  BY DEF Consume
<1>a. TypeOK /\ TypeOK' BY ConsumeIInv DEF IInv
<1>1. CASE UNCHANGED <<pending, delivered>>
  <2>1. \A f \in Fragment : Piece(f)' => Piece(f) BY <1>0, <1>1 DEF Piece
  <2>2. Slots' BY <1>1 DEF Parcels, Slots, Slotted, Key
  <2> QED BY <1>0, <1>1, <1>a, <2>1, <2>2, Fewer DEF Parcels
<1>2. CASE pending' = DropPending(pending, Key(job))
           /\ (\/ delivered' = delivered
               \/ ~WrongCount /\ Store(Target).received = job.count
                  /\ delivered' = Reassemble(Store(Target).fragments))
  <2>0. \A k \in DOMAIN pending' : k \in DOMAIN pending /\ pending'[k] = pending[k]
    BY <1>2 DEF DropPending
  <2>1. \A f \in Fragment : Piece(f)' => Piece(f) BY <1>0, <2>0 DEF Piece
  <2>2. Slots' BY <2>0 DEF Parcels, Slots, Slotted, Key
  <2>3. CASE delivered' = delivered
    BY <1>0, <1>a, <2>1, <2>2, <2>3, Fewer DEF Parcels
  <2>4. CASE delivered' # delivered
    <3>1. delivered' \in {Nothing, Store(Target).fragments}
      BY <1>2, <2>4 DEF Reassemble
    <3>2. Whole' BY <1>0, <1>2, <2>4, <3>1, HandedUp
    <3>3. \A f \in Fragment : f.peer \in Peers /\ (Reused(f)' <=> Reused(f))
      BY <1>0 DEF Reused, Fragment
    <3>4. Cut' BY <2>1 DEF Parcels, Cut, Unpadded
    <3>5. Numbered' BY <1>0, <2>1, <3>3 DEF Parcels, Numbered
    <3>6. Once' BY <2>1, <3>3 DEF Parcels, Once, Key
    <3> QED BY <2>2, <3>2, <3>4, <3>5, <3>6 DEF Parcels
  <2> QED BY <2>3, <2>4
<1>3. CASE /\ ~WrongCount /\ delivered' = delivered
           /\ pending' = [k \in DOMAIN pending \cup {Key(job)} |->
                            IF k = Key(job) THEN Store(Target) ELSE pending[k]]
  <2> DEFINE s == Store(Target)
  <2>1. /\ Slotted(s, Key(job))
        /\ \A i \in DOMAIN s.fragments : Piece(s.fragments[i])
    BY <1>0, <1>3, StoredFacts DEF Parcels
  <2> HIDE DEF s
  <2>2. \A k \in DOMAIN pending' :
          IF k = Key(job) THEN pending'[k] = s
                          ELSE k \in DOMAIN pending /\ pending'[k] = pending[k]
    BY <1>3 DEF s
  <2>3. Slots' BY <2>1, <2>2 DEF Parcels, Slots, Slotted, Key
  <2>4. \A f \in Fragment : Piece(f)' => Piece(f)
    <3>1. ASSUME NEW f \in Fragment, NEW k \in DOMAIN pending',
                 NEW i \in DOMAIN pending'[k].fragments, f = pending'[k].fragments[i]
          PROVE  Piece(f)
      <4>1. CASE k = Key(job) BY <2>1, <2>2, <3>1, <4>1
      <4>2. CASE k # Key(job) BY <2>2, <3>1, <4>2 DEF Piece
      <4> QED BY <4>1, <4>2
    <3> QED BY <1>0, <3>1 DEF Piece
  <2> QED BY <1>0, <1>3, <1>a, <2>3, <2>4, Fewer DEF Parcels
<1> QED BY <1>1, <1>2, <1>3 DEF Consume

LEMMA StepParcels == ASSUME IInv, Parcels, [Next]_vars PROVE Parcels'
<1>0. TypeOK /\ TypeOK' /\ nextID \in [Peers -> Nat] /\ sent \in Nat
      /\ restarts \in [Peers -> Nat]
  BY StepIInv DEF IInv, TypeOK
<1>1. ASSUME NEW p \in Peers, NEW len \in Lengths, SendWUSP(p, len) PROVE Parcels'
  <2>1. /\ sent' = sent + 1 /\ nextID'[p] = nextID[p] + 1
        /\ \A q \in Peers : nextID'[q] >= nextID[q]
    BY <1>0, <1>1 DEF SendWUSP
  <2>2. nextID'[p] \in Nat \ {0} /\ nextID'[p] > nextID[p] /\ sent' \in Nat
    BY <1>0, <2>1
  <2>3. MaxDatagram \in Nat /\ MaxDatagram > HeaderSize
        /\ MaxDatagram % PaddingMultiple = 0
    BY FragmentAssumption
  <2> QED BY <1>0, <1>1, <2>1, <2>2, <2>3, Sends DEF SendWUSP
<1>2. ASSUME NEW p \in Peers, NEW len \in Lengths, NEW id \in RequestIDs,
             NEW b \in ReplyBudgets, ReplyControlPayload(p, id, len, b)
      PROVE  Parcels'
  <2>1. sent' = sent + 1 /\ sent' \in Nat /\ \A q \in Peers : nextID'[q] >= nextID[q]
    BY <1>0, <1>2 DEF ReplyControlPayload
  <2>2. id \in Nat \ {0} /\ b \in Nat /\ b > HeaderSize
    BY FragmentAssumption
  <2> QED BY <1>0, <1>2, <2>1, <2>2, Sends DEF ReplyControlPayload
<1>3. ASSUME NEW p \in Peers, Restart(p) PROVE Parcels'
  <2>1. \A f \in Fragment : Piece(f)' => Piece(f) BY <1>3 DEF Restart, Piece
  <2>2. Slots' BY <1>3 DEF Restart, Parcels, Slots, Slotted, Key
  <2>3. \A q \in Peers : \/ restarts'[q] > 0
                         \/ restarts'[q] = restarts[q] /\ nextID'[q] = nextID[q]
    BY <1>0, <1>3 DEF Restart
  <2> QED BY <1>0, <1>3, <2>1, <2>2, <2>3, Fewer DEF Restart, Parcels
<1>4. CASE Tick \/ UNCHANGED vars
  <2>1. \A f \in Fragment : Piece(f)' => Piece(f) BY <1>4 DEF Tick, vars, Piece
  <2>2. Slots' BY <1>4 DEF Tick, vars, Parcels, Slots, Slotted, Key
  <2> QED BY <1>0, <1>4, <2>1, <2>2, Fewer DEF Tick, vars, Parcels
<1>5. ASSUME NEW f \in net, Receive(f) PROVE Parcels'
  <2>1. \A g \in Fragment : Piece(g)' => Piece(g) BY <1>5 DEF Receive, Piece
  <2>2. Slots' BY <1>5 DEF Receive, Parcels, Slots, Slotted, Key
  <2> QED BY <1>0, <1>5, <2>1, <2>2, Fewer DEF Receive, Parcels
<1>6. ASSUME NEW k \in DOMAIN pending, Prune(k) PROVE Parcels'
  <2>1. \A x \in DOMAIN pending' : x \in DOMAIN pending /\ pending'[x] = pending[x]
    BY <1>6 DEF Prune, DropPending
  <2>2. \A g \in Fragment : Piece(g)' => Piece(g) BY <1>6, <2>1 DEF Prune, Piece
  <2>3. Slots' BY <2>1 DEF Parcels, Slots, Slotted, Key
  <2> QED BY <1>0, <1>6, <2>2, <2>3, Fewer DEF Prune, Parcels
<1>7. CASE Consume BY <1>7, ConsumeParcels
<1> QED BY <1>1, <1>2, <1>3, <1>4, <1>5, <1>6, <1>7 DEF Next

LEMMA InitParcels == Init => Parcels
BY DEF Init, Parcels, Slots, Cut, Numbered, Once, Whole, Piece, EmptyPending

LEMMA ParcelsInvariance == Spec => []Parcels
<1>1. Parcels /\ IInv /\ [Next]_vars => Parcels'
  BY StepParcels
<1>2. Spec => []IInv
  BY BudgetHolds, PTL DEF IInv
<1> QED BY <1>1, <1>2, InitParcels, PTL DEF Spec

(* Whatever is lost, overtaken, expired or refused, a message that reaches   *)
(* wuspHandler has every index once and comes from one peer, and it is of    *)
(* one payload while that peer has not restarted and the ID is no request's. *)
THEOREM OneMessage == Spec => []JoinedOnlyByReuse
<1>1. Parcels => JoinedOnlyByReuse
  BY KeyFacts DEF Parcels, Whole, Reused, JoinedOnlyByReuse
<1> QED BY <1>1, ParcelsInvariance, PTL

(* The zeros that WireGuard appends come only after the last byte of a       *)
(* delivered message, whatever is lost or overtaken: of every message that a *)
(* peer starts itself (1200 bytes are a multiple of 16), and of every answer *)
(* whose request named a budget that is one too. For the other budgets that  *)
(* replyControlPayload accepts it is not so (NoPaddingInside).               *)
THEOREM PaddingLast == Spec => []PaddingOnlyAtEnd
<1>1. Parcels => PaddingOnlyAtEnd
  BY DEF Parcels, Whole, PaddingOnlyAtEnd
<1> QED BY <1>1, ParcelsInvariance, PTL
-----------------------------------------------------------------------------
(* The charges *)

\* What an assembly holds is what it was charged for.
Weighed(a) == a.bytes = a.count * SlotCost + SumFunction(Loads(a.fragments))

\* The invariant of the charges: an assembly waits for something and is weighed,
\* and a peer is charged for its assemblies.
Ledger ==
  /\ IsFiniteSet(DOMAIN pending)
  /\ \A k \in DOMAIN pending : pending[k].received < pending[k].count /\ Weighed(pending[k])
  /\ \A p \in Peers : bytesByPeer[p] = Held(pending, p)

\* What the assemblies of k's peer hold without k.
Rest(pend, k) ==
  SumFunctionOnSet([x \in DOMAIN pend |-> pend[x].bytes],
                   {x \in DOMAIN pend : x[1] = k[1]} \ {k})

LEMMA HeldSplit ==
  ASSUME NEW pend, IsFiniteSet(DOMAIN pend), \A x \in DOMAIN pend : pend[x].bytes \in Nat,
         NEW k
  PROVE  /\ Rest(pend, k) \in Nat
         /\ Held(pend, k[1]) = Rest(pend, k) + IF k \in DOMAIN pend THEN pend[k].bytes ELSE 0
<1> DEFINE f == [x \in DOMAIN pend |-> pend[x].bytes]
           S == {x \in DOMAIN pend : x[1] = k[1]}
<1>1. IsFiniteSet(S) /\ IsFiniteSet(S \ {k}) BY FS_Subset
<1>2. \A x \in S : f[x] \in Nat OBVIOUS
<1>3. k \in S <=> k \in DOMAIN pend OBVIOUS
<1>4. k \in DOMAIN pend => f[k] = pend[k].bytes OBVIOUS
<1>5. Held(pend, k[1]) = SumFunctionOnSet(f, S) /\ Rest(pend, k) = SumFunctionOnSet(f, S \ {k})
  BY DEF Held, Rest
<1> HIDE DEF f, S
<1>6. SumFunctionOnSet(f, S \ {k}) \in Nat BY <1>1, <1>2, SumNat
<1>7. CASE k \in DOMAIN pend
  <2>1. SumFunctionOnSet(f, S) = f[k] + SumFunctionOnSet(f, S \ {k})
    BY <1>1, <1>2, <1>3, <1>7, SumRemove
  <2> QED BY <1>2, <1>3, <1>4, <1>5, <1>6, <1>7, <2>1
<1>8. CASE k \notin DOMAIN pend
  <2>1. S \ {k} = S BY <1>3, <1>8
  <2> QED BY <1>5, <1>6, <1>8, <2>1
<1> QED BY <1>7, <1>8

\* Tables that differ at k only.
LEMMA HeldRest ==
  ASSUME NEW pend, NEW q, NEW k, IsFiniteSet(DOMAIN pend),
         \A x : x # k => /\ x \in DOMAIN q <=> x \in DOMAIN pend
                         /\ x \in DOMAIN pend => q[x] = pend[x]
  PROVE  /\ Rest(q, k) = Rest(pend, k)
         /\ \A p : p # k[1] => Held(q, p) = Held(pend, p)
<1> DEFINE f == [x \in DOMAIN pend |-> pend[x].bytes]
           g == [x \in DOMAIN q |-> q[x].bytes]
<1>1. \A x \in DOMAIN pend : x # k => f[x] = g[x] OBVIOUS
<1>2. ASSUME NEW S, S \subseteq DOMAIN pend, k \notin S
      PROVE  SumFunctionOnSet(f, S) = SumFunctionOnSet(g, S)
  <2>1. IsFiniteSet(S) /\ \A x \in S : f[x] = g[x] BY <1>1, <1>2, FS_Subset
  <2> HIDE DEF f, g
  <2> QED BY <2>1, SumSame
<1>3. Rest(q, k) = Rest(pend, k)
  <2> DEFINE S == {x \in DOMAIN pend : x[1] = k[1]} \ {k}
  <2>1. S = {x \in DOMAIN q : x[1] = k[1]} \ {k} OBVIOUS
  <2>2. S \subseteq DOMAIN pend /\ k \notin S OBVIOUS
  <2>3. Rest(pend, k) = SumFunctionOnSet(f, S) BY DEF Rest
  <2>4. Rest(q, k) = SumFunctionOnSet(g, {x \in DOMAIN q : x[1] = k[1]} \ {k})
    BY DEF Rest
  <2> HIDE DEF f, g, S
  <2> QED BY <1>2, <2>1, <2>2, <2>3, <2>4
<1>4. ASSUME NEW p, p # k[1] PROVE Held(q, p) = Held(pend, p)
  <2> DEFINE S == {x \in DOMAIN pend : x[1] = p}
  <2>1. S = {x \in DOMAIN q : x[1] = p} BY <1>4
  <2>2. S \subseteq DOMAIN pend /\ k \notin S BY <1>4
  <2>3. Held(pend, p) = SumFunctionOnSet(f, S) BY DEF Held
  <2>4. Held(q, p) = SumFunctionOnSet(g, {x \in DOMAIN q : x[1] = p}) BY DEF Held
  <2> HIDE DEF f, g, S
  <2> QED BY <1>2, <2>1, <2>2, <2>3, <2>4
<1> QED BY <1>3, <1>4

\* An assembly that leaves with its charge.
LEMMA LedgerDrop ==
  ASSUME TypeOK, Ledger, NEW k \in Peers \X (Nat \ {0}), NEW bytes \in [Peers -> Nat],
         NEW n \in Nat, pending' = DropPending(pending, k),
         bytesByPeer' = DropBytes(bytes, k, n),
         \A p \in Peers : p # k[1] => bytes[p] = bytesByPeer[p],
         bytes[k[1]] = n + bytesByPeer[k[1]]
                       - (IF k \in DOMAIN pending THEN pending[k].bytes ELSE 0)
  PROVE  Ledger'
<1>1. /\ DOMAIN pending' = DOMAIN pending \ {k}
      /\ \A x \in DOMAIN pending' : pending'[x] = pending[x]
  BY DEF DropPending
<1>2. IsFiniteSet(DOMAIN pending) /\ IsFiniteSet(DOMAIN pending')
  BY <1>1, FS_Subset DEF Ledger
<1>3. \A x \in DOMAIN pending : pending[x].bytes \in Nat BY DEF TypeOK
<1>4. \A x \in DOMAIN pending' : pending'[x].bytes \in Nat BY <1>1, <1>3
<1>5. \A x : x # k => /\ x \in DOMAIN pending' <=> x \in DOMAIN pending
                      /\ x \in DOMAIN pending => pending'[x] = pending[x]
  BY <1>1
<1>6. /\ Rest(pending', k) = Rest(pending, k)
      /\ \A p : p # k[1] => Held(pending', p) = Held(pending, p)
  <2> DEFINE q == pending'
  <2> HIDE DEF q
  <2> QED BY <1>2, <1>5, HeldRest DEF q
<1>7. /\ Rest(pending, k) \in Nat
      /\ Held(pending, k[1]) = Rest(pending, k)
                               + IF k \in DOMAIN pending THEN pending[k].bytes ELSE 0
  BY <1>2, <1>3, HeldSplit
<1>8. Held(pending', k[1]) = Rest(pending, k)
  <2>1. k \notin DOMAIN pending' BY <1>1
  <2>2. Held(pending', k[1]) = Rest(pending', k) + 0
    BY <1>2, <1>4, <2>1, HeldSplit
  <2> QED BY <1>6, <1>7, <2>2
<1>9. k[1] \in Peers /\ bytesByPeer \in [Peers -> Nat] BY DEF TypeOK
<1>10. bytes[k[1]] = n + Rest(pending, k)
  <2>1. bytesByPeer[k[1]] = Held(pending, k[1]) BY <1>9 DEF Ledger
  <2>2. CASE k \in DOMAIN pending BY <1>3, <1>7, <2>1, <2>2
  <2>3. CASE k \notin DOMAIN pending BY <1>7, <2>1, <2>3
  <2> QED BY <2>2, <2>3
<1>11. /\ bytesByPeer'[k[1]] = Rest(pending, k)
       /\ \A p \in Peers : p # k[1] => bytesByPeer'[p] = bytesByPeer[p]
  BY <1>7, <1>9, <1>10 DEF DropBytes
<1>12. \A p \in Peers : bytesByPeer'[p] = Held(pending', p)
  BY <1>6, <1>8, <1>11 DEF Ledger
<1>13. \A x \in DOMAIN pending' : pending'[x].received < pending'[x].count /\ Weighed(pending'[x])
  BY <1>1 DEF Ledger
<1> QED BY <1>2, <1>12, <1>13 DEF Ledger, Weighed, Loads, DataLen

\* The assembly of the fragment in hand is charged for its slots and its data.
LEMMA StoredWeighed ==
  ASSUME IInv, Slots, Cut, Ledger, job # NoJob, ~WrongCount
  PROVE  Weighed(Store(Target)) /\ Store(Target).received <= job.count
<1> DEFINE t == Target
           s == Store(Target)
<1>0. job \in Fragment /\ DataLen(job) \in Nat /\ job.count \in Nat \ {0}
  BY ConsumeTypes DEF IInv, Fragment
<1>1. t.bytes \in Nat /\ t.count \in Nat \ {0} BY ConsumeTypes DEF IInv
<1>2. /\ Slotted(s, Key(job)) /\ s.count = job.count
  BY StoredFacts
<1>3. s.received <= job.count
  <2> HIDE DEF s
  <2> DEFINE top == job.count - 1
  <2>1. top \in Int /\ 0 \in Int /\ ~(0 > top) /\ top - 0 + 1 = job.count BY <1>0
  <2>2. DOMAIN s.fragments \subseteq 0 .. top /\ s.received = Cardinality(DOMAIN s.fragments)
    BY <1>2 DEF Slotted
  <2> HIDE DEF top
  <2>3. IsFiniteSet(0 .. top) /\ Cardinality(0 .. top) = top - 0 + 1
    BY <2>1, FS_Interval, Zenon
  <2>4. Cardinality(DOMAIN s.fragments) <= Cardinality(0 .. top)
    BY <2>2, <2>3, FS_Subset
  <2> QED BY <2>1, <2>2, <2>3, <2>4
<1>4. /\ Weighed(t) /\ IsFiniteSet(DOMAIN t.fragments)
      /\ \A i \in DOMAIN t.fragments : DataLen(t.fragments[i]) \in Nat
  <2>1. CASE Key(job) \in DOMAIN pending
    <3>1. t = pending[Key(job)] /\ Slotted(t, Key(job)) BY <2>1 DEF Target, Slots
    <3>2. Weighed(t) BY <2>1, <3>1 DEF Ledger
    <3> HIDE DEF t
    <3>3. DOMAIN t.fragments \subseteq 0 .. t.count - 1 /\ IsFiniteSet(0 .. t.count - 1)
      BY <1>1, <3>1, FS_Interval, SMTT(30) DEF Slotted
    <3>4. \A i \in DOMAIN t.fragments : t.fragments[i] \in Fragment BY <3>1 DEF Slotted
    <3>5. \A f \in Fragment : DataLen(f) \in Nat BY DEF Fragment, DataLen
    <3> QED BY <3>2, <3>3, <3>4, <3>5, FS_Subset
  <2>2. CASE Key(job) \notin DOMAIN pending
    <3>1. t = Fresh(job) BY <2>2 DEF Target
    <3>2. t.bytes = t.count * SlotCost /\ t.fragments = EmptyPending
      BY <3>1 DEF Fresh
    <3>3. DOMAIN t.fragments = {} BY <3>2 DEF EmptyPending
    <3>4. DOMAIN Loads(t.fragments) = {} BY <3>3 DEF Loads
    <3>5. SumFunction(Loads(t.fragments)) = 0 BY <3>4, SumEmpty DEF SumFunction
    <3>6. t.count * SlotCost \in Nat BY <1>1, FragmentAssumption
    <3> HIDE DEF t
    <3> QED BY <3>2, <3>3, <3>5, <3>6, FS_EmptySet DEF Weighed
  <2> QED BY <2>1, <2>2
<1>5. CASE Filled(Target)
  <2>1. s.fragments = t.fragments /\ s.bytes = t.bytes /\ s.count = t.count
    BY <1>5 DEF Store, t
  <2> HIDE DEF s, t
  <2>2. Weighed(s) BY <1>4, <2>1 DEF Weighed
  <2> QED BY <1>3, <2>2 DEF s
<1>6. CASE ~Filled(Target)
  <2>1. /\ s.fragments = [i \in DOMAIN t.fragments \cup {job.index} |->
                            IF i = job.index THEN job ELSE t.fragments[i]]
        /\ s.bytes = t.bytes + DataLen(job) /\ s.count = t.count
        /\ job.index \notin DOMAIN t.fragments
    BY <1>6 DEF Store, Filled, t
  <2> HIDE DEF s, t
  <2> DEFINE S == DOMAIN t.fragments
             f == Loads(t.fragments)
             g == Loads(s.fragments)
  <2>2. DOMAIN f = S /\ DOMAIN g = S \cup {job.index} /\ job.index \notin S
    BY <2>1 DEF Loads
  <2>3. \A i \in S : f[i] = g[i] /\ g[i] \in Nat BY <1>4, <2>1 DEF Loads
  <2>4. g[job.index] = DataLen(job) BY <2>1 DEF Loads
  <2>5. /\ SumFunction(f) = SumFunctionOnSet(f, S)
        /\ SumFunction(g) = SumFunctionOnSet(g, S \cup {job.index})
    BY <2>2 DEF SumFunction
  <2>6. IsFiniteSet(S) BY <1>4
  <2> HIDE DEF S, f, g
  <2>7. SumFunctionOnSet(f, S) = SumFunctionOnSet(g, S) BY <2>3, <2>6, SumSame
  <2>8. \A i \in S \cup {job.index} : g[i] \in Nat BY <1>0, <2>3, <2>4
  <2>9. SumFunctionOnSet(g, S \cup {job.index}) = SumFunctionOnSet(g, S) + g[job.index]
    BY <2>2, <2>6, <2>8, SumAdd
  <2>10. SumFunctionOnSet(g, S) \in Nat BY <2>6, <2>8, SumNat
  <2>11. t.bytes = t.count * SlotCost + SumFunctionOnSet(g, S)
    BY <1>4, <2>5, <2>7 DEF Weighed, f
  <2>12. t.count * SlotCost \in Nat BY <1>1, FragmentAssumption
  <2>13. s.bytes = s.count * SlotCost + SumFunction(Loads(s.fragments))
    BY <1>0, <2>1, <2>4, <2>5, <2>9, <2>10, <2>11, <2>12 DEF g
  <2> QED BY <1>3, <2>13 DEF Weighed, s
<1> QED BY <1>5, <1>6

LEMMA ConsumeLedger == ASSUME IInv, Parcels, Ledger, Consume PROVE Ledger'
<1> DEFINE key == Key(job)
           bytes == [bytesByPeer EXCEPT ![job.peer] = Charged]
           stored == Store(Target)
           charged == [bytes EXCEPT ![job.peer] = @ + stored.bytes - Target.bytes]
           old == IF key \in DOMAIN pending THEN pending[key].bytes ELSE 0
<1>1. TypeOK /\ job # NoJob BY DEF IInv, Consume
<1>2. /\ key \in Peers \X (Nat \ {0}) /\ key[1] = job.peer /\ job.peer \in Peers
      /\ Target.bytes \in Nat /\ Charged \in Nat
      /\ key \in DOMAIN pending => Charged = bytesByPeer[job.peer]
      /\ key \notin DOMAIN pending => Charged = bytesByPeer[job.peer] + Target.bytes
  BY <1>1, ConsumeTypes DEF Fragment
<1>3. key \in DOMAIN pending => pending[key] = Target BY DEF Target
<1>4. bytesByPeer \in [Peers -> Nat] /\ old \in Nat BY <1>1 DEF TypeOK
<1>5. Charged = bytesByPeer[job.peer] + Target.bytes - old BY <1>2, <1>3, <1>4
<1>6. stored.bytes \in Nat
  BY <1>1, StoreTypes
<1>7. stored.bytes >= Target.bytes
  <2>1. /\ stored.bytes = Target.bytes + IF Filled(Target) THEN 0 ELSE DataLen(job)
        /\ DataLen(job) \in Nat
    BY <1>1, StoreTypes, ConsumeTypes
  <2> HIDE DEF stored
  <2> QED BY <1>2, <2>1
<1>8. /\ bytes \in [Peers -> Nat] /\ bytes[job.peer] = Charged
      /\ \A p \in Peers : p # job.peer => bytes[p] = bytesByPeer[p]
  BY <1>2, <1>4
<1> HIDE DEF stored, old, key
<1>9. /\ charged \in [Peers -> Nat] /\ charged[job.peer] = Charged + stored.bytes - Target.bytes
      /\ \A p \in Peers : p # job.peer => charged[p] = bytesByPeer[p]
  <2> HIDE DEF bytes
  <2>1. bytes[job.peer] + stored.bytes - Target.bytes \in Nat BY <1>2, <1>6, <1>7, <1>8
  <2> QED BY <1>2, <1>8, <2>1
<1>10. charged[job.peer] = stored.bytes + bytesByPeer[job.peer] - old
  BY <1>2, <1>4, <1>5, <1>6, <1>9
<1>11. bytes[job.peer] = Target.bytes + bytesByPeer[job.peer] - old
  BY <1>2, <1>4, <1>5, <1>8
<1> HIDE DEF bytes, charged
<1>12. CASE UNCHANGED <<pending, bytesByPeer>>
  BY <1>12 DEF Ledger, Weighed, Loads, DataLen, Held
<1>13. CASE /\ pending' = DropPending(pending, key)
            /\ bytesByPeer' = DropBytes(bytes, key, Target.bytes)
  BY <1>1, <1>2, <1>8, <1>11, <1>13, LedgerDrop DEF old
<1>14. CASE /\ pending' = DropPending(pending, key)
            /\ bytesByPeer' = DropBytes(charged, key, stored.bytes)
  BY <1>1, <1>2, <1>6, <1>9, <1>10, <1>14, LedgerDrop DEF old
<1>15. CASE /\ ~WrongCount /\ stored.received # job.count
            /\ pending' = [k \in DOMAIN pending \cup {key} |->
                             IF k = key THEN stored ELSE pending[k]]
            /\ bytesByPeer' = charged
  <2>1. Weighed(stored) /\ stored.received <= job.count /\ stored.count = job.count
    BY <1>1, <1>15, StoredWeighed, StoredFacts DEF Parcels, stored
  <2>2. stored.received < stored.count
    <3>1. stored.received \in Nat /\ stored.count \in Nat BY <1>1, StoreTypes DEF stored
    <3> QED BY <1>15, <2>1, <3>1
  <2>3. /\ DOMAIN pending' = DOMAIN pending \cup {key} /\ pending'[key] = stored
        /\ \A x \in DOMAIN pending : x # key => pending'[x] = pending[x]
    BY <1>15
  <2>4. IsFiniteSet(DOMAIN pending) /\ IsFiniteSet(DOMAIN pending')
    BY <2>3, FS_AddElement DEF Ledger
  <2>5. \A x \in DOMAIN pending : pending[x].bytes \in Nat BY <1>1 DEF TypeOK
  <2>6. \A x \in DOMAIN pending' : pending'[x].bytes \in Nat BY <1>6, <2>3, <2>5
  <2>7. \A x : x # key => /\ x \in DOMAIN pending' <=> x \in DOMAIN pending
                          /\ x \in DOMAIN pending => pending'[x] = pending[x]
    BY <2>3
  <2>8. /\ Rest(pending', key) = Rest(pending, key)
        /\ \A p : p # key[1] => Held(pending', p) = Held(pending, p)
    <3> DEFINE q == pending'
    <3> HIDE DEF q
    <3> QED BY <2>4, <2>7, HeldRest DEF q
  <2>9. Rest(pending, key) \in Nat /\ Held(pending, key[1]) = Rest(pending, key) + old
    BY <2>4, <2>5, HeldSplit DEF old
  <2>10. Held(pending', key[1]) = Rest(pending', key) + stored.bytes
    BY <2>3, <2>4, <2>6, HeldSplit
  <2>11. bytesByPeer[job.peer] = Held(pending, key[1]) BY <1>2 DEF Ledger
  <2>12. charged[job.peer] = Held(pending', key[1])
    BY <1>4, <1>6, <1>10, <2>8, <2>9, <2>10, <2>11
  <2>13. \A p \in Peers : bytesByPeer'[p] = Held(pending', p)
    BY <1>2, <1>9, <1>15, <2>8, <2>12 DEF Ledger
  <2>14. \A x \in DOMAIN pending' : pending'[x].received < pending'[x].count /\ Weighed(pending'[x])
    BY <2>1, <2>2, <2>3 DEF Ledger
  <2> QED BY <2>4, <2>13, <2>14 DEF Ledger, Weighed, Loads, DataLen
<1> QED BY <1>12, <1>13, <1>14, <1>15 DEF Consume, key, bytes, stored, charged

LEMMA StepLedger == ASSUME IInv, Parcels, Ledger, [Next]_vars PROVE Ledger'
<1>1. CASE UNCHANGED <<pending, bytesByPeer>>
  BY <1>1 DEF Ledger, Weighed, Loads, DataLen, Held
<1>2. ASSUME NEW k \in DOMAIN pending, Prune(k) PROVE Ledger'
  <2>1. /\ TypeOK /\ k \in Peers \X (Nat \ {0}) /\ pending[k].bytes \in Nat
        /\ bytesByPeer \in [Peers -> Nat] /\ k[1] \in Peers
    BY DEF IInv, TypeOK
  <2>2. bytesByPeer[k[1]] = pending[k].bytes + bytesByPeer[k[1]] - pending[k].bytes
    BY <2>1
  <2> QED BY <1>2, <2>1, <2>2, LedgerDrop DEF Prune
<1>3. CASE Consume BY <1>3, ConsumeLedger
<1> QED
  BY <1>1, <1>2, <1>3
     DEF Next, vars, SendWUSP, ReplyControlPayload, Restart, Tick, Receive

LEMMA InitLedger == Init => Ledger
<1> SUFFICES ASSUME Init PROVE Ledger
  OBVIOUS
<1>1. DOMAIN pending = {} /\ \A p \in Peers : bytesByPeer[p] = 0
  BY DEF Init, EmptyPending
<1>2. \A p \in Peers : Held(pending, p) = 0
  <2>1. \A p \in Peers : {k \in DOMAIN pending : k[1] = p} = {} BY <1>1
  <2> QED BY <2>1, SumEmpty DEF Held
<1> QED BY <1>1, <1>2, FS_EmptySet DEF Ledger

(* Over every mix of completions, expiries, refusals and count mismatches a  *)
(* peer is charged for exactly what its incomplete messages hold, and no     *)
(* complete message waits in the table (chargeWUSPFragmentsLocked,           *)
(* dropWUSPAssemblyLocked).                                                  *)
THEOREM ChargesExact == Spec => []Accounted
<1>1. Ledger /\ IInv /\ Parcels /\ [Next]_vars => Ledger'
  BY StepLedger
<1>2. Spec => []IInv
  BY BudgetHolds, PTL DEF IInv
<1>3. Ledger /\ Parcels => Accounted
  BY DEF Ledger, Weighed, Parcels, Slots, Slotted, Accounted
<1> QED BY <1>1, <1>2, <1>3, InitLedger, ParcelsInvariance, PTL DEF Spec
=============================================================================

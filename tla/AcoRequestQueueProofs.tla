----------------------- MODULE AcoRequestQueueProofs ------------------------
(***************************************************************************)
(* Proofs about AcoRequestQueue, for any number of packets, destinations,  *)
(* limits and timeouts.                                                    *)
(*                                                                         *)
(* Every operation either moves entries out of the queue (Moved) or accepts*)
(* one after moving some out (Accepts); the invariant is shown for these   *)
(* two, and the operations shown to be one or the other.                   *)
(***************************************************************************)
EXTENDS AcoRequestQueue, FiniteSetTheorems, WellFoundedInduction, TLAPS

All == queue \cup handed \cup dropped

QueueInv ==
    /\ QueueTypeOK
    /\ IsFiniteSet(queue)
    /\ PacketsAccounted
    /\ WaitsOnce
    /\ OrderKept

\* H is handed over and D dropped.
Moved(H, D) ==
    /\ H \subseteq queue /\ D \subseteq queue /\ H \cap D = {}
    /\ queue' = queue \ (H \cup D)
    /\ handed' = handed \cup H
    /\ dropped' = dropped \cup D
    /\ \A h \in H, e \in queue' : h.dst = e.dst => h.serial < e.serial
    /\ UNCHANGED <<now, maxLen, queueTimeout, accepted>>

\* D is dropped and a new entry appended.
Accepts(D, new) ==
    /\ D \subseteq queue
    /\ new \in QueueEntry /\ new.serial = accepted + 1
    /\ \A e \in queue \ D : ~(e.uid = new.uid /\ e.dst = new.dst)
    /\ queue' = (queue \ D) \cup {new}
    /\ dropped' = dropped \cup D
    /\ accepted' = accepted + 1
    /\ UNCHANGED <<now, maxLen, queueTimeout, handed>>

LEMMA Serials ==
    ASSUME QueueInv
    PROVE  \A e \in All : e.serial \in 1..accepted /\ e \in QueueEntry
BY DEF QueueInv, QueueTypeOK, PacketsAccounted, All

LEMMA MovedInv ==
    ASSUME QueueInv, NEW H, NEW D, Moved(H, D)
    PROVE  QueueInv'
<1>1. QueueTypeOK'
  BY DEF QueueInv, QueueTypeOK, Moved
<1>2. IsFiniteSet(queue')
  <2>1. queue' \in SUBSET queue
    BY DEF Moved
  <2> QED BY <2>1, FS_Subset DEF QueueInv
<1>3. PacketsAccounted'
  <2>1. queue' \cup handed' \cup dropped' = queue \cup handed \cup dropped
    BY DEF Moved
  <2>2. /\ queue' \cap handed' = {} /\ queue' \cap dropped' = {}
        /\ handed' \cap dropped' = {}
    BY DEF Moved, QueueInv, PacketsAccounted
  <2>3. accepted' = accepted
    BY DEF Moved
  <2> QED BY <2>1, <2>2, <2>3 DEF QueueInv, PacketsAccounted
<1>4. WaitsOnce'
  BY DEF QueueInv, WaitsOnce, Moved
<1>5. OrderKept'
  BY DEF QueueInv, OrderKept, Moved
<1> QED BY <1>1, <1>2, <1>3, <1>4, <1>5 DEF QueueInv

LEMMA AcceptsInv ==
    ASSUME QueueInv, NEW D, NEW new, Accepts(D, new)
    PROVE  QueueInv'
<1>0. accepted \in Nat /\ \A e \in All : e.serial \in 1..accepted
  BY Serials DEF QueueInv, QueueTypeOK
<1>1. QueueTypeOK'
  BY <1>0 DEF QueueInv, QueueTypeOK, Accepts
<1>2. IsFiniteSet(queue')
  <2>1. IsFiniteSet(queue \ D)
    BY FS_Subset DEF QueueInv
  <2> QED BY <2>1, FS_AddElement DEF Accepts
<1>3. new \notin All
  BY <1>0 DEF Accepts
<1>4. PacketsAccounted'
  <2>1. queue' \cup handed' \cup dropped' = All \cup {new}
    BY DEF Accepts, All
  <2>2. {e.serial : e \in All \cup {new}} = 1..accepted'
    <3>1. {e.serial : e \in All} = 1..accepted
      BY DEF QueueInv, PacketsAccounted, All
    <3>2. {e.serial : e \in All \cup {new}} = {e.serial : e \in All} \cup {accepted + 1}
      BY DEF Accepts
    <3>3. 1..accepted' = (1..accepted) \cup {accepted + 1}
      BY <1>0 DEF Accepts
    <3> QED BY <3>1, <3>2, <3>3
  <2>3. \A e, f \in All \cup {new} : e.serial = f.serial => e = f
    BY <1>0 DEF QueueInv, PacketsAccounted, All, Accepts
  <2>4. /\ queue' \cap handed' = {} /\ queue' \cap dropped' = {}
        /\ handed' \cap dropped' = {}
    BY <1>3 DEF Accepts, QueueInv, PacketsAccounted, All
  <2> QED BY <2>1, <2>2, <2>3, <2>4 DEF PacketsAccounted
<1>5. WaitsOnce'
  BY DEF QueueInv, WaitsOnce, Accepts
<1>6. OrderKept'
  BY <1>0 DEF QueueInv, OrderKept, Accepts, All
<1> QED BY <1>1, <1>2, <1>4, <1>5, <1>6 DEF QueueInv

-----------------------------------------------------------------------------
\* The operations.

LEMMA EnqueueSteps ==
    ASSUME QueueInv, NEW u \in Uids, NEW d \in Dsts, Enqueue(u, d)
    PROVE  \/ Moved({}, queue \ Purged(queue))
           \/ \E new : Accepts((queue \ Purged(queue)) \cup Evicted(Purged(queue)), new)
<1> DEFINE Q == Purged(queue)
           out == Evicted(Q)
           new == [uid |-> u, dst |-> d, expire |-> now + queueTimeout, serial |-> accepted + 1]
<1>1. Q \subseteq queue /\ out \subseteq Q
  BY DEF Purged, Evicted, Earliest
<1>2. CASE Queued(Q, u, d)
  BY <1>1, <1>2 DEF Enqueue, Moved, Drop
<1>3. CASE ~Queued(Q, u, d)
  <2>1. new \in QueueEntry /\ new.serial = accepted + 1 /\ new.uid = u /\ new.dst = d
    BY QueueAssumption DEF QueueInv, QueueTypeOK, QueueEntry
  <2>2. /\ queue' = (Q \ out) \cup {new} /\ dropped' = dropped \cup ((queue \ Q) \cup out)
        /\ accepted' = accepted + 1 /\ UNCHANGED <<now, maxLen, queueTimeout, handed>>
    BY <1>3 DEF Enqueue, Drop
  <2>3. \A e \in Q : ~(e.uid = u /\ e.dst = d)
    BY <1>3 DEF Queued
  <2> HIDE DEF Q, out, new
  <2>4. Accepts((queue \ Q) \cup out, new)
    BY <1>1, <2>1, <2>2, <2>3 DEF Accepts
  <2> QED BY <2>4 DEF Q, out
<1> QED BY <1>2, <1>3

LEMMA DequeueSteps ==
    ASSUME QueueInv, NEW d \in Dsts, Dequeue(d)
    PROVE  Moved(Earliest(ToDst(Purged(queue), d)), queue \ Purged(queue))
<1> DEFINE Q == Purged(queue)
           found == Earliest(ToDst(Q, d))
<1>1. Q \subseteq queue /\ found \subseteq Q
  BY DEF Purged, Earliest, ToDst
<1>2. ASSUME NEW h \in found, NEW e \in Q \ found, h.dst = e.dst PROVE h.serial < e.serial
  <2>1. e \in ToDst(Q, d) /\ h.serial <= e.serial
    BY <1>2 DEF Earliest, ToDst
  <2>2. h.serial \in Nat /\ e.serial \in Nat /\ h.serial # e.serial
    BY <1>1, <1>2 DEF QueueInv, QueueTypeOK, QueueEntry, PacketsAccounted
  <2> QED BY <2>1, <2>2
<1>3. /\ queue' = Q \ found /\ handed' = handed \cup found
      /\ dropped' = dropped \cup (queue \ Q)
      /\ UNCHANGED <<now, maxLen, queueTimeout, accepted>>
  BY DEF Dequeue, Drop
<1> HIDE DEF Q, found
<1>4. Moved(found, queue \ Q)
  BY <1>1, <1>2, <1>3 DEF Moved
<1> QED BY <1>4 DEF Q, found

LEMMA SendPacketFromQueueSteps ==
    ASSUME QueueInv, NEW d \in Dsts, SendPacketFromQueue(d)
    PROVE  Moved(ToDst(Purged(queue), d), queue \ Purged(queue))
BY DEF SendPacketFromQueue, Moved, Drop, ToDst, Purged

LEMMA DropPacketWithDstSteps ==
    ASSUME QueueInv, NEW d \in Dsts, DropPacketWithDst(d)
    PROVE  Moved({}, (queue \ Purged(queue)) \cup ToDst(Purged(queue), d))
BY DEF DropPacketWithDst, Moved, Drop, ToDst, Purged

LEMMA GetSizeSteps ==
    ASSUME QueueInv, GetSize
    PROVE  Moved({}, queue \ Purged(queue))
BY DEF GetSize, Moved, Drop, Purged

\* The steps that leave every entry where it is.
LEMMA SettingsInv ==
    ASSUME QueueInv, UNCHANGED <<queue, accepted, handed, dropped>>,
           now' \in Nat, maxLen' \in MaxLens, queueTimeout' \in Timeouts
    PROVE  QueueInv'
BY DEF QueueInv, QueueTypeOK, PacketsAccounted, WaitsOnce, OrderKept

LEMMA QueueNextInv == QueueInv /\ [QueueNext]_queueVars => QueueInv'
<1> SUFFICES ASSUME QueueInv, [QueueNext]_queueVars PROVE QueueInv'
  OBVIOUS
<1>1. CASE \E u \in Uids, d \in Dsts : Enqueue(u, d)
  BY <1>1, EnqueueSteps, MovedInv, AcceptsInv
<1>2. CASE \E d \in Dsts : Dequeue(d)
  BY <1>2, DequeueSteps, MovedInv
<1>3. CASE \E d \in Dsts : SendPacketFromQueue(d)
  BY <1>3, SendPacketFromQueueSteps, MovedInv
<1>4. CASE \E d \in Dsts : DropPacketWithDst(d)
  BY <1>4, DropPacketWithDstSteps, MovedInv
<1>5. CASE GetSize
  BY <1>5, GetSizeSteps, MovedInv
<1>6. CASE \E len \in MaxLens : SetMaxQueueLen(len)
  BY <1>6, SettingsInv DEF SetMaxQueueLen, QueueInv, QueueTypeOK
<1>7. CASE \E t \in Timeouts : SetQueueTimeout(t)
  BY <1>7, SettingsInv DEF SetQueueTimeout, QueueInv, QueueTypeOK
<1>8. CASE QueueTick
  BY <1>8, SettingsInv DEF QueueTick, QueueInv, QueueTypeOK
<1>9. CASE UNCHANGED queueVars
  BY <1>9, SettingsInv DEF queueVars, QueueInv, QueueTypeOK
<1> QED BY <1>1, <1>2, <1>3, <1>4, <1>5, <1>6, <1>7, <1>8, <1>9 DEF QueueNext

LEMMA QueueInvariance == QueueSpec => []QueueInv
<1>1. QueueInit => QueueInv
  BY FS_EmptySet
  DEF QueueInit, QueueInv, QueueTypeOK, PacketsAccounted, WaitsOnce, OrderKept
<1> QED BY <1>1, QueueNextInv, PTL DEF QueueSpec

\* The queue, its settings and the histories of its packets keep their types.
THEOREM QueueTypeCorrect == QueueSpec => []QueueTypeOK
<1>1. QueueInv => QueueTypeOK
  BY DEF QueueInv
<1> QED BY <1>1, QueueInvariance, PTL

\* Every accepted packet is waiting, handed over or reported as dropped, exactly one of
\* the three, in every reachable state.
THEOREM NoPacketVanishes == QueueSpec => []PacketsAccounted
<1>1. QueueInv => PacketsAccounted
  BY DEF QueueInv
<1> QED BY <1>1, QueueInvariance, PTL

\* Enqueue keeps the queue free of duplicates.
THEOREM NoDuplicateWaits == QueueSpec => []WaitsOnce
<1>1. QueueInv => WaitsOnce
  BY DEF QueueInv
<1> QED BY <1>1, QueueInvariance, PTL

\* Packets for one destination leave in the order in which they came.
THEOREM FirstComeFirstServed == QueueSpec => []OrderKept
<1>1. QueueInv => OrderKept
  BY DEF QueueInv
<1> QED BY <1>1, QueueInvariance, PTL

-----------------------------------------------------------------------------
\* The limit.  Making room needs an earliest entry, so a finite set of numbers to
\* have a least one.

LEMMA LeastNatural ==
    ASSUME NEW T \in SUBSET Nat, T # {}
    PROVE  \E x \in T : \A y \in T : x <= y
<1> DEFINE R == OpToRel(<, Nat)
<1>1. IsWellFoundedOn(R, Nat)
  BY NatLessThanWellFounded
<1>2. ASSUME NEW a \in Nat, NEW b \in Nat, a < b PROVE <<a, b>> \in R
  BY <1>2 DEF OpToRel
<1> HIDE DEF R
<1>3. PICK x \in T : \A y \in T : ~(<<y, x>> \in R)
  BY <1>1, WFMin
<1>4. ASSUME NEW y \in T PROVE x <= y
  <2>1. x \in Nat /\ y \in Nat /\ ~(<<y, x>> \in R)
    BY <1>3, <1>4
  <2>2. ~(y < x)
    BY <2>1, <1>2
  <2> QED BY <2>1, <2>2
<1> QED BY <1>4

LEMMA EarliestExists ==
    ASSUME QueueInv, NEW Q \in SUBSET queue, Q # {}
    PROVE  Earliest(Q) # {}
<1> DEFINE T == {e.serial : e \in Q}
<1>1. T \in SUBSET Nat /\ T # {}
  BY DEF QueueInv, QueueTypeOK, QueueEntry
<1>2. PICK x \in T : \A y \in T : x <= y
  <2> HIDE DEF T
  <2> QED BY <1>1, LeastNatural
<1>3. PICK e \in Q : e.serial = x
  OBVIOUS
<1>4. \A f \in Q : e.serial <= f.serial
  BY <1>2, <1>3
<1> QED BY <1>3, <1>4 DEF Earliest

\* Making room leaves a place free.
LEMMA RoomMade ==
    ASSUME QueueInv, WithinLimit, NEW Q \in SUBSET queue
    PROVE  /\ IsFiniteSet(Q \ Evicted(Q))
           /\ Cardinality(Q \ Evicted(Q)) < maxLen
<1>1. /\ IsFiniteSet(Q) /\ Cardinality(Q) <= Cardinality(queue)
      /\ Cardinality(Q) \in Nat /\ Cardinality(queue) \in Nat
      /\ maxLen \in Nat \ {0}
  BY FS_Subset, FS_CardinalityType, QueueAssumption DEF QueueInv, QueueTypeOK
<1>2. Cardinality(Q) <= maxLen
  BY <1>1 DEF WithinLimit
<1>3. CASE Cardinality(Q) # maxLen
  <2>1. Q \ Evicted(Q) = Q
    BY <1>3 DEF Evicted
  <2> QED BY <1>1, <1>2, <1>3, <2>1
<1>4. CASE Cardinality(Q) = maxLen
  <2>1. Q # {}
    BY <1>1, <1>4, FS_EmptySet
  <2>2. PICK x \in Q : x \in Evicted(Q)
    BY <1>4, <2>1, EarliestExists DEF Evicted, Earliest
  <2>3. IsFiniteSet(Q \ {x}) /\ Cardinality(Q \ {x}) = Cardinality(Q) - 1
    BY <1>1, <2>2, FS_RemoveElement
  <2>4. Q \ Evicted(Q) \in SUBSET (Q \ {x})
    BY <2>2
  <2>5. /\ IsFiniteSet(Q \ Evicted(Q))
        /\ Cardinality(Q \ Evicted(Q)) <= Cardinality(Q \ {x})
    BY <2>3, <2>4, FS_Subset
  <2>6. Cardinality(Q \ Evicted(Q)) \in Nat
    BY <2>5, FS_CardinalityType
  <2> QED BY <1>1, <1>4, <2>3, <2>5, <2>6
<1> QED BY <1>3, <1>4

LEMMA MovedLimit ==
    ASSUME QueueInv, WithinLimit, NEW H, NEW D, Moved(H, D)
    PROVE  WithinLimit'
<1>1. queue' \in SUBSET queue /\ maxLen' = maxLen
  BY DEF Moved
<1>2. IsFiniteSet(queue') /\ Cardinality(queue') <= Cardinality(queue)
  BY <1>1, FS_Subset DEF QueueInv
<1>3. Cardinality(queue') \in Nat /\ Cardinality(queue) \in Nat /\ maxLen \in Nat
  BY <1>2, FS_CardinalityType, QueueAssumption DEF QueueInv, QueueTypeOK
<1> QED BY <1>1, <1>2, <1>3 DEF WithinLimit

LEMMA EnqueueLimit ==
    ASSUME QueueInv, WithinLimit, NEW u \in Uids, NEW d \in Dsts, Enqueue(u, d)
    PROVE  WithinLimit'
<1> DEFINE Q == Purged(queue)
           rest == Q \ Evicted(Q)
<1>1. CASE Moved({}, queue \ Q)
  BY <1>1, MovedLimit
<1>2. CASE \E new : Accepts((queue \ Q) \cup Evicted(Q), new)
  <2>1. PICK new : Accepts((queue \ Q) \cup Evicted(Q), new)
    BY <1>2
  <2>2. Q \in SUBSET queue
    BY DEF Purged
  <2>3. queue' = rest \cup {new} /\ maxLen' = maxLen
    BY <2>1, <2>2 DEF Accepts
  <2>4. IsFiniteSet(rest) /\ Cardinality(rest) < maxLen
    BY <2>2, RoomMade
  <2> HIDE DEF rest
  <2>5. Cardinality(rest) \in Nat /\ maxLen \in Nat
    BY <2>4, FS_CardinalityType, QueueAssumption DEF QueueInv, QueueTypeOK
  <2>6. Cardinality(queue') = IF new \in rest THEN Cardinality(rest) ELSE Cardinality(rest) + 1
    BY <2>3, <2>4, FS_AddElement
  <2> QED BY <2>3, <2>4, <2>5, <2>6 DEF WithinLimit
<1> QED BY <1>1, <1>2, EnqueueSteps

\* The queue stays within its limit for as long as nobody lowers the limit: lowering
\* it is the only way past the test for equality in Enqueue.
THEOREM LimitHoldsUnlessLowered ==
    QueueSpec /\ [][maxLen' >= maxLen]_queueVars => []WithinLimit
<1>1. QueueInit => WithinLimit
  BY FS_EmptySet, QueueAssumption DEF QueueInit, WithinLimit
<1>2. ASSUME QueueInv, WithinLimit, [QueueNext]_queueVars, [maxLen' >= maxLen]_queueVars
      PROVE  WithinLimit'
  <2>1. CASE \E u \in Uids, d \in Dsts : Enqueue(u, d)
    BY <1>2, <2>1, EnqueueLimit
  <2>2. CASE \E d \in Dsts : Dequeue(d) \/ SendPacketFromQueue(d) \/ DropPacketWithDst(d)
    BY <1>2, <2>2, DequeueSteps, SendPacketFromQueueSteps, DropPacketWithDstSteps, MovedLimit
  <2>3. CASE GetSize
    BY <1>2, <2>3, GetSizeSteps, MovedLimit
  <2>4. CASE \E len \in MaxLens : SetMaxQueueLen(len)
    <3>1. queue' = queue /\ maxLen' \in MaxLens
      BY <2>4 DEF SetMaxQueueLen
    <3>2. Cardinality(queue) \in Nat /\ maxLen \in Nat /\ maxLen' \in Nat
      BY <1>2, <3>1, FS_CardinalityType, QueueAssumption DEF QueueInv, QueueTypeOK
    <3>3. maxLen' >= maxLen
      BY <1>2, <3>2 DEF queueVars
    <3> QED BY <1>2, <3>1, <3>2, <3>3 DEF WithinLimit
  <2>5. CASE (\E t \in Timeouts : SetQueueTimeout(t)) \/ QueueTick \/ UNCHANGED queueVars
    <3>1. queue' = queue /\ maxLen' = maxLen
      BY <2>5 DEF SetQueueTimeout, QueueTick, queueVars
    <3> QED BY <1>2, <3>1 DEF WithinLimit
  <2> QED BY <1>2, <2>1, <2>2, <2>3, <2>4, <2>5 DEF QueueNext
<1> QED BY <1>1, <1>2, QueueInvariance, PTL DEF QueueSpec

-----------------------------------------------------------------------------
\* What HandedInTime says of one step.
InTime ==
    /\ \A e \in handed' \ handed : e.expire >= now
    /\ \A e \in dropped' \ dropped :
          e.expire >= now =>
             \/ accepted' = accepted + 1 /\ \A f \in queue' : e.serial < f.serial
             \/ \A f \in queue' : f.dst # e.dst

LEMMA EvictedAreOldest ==
    ASSUME QueueInv, NEW u \in Uids, NEW d \in Dsts, Enqueue(u, d),
           NEW e \in dropped' \ dropped, e.expire >= now
    PROVE  accepted' = accepted + 1 /\ \A f \in queue' : e.serial < f.serial
<1> DEFINE Q == Purged(queue)
           out == Evicted(Q)
<1>1. e \in queue => e \in Q
  BY DEF Purged
<1>2. ~Queued(Q, u, d)
  BY <1>1 DEF Enqueue, Drop
<1>3. e \in out /\ accepted' = accepted + 1
  BY <1>1, <1>2 DEF Enqueue, Drop
<1>4. e \in Q /\ (\A f \in Q : e.serial <= f.serial) /\ Q \subseteq queue
  BY <1>3 DEF Evicted, Earliest, Purged
<1>5. PICK new : queue' = (Q \ out) \cup {new} /\ new.serial = accepted + 1
  <2> DEFINE new == [uid |-> u, dst |-> d, expire |-> now + queueTimeout,
                     serial |-> accepted + 1]
  <2>1. queue' = (Q \ out) \cup {new}
    BY <1>2 DEF Enqueue
  <2>2. new.serial = accepted + 1
    OBVIOUS
  <2> QED BY <2>1, <2>2
<1>6. accepted \in Nat /\ \A f \in queue : f.serial \in 1..accepted
  BY Serials DEF All, QueueInv, QueueTypeOK
<1>7. ASSUME NEW f \in Q \ out PROVE e.serial < f.serial
  <2>1. e.serial # f.serial
    BY <1>3, <1>4, <1>7 DEF QueueInv, PacketsAccounted
  <2> QED BY <1>4, <1>6, <2>1
<1> QED BY <1>3, <1>4, <1>5, <1>6, <1>7

\* Nothing outdated is handed over, and nothing still good is dropped except the oldest
\* packet, to make room, and the packets of a destination dropped as a whole.
THEOREM TimeoutsRespected == QueueSpec => HandedInTime
<1>1. ASSUME QueueInv, QueueNext PROVE InTime
  <2>1. CASE \E u \in Uids, d \in Dsts : Enqueue(u, d)
    <3>1. handed' = handed
      BY <2>1 DEF Enqueue
    <3> QED BY <1>1, <2>1, <3>1, EvictedAreOldest DEF InTime
  <2>2. CASE \E d \in Dsts : Dequeue(d) \/ SendPacketFromQueue(d)
    BY <1>1, <2>2
    DEF Dequeue, SendPacketFromQueue, Drop, Purged, Earliest, ToDst, InTime
  <2>3. CASE \E d \in Dsts : DropPacketWithDst(d)
    BY <1>1, <2>3 DEF DropPacketWithDst, Drop, Purged, ToDst, InTime
  <2>4. CASE GetSize
    BY <1>1, <2>4 DEF GetSize, Drop, Purged, InTime
  <2>5. CASE \/ \E len \in MaxLens : SetMaxQueueLen(len)
             \/ \E t \in Timeouts : SetQueueTimeout(t)
             \/ QueueTick
    BY <2>5 DEF SetMaxQueueLen, SetQueueTimeout, QueueTick, InTime
  <2> QED BY <1>1, <2>1, <2>2, <2>3, <2>4, <2>5 DEF QueueNext
<1>2. QueueInv /\ [QueueNext]_queueVars => [InTime]_queueVars
  BY <1>1
<1>3. HandedInTime <=> [][InTime]_queueVars
  BY DEF HandedInTime, InTime
<1> QED BY <1>2, <1>3, QueueInvariance, PTL DEF QueueSpec
=============================================================================

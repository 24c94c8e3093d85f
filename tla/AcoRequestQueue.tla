-------------------------- MODULE AcoRequestQueue ---------------------------
(***************************************************************************)
(* The request queue (src/aco/model/aco-rqueue.{h,cc}): packets that wait  *)
(* for a route, and what RoutingProtocol::SendPacketFromQueue does with it *)
(* once there is one.                                                      *)
(*                                                                         *)
(* The vector only ever grows at its end and is erased from without being  *)
(* reordered, so it is modelled as the set of its entries, each with the   *)
(* serial number of its acceptance: the order of the vector is that of the *)
(* serial numbers.  A packet leaves the queue in one of two ways: it is    *)
(* handed to the caller, or dropped with a call of its error callback.     *)
(***************************************************************************)
EXTENDS Integers, FiniteSets

CONSTANTS
    Uids,         \* packet identifiers (Packet::GetUid)
    Dsts,         \* destination addresses
    MaxLens,      \* the values m_maxLen may be given
    Timeouts,     \* the values m_queueTimeout may be given
    MaxAccepted,  \* bound: packets accepted in a behaviour
    MaxTime       \* bound: the last instant

ASSUME QueueAssumption ==
    /\ MaxLens \subseteq Nat \ {0} /\ MaxLens # {}
    /\ Timeouts \subseteq Nat /\ Timeouts # {}
    /\ MaxAccepted \in Nat /\ MaxTime \in Nat

VARIABLES
    now,           \* Simulator::Now()
    queue,         \* m_queue
    maxLen,        \* m_maxLen
    queueTimeout,  \* m_queueTimeout
    accepted,      \* history: how many packets the queue has accepted
    handed,        \* history: the entries handed to a caller
    dropped        \* history: the entries whose error callback was called

queueVars == <<now, queue, maxLen, queueTimeout, accepted, handed, dropped>>

QueueEntry == [uid : Uids, dst : Dsts, expire : Nat, serial : Nat]

QueueTypeOK ==
    /\ now \in Nat
    /\ queue \subseteq QueueEntry
    /\ maxLen \in MaxLens
    /\ queueTimeout \in Timeouts
    /\ accepted \in Nat
    /\ handed \subseteq QueueEntry
    /\ dropped \subseteq QueueEntry

QueueInit ==
    /\ now = 0 /\ queue = {}
    /\ maxLen \in MaxLens /\ queueTimeout \in Timeouts
    /\ accepted = 0 /\ handed = {} /\ dropped = {}

-----------------------------------------------------------------------------
\* Purge: an entry expires strictly after its time.  (Mutant: at its time.)
PurgedAtExpiry(Q) == {e \in Q : e.expire > now}

Purged(Q) == {e \in Q : e.expire >= now}

ToDst(Q, d) == {e \in Q : e.dst = d}

\* The front of the vector, or what the search from its front finds.
\* (Mutant: the search starts from the back.)
Latest(Q) == {e \in Q : \A f \in Q : f.serial <= e.serial}

Earliest(Q) == {e \in Q : \A f \in Q : e.serial <= f.serial}

\* What leaves a full queue to make room.  (Mutants: the test for a full queue comes
\* one entry late; the entry is erased but not reported.)
EvictedLate(Q) == IF Cardinality(Q) > maxLen THEN Earliest(Q) ELSE {}

Evicted(Q) == IF Cardinality(Q) = maxLen THEN Earliest(Q) ELSE {}

\* The queue shrinks to Q: what the two loops of Purge, Enqueue and DropPacketWithDst
\* do, an error callback for each entry that goes and then the erasure.
UnreportedDrop(lost) == UNCHANGED dropped

Drop(lost) == dropped' = dropped \cup lost

\* The search for the same packet to the same destination.
\* (Mutant: the packet alone is compared with the front.)
QueuedAtFront(Q, u, d) == \E e \in Earliest(Q) : e.uid = u /\ e.dst = d

Queued(Q, u, d) == \E e \in Q : e.uid = u /\ e.dst = d

Enqueue(u, d) ==
    LET Q == Purged(queue)
        out == Evicted(Q)
        new == [uid |-> u, dst |-> d, expire |-> now + queueTimeout, serial |-> accepted + 1]
    IN  /\ accepted < MaxAccepted
        /\ \/ /\ Queued(Q, u, d)
              /\ queue' = Q
              /\ Drop(queue \ Q)
              /\ UNCHANGED accepted
           \/ /\ ~Queued(Q, u, d)
              /\ queue' = (Q \ out) \cup {new}
              /\ Drop((queue \ Q) \cup out)
              /\ accepted' = accepted + 1
        /\ UNCHANGED <<now, maxLen, queueTimeout, handed>>

Dequeue(d) ==
    LET Q == Purged(queue)
        found == Earliest(ToDst(Q, d))
    IN  /\ queue' = Q \ found
        /\ handed' = handed \cup found
        /\ Drop(queue \ Q)
        /\ UNCHANGED <<now, maxLen, queueTimeout, accepted>>

\* The loop of SendPacketFromQueue, Dequeue until there is nothing left for d.
SendPacketFromQueue(d) ==
    LET Q == Purged(queue)
    IN  /\ queue' = Q \ ToDst(Q, d)
        /\ handed' = handed \cup ToDst(Q, d)
        /\ Drop(queue \ Q)
        /\ UNCHANGED <<now, maxLen, queueTimeout, accepted>>

DropPacketWithDst(d) ==
    LET Q == Purged(queue)
    IN  /\ queue' = Q \ ToDst(Q, d)
        /\ Drop((queue \ Q) \cup ToDst(Q, d))
        /\ UNCHANGED <<now, maxLen, queueTimeout, accepted, handed>>

GetSize ==
    /\ queue' = Purged(queue)
    /\ Drop(queue \ Purged(queue))
    /\ UNCHANGED <<now, maxLen, queueTimeout, accepted, handed>>

\* The only operation that does not purge first.
Find(d) == ToDst(queue, d) # {}

\* (Mutant: the limit is taken as exclusive.)
SetExclusiveLimit(len) ==
    /\ maxLen' = len - 1
    /\ UNCHANGED <<now, queue, queueTimeout, accepted, handed, dropped>>

SetMaxQueueLen(len) ==
    /\ maxLen' = len
    /\ UNCHANGED <<now, queue, queueTimeout, accepted, handed, dropped>>

SetQueueTimeout(t) ==
    /\ queueTimeout' = t
    /\ UNCHANGED <<now, queue, maxLen, accepted, handed, dropped>>

QueueTick ==
    /\ now < MaxTime
    /\ now' = now + 1
    /\ UNCHANGED <<queue, maxLen, queueTimeout, accepted, handed, dropped>>

QueueNext ==
    \/ \E u \in Uids, d \in Dsts : Enqueue(u, d)
    \/ \E d \in Dsts : Dequeue(d) \/ SendPacketFromQueue(d) \/ DropPacketWithDst(d)
    \/ GetSize
    \/ \E len \in MaxLens : SetMaxQueueLen(len)
    \/ \E t \in Timeouts : SetQueueTimeout(t)
    \/ QueueTick

QueueSpec == QueueInit /\ [][QueueNext]_queueVars

-----------------------------------------------------------------------------
\* Every packet the queue has accepted is waiting, was handed over or was reported as
\* dropped, exactly one of the three and only once (Purge and DropPacketWithDst report
\* and erase in two separate loops, Enqueue evicts in between).
PacketsAccounted ==
    LET all == queue \cup handed \cup dropped
    IN  /\ {e.serial : e \in all} = 1..accepted
        /\ \A e, f \in all : e.serial = f.serial => e = f
        /\ queue \cap handed = {} /\ queue \cap dropped = {} /\ handed \cap dropped = {}

\* No packet waits twice for the same destination, however often it is enqueued.
WaitsOnce ==
    \A e, f \in queue : e.uid = f.uid /\ e.dst = f.dst => e = f

\* For each destination packets are handed over in the order of their acceptance,
\* whatever is evicted, purged or given another timeout meanwhile (Dequeue).
OrderKept ==
    \A h \in handed, e \in queue : h.dst = e.dst => h.serial < e.serial

\* "The maximum number of packets that we allow a routing protocol to buffer"
\* (aco-rqueue.h): true as long as the limit stays what it is.
WithinLimit == Cardinality(queue) <= maxLen

\* A packet handed over has not outlived its timeout, and a packet that is still good
\* is only lost to make room or with all packets for its destination (Purge).
HandedInTime ==
    [][/\ \A e \in handed' \ handed : e.expire >= now
       /\ \A e \in dropped' \ dropped :
             e.expire >= now =>
                \/ accepted' = accepted + 1 /\ \A f \in queue' : e.serial < f.serial
                \/ \A f \in queue' : f.dst # e.dst]_queueVars
=============================================================================

--------------------------- MODULE SimulatorProofs ---------------------------
(***************************************************************************)
(* Proofs about DefaultSimulatorImpl, for any delays, any number of events *)
(* below 2^32 and any interleaving of the threads.                         *)
(*                                                                         *)
(* Three invariants rest on each other: uids do not wrap (Bounded), every  *)
(* EventId stands for one event that is where IsExpired takes it to be     *)
(* (Known), and the scheduler's count is that of its map (Counted).        *)
(*                                                                         *)
(* The last part proves that the queue implements EventCalendar.  Agenda   *)
(* lists what is pending in the order of the keys; a set has one such list *)
(* only, so erasing the p-th event takes the p-th appointment out of it    *)
(* and inserting one leaves the rest as it was.                            *)
(***************************************************************************)
EXTENDS SimulatorCalendar, FiniteSetTheorems, SequenceTheorems, TLAPS

\* Every event made takes at most one uid, now or once it is drained.
Room ==
    /\ IsFiniteSet(m_eventsWithContext) /\ IsFiniteSet(batch)
    /\ VALID <= m_uid
    /\ m_uid + Cardinality(m_eventsWithContext) + Cardinality(batch) <= VALID + created

\* The local list is empty but while it is drained, everything after DoDispose.
Modes ==
    /\ pc # "drain" => batch = {}
    /\ pc = "disposed" => m_events = {} /\ m_destroyEvents = {} /\ m_eventsWithContext = {}

\* Every EventId and all that waits are of events that were made; the uids of the
\* map were given out.
Queued ==
    /\ \A id \in issued \cup m_events \cup m_destroyEvents : id.impl \in 1..created
    /\ \A x \in m_eventsWithContext \cup batch : x.impl \in 1..created
    /\ \A e \in m_events : VALID <= e.uid /\ e.uid < m_uid
    /\ m_currentUid < m_uid

Bounded == StateTypeOK /\ Room /\ Modes /\ Queued

\* Only the main thread moves, between two calls.
Quiet ==
    /\ UNCHANGED <<queue, clock, mailbox, batch, m_destroyEvents, cancelled, created, history>>
    /\ pc # "drain" /\ pc # "disposed"
    /\ pc' \in {"user", "look", "swap", "loop", "handler", "destroying", "destroy"}
    /\ m_stop' \in BOOLEAN

QuietStep == Stop \/ Run \/ Look \/ LeaveRun \/ Return \/ Destroy

LEMMA QuietSteps ==
    ASSUME StateTypeOK, QuietStep
    PROVE  Quiet
BY DEF StateTypeOK, QuietStep, Stop, Run, Look, LeaveRun, Return, Destroy, UserCode, Quiet,
       queue, clock, mailbox, history

LEMMA Cardinals ==
    ASSUME Room
    PROVE  /\ Cardinality(m_eventsWithContext) \in Nat /\ Cardinality(batch) \in Nat
           /\ batch # {} => Cardinality(batch) # 0
BY FS_CardinalityType, FS_EmptySet DEF Room

LEMMA Numbers ==
    ASSUME StateTypeOK
    PROVE  /\ m_uid \in Nat /\ m_uid < UidMod /\ m_currentUid \in Nat /\ m_currentUid < UidMod
           /\ created \in Nat /\ created <= MaxEvents /\ m_currentTs \in Nat
           /\ MaxEvents \in Nat /\ UidMod \in Nat /\ MaxEvents + 4 < UidMod
           /\ created < MaxEvents => created + 1 \in 0..MaxEvents
BY SimulatorAssumption DEF StateTypeOK, VALID

\* While there is an event that has not had its uid yet, m_uid does not wrap.
LEMMA UidAdvances ==
    ASSUME Bounded, created < MaxEvents \/ batch # {}
    PROVE  NextUid = m_uid + 1 /\ NextUid \in 0..(UidMod - 1)
<1>1. m_uid + 1 < UidMod
  <2>1. m_uid + Cardinality(m_eventsWithContext) + Cardinality(batch) <= 4 + created
    BY DEF Bounded, Room, VALID
  <2> QED
    BY <2>1, Cardinals, Numbers DEF Bounded
<1>2. m_uid \in Nat /\ UidMod \in Nat
  BY Numbers DEF Bounded
<1> QED
  BY <1>1, <1>2 DEF NextUid

LEMMA EventTypes ==
    /\ \A i, t, u \in Nat : [impl |-> i, ts |-> t, uid |-> u] \in Event
    /\ \A i, d \in Nat : [impl |-> i, delay |-> d] \in HandedOver
    /\ \A e \in Event : e.impl \in Nat /\ e.ts \in Nat /\ e.uid \in Nat
    /\ \A x \in HandedOver : x.impl \in Nat /\ x.delay \in Nat
BY DEF Event, HandedOver

LEMMA BoundedInit == SimulatorInit => Bounded
<1> HAVE SimulatorInit
<1>1. StateTypeOK
  <2>1. 0 \in 0..(UidMod - 1) /\ 4 \in 0..(UidMod - 1) /\ 0 \in 0..MaxEvents
    BY SimulatorAssumption DEF VALID
  <2> QED
    BY <2>1, FS_EmptySet DEF SimulatorInit, StateTypeOK, VALID
<1>2. Room
  BY FS_EmptySet DEF SimulatorInit, Room, VALID
<1>3. Modes /\ Queued
  BY DEF SimulatorInit, Modes, Queued, VALID
<1> QED
  BY <1>1, <1>2, <1>3 DEF Bounded

LEMMA TypesMore ==
    ASSUME created \in Nat
    PROVE  \A S : S \subseteq 1..created => S \subseteq 1..(created + 1)
OBVIOUS

\* What an insertion does to the types.
LEMMA InsertTypes ==
    ASSUME Bounded, created < MaxEvents \/ batch # {}, NEW i \in Nat, NEW d \in Nat, Insert(i, d)
    PROVE  /\ m_events' \subseteq Event /\ IsFiniteSet(m_events')
           /\ m_uid' = m_uid + 1 /\ m_uid' \in 0..(UidMod - 1)
<1>1. [impl |-> i, ts |-> m_currentTs + d, uid |-> m_uid] \in Event
  BY EventTypes, Numbers DEF Bounded
<1>2. m_events \subseteq Event /\ IsFiniteSet(m_events)
  BY DEF Bounded, StateTypeOK
<1> QED
  BY <1>1, <1>2, UidAdvances, FS_AddElement DEF Insert

LEMMA TypeStep ==
    ASSUME Bounded, [SimulatorNext]_simulatorVars
    PROVE  StateTypeOK'
<1>a. StateTypeOK
  BY DEF Bounded
<1> USE DEF queue, clock, mailbox, history
<1>0. UNCHANGED simulatorVars => StateTypeOK'
  BY <1>a DEF simulatorVars, StateTypeOK
<1>b. \A d \in Delays : d \in Nat
  BY SimulatorAssumption
<1>1. ASSUME NEW d \in Delays, Schedule(d) PROVE StateTypeOK'
  <2>1. [impl |-> created + 1, ts |-> m_currentTs + d, uid |-> m_uid] \in Event
    BY <1>a, <1>b, EventTypes, Numbers
  <2>2. created < MaxEvents /\ Insert(created + 1, d) /\ created' = created + 1
    BY <1>1 DEF Schedule, Make
  <2>3. /\ m_events' \subseteq Event /\ IsFiniteSet(m_events') /\ m_uid' \in 0..(UidMod - 1)
    BY <2>2, <1>a, <1>b, Numbers, InsertTypes
  <2> QED
    BY <1>1, <1>a, <2>1, <2>2, <2>3, Numbers, TypesMore DEF Schedule, StateTypeOK
<1>2. ASSUME NEW d \in Delays, ScheduleWithContext(d) PROVE StateTypeOK'
  <2>2. created < MaxEvents /\ Insert(created + 1, d) /\ created' = created + 1
    BY <1>2 DEF ScheduleWithContext, Make
  <2>3. /\ m_events' \subseteq Event /\ IsFiniteSet(m_events') /\ m_uid' \in 0..(UidMod - 1)
    BY <2>2, <1>a, <1>b, Numbers, InsertTypes
  <2> QED
    BY <1>2, <1>a, <2>2, <2>3, Numbers, TypesMore DEF ScheduleWithContext, StateTypeOK
<1>3. ASSUME NEW d \in Delays, HandOver(d) PROVE StateTypeOK'
  <2>1. [impl |-> created + 1, delay |-> d] \in HandedOver
    BY <1>a, <1>b, EventTypes, Numbers
  <2> QED
    BY <1>3, <1>a, <2>1, Numbers, TypesMore DEF HandOver, Make, StateTypeOK
<1>4. ASSUME ScheduleDestroy PROVE StateTypeOK'
  <2>1. [impl |-> created + 1, ts |-> m_currentTs, uid |-> DESTROY] \in Event
    BY <1>a, EventTypes, Numbers DEF DESTROY
  <2>2. created < MaxEvents /\ created' = created + 1 /\ m_uid' = NextUid
    BY <1>4 DEF ScheduleDestroy, Make
  <2>3. m_uid' \in 0..(UidMod - 1)
    BY <2>2, UidAdvances
  <2> QED
    BY <1>4, <1>a, <2>1, <2>2, <2>3, Numbers, TypesMore
       DEF ScheduleDestroy, UserCode, StateTypeOK
<1>5. ASSUME NEW id \in issued, Cancel(id) \/ RemoveDestroyEvent(id) \/ RemoveEvent(id)
      PROVE  StateTypeOK'
  <2>1. id.impl \in 1..created
    BY DEF Bounded, Queued
  <2> QED
    BY <1>5, <1>a, <2>1, FS_Subset
       DEF Cancel, RemoveDestroyEvent, RemoveEvent, Withdraw, StateTypeOK
<1>6. ASSUME QuietStep PROVE StateTypeOK'
  BY <1>6, <1>a, QuietSteps DEF Quiet, StateTypeOK
<1>7. ASSUME Swap PROVE StateTypeOK'
  BY <1>7, <1>a DEF Swap, StateTypeOK
<1>8. ASSUME Drain PROVE StateTypeOK'
  <2>1. CASE \E x \in batch : Insert(x.impl, x.delay) /\ batch' = batch \ {x} /\ pc' = pc
    <3> PICK x \in batch : Insert(x.impl, x.delay) /\ batch' = batch \ {x} /\ pc' = pc
      BY <2>1
    <3>1. x.impl \in Nat /\ x.delay \in Nat
      BY <1>a, EventTypes DEF StateTypeOK
    <3>2. /\ m_events' \subseteq Event /\ IsFiniteSet(m_events') /\ m_uid' \in 0..(UidMod - 1)
      BY <3>1, InsertTypes
    <3> QED
      BY <1>8, <1>a, <3>2 DEF Drain, StateTypeOK
  <2>2. CASE batch = {} /\ pc' = "loop" /\ UNCHANGED <<queue, batch>>
    BY <1>8, <1>a, <2>2 DEF Drain, StateTypeOK
  <2> QED
    BY <1>8, <2>1, <2>2 DEF Drain
<1>9. ASSUME ProcessOneEvent PROVE StateTypeOK'
  <2> PICK e \in m_events :
        /\ m_events' = m_events \ {e}
        /\ m_currentTs' = e.ts /\ m_currentUid' = e.uid
        /\ pc' \in {"look", "handler"}
        /\ ran' \subseteq ran \cup {e.impl}
    BY <1>9 DEF ProcessOneEvent
  <2>1. e.ts \in Nat /\ e.uid \in 0..(UidMod - 1) /\ e.impl \in 1..created
    <3>1. e \in Event /\ e.uid < m_uid /\ e.impl \in 1..created
      BY <1>a DEF StateTypeOK, Bounded, Queued
    <3> QED
      BY <3>1, <1>a, EventTypes, Numbers
  <2> QED
    BY <1>9, <1>a, <2>1, FS_RemoveElement DEF ProcessOneEvent, StateTypeOK
<1>10. ASSUME InvokeDestroyEvent PROVE StateTypeOK'
  <2> PICK e \in m_destroyEvents :
        /\ m_destroyEvents' = m_destroyEvents \ {e}
        /\ pc' \in {"destroying", "destroy"}
        /\ ran' \subseteq ran \cup {e.impl}
    BY <1>10 DEF InvokeDestroyEvent
  <2>1. e.impl \in 1..created
    BY DEF Bounded, Queued
  <2> QED
    BY <1>10, <1>a, <2>1 DEF InvokeDestroyEvent, StateTypeOK
<1>11. ASSUME DoDispose PROVE StateTypeOK'
  BY <1>11, <1>a, FS_EmptySet DEF DoDispose, StateTypeOK
<1> QED
  BY <1>0, <1>1, <1>2, <1>3, <1>4, <1>5, <1>6, <1>7, <1>8, <1>9, <1>10, <1>11
     DEF SimulatorNext, MainThread, OtherThreads, QuietStep

LEMMA RoomStep ==
    ASSUME Bounded, [SimulatorNext]_simulatorVars
    PROVE  Room'
<1>a. StateTypeOK /\ Room
  BY DEF Bounded
<1>b. /\ m_uid \in Nat /\ created \in Nat
      /\ Cardinality(m_eventsWithContext) \in Nat /\ Cardinality(batch) \in Nat
  BY <1>a, Numbers, Cardinals
<1> USE DEF queue, clock, mailbox, history
<1>1. ASSUME m_uid' = m_uid + 1, created' = created + 1,
             UNCHANGED <<m_eventsWithContext, batch>>
      PROVE  Room'
  BY <1>a, <1>b, <1>1 DEF Room, VALID
<1>2. ASSUME NEW d \in Delays, Schedule(d) \/ ScheduleWithContext(d) PROVE Room'
  BY <1>1, <1>2, UidAdvances DEF Schedule, ScheduleWithContext, Make, Insert
<1>3. ASSUME ScheduleDestroy PROVE Room'
  BY <1>1, <1>3, UidAdvances DEF ScheduleDestroy, Make
<1>4. ASSUME NEW d \in Delays, HandOver(d) PROVE Room'
  <2> DEFINE x == [impl |-> created + 1, delay |-> d]
  <2>1. /\ m_eventsWithContext' = m_eventsWithContext \cup {x}
        /\ created' = created + 1 /\ m_uid' = m_uid /\ batch' = batch
    BY <1>4 DEF HandOver, Make
  <2> HIDE DEF x
  <2>2. /\ IsFiniteSet(m_eventsWithContext')
        /\ Cardinality(m_eventsWithContext')
             \in {Cardinality(m_eventsWithContext), Cardinality(m_eventsWithContext) + 1}
    BY <1>a, <2>1, FS_AddElement DEF Room
  <2> QED
    BY <1>a, <1>b, <2>1, <2>2 DEF Room, VALID
<1>5. ASSUME Swap PROVE Room'
  BY <1>5, <1>a, <1>b, FS_EmptySet DEF Swap, Room, Bounded, Modes, VALID
<1>6. ASSUME Drain PROVE Room'
  <2>1. ASSUME NEW x \in batch, Insert(x.impl, x.delay), batch' = batch \ {x} PROVE Room'
    <3>1. m_uid' = m_uid + 1
      BY <2>1, UidAdvances DEF Insert
    <3>2. IsFiniteSet(batch') /\ Cardinality(batch') = Cardinality(batch) - 1
      BY <1>a, <2>1, FS_RemoveElement DEF Room
    <3> QED
      BY <1>6, <1>a, <1>b, <3>1, <3>2 DEF Drain, Room, VALID
  <2> QED
    BY <1>6, <1>a, <2>1 DEF Drain, Room
<1>7. ASSUME DoDispose PROVE Room'
  BY <1>7, <1>a, <1>b, FS_EmptySet DEF DoDispose, Room, VALID
<1>8. ASSUME UNCHANGED <<m_uid, created, m_eventsWithContext, batch>> PROVE Room'
  BY <1>8, <1>a DEF Room
<1>9. \/ UNCHANGED simulatorVars \/ QuietStep \/ ProcessOneEvent \/ InvokeDestroyEvent
      \/ \E id \in issued : Cancel(id) \/ RemoveDestroyEvent(id) \/ RemoveEvent(id)
      => Room'
  BY <1>a, <1>8, QuietSteps
     DEF simulatorVars, Quiet, ProcessOneEvent, InvokeDestroyEvent, Cancel,
         RemoveDestroyEvent, RemoveEvent
<1> QED
  BY <1>2, <1>3, <1>4, <1>5, <1>6, <1>7, <1>9
     DEF SimulatorNext, MainThread, OtherThreads, QuietStep

LEMMA ModesStep ==
    ASSUME Bounded, [SimulatorNext]_simulatorVars
    PROVE  Modes'
<1>a. Modes
  BY DEF Bounded
<1> USE DEF queue, clock, mailbox, history, UserCode, Modes
<1>1. ASSUME NEW d \in Delays, Schedule(d) \/ ScheduleWithContext(d) \/ HandOver(d)
      PROVE  Modes'
  BY <1>1, <1>a DEF Schedule, ScheduleWithContext, HandOver
<1>2. ASSUME NEW id \in issued, Cancel(id) \/ RemoveDestroyEvent(id) \/ RemoveEvent(id)
      PROVE  Modes'
  BY <1>2, <1>a DEF Cancel, RemoveDestroyEvent, RemoveEvent
<1>3. QuietStep => Modes'
  BY <1>a, QuietSteps DEF Bounded, Quiet
<1>4. UNCHANGED simulatorVars \/ ScheduleDestroy \/ Swap \/ ProcessOneEvent
      \/ InvokeDestroyEvent \/ DoDispose => Modes'
  BY <1>a DEF simulatorVars, ScheduleDestroy, Swap, ProcessOneEvent, InvokeDestroyEvent,
              DoDispose
<1>5. Drain => Modes'
  BY <1>a DEF Drain
<1> QED
  BY <1>1, <1>2, <1>3, <1>4, <1>5 DEF SimulatorNext, MainThread, OtherThreads, QuietStep

-----------------------------------------------------------------------------
\* A step that puts nothing anywhere.
Shrinks ==
    /\ m_events' \subseteq m_events /\ m_destroyEvents' \subseteq m_destroyEvents
    /\ m_eventsWithContext' \subseteq m_eventsWithContext /\ batch' = batch
    /\ issued' = issued /\ created' = created /\ m_uid' = m_uid

ShrinkingStep ==
    \/ UNCHANGED simulatorVars \/ QuietStep
    \/ \E id \in issued : Cancel(id) \/ RemoveDestroyEvent(id) \/ RemoveEvent(id)
    \/ ProcessOneEvent \/ InvokeDestroyEvent \/ DoDispose

LEMMA ShrinkingSteps ==
    ASSUME StateTypeOK, ShrinkingStep
    PROVE  Shrinks
BY QuietSteps
   DEF ShrinkingStep, Shrinks, simulatorVars, Quiet, Cancel, RemoveDestroyEvent, RemoveEvent,
       ProcessOneEvent, InvokeDestroyEvent, DoDispose, queue, clock, mailbox, history

\* The event that Insert makes, of whatever number.
Inserted(i, d) == [impl |-> i, ts |-> m_currentTs + d, uid |-> m_uid]

\* The three ways in which something is put somewhere.
NewEvent(d) ==
    /\ created < MaxEvents /\ created' = created + 1
    /\ m_events' = m_events \cup {Inserted(created + 1, d)}
    /\ m_uid' = m_uid + 1
    /\ \/ issued' = issued
       \/ issued' = issued \cup {Inserted(created + 1, d)}
    /\ UNCHANGED <<pc, clock, mailbox, batch, m_destroyEvents, cancelled, ran, withdrawn>>

DestroyId == [impl |-> created + 1, ts |-> m_currentTs, uid |-> DESTROY]

NewDestroyEvent ==
    /\ created < MaxEvents /\ created' = created + 1
    /\ m_destroyEvents' = m_destroyEvents \cup {DestroyId}
    /\ issued' = issued \cup {DestroyId}
    /\ m_uid' = m_uid + 1
    /\ UNCHANGED <<pc, m_events, clock, mailbox, batch, cancelled, ran, withdrawn>>

DrainOne(x) ==
    /\ x \in batch /\ batch' = batch \ {x}
    /\ m_events' = m_events \cup {Inserted(x.impl, x.delay)}
    /\ m_uid' = m_uid + 1
    /\ UNCHANGED <<pc, clock, mailbox, m_destroyEvents, cancelled, created, history>>

LEMMA StepKinds ==
    ASSUME Bounded, [SimulatorNext]_simulatorVars
    PROVE  \/ ShrinkingStep
           \/ \E d \in Delays : NewEvent(d) \/ HandOver(d)
           \/ NewDestroyEvent
           \/ Swap
           \/ \E x \in batch : DrainOne(x)
           \/ Drain /\ pc' = "loop" /\ UNCHANGED <<queue, batch>>
<1>1. ASSUME NEW d \in Delays, Schedule(d) \/ ScheduleWithContext(d) PROVE NewEvent(d)
  BY <1>1, UidAdvances
     DEF Schedule, ScheduleWithContext, Make, Insert, NewEvent, Inserted, history
<1>2. ASSUME ScheduleDestroy PROVE NewDestroyEvent
  BY <1>2, UidAdvances DEF ScheduleDestroy, Make, NewDestroyEvent, DestroyId
<1>3. ASSUME NEW x \in batch, Drain, Insert(x.impl, x.delay), batch' = batch \ {x}, pc' = pc
      PROVE  DrainOne(x)
  BY <1>3, UidAdvances DEF Drain, Insert, DrainOne, Inserted
<1>4. Drain => \/ \E x \in batch : DrainOne(x)
               \/ Drain /\ pc' = "loop" /\ UNCHANGED <<queue, batch>>
  BY <1>3 DEF Drain
<1> QED
  BY <1>1, <1>2, <1>4
     DEF SimulatorNext, MainThread, OtherThreads, ShrinkingStep, QuietStep

LEMMA FieldsOf ==
    ASSUME Bounded, NEW i \in Nat, NEW d \in Nat
    PROVE  /\ Inserted(i, d) \in Event
           /\ Inserted(i, d).impl = i /\ Inserted(i, d).uid = m_uid
           /\ Inserted(i, d).ts = m_currentTs + d
BY EventTypes, Numbers DEF Inserted, Bounded

LEMMA QueuedStep ==
    ASSUME Bounded, [SimulatorNext]_simulatorVars
    PROVE  Queued'
<1>a. StateTypeOK /\ Queued /\ m_uid \in Nat /\ m_currentUid \in Nat /\ created \in Nat
  BY Numbers DEF Bounded
<1>b. \A d \in Delays : d \in Nat
  BY SimulatorAssumption
<1>c. VALID <= m_uid
  BY DEF Bounded, Room
<1>d. \A e \in m_events : e.uid \in Nat
  BY <1>a, EventTypes DEF StateTypeOK
<1>1. ASSUME ShrinkingStep, m_currentUid' < m_uid PROVE Queued'
  BY <1>a, <1>1, ShrinkingSteps DEF Shrinks, Queued
<1>2. ASSUME ShrinkingStep PROVE m_currentUid' < m_uid
  BY <1>a, <1>2, QuietSteps
     DEF ShrinkingStep, simulatorVars, Quiet, Cancel, RemoveDestroyEvent, RemoveEvent,
         ProcessOneEvent, InvokeDestroyEvent, DoDispose, queue, clock, mailbox, history, Queued
<1>3. ASSUME NEW d \in Delays, NewEvent(d) PROVE Queued'
  <2> DEFINE e == Inserted(created + 1, d)
  <2>1. e.impl = created + 1 /\ e.uid = m_uid
    BY <1>a, <1>b, FieldsOf
  <2>2. /\ m_events' = m_events \cup {e} /\ issued' \subseteq issued \cup {e}
        /\ m_uid' = m_uid + 1 /\ created' = created + 1
        /\ m_destroyEvents' = m_destroyEvents /\ m_eventsWithContext' = m_eventsWithContext
        /\ batch' = batch /\ m_currentUid' = m_currentUid
    BY <1>3 DEF NewEvent, clock, mailbox
  <2> HIDE DEF e
  <2>3. /\ \A i \in 1..created : i \in 1..created'
        /\ created + 1 \in 1..created'
    BY <1>a, <2>2
  <2> QED
    BY <1>a, <1>c, <1>d, <2>1, <2>2, <2>3 DEF Queued, VALID
<1>4. ASSUME NewDestroyEvent PROVE Queued'
  <2>1. DestroyId.impl = created + 1
    BY DEF DestroyId
  <2>2. \A i \in 1..created : i \in 1..(created + 1)
    BY <1>a
  <2> QED
    BY <1>a, <1>4, <1>d, <2>1, <2>2 DEF NewDestroyEvent, Queued, clock, mailbox, VALID
<1>5. ASSUME NEW d \in Delays, HandOver(d) PROVE Queued'
  BY <1>a, <1>5 DEF HandOver, Make, Queued, queue, clock, mailbox, history, VALID
<1>6. ASSUME Swap PROVE Queued'
  BY <1>a, <1>6 DEF Swap, Queued, queue, clock, mailbox, history
<1>7. ASSUME NEW x \in batch, DrainOne(x) PROVE Queued'
  <2> DEFINE e == Inserted(x.impl, x.delay)
  <2>1. x.impl \in Nat /\ x.delay \in Nat
    BY <1>a, EventTypes DEF StateTypeOK
  <2>2. e.impl = x.impl /\ e.uid = m_uid
    BY <2>1, FieldsOf
  <2>3. /\ m_events' = m_events \cup {e} /\ issued' = issued /\ batch' \subseteq batch
        /\ m_uid' = m_uid + 1 /\ created' = created
        /\ m_destroyEvents' = m_destroyEvents /\ m_eventsWithContext' = m_eventsWithContext
        /\ m_currentUid' = m_currentUid
    BY <1>7 DEF DrainOne, clock, mailbox, history
  <2> HIDE DEF e
  <2> QED
    BY <1>a, <1>c, <1>d, <2>2, <2>3 DEF Queued, VALID
<1>8. ASSUME Drain, UNCHANGED <<queue, batch>> PROVE Queued'
  BY <1>a, <1>8 DEF Drain, Queued, queue, clock, mailbox, history
<1> QED
  BY <1>1, <1>2, <1>3, <1>4, <1>5, <1>6, <1>7, <1>8, StepKinds

THEOREM UidsDoNotWrap == SimulatorSpec => []Bounded
<1>1. Bounded /\ [SimulatorNext]_simulatorVars => Bounded'
  BY TypeStep, RoomStep, ModesStep, QueuedStep DEF Bounded
<1> QED
  BY <1>1, BoundedInit, PTL DEF SimulatorSpec

-----------------------------------------------------------------------------
\* The number of an event stands for it wherever it is.
Identified ==
    /\ \A e, f \in m_events \cup m_destroyEvents \cup issued : e.impl = f.impl => e = f
    /\ \A e, f \in m_events : e.uid = f.uid => e = f
    /\ \A id \in m_destroyEvents : id.uid = DESTROY
    /\ \A x, y \in m_eventsWithContext \cup batch : x.impl = y.impl => x = y
    /\ m_eventsWithContext \cap batch = {}
    /\ \A x \in m_eventsWithContext \cup batch,
          e \in m_events \cup m_destroyEvents \cup issued : x.impl # e.impl

LEMMA IdentifiedStep ==
    ASSUME Bounded, Identified, [SimulatorNext]_simulatorVars
    PROVE  Identified'
<1>a. /\ StateTypeOK /\ Queued
      /\ m_uid \in Nat /\ created \in Nat /\ created + 1 \notin 1..created
  BY Numbers DEF Bounded
<1>b. \A d \in Delays : d \in Nat
  BY SimulatorAssumption
<1>d. \A e \in m_events : e.uid \in Nat /\ e.uid # m_uid
  BY <1>a, EventTypes DEF StateTypeOK, Queued
<1>1. ASSUME ShrinkingStep PROVE Identified'
  BY <1>a, <1>1, ShrinkingSteps DEF Shrinks, Identified
<1>2. ASSUME NEW d \in Delays, NewEvent(d) PROVE Identified'
  <2> DEFINE e == Inserted(created + 1, d)
  <2>1. e.impl = created + 1 /\ e.uid = m_uid
    BY <1>a, <1>b, FieldsOf
  <2>2. /\ m_events' = m_events \cup {e} /\ issued' \subseteq issued \cup {e}
        /\ m_destroyEvents' = m_destroyEvents /\ m_eventsWithContext' = m_eventsWithContext
        /\ batch' = batch
    BY <1>2 DEF NewEvent, clock, mailbox
  <2> HIDE DEF e
  <2> QED
    BY <1>a, <1>d, <2>1, <2>2 DEF Queued, Identified
<1>3. ASSUME NewDestroyEvent PROVE Identified'
  <2>1. DestroyId.impl = created + 1 /\ DestroyId.uid = DESTROY
    BY DEF DestroyId
  <2>2. /\ m_events' = m_events /\ issued' = issued \cup {DestroyId}
        /\ m_destroyEvents' = m_destroyEvents \cup {DestroyId}
        /\ m_eventsWithContext' = m_eventsWithContext /\ batch' = batch
    BY <1>3 DEF NewDestroyEvent, clock, mailbox
  <2> QED
    BY <1>a, <2>1, <2>2 DEF Queued, Identified
<1>4. ASSUME NEW d \in Delays, HandOver(d) PROVE Identified'
  <2> DEFINE x == [impl |-> created + 1, delay |-> d]
  <2>1. x.impl = created + 1
    OBVIOUS
  <2>2. /\ m_events' = m_events /\ issued' = issued /\ m_destroyEvents' = m_destroyEvents
        /\ m_eventsWithContext' = m_eventsWithContext \cup {x} /\ batch' = batch
    BY <1>4 DEF HandOver, Make, queue, clock, mailbox, history
  <2> HIDE DEF x
  <2> QED
    BY <1>a, <2>1, <2>2 DEF Queued, Identified
<1>5. ASSUME Swap PROVE Identified'
  BY <1>5 DEF Swap, Identified, Bounded, Modes, queue, clock, mailbox, history
<1>6. ASSUME NEW x \in batch, DrainOne(x) PROVE Identified'
  <2> DEFINE e == Inserted(x.impl, x.delay)
  <2>1. x.impl \in Nat /\ x.delay \in Nat
    BY <1>a, EventTypes DEF StateTypeOK
  <2>2. e.impl = x.impl /\ e.uid = m_uid
    BY <2>1, FieldsOf
  <2>3. /\ m_events' = m_events \cup {e} /\ issued' = issued /\ batch' = batch \ {x}
        /\ m_destroyEvents' = m_destroyEvents /\ m_eventsWithContext' = m_eventsWithContext
    BY <1>6 DEF DrainOne, clock, mailbox, history
  <2> HIDE DEF e
  <2> QED
    BY <1>a, <1>d, <2>2, <2>3 DEF Queued, Identified
<1>7. ASSUME Drain, UNCHANGED <<queue, batch>> PROVE Identified'
  BY <1>7 DEF Drain, Identified, queue, clock, mailbox, history
<1> QED
  BY <1>1, <1>2, <1>3, <1>4, <1>5, <1>6, <1>7, StepKinds

-----------------------------------------------------------------------------
Passed(id) == id.ts < m_currentTs \/ (id.ts = m_currentTs /\ id.uid <= m_currentUid)

\* An EventId that Schedule returned is of an event that is queued, passed or cancelled.
IdsKnown ==
    pc # "disposed" =>
      \A id \in issued :
        id.uid # DESTROY => id \in m_events \/ Passed(id) \/ id.impl \in cancelled

Known == Identified /\ NothingInThePast /\ IdsKnown

\* With that, IsExpired can be trusted.
LEMMA IsExpiredHolds ==
    ASSUME Bounded, Known
    PROVE  ExpiryIsTruth
<1> SUFFICES ASSUME NEW id \in issued
             PROVE  ~IsExpired(id) <=> id \in m_events \cup m_destroyEvents
                                       /\ id.impl \notin cancelled
  BY DEF ExpiryIsTruth
<1>1. CASE pc = "disposed"
  BY <1>1 DEF IsExpired, Bounded, Modes
<1>2. CASE pc # "disposed" /\ id.uid = DESTROY
  <2>1. id \notin m_events
    BY <1>2, EventTypes DEF Bounded, Queued, DESTROY, VALID
  <2> QED
    BY <1>2, <2>1 DEF IsExpired
<1>3. CASE pc # "disposed" /\ id.uid # DESTROY
  <2>1. id \notin m_destroyEvents
    BY <1>3 DEF Known, Identified
  <2>2. IsExpired(id) <=> Passed(id) \/ id.impl \in cancelled
    BY <1>3 DEF IsExpired, Passed
  <2>3. id \in m_events => ~Passed(id)
    <3>1. id.ts \in Nat /\ id.uid \in Nat /\ m_currentTs \in Nat /\ m_currentUid \in Nat
      BY EventTypes, Numbers DEF Bounded, StateTypeOK
    <3> QED
      BY <3>1 DEF Known, NothingInThePast, Precedes, Passed
  <2> QED
    BY <1>3, <2>1, <2>2, <2>3 DEF Known, IdsKnown
<1> QED
  BY <1>1, <1>2, <1>3

\* The clock stands still, and whatever leaves the map was cancelled.
Still ==
    /\ clock' = clock /\ m_events' \subseteq m_events /\ issued' = issued
    /\ cancelled \subseteq cancelled'
    /\ pc' = "disposed" \/ (pc # "disposed" /\ \A e \in m_events \ m_events' : e.impl \in cancelled')

LEMMA StillKnown ==
    ASSUME Known, Still
    PROVE  NothingInThePast' /\ IdsKnown'
BY DEF Known, Still, NothingInThePast, IdsKnown, Passed, Precedes, clock

\* RemoveEvent takes one event out.
LEMMA RemovesItself ==
    ASSUME Bounded, Known, NEW id \in issued, UserCode, id.uid # DESTROY, ~IsExpired(id)
    PROVE  /\ id \in m_events
           /\ {e \in m_events : <<e.ts, e.uid>> # <<id.ts, id.uid>>} = m_events \ {id}
<1>1. id \in m_events
  BY IsExpiredHolds DEF ExpiryIsTruth, Known, Identified
<1>2. \A e \in m_events : <<e.ts, e.uid>> = <<id.ts, id.uid>> <=> e = id
  BY <1>1 DEF Known, Identified
<1> QED
  BY <1>1, <1>2

LEMMA KnownStep ==
    ASSUME Bounded, Known, [SimulatorNext]_simulatorVars
    PROVE  NothingInThePast' /\ IdsKnown'
<1>a. /\ StateTypeOK /\ Queued
      /\ m_uid \in Nat /\ created \in Nat /\ m_currentTs \in Nat /\ m_currentUid \in Nat
      /\ \A e \in m_events \cup issued : e.ts \in Nat /\ e.uid \in Nat
  BY Numbers, EventTypes DEF Bounded, StateTypeOK
<1>b. \A d \in Delays : d \in Nat
  BY SimulatorAssumption
<1> USE DEF queue, mailbox, history
<1>1. ASSUME UNCHANGED simulatorVars \/ QuietStep \/ InvokeDestroyEvent \/ DoDispose
      PROVE  Still \/ UNCHANGED simulatorVars
  BY <1>a, <1>1, QuietSteps DEF Quiet, InvokeDestroyEvent, DoDispose, Still
<1>2. UNCHANGED simulatorVars => NothingInThePast' /\ IdsKnown'
  BY DEF simulatorVars, clock, Known, NothingInThePast, IdsKnown, Passed, Precedes
<1>3. ASSUME NEW id \in issued, Cancel(id) \/ RemoveDestroyEvent(id) PROVE Still
  BY <1>3 DEF Cancel, RemoveDestroyEvent, UserCode, Still
<1>4. ASSUME NEW id \in issued, RemoveEvent(id) PROVE Still
  <2>1. CASE IsExpired(id)
    BY <1>4, <2>1 DEF RemoveEvent, UserCode, Still
  <2>2. CASE ~IsExpired(id)
    <3>1. /\ m_events' = m_events \ {id} /\ cancelled' = cancelled \cup {id.impl}
          /\ clock' = clock /\ issued' = issued /\ pc # "disposed"
      BY <1>4, <2>2, RemovesItself DEF RemoveEvent, UserCode
    <3> QED
      BY <3>1 DEF Still
  <2> QED
    BY <2>1, <2>2
<1>5. ASSUME ProcessOneEvent PROVE NothingInThePast' /\ IdsKnown'
  <2> PICK e \in m_events :
        /\ \A f \in m_events \ {e} : Precedes(e, f)
        /\ m_events' = m_events \ {e}
        /\ m_currentTs' = e.ts /\ m_currentUid' = e.uid
    BY <1>5 DEF ProcessOneEvent
  <2>1. cancelled' = cancelled /\ issued' = issued /\ pc # "disposed"
    BY <1>5 DEF ProcessOneEvent
  <2>2. NothingInThePast'
    BY DEF NothingInThePast, Precedes
  <2>3. m_currentTs < e.ts \/ (m_currentTs = e.ts /\ m_currentUid < e.uid)
    BY DEF Known, NothingInThePast, Precedes
  <2>4. \A id \in issued : Passed(id) => Passed(id)'
    BY <1>a, <2>3 DEF Passed
  <2>5. \A id \in issued : id = e => Passed(id)'
    BY <1>a DEF Passed
  <2>6. IdsKnown'
    BY <2>1, <2>4, <2>5 DEF Known, IdsKnown
  <2> QED
    BY <2>2, <2>6
<1>6. ASSUME NEW i \in Nat, NEW d \in Nat, clock' = clock, cancelled' = cancelled, pc' = pc,
             m_events' = m_events \cup {Inserted(i, d)},
             issued' \subseteq issued \cup {Inserted(i, d)}
      PROVE  NothingInThePast' /\ IdsKnown'
  <2> DEFINE e == Inserted(i, d)
  <2>1. e.uid = m_uid /\ e.ts = m_currentTs + d /\ m_currentUid < m_uid
    BY <1>a, FieldsOf DEF Queued
  <2>2. /\ clock' = clock /\ cancelled' = cancelled /\ pc' = pc
        /\ m_events' = m_events \cup {e} /\ issued' \subseteq issued \cup {e}
    BY <1>6
  <2> HIDE DEF e
  <2>3. Precedes([ts |-> m_currentTs, uid |-> m_currentUid], e)
    BY <1>a, <2>1 DEF Precedes
  <2> QED
    BY <2>2, <2>3 DEF Known, NothingInThePast, IdsKnown, Passed, Precedes, clock
<1>7. ASSUME NEW d \in Delays, NewEvent(d) PROVE NothingInThePast' /\ IdsKnown'
  <2>1. /\ clock' = clock /\ cancelled' = cancelled /\ pc' = pc
        /\ m_events' = m_events \cup {Inserted(created + 1, d)}
        /\ issued' \subseteq issued \cup {Inserted(created + 1, d)}
    BY <1>7 DEF NewEvent
  <2> QED
    BY <1>a, <1>b, <1>6, <2>1
<1>8. ASSUME NEW x \in batch, DrainOne(x) PROVE NothingInThePast' /\ IdsKnown'
  <2>1. /\ clock' = clock /\ cancelled' = cancelled /\ pc' = pc /\ issued' = issued
        /\ m_events' = m_events \cup {Inserted(x.impl, x.delay)}
    BY <1>8 DEF DrainOne
  <2>2. x.impl \in Nat /\ x.delay \in Nat
    BY <1>a, EventTypes DEF StateTypeOK
  <2> QED
    BY <1>6, <2>1, <2>2
<1>9. ASSUME NewDestroyEvent PROVE NothingInThePast' /\ IdsKnown'
  BY <1>9 DEF NewDestroyEvent, DestroyId, Known, NothingInThePast, IdsKnown, Passed, Precedes,
              clock
<1>10. ASSUME (\E d \in Delays : HandOver(d)) \/ Swap \/ (Drain /\ UNCHANGED <<queue, batch>>)
       PROVE  Still
  BY <1>10 DEF HandOver, Swap, Drain, Still
<1> QED
  BY <1>1, <1>2, <1>3, <1>4, <1>5, <1>7, <1>8, <1>9, <1>10, StillKnown, StepKinds
     DEF ShrinkingStep

THEOREM EventsAreKnown == SimulatorSpec => []Known
<1>1. SimulatorInit => Known
  BY DEF SimulatorInit, Known, Identified, NothingInThePast, IdsKnown
<1>2. Bounded /\ Known /\ [SimulatorNext]_simulatorVars => Known'
  BY IdentifiedStep, KnownStep DEF Known
<1> QED
  BY <1>1, <1>2, UidsDoNotWrap, PTL DEF SimulatorSpec

\* No event is ever queued at or before the event that runs.
THEOREM NoEventInThePast == SimulatorSpec => []NothingInThePast
<1>1. Known => NothingInThePast
  BY DEF Known
<1> QED
  BY <1>1, EventsAreKnown, PTL

\* IsExpired, and with it Timer::IsRunning, tells the truth of every EventId.
THEOREM ExpiryIsTrue == SimulatorSpec => []ExpiryIsTruth
BY IsExpiredHolds, UidsDoNotWrap, EventsAreKnown, PTL

-----------------------------------------------------------------------------
\* A withdrawal is never forgotten while its event waits.
Withdrawals ==
    /\ cancelled \subseteq withdrawn
    /\ \A e \in m_events \cup m_destroyEvents : e.impl \in withdrawn => e.impl \in cancelled
    /\ \A i \in withdrawn : \E id \in issued : id.impl = i

Accounted ==
    /\ Withdrawals /\ EventsAccounted /\ HandOversAnnounced /\ WithdrawnNeverRuns

\* What Cancel and Remove do, and what leaves a list.
LEMMA WithdrawnStep ==
    ASSUME Bounded, Known, Accounted, NEW id \in issued,
           Cancel(id) \/ RemoveDestroyEvent(id) \/ RemoveEvent(id)
    PROVE  Accounted'
<1>a. /\ \A e \in m_events \cup m_destroyEvents \cup issued :
           e.impl = id.impl => e = id
      /\ \A e \in m_events : e.uid # DESTROY
      /\ \A e \in m_destroyEvents : e.uid = DESTROY
  BY EventTypes DEF Known, Identified, Bounded, StateTypeOK, Queued, VALID, DESTROY
<1>b. ~IsExpired(id) <=> id \in m_events \cup m_destroyEvents /\ id.impl \notin cancelled
  BY IsExpiredHolds DEF ExpiryIsTruth
<1>c. /\ withdrawn' = withdrawn \cup ({id.impl} \ ran) /\ ran' = ran /\ issued' = issued
      /\ created' = created /\ mailbox' = mailbox /\ batch' = batch /\ pc' = pc
      /\ pc # "disposed"
  BY DEF Cancel, RemoveDestroyEvent, RemoveEvent, Withdraw, UserCode
<1>d. /\ m_events' \subseteq m_events /\ m_destroyEvents' \subseteq m_destroyEvents
      /\ \A e \in m_events \ m_events' : e = id
      /\ \A e \in m_destroyEvents \ m_destroyEvents' : e = id
      /\ \A e \in m_events' \cup m_destroyEvents' : e = id => id.impl \in cancelled'
      /\ cancelled' = cancelled \/ (cancelled' = cancelled \cup {id.impl} /\ ~IsExpired(id))
      /\ cancelled \subseteq cancelled'
  <2>1. CASE Cancel(id)
    BY <2>1, <1>b DEF Cancel, queue
  <2>2. CASE RemoveDestroyEvent(id)
    BY <2>2, <1>a DEF RemoveDestroyEvent, queue
  <2>3. CASE RemoveEvent(id) /\ IsExpired(id)
    BY <2>3, <1>a, <1>b DEF RemoveEvent
  <2>4. CASE RemoveEvent(id) /\ ~IsExpired(id)
    <3>1. m_events' = m_events \ {id} /\ cancelled' = cancelled \cup {id.impl}
          /\ m_destroyEvents' = m_destroyEvents
      BY <2>4, RemovesItself DEF RemoveEvent
    <3> QED
      BY <2>4, <3>1
  <2> QED
    BY <2>1, <2>2, <2>3, <2>4
<1>1. ~IsExpired(id) => id.impl \notin ran
  BY <1>b DEF Accounted, EventsAccounted, Waiting
<1>2. Withdrawals'
  BY <1>a, <1>c, <1>d, <1>1 DEF Accounted, Withdrawals
<1>3. EventsAccounted'
  <2>1. Waiting' \subseteq Waiting /\ Waiting \ Waiting' \subseteq {id.impl}
    BY <1>c, <1>d DEF Waiting, mailbox
  <2> QED
    BY <1>c, <2>1 DEF Accounted, EventsAccounted
<1> QED
  BY <1>2, <1>3, <1>c DEF Accounted, HandOversAnnounced, WithdrawnNeverRuns, mailbox

LEMMA AccountedStep ==
    ASSUME Bounded, Known, Accounted, [SimulatorNext]_simulatorVars
    PROVE  Accounted'
<1>a. /\ StateTypeOK /\ Queued /\ Identified /\ created \in Nat
      /\ created + 1 \notin 1..created /\ 1..(created + 1) = (1..created) \cup {created + 1}
  BY Numbers DEF Bounded, Known
<1>b. \A i \in ran \cup withdrawn \cup Waiting : i \in 1..created
  BY <1>a DEF StateTypeOK, Queued, Waiting
<1> USE DEF queue, clock, mailbox, history
<1>1. ASSUME UNCHANGED simulatorVars \/ QuietStep PROVE Accounted'
  <2>1. pc # "disposed" \/ pc' = "disposed"
    BY <1>1, QuietSteps, <1>a DEF Quiet, simulatorVars
  <2>2. UNCHANGED <<queue, clock, mailbox, batch, m_destroyEvents, cancelled, created, history>>
    BY <1>1, QuietSteps, <1>a DEF Quiet, simulatorVars
  <2> QED
    BY <2>1, <2>2
       DEF Accounted, Withdrawals, EventsAccounted, Waiting, HandOversAnnounced,
           WithdrawnNeverRuns
<1>2. ASSUME DoDispose PROVE Accounted'
  BY <1>2 DEF DoDispose, Accounted, Withdrawals, EventsAccounted, Waiting,
              HandOversAnnounced, WithdrawnNeverRuns
<1>3. ASSUME NEW e \in m_events \cup m_destroyEvents,
             m_events' = m_events \ {e}, m_destroyEvents' = m_destroyEvents \ {e},
             \/ e.impl \in cancelled /\ ran' = ran
             \/ e.impl \notin cancelled /\ ran' = ran \cup {e.impl},
             UNCHANGED <<mailbox, batch, cancelled, created, issued, withdrawn>>,
             pc # "disposed"
      PROVE  Accounted'
  <2>1. /\ \A i : i \in Waiting' <=> i \in Waiting /\ i # e.impl
        /\ e.impl \in Waiting
    BY <1>3, <1>a DEF Waiting, Identified
  <2>2. EventsAccounted'
    BY <1>3, <2>1 DEF Accounted, EventsAccounted, Withdrawals
  <2> QED
    BY <1>3, <2>2 DEF Accounted, Withdrawals, HandOversAnnounced, WithdrawnNeverRuns
<1>4. ASSUME ProcessOneEvent PROVE Accounted'
  <2> PICK e \in m_events :
        /\ m_events' = m_events \ {e}
        /\ \/ e.impl \in cancelled /\ ran' = ran
           \/ e.impl \notin cancelled /\ ran' = ran \cup {e.impl}
    BY <1>4 DEF ProcessOneEvent
  <2>1. e \notin m_destroyEvents
    BY <1>a, EventTypes DEF Identified, StateTypeOK, Queued, VALID, DESTROY
  <2> QED
    BY <1>3, <1>4, <2>1 DEF ProcessOneEvent
<1>5. ASSUME InvokeDestroyEvent PROVE Accounted'
  <2> PICK e \in m_destroyEvents :
        /\ m_destroyEvents' = m_destroyEvents \ {e}
        /\ \/ e.impl \in cancelled /\ ran' = ran
           \/ e.impl \notin cancelled /\ ran' = ran \cup {e.impl}
    BY <1>5 DEF InvokeDestroyEvent
  <2>1. e \notin m_events
    BY <1>a, EventTypes DEF Identified, StateTypeOK, Queued, VALID, DESTROY
  <2> QED
    BY <1>3, <1>5, <2>1 DEF InvokeDestroyEvent
<1>6. ASSUME NEW d \in Delays, NewEvent(d) PROVE Accounted'
  <2> DEFINE e == Inserted(created + 1, d)
  <2>1. e.impl = created + 1
    BY DEF Inserted
  <2>2. /\ m_events' = m_events \cup {e} /\ issued \subseteq issued'
        /\ created' = created + 1
        /\ UNCHANGED <<pc, mailbox, batch, m_destroyEvents, cancelled, ran, withdrawn>>
    BY <1>6 DEF NewEvent
  <2> HIDE DEF e
  <2>3. Waiting' = Waiting \cup {created + 1}
    BY <2>1, <2>2 DEF Waiting
  <2>4. EventsAccounted'
    BY <1>a, <1>b, <2>2, <2>3 DEF Accounted, EventsAccounted
  <2> QED
    BY <1>a, <1>b, <2>1, <2>2, <2>4
       DEF Accounted, Withdrawals, HandOversAnnounced, WithdrawnNeverRuns
<1>7. ASSUME NewDestroyEvent PROVE Accounted'
  <2>1. DestroyId.impl = created + 1
    BY DEF DestroyId
  <2>2. /\ m_destroyEvents' = m_destroyEvents \cup {DestroyId} /\ issued \subseteq issued'
        /\ created' = created + 1
        /\ UNCHANGED <<pc, mailbox, batch, m_events, cancelled, ran, withdrawn>>
    BY <1>7 DEF NewDestroyEvent
  <2>3. Waiting' = Waiting \cup {created + 1}
    BY <2>1, <2>2 DEF Waiting
  <2>4. EventsAccounted'
    BY <1>a, <1>b, <2>2, <2>3 DEF Accounted, EventsAccounted
  <2> QED
    BY <1>a, <1>b, <2>1, <2>2, <2>4
       DEF Accounted, Withdrawals, HandOversAnnounced, WithdrawnNeverRuns
<1>8. ASSUME NEW d \in Delays, HandOver(d) PROVE Accounted'
  <2> DEFINE x == [impl |-> created + 1, delay |-> d]
  <2>1. x.impl = created + 1
    OBVIOUS
  <2>2. /\ m_eventsWithContext' = m_eventsWithContext \cup {x} /\ ~m_eventsWithContextEmpty'
        /\ created' = created + 1
        /\ UNCHANGED <<pc, issued, batch, m_events, m_destroyEvents, cancelled, ran, withdrawn>>
    BY <1>8 DEF HandOver, Make
  <2> HIDE DEF x
  <2>3. Waiting' = Waiting \cup {created + 1}
    BY <2>1, <2>2 DEF Waiting
  <2>4. EventsAccounted'
    BY <1>a, <1>b, <2>2, <2>3 DEF Accounted, EventsAccounted
  <2> QED
    BY <2>2, <2>4 DEF Accounted, Withdrawals, HandOversAnnounced, WithdrawnNeverRuns
<1>9. ASSUME Swap PROVE Accounted'
  BY <1>9 DEF Swap, Bounded, Modes, Accounted, Withdrawals, EventsAccounted, Waiting,
              HandOversAnnounced, WithdrawnNeverRuns
<1>10. ASSUME NEW x \in batch, DrainOne(x) PROVE Accounted'
  <2> DEFINE e == Inserted(x.impl, x.delay)
  <2>1. e.impl = x.impl
    BY DEF Inserted
  <2>2. /\ m_events' = m_events \cup {e} /\ batch' = batch \ {x}
        /\ UNCHANGED <<pc, mailbox, m_destroyEvents, cancelled, created, history>>
    BY <1>10 DEF DrainOne
  <2> HIDE DEF e
  <2>3. Waiting' = Waiting
    BY <2>1, <2>2 DEF Waiting
  <2>4. x.impl \notin withdrawn
    BY <1>a DEF Accounted, Withdrawals, Identified
  <2> QED
    BY <2>1, <2>2, <2>3, <2>4
       DEF Accounted, Withdrawals, EventsAccounted, HandOversAnnounced, WithdrawnNeverRuns
<1>11. ASSUME Drain, pc' = "loop", UNCHANGED <<queue, batch>> PROVE Accounted'
  BY <1>11 DEF Drain, Accounted, Withdrawals, EventsAccounted, Waiting,
               HandOversAnnounced, WithdrawnNeverRuns
<1> QED
  BY <1>1, <1>2, <1>4, <1>5, <1>6, <1>7, <1>8, <1>9, <1>10, <1>11, WithdrawnStep, StepKinds
     DEF ShrinkingStep

THEOREM EventsAreAccounted == SimulatorSpec => []Accounted
<1>1. SimulatorInit => Accounted
  BY DEF SimulatorInit, Accounted, Withdrawals, EventsAccounted, Waiting,
         HandOversAnnounced, WithdrawnNeverRuns
<1>2. Bounded /\ Known /\ Accounted /\ [SimulatorNext]_simulatorVars => Accounted'
  BY AccountedStep
<1> QED
  BY <1>1, <1>2, UidsDoNotWrap, EventsAreKnown, PTL DEF SimulatorSpec

\* No event is lost or run twice between threads, map and lists.
THEOREM NoEventLost == SimulatorSpec => []EventsAccounted
<1>1. Accounted => EventsAccounted
  BY DEF Accounted
<1> QED
  BY <1>1, EventsAreAccounted, PTL

\* A hand-over is always announced by the flag.
THEOREM NoHandOverHidden == SimulatorSpec => []HandOversAnnounced
<1>1. Accounted => HandOversAnnounced
  BY DEF Accounted
<1> QED
  BY <1>1, EventsAreAccounted, PTL

\* What was cancelled or removed before it ran is never run.
THEOREM WithdrawnIsWithdrawn == SimulatorSpec => []WithdrawnNeverRuns
<1>1. Accounted => WithdrawnNeverRuns
  BY DEF Accounted
<1> QED
  BY <1>1, EventsAreAccounted, PTL

-----------------------------------------------------------------------------
Counted == m_unscheduledEvents \in Nat /\ CountKept

LEMMA CountedStep ==
    ASSUME Bounded, Known, Counted, [SimulatorNext]_simulatorVars
    PROVE  Counted'
<1>a. /\ StateTypeOK /\ IsFiniteSet(m_events) /\ Cardinality(m_events) \in Nat
      /\ m_unscheduledEvents \in Nat
      /\ pc # "disposed" => m_unscheduledEvents = Cardinality(m_events)
  BY FS_CardinalityType DEF Bounded, StateTypeOK, Counted, CountKept
<1> USE DEF queue, clock, mailbox, history
<1>1. ASSUME UNCHANGED <<m_events, m_unscheduledEvents>>, pc # "disposed" \/ pc' = pc
      PROVE  Counted'
  BY <1>1, <1>a DEF Counted, CountKept
<1>2. ASSUME UNCHANGED simulatorVars \/ QuietStep \/ InvokeDestroyEvent \/ ScheduleDestroy
             \/ (\E d \in Delays : HandOver(d)) \/ Swap
      PROVE  Counted'
  BY <1>1, <1>2, <1>a, QuietSteps
     DEF simulatorVars, Quiet, InvokeDestroyEvent, ScheduleDestroy, UserCode, HandOver, Swap
<1>3. ASSUME NEW i, NEW d, Insert(i, d), pc' = pc,
             Inserted(i, d) \notin m_events
      PROVE  Counted'
  <2>1. /\ m_events' = m_events \cup {Inserted(i, d)}
        /\ m_unscheduledEvents' = m_unscheduledEvents + 1
    BY <1>3 DEF Insert, Inserted
  <2>2. Cardinality(m_events') = Cardinality(m_events) + 1
    BY <1>a, <1>3, <2>1, FS_AddElement
  <2> QED
    BY <1>3, <1>a, <2>1, <2>2 DEF Counted, CountKept
<1>4. \A i, d : Inserted(i, d) \notin m_events
  <2>1. \A e \in m_events : e.uid # m_uid
    BY <1>a, EventTypes, Numbers DEF Bounded, StateTypeOK, Queued
  <2> QED
    BY <2>1 DEF Inserted
<1>5. ASSUME NEW d \in Delays, Schedule(d) \/ ScheduleWithContext(d) PROVE Counted'
  BY <1>3, <1>4, <1>5 DEF Schedule, ScheduleWithContext
<1>6. ASSUME Drain PROVE Counted'
  <2>1. CASE \E x \in batch : Insert(x.impl, x.delay) /\ pc' = pc
    BY <2>1, <1>3, <1>4
  <2>2. CASE pc = "drain" /\ UNCHANGED <<queue, batch>>
    BY <2>2, <1>1
  <2> QED
    BY <1>6, <2>1, <2>2 DEF Drain
<1>7. ASSUME NEW e \in m_events, m_events' = m_events \ {e}, pc # "disposed",
             m_unscheduledEvents' = m_unscheduledEvents - 1
      PROVE  Counted'
  <2>1. Cardinality(m_events') = Cardinality(m_events) - 1 /\ Cardinality(m_events') \in Nat
    BY <1>a, <1>7, FS_RemoveElement, FS_CardinalityType
  <2> QED
    BY <1>a, <1>7, <2>1 DEF Counted, CountKept
<1>8. ASSUME ProcessOneEvent PROVE Counted'
  BY <1>7, <1>8 DEF ProcessOneEvent
<1>9. ASSUME NEW id \in issued, Cancel(id) \/ RemoveDestroyEvent(id) PROVE Counted'
  BY <1>1, <1>9 DEF Cancel, RemoveDestroyEvent
<1>10. ASSUME NEW id \in issued, RemoveEvent(id) PROVE Counted'
  <2>1. CASE IsExpired(id)
    BY <1>1, <1>10, <2>1 DEF RemoveEvent
  <2>2. CASE ~IsExpired(id)
    <3>1. /\ id \in m_events /\ m_events' = m_events \ {id} /\ pc # "disposed"
          /\ m_unscheduledEvents' = m_unscheduledEvents - 1
      BY <1>10, <2>2, RemovesItself DEF RemoveEvent, UserCode
    <3> QED
      BY <3>1, <1>7
  <2> QED
    BY <2>1, <2>2
<1>11. ASSUME DoDispose PROVE Counted'
  BY <1>11, <1>a DEF DoDispose, Counted, CountKept
<1> QED
  BY <1>2, <1>5, <1>6, <1>8, <1>9, <1>10, <1>11
     DEF SimulatorNext, MainThread, OtherThreads, QuietStep

THEOREM EventsAreCounted == SimulatorSpec => []Counted
<1>1. SimulatorInit => Counted
  BY FS_EmptySet DEF SimulatorInit, Counted, CountKept
<1>2. Bounded /\ Known /\ Counted /\ [SimulatorNext]_simulatorVars => Counted'
  BY CountedStep
<1> QED
  BY <1>1, <1>2, UidsDoNotWrap, EventsAreKnown, PTL DEF SimulatorSpec

\* The consistency test at the end of Run never fails.
THEOREM CountIsKept == SimulatorSpec => []CountKept
<1>1. Counted => CountKept
  BY DEF Counted
<1> QED
  BY <1>1, EventsAreCounted, PTL

\* Types.
THEOREM SimulatorTypeCorrect == SimulatorSpec => []SimulatorTypeOK
<1>1. Bounded /\ Counted => SimulatorTypeOK
  BY DEF Bounded, Counted, SimulatorTypeOK
<1> QED
  BY <1>1, UidsDoNotWrap, EventsAreCounted, PTL

-----------------------------------------------------------------------------

\* A set of events that Precedes puts in one order.
Keyed(S) ==
    /\ S \subseteq Event /\ IsFiniteSet(S)
    /\ \A e, f \in S : e.uid = f.uid => e = f

LEMMA PrecedesIsOrder ==
    ASSUME NEW S, Keyed(S)
    PROVE  /\ \A e \in S : ~Precedes(e, e)
           /\ \A e, f \in S : Precedes(e, f) => ~Precedes(f, e)
           /\ \A e, f \in S : e # f => Precedes(e, f) \/ Precedes(f, e)
           /\ \A e, f, g \in S : Precedes(e, f) /\ Precedes(f, g) => Precedes(e, g)
<1>1. \A e \in S : e.ts \in Nat /\ e.uid \in Nat
  BY DEF Keyed, Event
<1> QED
  BY <1>1 DEF Keyed, Precedes

\* q lists S in that order.
Lists(q, n, S) ==
    /\ n \in Nat /\ q \in [1..n -> S]
    /\ \A e \in S : \E i \in 1..n : q[i] = e
    /\ \A i, j \in 1..n : i < j => Precedes(q[i], q[j])

LEMMA ListIsOneToOne ==
    ASSUME NEW S, Keyed(S), NEW n, NEW q, Lists(q, n, S)
    PROVE  \A i, j \in 1..n : (Precedes(q[i], q[j]) <=> i < j) /\ (q[i] = q[j] => i = j)
<1> SUFFICES ASSUME NEW i \in 1..n, NEW j \in 1..n
             PROVE  (Precedes(q[i], q[j]) <=> i < j) /\ (q[i] = q[j] => i = j)
  OBVIOUS
<1>1. q[i] \in S /\ q[j] \in S /\ i \in Int /\ j \in Int
  BY DEF Lists
<1>2. CASE i < j
  BY <1>1, <1>2, PrecedesIsOrder DEF Lists
<1>3. CASE j < i
  BY <1>1, <1>3, PrecedesIsOrder DEF Lists
<1>4. CASE i = j
  BY <1>1, <1>4, PrecedesIsOrder
<1> QED
  BY <1>1, <1>2, <1>3, <1>4

\* There is only one such list, the one Sorted returns.
LEMMA ListIsSorted ==
    ASSUME NEW S, Keyed(S), NEW n, NEW q, Lists(q, n, S)
    PROVE  n = Cardinality(S) /\ q = Sorted(S)
<1>0. n \in Nat /\ q \in [1..n -> S]
  BY DEF Lists
<1>1. n = Cardinality(S)
  <2>1. \A i, j \in 1..n : q[i] = q[j] => i = j
    BY ListIsOneToOne
  <2>2. \A e \in S : \E i \in 1..n : q[i] = e
    BY DEF Lists
  <2>3. q \in Bijection(1..n, S)
    BY <1>0, <2>1, <2>2 DEF Bijection, Injection, Surjection, IsInjective
  <2> QED
    BY <1>0, <2>3, FS_CountingElements DEF ExistsBijection
<1>2. ASSUME NEW i \in 1..n
      PROVE  Cardinality(Before(q[i], S)) = i - 1
  <2> DEFINE m == i - 1
             B == Before(q[i], S)
             r == [j \in 1..m |-> q[j]]
  <2>1. m \in Nat /\ \A j \in 1..m : j \in 1..n /\ j < i
    BY <1>0
  <2>2. \A j \in 1..m : q[j] \in B
    BY <1>0, <2>1, ListIsOneToOne DEF Before
  <2>3. \A e \in B : \E j \in 1..m : q[j] = e
    <3> SUFFICES ASSUME NEW e \in B PROVE \E j \in 1..m : q[j] = e
      OBVIOUS
    <3>1. PICK j \in 1..n : q[j] = e
      BY DEF Before, Lists
    <3>2. Precedes(q[j], q[i])
      BY <3>1 DEF Before
    <3>3. j < i
      BY <3>2, ListIsOneToOne
    <3> QED
      BY <3>1, <3>3, <1>0
  <2>4. \A j, k \in 1..m : q[j] = q[k] => j = k
    BY <2>1, ListIsOneToOne
  <2> HIDE DEF m, B
  <2>5. r \in Bijection(1..m, B)
    <3>1. r \in [1..m -> B] /\ \A j \in 1..m : r[j] = q[j]
      BY <2>2
    <3> HIDE DEF r
    <3>2. \A e \in B : \E j \in 1..m : r[j] = e
      BY <2>3, <3>1
    <3>3. \A j, k \in 1..m : r[j] = r[k] => j = k
      BY <2>4, <3>1
    <3> QED
      BY <3>1, <3>2, <3>3 DEF Bijection, Injection, Surjection, IsInjective
  <2>6. Cardinality(B) = m
    BY <2>1, <2>5, FS_CountingElements DEF ExistsBijection
  <2> QED
    BY <2>6 DEF m, B
<1>3. ASSUME NEW i \in 1..n
      PROVE  q[i] = CHOOSE e \in S : Cardinality(Before(e, S)) = i - 1
  <2>1. q[i] \in S /\ Cardinality(Before(q[i], S)) = i - 1
    BY <1>0, <1>2
  <2>2. ASSUME NEW e \in S, Cardinality(Before(e, S)) = i - 1
        PROVE  e = q[i]
    <3>1. PICK j \in 1..n : q[j] = e
      BY DEF Lists
    <3>2. Cardinality(Before(e, S)) = j - 1
      BY <3>1, <1>2
    <3> QED
      BY <3>1, <3>2, <2>2, <1>0
  <2> QED
    BY <2>1, <2>2
<1> QED
  BY <1>0, <1>1, <1>3 DEF Sorted

\* And there is one.
LEMMA SortedLists ==
    ASSUME NEW S, Keyed(S)
    PROVE  Lists(Sorted(S), Cardinality(S), S)
<1> DEFINE n == Cardinality(S)
           r == [e \in S |-> Cardinality(Before(e, S)) + 1]
<1>0. n \in Nat /\ IsFiniteSet(S)
  BY FS_CardinalityType DEF Keyed
<1>1. ASSUME NEW e \in S
      PROVE  /\ Cardinality(Before(e, S)) \in Nat
             /\ Cardinality(Before(e, S)) < n
  <2>1. Before(e, S) \in SUBSET S /\ e \notin Before(e, S)
    BY PrecedesIsOrder DEF Before
  <2>2. IsFiniteSet(Before(e, S)) /\ Cardinality(Before(e, S)) <= n
        /\ (n = Cardinality(Before(e, S)) => S = Before(e, S))
    BY <1>0, <2>1, FS_Subset
  <2>3. Cardinality(Before(e, S)) \in Nat
    BY <2>2, FS_CardinalityType
  <2> QED
    BY <1>0, <2>1, <2>2, <2>3
<1>2. ASSUME NEW e \in S, NEW f \in S, Precedes(e, f)
      PROVE  Cardinality(Before(e, S)) < Cardinality(Before(f, S))
  <2>1. Before(e, S) \in SUBSET Before(f, S) /\ e \notin Before(e, S) /\ e \in Before(f, S)
    BY <1>2, PrecedesIsOrder DEF Before
  <2>2. IsFiniteSet(Before(f, S))
    BY <1>0, FS_Subset DEF Before
  <2>3. /\ Cardinality(Before(e, S)) <= Cardinality(Before(f, S))
        /\ Cardinality(Before(f, S)) = Cardinality(Before(e, S)) => Before(f, S) = Before(e, S)
    BY <2>1, <2>2, FS_Subset
  <2> QED
    BY <1>1, <2>1, <2>3
<1> HIDE DEF n
<1>3. r \in Injection(S, 1..n)
  <2>1. r \in [S -> 1..n]
    BY <1>0, <1>1
  <2>2. ASSUME NEW e \in S, NEW f \in S, r[e] = r[f]
        PROVE  e = f
    <3>1. Cardinality(Before(e, S)) = Cardinality(Before(f, S))
      BY <1>1, <2>2
    <3> QED
      BY <1>1, <1>2, <3>1, PrecedesIsOrder
  <2> QED
    BY <2>1, <2>2 DEF Injection, IsInjective
<1>4. r \in Surjection(S, 1..n)
  <2>1. IsFiniteSet(1..n) /\ Cardinality(1..n) = n
    BY <1>0, FS_Interval
  <2> QED
    BY <1>3, <2>1, FS_Injection DEF n
<1>5. ASSUME NEW i \in 1..n
      PROVE  /\ Sorted(S)[i] \in S
             /\ Cardinality(Before(Sorted(S)[i], S)) = i - 1
  <2>1. PICK e \in S : r[e] = i
    BY <1>4 DEF Surjection
  <2>2. Cardinality(Before(e, S)) = i - 1
    BY <1>0, <1>1, <2>1
  <2>3. Sorted(S)[i] = CHOOSE g \in S : Cardinality(Before(g, S)) = i - 1
    BY DEF Sorted, n
  <2> QED
    BY <2>2, <2>3
<1>6. Sorted(S) \in [1..n -> S]
  BY <1>5 DEF Sorted, n
<1>7. ASSUME NEW e \in S
      PROVE  \E i \in 1..n : Sorted(S)[i] = e
  <2>1. r[e] \in 1..n /\ r[e] - 1 = Cardinality(Before(e, S))
    BY <1>0, <1>1
  <2>2. Sorted(S)[r[e]] \in S /\ Cardinality(Before(Sorted(S)[r[e]], S)) = Cardinality(Before(e, S))
    BY <1>5, <2>1
  <2>3. Sorted(S)[r[e]] = e
    BY <1>1, <1>2, <2>2, PrecedesIsOrder
  <2> QED
    BY <2>1, <2>3
<1>8. ASSUME NEW i \in 1..n, NEW j \in 1..n, i < j
      PROVE  Precedes(Sorted(S)[i], Sorted(S)[j])
  <2> DEFINE e == Sorted(S)[i]
             f == Sorted(S)[j]
  <2>1. /\ e \in S /\ Cardinality(Before(e, S)) = i - 1
        /\ f \in S /\ Cardinality(Before(f, S)) = j - 1
    BY <1>5
  <2> HIDE DEF e, f
  <2>2. e # f /\ ~Precedes(f, e)
    BY <1>0, <1>2, <1>8, <2>1
  <2>3. Precedes(e, f)
    BY <2>1, <2>2, PrecedesIsOrder
  <2> QED
    BY <2>3 DEF e, f
<1> QED
  BY <1>0, <1>6, <1>7, <1>8 DEF Lists, n

\* Without its p-th event the list closes the gap.
Closed(q, n, p) == [i \in 1..(n - 1) |-> IF i < p THEN q[i] ELSE q[i + 1]]

LEMMA SortedWithout ==
    ASSUME NEW S, Keyed(S), NEW p \in 1..Cardinality(S)
    PROVE  /\ Keyed(S \ {Sorted(S)[p]})
           /\ Cardinality(S \ {Sorted(S)[p]}) = Cardinality(S) - 1
           /\ Sorted(S \ {Sorted(S)[p]}) = Closed(Sorted(S), Cardinality(S), p)
<1> DEFINE n == Cardinality(S)
           q == Sorted(S)
           c == Closed(q, n, p)
           T == S \ {q[p]}
<1>1. Lists(q, n, S) /\ n \in Nat /\ q \in [1..n -> S]
  BY SortedLists DEF Lists
<1>2. Keyed(T)
  BY FS_RemoveElement DEF Keyed
<1> HIDE DEF n, q
<1>3. \A i, j \in 1..n : (Precedes(q[i], q[j]) <=> i < j) /\ (q[i] = q[j] => i = j)
  BY <1>1, ListIsOneToOne
<1>4. ASSUME NEW i \in 1..(n - 1)
      PROVE  /\ i < p => i \in 1..n /\ c[i] = q[i]
             /\ ~(i < p) => i + 1 \in 1..n /\ c[i] = q[i + 1]
             /\ c[i] \in T
  <2>1. p \in 1..n
    BY DEF n
  <2>2. c[i] = IF i < p THEN q[i] ELSE q[i + 1]
    BY DEF Closed
  <2>3. /\ i < p => i \in 1..n /\ i # p
        /\ ~(i < p) => i + 1 \in 1..n /\ i + 1 # p
    BY <1>1, <2>1
  <2> QED
    BY <1>1, <1>3, <2>1, <2>2, <2>3
<1>5. c \in [1..(n - 1) -> T]
  BY <1>4 DEF Closed
<1>6. ASSUME NEW e \in T
      PROVE  \E i \in 1..(n - 1) : c[i] = e
  <2>1. PICK j \in 1..n : q[j] = e
    BY <1>1 DEF Lists
  <2>2. j # p /\ p \in 1..n
    BY <2>1 DEF n
  <2>3. CASE j < p
    <3>1. j \in 1..(n - 1)
      BY <1>1, <2>2, <2>3
    <3> QED
      BY <1>4, <2>1, <2>3, <3>1
  <2>4. CASE p < j
    <3>1. j - 1 \in 1..(n - 1) /\ ~(j - 1 < p) /\ (j - 1) + 1 = j
      BY <1>1, <2>2, <2>4
    <3>2. c[j - 1] = q[(j - 1) + 1]
      BY <1>4, <3>1
    <3> QED
      BY <2>1, <3>1, <3>2
  <2> QED
    BY <2>2, <2>3, <2>4
<1>7. ASSUME NEW i \in 1..(n - 1), NEW j \in 1..(n - 1), i < j
      PROVE  Precedes(c[i], c[j])
  <2>1. PICK k \in 1..n, l \in 1..n : c[i] = q[k] /\ c[j] = q[l] /\ k < l
    <3>1. p \in 1..n
      BY DEF n
    <3> QED
      BY <1>1, <1>4, <1>7, <3>1
  <2> QED
    BY <1>3, <2>1
<1>8. n - 1 \in Nat
  BY <1>1 DEF n
<1>9. Lists(c, n - 1, T)
  BY <1>5, <1>6, <1>7, <1>8 DEF Lists
<1>10. n - 1 = Cardinality(T) /\ c = Sorted(T)
  <2> HIDE DEF c, T
  <2> QED
    BY <1>2, <1>9, ListIsSorted
<1> QED
  BY <1>2, <1>10 DEF n, q

-----------------------------------------------------------------------------
\* The agenda of S as a sequence of appointments.
Appointment == [event : Nat, at : Nat]

LEMMA AgendaIsSeq ==
    ASSUME NEW S, Keyed(S)
    PROVE  /\ Cardinality(S) \in Nat
           /\ Agenda(S) \in Seq(Appointment) /\ Len(Agenda(S)) = Cardinality(S)
           /\ \A i \in 1..Cardinality(S) :
                /\ Sorted(S)[i] \in S
                /\ Agenda(S)[i] = [event |-> Sorted(S)[i].impl, at |-> Sorted(S)[i].ts]
                /\ Agenda(S)[i].event = Sorted(S)[i].impl
                /\ Agenda(S)[i].at = Sorted(S)[i].ts
<1> DEFINE n == Cardinality(S)
<1>1. n \in Nat /\ Sorted(S) \in [1..n -> S]
  BY SortedLists DEF Lists
<1>2. ASSUME NEW i \in 1..n
      PROVE  /\ Agenda(S)[i] = [event |-> Sorted(S)[i].impl, at |-> Sorted(S)[i].ts]
             /\ Agenda(S)[i] \in Appointment
             /\ Agenda(S)[i].event = Sorted(S)[i].impl
             /\ Agenda(S)[i].at = Sorted(S)[i].ts
  <2>1. Sorted(S)[i] \in Event
    BY <1>1 DEF Keyed
  <2>2. Agenda(S)[i] = [event |-> Sorted(S)[i].impl, at |-> Sorted(S)[i].ts]
    BY DEF Agenda
  <2> QED
    BY <2>1, <2>2 DEF Event, Appointment
<1>3. Agenda(S) \in [1..n -> Appointment]
  BY <1>2 DEF Agenda
<1> HIDE DEF n
<1>4. Agenda(S) \in Seq(Appointment)
  BY <1>1, <1>3, SeqDef
<1>5. Len(Agenda(S)) = n
  BY <1>1, <1>3, <1>4, LenProperties
<1> QED
  BY <1>1, <1>2, <1>4, <1>5 DEF n

LEMMA RemovedAt ==
    ASSUME NEW q \in Seq(Appointment), NEW p \in 1..Len(q)
    PROVE  /\ Calendar!RemoveAt(q, p) \in Seq(Appointment)
           /\ Len(Calendar!RemoveAt(q, p)) = Len(q) - 1
           /\ \A i \in 1..(Len(q) - 1) :
                Calendar!RemoveAt(q, p)[i] = IF i < p THEN q[i] ELSE q[i + 1]
<1> DEFINE a == SubSeq(q, 1, p - 1)
           b == SubSeq(q, p + 1, Len(q))
<1>0. Len(q) \in Nat /\ p \in Int /\ \A i \in 1..Len(q) : q[i] \in Appointment
  BY LenProperties
<1>1. /\ a \in Seq(Appointment) /\ Len(a) = p - 1
      /\ \A i \in 1..(p - 1) : a[i] = q[i]
  <2>1. \A i \in 1..(p - 1) : q[i] \in Appointment
    BY <1>0
  <2>2. /\ a \in Seq(Appointment) /\ Len(a) = IF 1 <= p - 1 THEN (p - 1) - 1 + 1 ELSE 0
        /\ \A i \in 1..((p - 1) - 1 + 1) : a[i] = q[1 + i - 1]
    BY <1>0, <2>1, SubSeqProperties
  <2> HIDE DEF a
  <2> QED
    BY <1>0, <2>2
<1>2. /\ b \in Seq(Appointment) /\ Len(b) = Len(q) - p
      /\ \A i \in 1..(Len(q) - p) : b[i] = q[p + i]
  <2>1. \A i \in (p + 1)..Len(q) : q[i] \in Appointment
    BY <1>0
  <2>2. /\ b \in Seq(Appointment)
        /\ Len(b) = IF p + 1 <= Len(q) THEN Len(q) - (p + 1) + 1 ELSE 0
        /\ \A i \in 1..(Len(q) - (p + 1) + 1) : b[i] = q[p + 1 + i - 1]
    BY <1>0, <2>1, SubSeqProperties
  <2> HIDE DEF b
  <2> QED
    BY <1>0, <2>2
<1> HIDE DEF a, b
<1>3. /\ a \o b \in Seq(Appointment) /\ Len(a \o b) = Len(q) - 1
      /\ \A i \in 1..(Len(q) - 1) : (a \o b)[i] = IF i <= p - 1 THEN a[i] ELSE b[i - (p - 1)]
  BY <1>0, <1>1, <1>2, ConcatProperties
<1>4. Calendar!RemoveAt(q, p) = a \o b
  BY DEF Calendar!RemoveAt, a, b
<1>5. ASSUME NEW i \in 1..(Len(q) - 1)
      PROVE  (a \o b)[i] = IF i < p THEN q[i] ELSE q[i + 1]
  <2>1. CASE i < p
    BY <1>0, <1>1, <1>3, <2>1
  <2>2. CASE ~(i < p)
    <3>1. i - (p - 1) \in 1..(Len(q) - p) /\ p + (i - (p - 1)) = i + 1
      BY <1>0, <2>2
    <3>2. b[i - (p - 1)] = q[i + 1]
      BY <1>2, <3>1
    <3> QED
      BY <1>0, <1>3, <2>2, <3>2
  <2> QED
    BY <2>1, <2>2
<1> QED
  BY <1>3, <1>4, <1>5

LEMMA InsertedAt ==
    ASSUME NEW q \in Seq(Appointment), NEW p \in 1..(Len(q) + 1), NEW a \in Appointment
    PROVE  /\ Calendar!InsertAt(q, p, a) \in Seq(Appointment)
           /\ Len(Calendar!InsertAt(q, p, a)) = Len(q) + 1
           /\ \A i \in 1..(Len(q) + 1) :
                Calendar!InsertAt(q, p, a)[i] =
                  IF i < p THEN q[i] ELSE IF i = p THEN a ELSE q[i - 1]
<1> DEFINE b == SubSeq(q, 1, p - 1)
           c == SubSeq(q, p, Len(q))
<1>0. Len(q) \in Nat /\ p \in Int /\ \A i \in 1..Len(q) : q[i] \in Appointment
  BY LenProperties
<1>1. /\ b \in Seq(Appointment) /\ Len(b) = p - 1
      /\ \A i \in 1..(p - 1) : b[i] = q[i]
  <2>1. \A i \in 1..(p - 1) : q[i] \in Appointment
    BY <1>0
  <2>2. /\ b \in Seq(Appointment) /\ Len(b) = IF 1 <= p - 1 THEN (p - 1) - 1 + 1 ELSE 0
        /\ \A i \in 1..((p - 1) - 1 + 1) : b[i] = q[1 + i - 1]
    BY <1>0, <2>1, SubSeqProperties
  <2> HIDE DEF b
  <2> QED
    BY <1>0, <2>2
<1>2. /\ c \in Seq(Appointment) /\ Len(c) = Len(q) - p + 1
      /\ \A i \in 1..(Len(q) - p + 1) : c[i] = q[p + i - 1]
  <2>1. \A i \in p..Len(q) : q[i] \in Appointment
    BY <1>0
  <2>2. /\ c \in Seq(Appointment) /\ Len(c) = IF p <= Len(q) THEN Len(q) - p + 1 ELSE 0
        /\ \A i \in 1..(Len(q) - p + 1) : c[i] = q[p + i - 1]
    BY <1>0, <2>1, SubSeqProperties
  <2> HIDE DEF c
  <2> QED
    BY <1>0, <2>2
<1> HIDE DEF b, c
<1>3. <<a>> \in Seq(Appointment) /\ Len(<<a>>) = 1 /\ <<a>>[1] = a
  OBVIOUS
<1>4. /\ b \o <<a>> \in Seq(Appointment) /\ Len(b \o <<a>>) = p
      /\ \A i \in 1..p : (b \o <<a>>)[i] = IF i <= p - 1 THEN b[i] ELSE <<a>>[i - (p - 1)]
  BY <1>0, <1>1, <1>3, ConcatProperties
<1> DEFINE d == b \o <<a>>
<1>5. \A i \in 1..p : d[i] = IF i < p THEN q[i] ELSE a
  BY <1>0, <1>1, <1>3, <1>4
<1>6. d \in Seq(Appointment) /\ Len(d) = p
  BY <1>4
<1>7. Calendar!InsertAt(q, p, a) = d \o c
  BY DEF Calendar!InsertAt, b, c
<1> HIDE DEF d
<1>8. /\ d \o c \in Seq(Appointment) /\ Len(d \o c) = Len(q) + 1
      /\ \A i \in 1..(Len(q) + 1) : (d \o c)[i] = IF i <= p THEN d[i] ELSE c[i - p]
  BY <1>0, <1>2, <1>6, ConcatProperties
<1>9. ASSUME NEW i \in 1..(Len(q) + 1)
      PROVE  (d \o c)[i] = IF i < p THEN q[i] ELSE IF i = p THEN a ELSE q[i - 1]
  <2>1. CASE i <= p
    BY <1>0, <1>5, <1>8, <2>1
  <2>2. CASE ~(i <= p)
    <3>1. i - p \in 1..(Len(q) - p + 1) /\ p + (i - p) - 1 = i - 1
      BY <1>0, <2>2
    <3>2. c[i - p] = q[i - 1]
      BY <1>2, <3>1
    <3> QED
      BY <1>0, <1>8, <2>2, <3>2
  <2> QED
    BY <2>1, <2>2
<1> QED
  BY <1>7, <1>8, <1>9

\* Taking the p-th event out of a set takes the p-th appointment out of its agenda, and
\* putting it back puts it back.
LEMMA AgendaWithout ==
    ASSUME NEW S, Keyed(S), NEW p \in 1..Cardinality(S)
    PROVE  LET T == S \ {Sorted(S)[p]}
           IN  /\ Keyed(T) /\ p \in 1..(Len(Agenda(T)) + 1)
               /\ Agenda(T) = Calendar!RemoveAt(Agenda(S), p)
               /\ Agenda(S) = Calendar!InsertAt(Agenda(T), p, Agenda(S)[p])
<1> DEFINE T == S \ {Sorted(S)[p]}
           n == Cardinality(S)
<1>1. Keyed(T) /\ Cardinality(T) = n - 1 /\ Sorted(T) = Closed(Sorted(S), n, p)
  BY SortedWithout
<1>2. /\ n \in Nat /\ Agenda(S) \in Seq(Appointment) /\ Len(Agenda(S)) = n
      /\ \A i \in 1..n : Agenda(S)[i] = [event |-> Sorted(S)[i].impl, at |-> Sorted(S)[i].ts]
      /\ p \in 1..n
  BY AgendaIsSeq
<1> HIDE DEF T
<1>3. /\ Agenda(T) \in Seq(Appointment) /\ Len(Agenda(T)) = n - 1
      /\ \A i \in 1..(n - 1) :
           Agenda(T)[i] = [event |-> Sorted(T)[i].impl, at |-> Sorted(T)[i].ts]
  BY <1>1, AgendaIsSeq
<1> HIDE DEF n
<1>4. ASSUME NEW i \in 1..(n - 1)
      PROVE  Agenda(T)[i] = IF i < p THEN Agenda(S)[i] ELSE Agenda(S)[i + 1]
  <2>1. Sorted(T)[i] = IF i < p THEN Sorted(S)[i] ELSE Sorted(S)[i + 1]
    BY <1>1 DEF Closed
  <2>2. i \in 1..n /\ i + 1 \in 1..n
    BY <1>2
  <2> QED
    BY <1>2, <1>3, <2>1, <2>2
<1>5. Agenda(S)[p] \in Appointment
  BY <1>2, ElementOfSeq
<1>6. Agenda(T) = Calendar!RemoveAt(Agenda(S), p)
  <2> DEFINE r == Calendar!RemoveAt(Agenda(S), p)
  <2>1. /\ r \in Seq(Appointment) /\ Len(r) = n - 1
        /\ \A i \in 1..(n - 1) : r[i] = IF i < p THEN Agenda(S)[i] ELSE Agenda(S)[i + 1]
    BY <1>2, RemovedAt
  <2> HIDE DEF r
  <2>2. Agenda(T) = r
    BY <1>3, <1>4, <2>1, SeqEqual
  <2> QED
    BY <2>2 DEF r
<1>7. Agenda(S) = Calendar!InsertAt(Agenda(T), p, Agenda(S)[p])
  <2> DEFINE r == Calendar!InsertAt(Agenda(T), p, Agenda(S)[p])
  <2>0. p \in 1..(Len(Agenda(T)) + 1) /\ Len(Agenda(T)) + 1 = n
    BY <1>2, <1>3
  <2>1. /\ r \in Seq(Appointment) /\ Len(r) = n
        /\ \A i \in 1..n :
             r[i] = IF i < p THEN Agenda(T)[i]
                    ELSE IF i = p THEN Agenda(S)[p] ELSE Agenda(T)[i - 1]
    <3>1. /\ r \in Seq(Appointment) /\ Len(r) = Len(Agenda(T)) + 1
          /\ \A i \in 1..(Len(Agenda(T)) + 1) :
               r[i] = IF i < p THEN Agenda(T)[i]
                      ELSE IF i = p THEN Agenda(S)[p] ELSE Agenda(T)[i - 1]
      <4>1. Agenda(T) \in Seq(Appointment) /\ Agenda(S)[p] \in Appointment
        BY <1>3, <1>5
      <4> QED
        BY <2>0, <4>1, InsertedAt, Zenon
    <3> HIDE DEF r
    <3> QED
      BY <2>0, <3>1
  <2>2. ASSUME NEW i \in 1..n
        PROVE  Agenda(S)[i] = r[i]
    <3>1. CASE i < p
      <4>1. i \in 1..(n - 1)
        BY <1>2, <3>1
      <4> QED
        BY <1>4, <2>1, <3>1, <4>1
    <3>2. CASE i = p
      BY <1>2, <2>1, <3>2
    <3>3. CASE i > p
      <4>1. i - 1 \in 1..(n - 1) /\ ~(i - 1 < p) /\ (i - 1) + 1 = i /\ ~(i < p) /\ i # p
        BY <1>2, <3>3
      <4>2. Agenda(T)[i - 1] = Agenda(S)[i]
        BY <1>4, <4>1
      <4> QED
        BY <2>1, <4>1, <4>2
    <3> QED
      BY <1>2, <3>1, <3>2, <3>3
  <2> HIDE DEF r
  <2>3. Agenda(S) = r
    BY <1>2, <2>1, <2>2, SeqEqual
  <2> QED
    BY <2>3 DEF r
<1> QED
  BY <1>1, <1>2, <1>3, <1>6, <1>7 DEF T

LEMMA First ==
    ASSUME NEW S, Keyed(S), NEW e \in S, \A f \in S \ {e} : Precedes(e, f)
    PROVE  /\ 1 \in 1..Cardinality(S) /\ Sorted(S)[1] = e
           /\ Agenda(S) # <<>> /\ Head(Agenda(S)) = [event |-> e.impl, at |-> e.ts]
           /\ Agenda(S \ {e}) = Tail(Agenda(S))
<1> DEFINE n == Cardinality(S)
           q == Agenda(S)
<1>1. Lists(Sorted(S), n, S)
  BY SortedLists
<1>2. PICK p \in 1..n : Sorted(S)[p] = e
  BY <1>1 DEF Lists
<1>3. n \in Nat /\ 1 \in 1..n /\ Sorted(S)[1] \in S
  BY <1>1, <1>2 DEF Lists
<1>4. ~(1 < p)
  <2>1. 1 < p => Precedes(Sorted(S)[1], e)
    BY <1>1, <1>2, <1>3 DEF Lists
  <2> QED
    BY <1>3, <2>1, PrecedesIsOrder
<1>5. p = 1
  BY <1>3, <1>4
<1>6. /\ q \in Seq(Appointment) /\ Len(q) = n
      /\ q[1] = [event |-> e.impl, at |-> e.ts]
  BY <1>2, <1>3, <1>5, AgendaIsSeq
<1>7. Agenda(S \ {e}) = Calendar!RemoveAt(q, 1)
  BY <1>2, <1>3, <1>5, AgendaWithout
<1> HIDE DEF n, q
<1>8. q # <<>> /\ Head(q) = q[1]
  BY <1>3, <1>6
<1>9. Calendar!RemoveAt(q, 1) = Tail(q)
  <2>1. Calendar!RemoveAt(q, 1) = SubSeq(q, 1, 0) \o SubSeq(q, 2, Len(q))
    BY DEF Calendar!RemoveAt
  <2>2. SubSeq(q, 1, 0) = <<>>
    BY SubSeqEmpty
  <2>3. Tail(q) = SubSeq(q, 2, Len(q)) /\ Tail(q) \in Seq(Appointment)
    BY <1>6, <1>8, TailIsSubSeq, HeadTailProperties
  <2> QED
    BY <2>1, <2>2, <2>3, ConcatEmptySeq
<1> QED
  BY <1>2, <1>3, <1>5, <1>6, <1>7, <1>8, <1>9 DEF n, q

-----------------------------------------------------------------------------
Kept == ran \ EventsOfDestroy

LEMMA PendingKeyed ==
    ASSUME Bounded, Known
    PROVE  Keyed(Pending) /\ m_currentTs \in Nat
<1>1. Pending \in SUBSET m_events /\ m_events \subseteq Event /\ IsFiniteSet(m_events)
  BY DEF Pending, Bounded, StateTypeOK
<1>2. IsFiniteSet(Pending)
  BY <1>1, FS_Subset
<1> QED
  BY <1>1, <1>2 DEF Keyed, Known, Identified, Bounded, StateTypeOK

LEMMA SameAgenda ==
    ASSUME Pending' = Pending, m_currentTs' = m_currentTs, Kept' = Kept
    PROVE  UNCHANGED Calendar!calendarVars
BY DEF Calendar!calendarVars, Kept

LEMMA StrikesOut ==
    ASSUME Keyed(Pending), NEW e \in Pending, Pending' = Pending \ {e},
           m_currentTs' = m_currentTs, Kept' = Kept
    PROVE  Calendar!CalendarNext
<1>1. PICK p \in 1..Cardinality(Pending) : Sorted(Pending)[p] = e
  BY SortedLists DEF Lists
<1>2. p \in 1..Len(Agenda(Pending))
  BY AgendaIsSeq
<1>3. Agenda(Pending') = Calendar!RemoveAt(Agenda(Pending), p)
  BY <1>1, AgendaWithout
<1>4. Calendar!StrikeOut
  BY <1>2, <1>3 DEF Calendar!StrikeOut, Calendar!Positions, Kept
<1> QED
  BY <1>4 DEF Calendar!CalendarNext

LEMMA Closes ==
    ASSUME Pending' = {}, m_currentTs' = m_currentTs, Kept' = Kept
    PROVE  Calendar!CalendarNext
<1>1. Agenda(Pending') = <<>>
  BY FS_EmptySet DEF Agenda
<1>2. Calendar!Close
  BY <1>1 DEF Calendar!Close, Kept
<1> QED
  BY <1>2 DEF Calendar!CalendarNext

LEMMA Passes ==
    ASSUME Keyed(Pending), NEW e \in Event, \A f \in Pending : Precedes(e, f),
           Pending' = Pending, m_currentTs <= e.ts, m_currentTs' = e.ts, Kept' = Kept
    PROVE  Calendar!CalendarNext
<1>1. ASSUME NEW i \in 1..Len(Agenda(Pending))
      PROVE  m_currentTs' <= Agenda(Pending)[i].at
  <2>1. /\ Sorted(Pending)[i] \in Pending
        /\ Agenda(Pending)[i].at = Sorted(Pending)[i].ts
    BY AgendaIsSeq
  <2>2. Precedes(e, Sorted(Pending)[i]) /\ Sorted(Pending)[i].ts \in Nat /\ e.ts \in Nat
    BY <2>1 DEF Keyed, Event
  <2> QED
    BY <2>1, <2>2 DEF Precedes
<1>2. Calendar!Pass
  BY <1>1 DEF Calendar!Pass, Calendar!Positions, Kept
<1> QED
  BY <1>2 DEF Calendar!CalendarNext

LEMMA Keeps ==
    ASSUME Keyed(Pending), NEW e \in Pending, \A f \in Pending \ {e} : Precedes(e, f),
           Pending' = Pending \ {e}, m_currentTs' = e.ts, Kept' = Kept \cup {e.impl}
    PROVE  Calendar!CalendarNext
<1> DEFINE A == Agenda(Pending)
<1>1. /\ A # <<>> /\ Head(A) = [event |-> e.impl, at |-> e.ts]
      /\ Agenda(Pending') = Tail(A)
  BY First
<1> HIDE DEF A
<1>2. m_currentTs' = Head(A).at /\ Kept' = Kept \cup {Head(A).event}
  BY <1>1
<1>3. Calendar!Keep
  BY <1>1, <1>2 DEF Calendar!Keep, Kept, A
<1> QED
  BY <1>3 DEF Calendar!CalendarNext

LEMMA Appoints ==
    ASSUME Keyed(Pending), NEW x \in Event, NEW d \in Delays,
           Pending' = Pending \cup {x}, x.ts = m_currentTs + d,
           \A e \in Pending : e.uid < x.uid /\ e.impl # x.impl,
           x.impl \in 1..MaxEvents \ Kept, m_currentTs' = m_currentTs, Kept' = Kept
    PROVE  Calendar!CalendarNext
<1> DEFINE T == Pending'
           n == Cardinality(T)
           A == Agenda(Pending)
<1>a. Keyed(T)
  <2>1. IsFiniteSet(Pending \cup {x})
    BY FS_AddElement DEF Keyed
  <2>2. \A e \in Pending : e.uid # x.uid
    BY DEF Keyed, Event
  <2> QED
    BY <2>1, <2>2 DEF Keyed
<1>0. x \notin Pending /\ x \in T /\ Pending = T \ {x}
  <2>1. \A e \in Pending : e.impl # x.impl
    OBVIOUS
  <2> QED
    BY <2>1
<1>1. Lists(Sorted(T), n, T)
  BY <1>a, SortedLists
<1>2. PICK p \in 1..n : Sorted(T)[p] = x
  BY <1>0, <1>1 DEF Lists
<1>3. /\ n \in Nat /\ p \in 1..(Len(A) + 1)
      /\ Agenda(T) = Calendar!InsertAt(A, p, Agenda(T)[p])
  BY <1>a, <1>0, <1>1, <1>2, AgendaWithout DEF Lists
<1>4. Agenda(T)[p] = [event |-> x.impl, at |-> m_currentTs + d]
  BY <1>a, <1>2, AgendaIsSeq
<1>5. /\ Len(A) = n - 1
      /\ Sorted(Pending) = Closed(Sorted(T), n, p)
      /\ \A i \in 1..(n - 1) :
           /\ A[i].event = Sorted(Pending)[i].impl /\ A[i].at = Sorted(Pending)[i].ts
           /\ Sorted(Pending)[i] \in Pending
  <2>1. /\ Cardinality(Pending) = n - 1 /\ Sorted(Pending) = Closed(Sorted(T), n, p)
    BY <1>a, <1>0, <1>2, SortedWithout
  <2> HIDE DEF n, T
  <2> QED
    BY <2>1, AgendaIsSeq
<1>6. ASSUME NEW i \in 1..(n - 1)
      PROVE  A[i].at <= m_currentTs + d <=> i <= p - 1
  <2> DEFINE e == Sorted(Pending)[i]
  <2>1. e = IF i < p THEN Sorted(T)[i] ELSE Sorted(T)[i + 1]
    BY <1>5 DEF Closed
  <2>2. e \in Pending /\ A[i].at = e.ts
    BY <1>5
  <2>3. Precedes(e, x) <=> i < p
    <3>1. \A j, k \in 1..n : Precedes(Sorted(T)[j], Sorted(T)[k]) <=> j < k
      BY <1>a, <1>1, ListIsOneToOne
    <3>2. i \in 1..n /\ i + 1 \in 1..n
      BY <1>3
    <3>3. CASE i < p
      BY <1>2, <2>1, <3>1, <3>2, <3>3
    <3>4. CASE ~(i < p)
      <4>1. ~(i + 1 < p)
        BY <1>3, <3>4
      <4> QED
        BY <1>2, <2>1, <3>1, <3>2, <3>4, <4>1
    <3> QED
      BY <3>3, <3>4
  <2> HIDE DEF e
  <2>4. Precedes(e, x) <=> e.ts <= x.ts
    <3>1. e.uid < x.uid /\ e.ts \in Nat /\ x.ts \in Nat
      BY <2>2 DEF Keyed, Event
    <3> QED
      BY <3>1 DEF Precedes
  <2> QED
    BY <1>3, <2>2, <2>3, <2>4
<1>7. \A i \in 1..(n - 1) : A[i].event # x.impl
  BY <1>5
<1>8. Calendar!Appoint(x.impl, d)
  <2>1. p - 1 \in 0..Len(A) /\ (p - 1) + 1 = p
    BY <1>3, <1>5
  <2>2. Agenda(Pending') = Calendar!InsertAt(A, (p - 1) + 1,
                                     [event |-> x.impl, at |-> m_currentTs + d])
    BY <1>3, <1>4, <2>1
  <2>3. \A i \in 1..Len(A) : A[i].event # x.impl /\ (A[i].at <= m_currentTs + d <=> i <= p - 1)
    BY <1>5, <1>6, <1>7
  <2> HIDE DEF T, n
  <2> QED
    BY <2>1, <2>2, <2>3 DEF Calendar!Appoint, Calendar!Positions, Kept
<1> QED
  BY <1>8 DEF Calendar!CalendarNext

-----------------------------------------------------------------------------
\* What was handed over was handed over with one of the delays, and the events of
\* Destroy have EventIds.
Handed ==
    /\ \A x \in m_eventsWithContext \cup batch : x.delay \in Delays
    /\ m_destroyEvents \subseteq issued

LEMMA HandedStep ==
    ASSUME Bounded, Handed, [SimulatorNext]_simulatorVars
    PROVE  Handed'
<1> USE DEF queue, clock, mailbox, history
<1>1. ASSUME ShrinkingStep PROVE Handed'
  BY <1>1, ShrinkingSteps DEF Bounded, Shrinks, Handed
<1>2. ASSUME NEW d \in Delays, NewEvent(d) PROVE Handed'
  BY <1>2 DEF NewEvent, Handed
<1>3. ASSUME NEW d \in Delays, HandOver(d) PROVE Handed'
  BY <1>3 DEF HandOver, Handed
<1>4. ASSUME NewDestroyEvent PROVE Handed'
  BY <1>4 DEF NewDestroyEvent, Handed
<1>5. ASSUME Swap PROVE Handed'
  BY <1>5 DEF Swap, Handed
<1>6. ASSUME NEW x \in batch, DrainOne(x) PROVE Handed'
  BY <1>6 DEF DrainOne, Handed
<1>7. ASSUME Drain, UNCHANGED <<queue, batch>> PROVE Handed'
  BY <1>7 DEF Drain, Handed
<1> QED
  BY <1>1, <1>2, <1>3, <1>4, <1>5, <1>6, <1>7, StepKinds

\* An event is in the map or for Destroy, and its number tells which.
LEMMA OneEventPerNumber ==
    ASSUME Bounded, Known, Handed
    PROVE  /\ \A e, f \in m_events \cup m_destroyEvents \cup issued : e.impl = f.impl => e = f
           /\ \A e \in m_events : e.uid # DESTROY /\ e.impl \notin EventsOfDestroy
           /\ \A e \in m_destroyEvents : e.uid = DESTROY /\ e.impl \in EventsOfDestroy
<1>1. \A e \in m_events : e.uid # DESTROY
  BY EventTypes DEF Bounded, StateTypeOK, Queued, DESTROY, VALID
<1> QED
  BY <1>1 DEF Known, Identified, Handed, EventsOfDestroy

CalendarStep == [Calendar!CalendarNext]_(Calendar!calendarVars)

\* Cancel and Remove strike the event out if it is in the map.
LEMMA WithdrawalSteps ==
    ASSUME Bounded, Known, Handed, NEW id \in issued,
           Cancel(id) \/ RemoveDestroyEvent(id) \/ RemoveEvent(id)
    PROVE  CalendarStep
<1>a. ~IsExpired(id) <=> id \in m_events \cup m_destroyEvents /\ id.impl \notin cancelled
  BY IsExpiredHolds DEF ExpiryIsTruth
<1>b. /\ m_currentTs' = m_currentTs /\ ran' = ran /\ issued' = issued
      /\ Kept' = Kept
  BY DEF Cancel, RemoveDestroyEvent, RemoveEvent, clock, Kept, EventsOfDestroy
<1>1. CASE Pending' = Pending
  BY <1>b, <1>1, SameAgenda DEF CalendarStep
<1>2. CASE id \in Pending /\ Pending' = Pending \ {id}
  BY <1>b, <1>2, PendingKeyed, StrikesOut DEF CalendarStep
<1>3. CASE IsExpired(id) \/ RemoveDestroyEvent(id)
  BY <1>1, <1>3 DEF Cancel, RemoveDestroyEvent, RemoveEvent, Pending, queue
<1>4. CASE ~IsExpired(id) /\ Cancel(id)
  <2>1. m_events' = m_events /\ cancelled' = cancelled \cup {id.impl}
    BY <1>4 DEF Cancel, queue
  <2>2. CASE id \in m_events
    BY <1>2, <1>4, <1>a, <2>1, <2>2, OneEventPerNumber DEF Pending
  <2>3. CASE id \notin m_events
    BY <1>1, <1>4, <1>a, <2>1, <2>3, OneEventPerNumber DEF Pending
  <2> QED
    BY <2>2, <2>3
<1>5. CASE ~IsExpired(id) /\ RemoveEvent(id)
  <2>1. /\ id \in m_events /\ m_events' = m_events \ {id}
        /\ cancelled' = cancelled \cup {id.impl}
    BY <1>5, RemovesItself DEF RemoveEvent
  <2> QED
    BY <1>2, <1>5, <1>a, <2>1, OneEventPerNumber DEF Pending
<1> QED
  BY <1>3, <1>4, <1>5

\* The first event of the map is kept, or was struck out and only its time comes.
LEMMA ProcessSteps ==
    ASSUME Bounded, Known, Handed, ProcessOneEvent
    PROVE  CalendarStep
<1> PICK e \in m_events :
      /\ \A f \in m_events \ {e} : Precedes(e, f)
      /\ m_events' = m_events \ {e}
      /\ m_currentTs' = e.ts
      /\ \/ e.impl \in cancelled /\ ran' = ran
         \/ e.impl \notin cancelled /\ ran' = ran \cup {e.impl}
  BY DEF ProcessOneEvent
<1>1. cancelled' = cancelled /\ issued' = issued /\ EventsOfDestroy' = EventsOfDestroy
  BY DEF ProcessOneEvent, EventsOfDestroy
<1>2. e \in Event /\ Keyed(Pending) /\ m_currentTs \in Nat /\ Pending \subseteq m_events
  BY PendingKeyed DEF Bounded, StateTypeOK, Pending
<1>3. m_currentTs <= e.ts
  BY <1>2 DEF Known, NothingInThePast, Precedes, Event
<1>4. CASE e.impl \in cancelled
  <2>1. Pending' = Pending /\ e \notin Pending /\ Kept' = Kept
    BY <1>1, <1>4 DEF Pending, Kept
  <2>2. \A f \in Pending : Precedes(e, f)
    BY <1>2, <2>1
  <2> QED
    BY <1>2, <1>3, <2>1, <2>2, Passes DEF CalendarStep
<1>5. CASE e.impl \notin cancelled
  <2>1. Pending' = Pending \ {e} /\ e \in Pending
    BY <1>1, <1>5 DEF Pending
  <2>2. Kept' = Kept \cup {e.impl}
    BY <1>1, <1>5, OneEventPerNumber DEF Kept
  <2> QED
    BY <1>2, <2>1, <2>2, Keeps DEF CalendarStep
<1> QED
  BY <1>4, <1>5

\* An event is drained or scheduled: an appointment behind all of its instant.
LEMMA InsertSteps ==
    ASSUME Bounded, Known, Accounted, Handed,
           NEW i \in Nat, NEW d \in Delays, NEW x, x = Inserted(i, d),
           i \in 1..MaxEvents, i \notin ran \cup cancelled,
           \A e \in m_events : e.impl # i,
           m_events' = m_events \cup {x}, cancelled' = cancelled, clock' = clock, ran' = ran,
           issued' \subseteq issued \cup {x}, issued \subseteq issued'
    PROVE  CalendarStep
<1>1. /\ x \in Event /\ x.impl = i /\ x.uid = m_uid /\ x.ts = m_currentTs + d
      /\ m_uid \in Nat /\ VALID <= m_uid
  BY FieldsOf, Numbers, SimulatorAssumption DEF Bounded, Room
<1>2. Keyed(Pending)
  BY PendingKeyed
<1>3. Pending' = Pending \cup {x}
  BY <1>1 DEF Pending
<1>4. \A e \in Pending : e.uid < x.uid /\ e.impl # x.impl
  BY <1>1 DEF Pending, Bounded, Queued
<1>5. Kept' = Kept
  <2>1. x.uid # DESTROY
    BY <1>1 DEF VALID, DESTROY
  <2>2. EventsOfDestroy' = EventsOfDestroy
    BY <2>1 DEF EventsOfDestroy
  <2> QED
    BY <2>2 DEF Kept
<1>6. x.impl \in 1..MaxEvents \ Kept
  BY <1>1 DEF Kept
<1>7. Calendar!CalendarNext
  BY <1>1, <1>2, <1>3, <1>4, <1>5, <1>6, Appoints DEF clock
<1> QED
  BY <1>7 DEF CalendarStep

LEMMA SimulatorSteps ==
    ASSUME Bounded, Known, Accounted, Handed, [SimulatorNext]_simulatorVars
    PROVE  CalendarStep
<1>a. /\ created \in Nat /\ created <= MaxEvents /\ MaxEvents \in Nat
      /\ cancelled \subseteq 1..created /\ ran \subseteq 1..created
  BY Numbers DEF Bounded, StateTypeOK
<1> USE DEF queue, clock, mailbox, history
<1>1. ASSUME UNCHANGED <<m_events, cancelled, m_currentTs, ran, issued>>
      PROVE  CalendarStep
  BY <1>1, SameAgenda DEF CalendarStep, Pending, Kept, EventsOfDestroy
<1>2. ASSUME UNCHANGED simulatorVars \/ QuietStep \/ Swap \/ (\E d \in Delays : HandOver(d))
             \/ (Drain /\ UNCHANGED <<queue, batch>>)
      PROVE  CalendarStep
  BY <1>1, <1>2, QuietSteps DEF simulatorVars, Quiet, Bounded, Swap, HandOver, Drain
<1>3. ASSUME InvokeDestroyEvent PROVE CalendarStep
  <2> PICK e \in m_destroyEvents : ran' = ran \/ ran' = ran \cup {e.impl}
    BY <1>3 DEF InvokeDestroyEvent
  <2>1. /\ Pending' = Pending /\ m_currentTs' = m_currentTs
        /\ EventsOfDestroy' = EventsOfDestroy
    BY <1>3 DEF InvokeDestroyEvent, Pending, EventsOfDestroy
  <2>2. Kept' = Kept
    BY <2>1, OneEventPerNumber DEF Kept
  <2> QED
    BY <2>1, <2>2, SameAgenda DEF CalendarStep
<1>4. ASSUME DoDispose PROVE CalendarStep
  <2>1. Pending' = {} /\ m_currentTs' = m_currentTs /\ Kept' = Kept
    BY <1>4 DEF DoDispose, Pending, Kept, EventsOfDestroy
  <2> QED
    BY <2>1, Closes DEF CalendarStep
<1>5. ASSUME NEW d \in Delays, NewEvent(d) PROVE CalendarStep
  <2>1. created + 1 \in Nat /\ created + 1 \in 1..MaxEvents /\ created + 1 \notin 1..created
    BY <1>5, <1>a DEF NewEvent
  <2>2. \A e \in m_events : e.impl # created + 1
    BY <2>1 DEF Bounded, Queued
  <2> QED
    BY <1>5, <1>a, <2>1, <2>2, InsertSteps DEF NewEvent
<1>6. ASSUME NEW x \in batch, DrainOne(x) PROVE CalendarStep
  <2>1. x.impl \in 1..created /\ x.impl \in Nat /\ x.delay \in Delays
    BY <1>a DEF Bounded, Queued, Handed
  <2>2. x.impl \notin ran
    BY DEF Accounted, EventsAccounted, Waiting
  <2>3. x.impl \notin cancelled /\ \A e \in m_events : e.impl # x.impl
    BY DEF Accounted, Withdrawals, Known, Identified
  <2>4. x.impl \in 1..MaxEvents
    BY <1>a, <2>1
  <2> QED
    BY <1>6, <2>1, <2>2, <2>3, <2>4, InsertSteps DEF DrainOne
<1>7. ASSUME NewDestroyEvent PROVE CalendarStep
  <2>1. DestroyId.uid = DESTROY /\ DestroyId.impl = created + 1
    BY DEF DestroyId
  <2>2. issued' = issued \cup {DestroyId}
    BY <1>7 DEF NewDestroyEvent
  <2>3. EventsOfDestroy' = EventsOfDestroy \cup {created + 1}
    BY <2>1, <2>2 DEF EventsOfDestroy
  <2>4. /\ Pending' = Pending /\ m_currentTs' = m_currentTs /\ ran' = ran
        /\ EventsOfDestroy' = EventsOfDestroy \cup {created + 1}
    BY <1>7, <2>3 DEF NewDestroyEvent, Pending
  <2>5. created + 1 \notin ran
    BY <1>a
  <2>6. Kept' = Kept
    BY <2>4, <2>5 DEF Kept
  <2> QED
    BY <2>4, <2>6, SameAgenda DEF CalendarStep
<1> QED
  BY <1>2, <1>3, <1>4, <1>5, <1>6, <1>7, StepKinds, WithdrawalSteps, ProcessSteps
     DEF ShrinkingStep

\* The event queue implements the calendar: whatever handlers and other threads do,
\* handlers are called in the order of the appointments (ProcessOneEvent, Cancel,
\* Remove, ProcessEventsWithContext).
THEOREM EventsRunLikeACalendar == SimulatorSpec => RunsLikeACalendar
<1>1. SimulatorInit => Handed /\ Calendar!CalendarInit
  <2> HAVE SimulatorInit
  <2>1. Pending = {} /\ Kept = {} /\ m_currentTs = 0
    BY DEF SimulatorInit, Pending, Kept
  <2>2. Agenda(Pending) = <<>>
    BY <2>1, FS_EmptySet DEF Agenda
  <2>3. Handed
    BY DEF SimulatorInit, Handed
  <2> QED
    BY <2>1, <2>2, <2>3 DEF Calendar!CalendarInit, Kept
<1>2. Bounded /\ Handed /\ [SimulatorNext]_simulatorVars => Handed'
  BY HandedStep
<1>3. Bounded /\ Known /\ Accounted /\ Handed /\ [SimulatorNext]_simulatorVars
        => [Calendar!CalendarNext]_(Calendar!calendarVars)
  BY SimulatorSteps DEF CalendarStep
<1> QED
  BY <1>1, <1>2, <1>3, UidsDoNotWrap, EventsAreKnown, EventsAreAccounted, PTL
     DEF SimulatorSpec, RunsLikeACalendar, Calendar!CalendarSpec
=============================================================================

------------------------ MODULE DefaultSimulatorImpl -------------------------
(***************************************************************************)
(* The event queue under every part of the protocol                        *)
(* (src/core/model/default-simulator-impl.cc over map-scheduler.cc): every *)
(* ant, timer and frame is an event of it.  The thread that calls Run      *)
(* takes events out one by one and calls their handlers, which schedule,   *)
(* cancel and remove others; any other thread hands events over through a  *)
(* list with a lock of its own.  Event i is the i-th EventImpl made, so a  *)
(* list is a set whose front is its least event.  Handlers, contexts and   *)
(* the count of events are left out.                                       *)
(***************************************************************************)
EXTENDS Integers, FiniteSets

CONSTANTS
    Delays,      \* the delays that events are scheduled with
    MaxEvents,   \* bound: the events made in one life of the simulator
    UidMod       \* m_uid counts modulo this (2^32)

DESTROY == 2     \* EventId::UID
VALID == 4

ASSUME SimulatorAssumption ==
    /\ Delays \subseteq Nat /\ MaxEvents \in Nat /\ UidMod \in Nat
    /\ MaxEvents + VALID < UidMod

VARIABLES
    pc,                        \* where the main thread is
    m_events,                  \* the scheduler's map: events by time stamp and uid
    m_eventsWithContext,       \* handed over by other threads, not seen yet
    m_eventsWithContextEmpty,  \* the flag that is read without the lock
    batch,                     \* eventsWithContext, the local list swapped out
    m_destroyEvents,           \* events for Destroy
    m_stop,
    m_uid,                     \* of the next event
    m_currentUid,              \* of the event that runs or ran last
    m_currentTs,               \* Now()
    m_unscheduledEvents,       \* the count kept for the assertion of Run
    cancelled,                 \* the events whose m_cancel is set
    created,                   \* history: how many events were made
    issued,                    \* history: the EventIds returned
    ran,                       \* history: the events whose handler was called
    withdrawn                  \* history: cancelled or removed by the program in time

queue == <<m_events, m_uid, m_unscheduledEvents>>
clock == <<m_currentTs, m_currentUid>>
mailbox == <<m_eventsWithContext, m_eventsWithContextEmpty>>
history == <<issued, ran, withdrawn>>
simulatorVars == <<pc, queue, clock, mailbox, batch, m_destroyEvents, m_stop,
                   cancelled, created, history>>

Event == [impl : Nat, ts : Nat, uid : Nat]
HandedOver == [impl : Nat, delay : Nat]

StateTypeOK ==
    /\ pc \in {"user", "look", "swap", "drain", "loop", "handler",
               "destroying", "destroy", "disposed"}
    /\ m_events \subseteq Event /\ IsFiniteSet(m_events)
    /\ m_destroyEvents \subseteq Event /\ issued \subseteq Event
    /\ m_eventsWithContext \subseteq HandedOver /\ batch \subseteq HandedOver
    /\ m_eventsWithContextEmpty \in BOOLEAN /\ m_stop \in BOOLEAN
    /\ m_uid \in 0..(UidMod - 1) /\ m_currentUid \in 0..(UidMod - 1)
    /\ m_currentTs \in Nat
    /\ created \in 0..MaxEvents
    /\ cancelled \subseteq 1..created
    /\ ran \subseteq 1..created /\ withdrawn \subseteq 1..created

\* Types, and the count of unscheduled events is never negative.
SimulatorTypeOK == StateTypeOK /\ m_unscheduledEvents \in Nat

SimulatorInit ==
    /\ pc = "user"
    /\ m_events = {} /\ m_unscheduledEvents = 0 /\ m_uid = VALID
    /\ m_currentTs = 0 /\ m_currentUid = 0
    /\ m_eventsWithContext = {} /\ m_eventsWithContextEmpty = TRUE
    /\ batch = {} /\ m_destroyEvents = {} /\ m_stop = FALSE
    /\ cancelled = {} /\ created = 0
    /\ issued = {} /\ ran = {} /\ withdrawn = {}

-----------------------------------------------------------------------------
\* EventKey's operator<.  (Mutant: the last one made of an instant first.)
LastFirst(e, f) == e.ts < f.ts \/ (e.ts = f.ts /\ e.uid > f.uid)

Precedes(e, f) == e.ts < f.ts \/ (e.ts = f.ts /\ e.uid < f.uid)

NextUid == IF m_uid + 1 = UidMod THEN 0 ELSE m_uid + 1

\* The one that was pushed first.
IsFront(x, S) == x \in S /\ \A y \in S : x.impl <= y.impl

\* (Mutant: an event whose uid is passed counts as expired whatever its time.)
ExpiredByUid(id) ==
    \/ id.uid = DESTROY /\ (id.impl \in cancelled \/ id \notin m_destroyEvents)
    \/ id.uid # DESTROY /\ \/ id.ts < m_currentTs \/ id.uid <= m_currentUid
                           \/ id.impl \in cancelled

IsExpired(id) ==
    \/ pc = "disposed"
    \/ id.uid = DESTROY /\ (id.impl \in cancelled \/ id \notin m_destroyEvents)
    \/ /\ id.uid # DESTROY
       /\ \/ id.ts < m_currentTs
          \/ id.ts = m_currentTs /\ id.uid <= m_currentUid
          \/ id.impl \in cancelled

\* The program's own code runs: outside Run, in a handler, in a handler of Destroy.
UserCode == pc \in {"user", "handler", "destroy"}

Make == created < MaxEvents /\ created' = created + 1

\* An event enters the map.  (Mutants: at a time that was not made absolute, without
\* being counted.)
InsertRelative(i, delay) ==
    /\ m_events' = m_events \cup {[impl |-> i, ts |-> delay, uid |-> m_uid]}
    /\ m_uid' = NextUid
    /\ m_unscheduledEvents' = m_unscheduledEvents + 1

InsertUncounted(i, delay) ==
    /\ m_events' = m_events \cup {[impl |-> i, ts |-> m_currentTs + delay, uid |-> m_uid]}
    /\ m_uid' = NextUid
    /\ UNCHANGED m_unscheduledEvents

Insert(i, delay) ==
    /\ m_events' = m_events \cup {[impl |-> i, ts |-> m_currentTs + delay, uid |-> m_uid]}
    /\ m_uid' = NextUid
    /\ m_unscheduledEvents' = m_unscheduledEvents + 1

Schedule(delay) ==
    /\ UserCode /\ Make
    /\ Insert(created + 1, delay)
    /\ issued' = issued \cup
         {[impl |-> created + 1, ts |-> m_currentTs + delay, uid |-> m_uid]}
    /\ UNCHANGED <<pc, clock, mailbox, batch, m_destroyEvents, m_stop, cancelled,
                   ran, withdrawn>>

\* ScheduleWithContext on the main thread: no EventId is returned.
ScheduleWithContext(delay) ==
    /\ UserCode /\ Make
    /\ Insert(created + 1, delay)
    /\ UNCHANGED <<pc, clock, mailbox, batch, m_destroyEvents, m_stop, cancelled, history>>

\* ScheduleWithContext on any other thread, under m_eventsWithContextMutex.
\* (Mutant: the flag is forgotten.)
HandOverUnannounced(delay) ==
    /\ pc # "disposed" /\ Make
    /\ m_eventsWithContext' = m_eventsWithContext \cup {[impl |-> created + 1, delay |-> delay]}
    /\ UNCHANGED <<pc, queue, clock, m_eventsWithContextEmpty, batch, m_destroyEvents,
                   m_stop, cancelled, history>>

HandOver(delay) ==
    /\ pc # "disposed" /\ Make
    /\ m_eventsWithContext' = m_eventsWithContext \cup {[impl |-> created + 1, delay |-> delay]}
    /\ m_eventsWithContextEmpty' = FALSE
    /\ UNCHANGED <<pc, queue, clock, batch, m_destroyEvents, m_stop, cancelled, history>>

ScheduleDestroy ==
    LET id == [impl |-> created + 1, ts |-> m_currentTs, uid |-> DESTROY]
    IN  /\ UserCode /\ Make
        /\ m_destroyEvents' = m_destroyEvents \cup {id}
        /\ issued' = issued \cup {id}
        /\ m_uid' = NextUid
        /\ UNCHANGED <<pc, m_events, m_unscheduledEvents, clock, mailbox, batch, m_stop,
                       cancelled, ran, withdrawn>>

-----------------------------------------------------------------------------
Withdraw(id) == withdrawn' = withdrawn \cup ({id.impl} \ ran)

Cancel(id) ==
    /\ UserCode /\ Withdraw(id)
    /\ cancelled' = IF IsExpired(id) THEN cancelled ELSE cancelled \cup {id.impl}
    /\ UNCHANGED <<pc, queue, clock, mailbox, batch, m_destroyEvents, m_stop, created,
                   issued, ran>>

\* An event of Destroy is taken off its list; its m_cancel stays as it is.
RemoveDestroyEvent(id) ==
    /\ UserCode /\ Withdraw(id)
    /\ id.uid = DESTROY
    /\ m_destroyEvents' = m_destroyEvents \ {id}
    /\ UNCHANGED <<pc, queue, clock, mailbox, batch, m_stop, cancelled, created,
                   issued, ran>>

\* The map is searched by time stamp and uid.
RemoveEvent(id) ==
    /\ UserCode /\ Withdraw(id)
    /\ id.uid # DESTROY
    /\ \/ IsExpired(id) /\ UNCHANGED <<m_events, cancelled, m_unscheduledEvents>>
       \/ /\ ~IsExpired(id)
          /\ m_events' = {e \in m_events : <<e.ts, e.uid>> # <<id.ts, id.uid>>}
          /\ cancelled' = cancelled \cup {id.impl}
          /\ m_unscheduledEvents' = m_unscheduledEvents - 1
    /\ UNCHANGED <<pc, m_uid, clock, mailbox, batch, m_destroyEvents, m_stop, created,
                   issued, ran>>

Stop ==
    /\ UserCode
    /\ m_stop' = TRUE
    /\ UNCHANGED <<pc, queue, clock, mailbox, batch, m_destroyEvents, cancelled, created,
                   history>>

-----------------------------------------------------------------------------
\* m_stop is not read before ProcessEventsWithContext is over.
Run ==
    /\ pc = "user" /\ pc' = "look"
    /\ m_stop' = FALSE
    /\ UNCHANGED <<queue, clock, mailbox, batch, m_destroyEvents, cancelled, created, history>>

\* ProcessEventsWithContext reads the plain flag without the lock: what another
\* thread has written to it may not be seen yet.
Look ==
    /\ pc = "look"
    /\ \/ pc' = "loop"
       \/ ~m_eventsWithContextEmpty /\ pc' = "swap"
    /\ UNCHANGED <<queue, clock, mailbox, batch, m_destroyEvents, m_stop, cancelled, created,
                   history>>

\* (Mutant: the list is copied and not swapped.)
Copy ==
    /\ pc = "swap" /\ pc' = "drain"
    /\ batch' = m_eventsWithContext
    /\ m_eventsWithContextEmpty' = TRUE
    /\ UNCHANGED <<queue, clock, m_eventsWithContext, m_destroyEvents, m_stop, cancelled,
                   created, history>>

Swap ==
    /\ pc = "swap" /\ pc' = "drain"
    /\ batch' = m_eventsWithContext /\ m_eventsWithContext' = {}
    /\ m_eventsWithContextEmpty' = TRUE
    /\ UNCHANGED <<queue, clock, m_destroyEvents, m_stop, cancelled, created, history>>

\* The delay counts from the event during which the main thread takes the hand-over.
Drain ==
    /\ pc = "drain"
    /\ \/ \E x \in batch :
            /\ IsFront(x, batch)
            /\ Insert(x.impl, x.delay)
            /\ batch' = batch \ {x}
            /\ UNCHANGED pc
       \/ batch = {} /\ pc' = "loop" /\ UNCHANGED <<queue, batch>>
    /\ UNCHANGED <<clock, mailbox, m_destroyEvents, m_stop, cancelled, created, history>>

\* A cancelled event moves the clock, but its handler is not called.
ProcessOneEvent ==
    /\ pc = "loop" /\ ~m_stop
    /\ \E e \in m_events :
         /\ \A f \in m_events \ {e} : Precedes(e, f)
         /\ m_events' = m_events \ {e}
         /\ m_unscheduledEvents' = m_unscheduledEvents - 1
         /\ m_currentTs' = e.ts /\ m_currentUid' = e.uid
         /\ \/ e.impl \in cancelled /\ pc' = "look" /\ UNCHANGED ran
            \/ e.impl \notin cancelled /\ pc' = "handler" /\ ran' = ran \cup {e.impl}
    /\ UNCHANGED <<m_uid, mailbox, batch, m_destroyEvents, m_stop, cancelled, created,
                   issued, withdrawn>>

LeaveRun ==
    /\ pc = "loop" /\ (m_events = {} \/ m_stop)
    /\ pc' = "user"
    /\ UNCHANGED <<queue, clock, mailbox, batch, m_destroyEvents, m_stop, cancelled, created,
                   history>>

\* A handler returns, of Run or of Destroy.
Return ==
    /\ \/ pc = "handler" /\ pc' = "look"
       \/ pc = "destroy" /\ pc' = "destroying"
    /\ UNCHANGED <<queue, clock, mailbox, batch, m_destroyEvents, m_stop, cancelled, created,
                   history>>

Destroy ==
    /\ pc = "user" /\ pc' = "destroying"
    /\ UNCHANGED <<queue, clock, mailbox, batch, m_destroyEvents, m_stop, cancelled, created,
                   history>>

InvokeDestroyEvent ==
    /\ pc = "destroying"
    /\ \E id \in m_destroyEvents :
         /\ IsFront(id, m_destroyEvents)
         /\ m_destroyEvents' = m_destroyEvents \ {id}
         /\ \/ id.impl \in cancelled /\ UNCHANGED <<pc, ran>>
            \/ id.impl \notin cancelled /\ pc' = "destroy" /\ ran' = ran \cup {id.impl}
    /\ UNCHANGED <<queue, clock, mailbox, batch, m_stop, cancelled, created, issued, withdrawn>>

\* What is still queued is dropped with the simulator.  (The code drains the hand-overs
\* into the map first and drops them from there, counting up uids that nobody reads again.)
DoDispose ==
    /\ pc = "destroying" /\ m_destroyEvents = {}
    /\ pc' = "disposed"
    /\ m_events' = {} /\ m_eventsWithContext' = {}
    /\ UNCHANGED <<m_uid, m_unscheduledEvents, clock, m_eventsWithContextEmpty, batch,
                   m_destroyEvents, m_stop, cancelled, created, history>>

MainThread ==
    \/ \E d \in Delays : Schedule(d) \/ ScheduleWithContext(d)
    \/ ScheduleDestroy
    \/ \E id \in issued : Cancel(id) \/ RemoveDestroyEvent(id) \/ RemoveEvent(id)
    \/ Stop
    \/ Run \/ Look \/ Swap \/ Drain \/ ProcessOneEvent \/ LeaveRun \/ Return
    \/ Destroy \/ InvokeDestroyEvent \/ DoDispose

OtherThreads == \E d \in Delays : HandOver(d)

SimulatorNext == MainThread \/ OtherThreads

SimulatorSpec == SimulatorInit /\ [][SimulatorNext]_simulatorVars

-----------------------------------------------------------------------------
\* The assertion of ProcessOneEvent, and more: whatever is queued comes strictly after
\* the event that runs, in time or at the same instant by its uid, however handlers,
\* hand-overs and removals follow each other.
NothingInThePast ==
    \A e \in m_events : Precedes([ts |-> m_currentTs, uid |-> m_currentUid], e)

\* The assertion of Run: the count of unscheduled events is that of the map, so none
\* is lost along the way.
CountKept == pc # "disposed" => m_unscheduledEvents = Cardinality(m_events)

\* IsExpired, which looks only at the clock and the cancel bit, tells the truth about
\* the map and the list: an EventId is pending iff its event is there to be run.
ExpiryIsTruth ==
    \A id \in issued :
      ~IsExpired(id) <=> id \in m_events \cup m_destroyEvents /\ id.impl \notin cancelled

Waiting ==
    {x.impl : x \in m_events \cup m_destroyEvents \cup m_eventsWithContext \cup batch}

\* No event is lost or run twice between threads, map and lists: until it has run or the
\* program has withdrawn it an event waits somewhere, and once it has run nowhere.
EventsAccounted ==
    /\ Waiting \cap ran = {}
    /\ pc # "disposed" => 1..created \subseteq Waiting \cup ran \cup withdrawn

\* A hand-over that waits is announced by the flag, however the pushes of other threads fall
\* between the test, the swap and the drain (ScheduleWithContext, ProcessEventsWithContext).
\* That an unlocked read, which Look lets be late, is not late for ever is outside the model.
HandOversAnnounced == m_eventsWithContext # {} => ~m_eventsWithContextEmpty

\* An event that the program cancelled or removed before it ran is never run, whether
\* it waited in the map or for Destroy (Cancel, Remove).
WithdrawnNeverRuns == ran \cap withdrawn = {}
=============================================================================

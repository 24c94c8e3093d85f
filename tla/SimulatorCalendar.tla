-------------------------- MODULE SimulatorCalendar --------------------------
(***************************************************************************)
(* The event queue implements a calendar of appointments.                  *)
(***************************************************************************)
EXTENDS DefaultSimulatorImpl

\* The events of S in the order of their keys: the i-th is the one with i - 1 before it.
Before(e, S) == {f \in S : Precedes(f, e)}

Sorted(S) ==
    [i \in 1..Cardinality(S) |-> CHOOSE e \in S : Cardinality(Before(e, S)) = i - 1]

\* What the map holds and nobody has cancelled.
Pending == {e \in m_events : e.impl \notin cancelled}

Agenda(S) ==
    [i \in 1..Cardinality(S) |-> [event |-> Sorted(S)[i].impl, at |-> Sorted(S)[i].ts]]

EventsOfDestroy == {id.impl : id \in {i \in issued : i.uid = DESTROY}}

Calendar == INSTANCE EventCalendar WITH
    Events <- 1..MaxEvents, now <- m_currentTs,
    calendar <- Agenda(Pending), kept <- ran \ EventsOfDestroy

\* Handlers are called like appointments of one calendar are kept: in the order of their
\* times, within an instant in the order they were made, each at its time, once, and
\* never when withdrawn; what other threads hand over is an appointment from the moment
\* it is drained (ProcessOneEvent, ProcessEventsWithContext, Remove, Cancel).
RunsLikeACalendar == Calendar!CalendarSpec
=============================================================================

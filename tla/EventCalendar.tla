---------------------------- MODULE EventCalendar ----------------------------
(***************************************************************************)
(* What a simulator promises its handlers: a calendar of appointments.     *)
(* A new one goes behind all those of its own instant and before all later *)
(* ones, only the first one is ever kept, at its own time, and one that is *)
(* struck out is as if it had never been made.                             *)
(***************************************************************************)
EXTENDS Integers, SequencesExt

CONSTANTS Events, Delays

VARIABLES now, calendar, kept

calendarVars == <<now, calendar, kept>>

CalendarInit == now = 0 /\ calendar = <<>> /\ kept = {}

Positions == 1..Len(calendar)

\* Behind everything that is not later.
Appoint(e, d) ==
    /\ e \notin kept /\ \A i \in Positions : calendar[i].event # e
    /\ \E k \in 0..Len(calendar) :
         /\ \A i \in Positions : calendar[i].at <= now + d <=> i <= k
         /\ calendar' = InsertAt(calendar, k + 1, [event |-> e, at |-> now + d])
    /\ UNCHANGED <<now, kept>>

StrikeOut ==
    /\ \E k \in Positions : calendar' = RemoveAt(calendar, k)
    /\ UNCHANGED <<now, kept>>

Keep ==
    /\ calendar # <<>>
    /\ now' = Head(calendar).at
    /\ calendar' = Tail(calendar)
    /\ kept' = kept \cup {Head(calendar).event}

\* Time may pass, but not past an appointment.
Pass ==
    /\ now' >= now
    /\ \A i \in Positions : now' <= calendar[i].at
    /\ UNCHANGED <<calendar, kept>>

Close == calendar' = <<>> /\ UNCHANGED <<now, kept>>

CalendarNext ==
    \/ \E e \in Events, d \in Delays : Appoint(e, d)
    \/ StrikeOut \/ Keep \/ Pass \/ Close

CalendarSpec == CalendarInit /\ [][CalendarNext]_calendarVars
=============================================================================

\* Three events, made by the program or handed over by other threads.
CONSTANTS
    Delays <- NowAndLater
    MaxEvents = 3
    UidMod = 16
SPECIFICATION SimulatorSpec
\* A disposed simulator stops.
CHECK_DEADLOCK FALSE
INVARIANTS SimulatorTypeOK NothingInThePast CountKept ExpiryIsTruth EventsAccounted HandOversAnnounced WithdrawnNeverRuns
PROPERTIES RunsLikeACalendar

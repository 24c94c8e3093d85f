------------------------- MODULE MCDefaultSimulator --------------------------
\* Events at once and in one instant for TLC.
EXTENDS SimulatorCalendar

NowAndLater == {0, 1}
=============================================================================

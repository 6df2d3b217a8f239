\* Repair times and caps on both sides of every threshold; the months from
\* January 1970 to December 2104, over the leap years 2000 and not 2100; isqrt
\* up to 1620, so over 40 squares; a window of 25 minutes of 60 milliseconds.
CONSTANTS
    NoConfig = NoConfig
    NoResult = NoResult
    BatchLimit = 4
    ConfigChoices <- MCConfigChoices
    Caps = {10, 130, 2000}
    Minute = 60
    Window = 1500
    Full = 100
    Scale = 10
    Day = 86
    MaxInput = 1620
SPECIFICATION Spec
INVARIANTS
    CopiesAgree
    MonthsTileTheCalendar
    RoundsDown
PROPERTIES
    LongerNeverPaysMore
\* The sweep ends at MaxInput.
CHECK_DEADLOCK FALSE

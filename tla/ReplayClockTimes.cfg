SPECIFICATION ClockSpec
CONSTANTS
    RecordTimes <- Times
    StartNow = 5
    MaxNow = 13
    MaxMessages = 3
PROPERTIES
    GapKept
    DueIsPlayed

CONSTANTS
    F = 3
    Interval = 9
    Duration = 2
    MajorityFlags = 5
    NoRow = NoRow
    MaxFlag = 11
    MaxChanges = 3
SPECIFICATION Spec
CHECK_DEADLOCK FALSE
INVARIANT TypeOK
INVARIANT ShownEnabledIsEnabled
INVARIANT CapturedByStream
PROPERTY EnabledStays

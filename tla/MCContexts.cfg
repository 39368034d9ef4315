CONSTANTS
    MaxNodes = 3
    Nodes = {0, 1, 2}
    MaxEvents = 2
SPECIFICATION Spec
INVARIANT TypeOK
INVARIANT ClockCharacterisesCausality
INVARIANT SumCountsKnownEvents
PROPERTY UidsIncrease

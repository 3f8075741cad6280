\* Four days, two runs by hand.
SPECIFICATION Spec
CONSTANTS
    MaxDay = 4
    MinItems = 1
    Window = 3
    Lookback = 1
    MaxRuns = 2
    MaxEvents = 0
INVARIANTS NoBlindSpots

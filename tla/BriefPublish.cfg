\* Three days, of which the scheduler asks for two, two runs by hand besides, one
\* failure.
SPECIFICATION MCSpec
CONSTANTS
    MaxDay = 3
    MinItems = 2
    Window = 2
    Lookback = 1
    MaxRuns = 2
    MaxEvents = 1
INVARIANTS PublishInv SiteConsistent WindowsFit
PROPERTIES CommitsOneRun StrongDaysPublished

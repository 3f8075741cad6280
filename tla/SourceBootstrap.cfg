\* Two requests at a time, one source, a limit of two.
SPECIFICATION Spec
CONSTANTS
    t1 = t1
    t2 = t2
    s1 = s1
    s2 = s2
    k1 = k1
    BadUrl = BadUrl
    NoKey = NoKey
    NoRequest = NoRequest
    Threads = {t1, t2}
    MaxCalls = 2
    Window = 2
    Lag = 1
    Horizon = 3
    Sources = {s1}
    Keys = {k1}
    Requests <- Payloads
    MaxRequests = 3
INVARIANTS BootInv RateKept KeyMakesOneRun
PROPERTIES SettledIsFinal
SYMMETRY Symmetry

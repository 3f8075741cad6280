\* One query or one search, with failures and a changing corpus, over two documents.
SPECIFICATION EvidenceSpec
CONSTANTS
    q1 = q1
    s1 = s1
    d1 = d1
    d2 = d2
    a1 = a1
    a2 = a2
    b1 = b1
    Queries = {q1}
    Searches = {s1}
    Docs = {d1, d2}
    Chunks = {a1, a2, b1}
    DocOf <- MCDocOf
    MaxItems = 2
    MaxScore = 2
    Low = 1
    High = 2
    MaxKey = 1
    SearchFactor = 2
    StoreFactor = 1
    CitesPerItem = 2
    NoLog = NoLog
    NoAnswer = NoAnswer
    MaxEvents = 2
INVARIANTS PackInv Audited HiddenExcluded PackExact ConfidenceEarned
ACTION_CONSTRAINT OneAtATime
SYMMETRY Symmetry
CHECK_DEADLOCK FALSE

\* The deployed shape, one daemon over two sources, of which the younger has a
\* listing that raises whenever it is read.
SPECIFICATION EndlessSpec
CONSTANTS
    w1 = w1
    w2 = w2
    c1 = c1
    c2 = c2
    s1 = s1
    s2 = s2
    t1 = t1
    k1 = k1
    NoKey = NoKey
    NoRun = 0
    NoSource = NoSource
    NoTopic = NoTopic
    Topics <- MCTopics
    TopicOf <- MCTopicOf
    CreatedAt <- MCCreatedAt
    Workers = {w1}
    Daemons = {w1}
    Clients = {}
    Sources = {s1, s2}
    Broken = {s2}
    Keys = {}
    ApiTriggers = {"manual"}
    Threshold = 2
    Budget = 0
    MaxRuns = 2
    MaxItems = 1
    MaxEvents = 3
INVARIANTS FailuresExact
PROPERTIES RunsEnd  ScheduleHonorsCooldown

\* A daemon and a one-shot worker over one queue.
SPECIFICATION Spec
CONSTANTS
    w1 = w1
    w2 = w2
    c1 = c1
    c2 = c2
    s1 = s1
    s2 = s2
    t1 = t1
    k1 = k1
    NoKey = NoKey
    NoRun = 0
    NoSource = NoSource
    NoTopic = NoTopic
    Topics <- MCTopics
    TopicOf <- MCTopicOf
    CreatedAt <- MCCreatedAt
    Workers = {w1, w2}
    Daemons = {w1}
    Clients = {c1}
    Sources = {s1}
    Broken = {}
    Keys = {k1}
    ApiTriggers = {"manual"}
    Threshold = 2
    Budget = 1
    MaxRuns = 2
    MaxItems = 1
    MaxEvents = 1
INVARIANTS IInv BudgetReported OneOpenScheduleRun OneRunPerKey
PROPERTIES ImplementsLifecycle

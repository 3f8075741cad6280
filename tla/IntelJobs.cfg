\* Two workers, a client and one article.
SPECIFICATION FairSpec
CONSTANTS
    w1 = w1
    w2 = w2
    c1 = c1
    a1 = a1
    x = x
    y = y
    NoText = NoText
    NoArticle = NoArticle
    Workers = {w1, w2}
    Clients = {c1}
    Articles = {a1}
    Texts = {x, y}
    MaxJobs = 2
    MaxEvents = 1
INVARIANTS JobInv SignalsCiteSections QueuedHasJob
PROPERTIES JobsEnd

\* A fetched document whose worker died is never resumed.
SPECIFICATION FairSpec
CONSTANTS
    i1 = i1
    i2 = i2
    r1 = r1
    d1 = d1
    d2 = d2
    x = x
    y = y
    NoText = NoText
    NoDoc = NoDoc
    Ingesters = {i1}
    Reembedders = {}
    Docs = {d1}
    Texts = {x}
    MaxModel = 1
    Orderly = TRUE
    MaxEvents = 1
PROPERTIES FetchedResumed

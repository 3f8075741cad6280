\* Texts of four paragraphs, and days with up to five documents.
SPECIFICATION Spec
CONSTANTS
    a1 = a1
    a2 = a2
    a3 = a3
    b1 = b1
    c1 = c1
    Texts <- MCTexts
    MaxChars = 8
    Overlap = 5
    Documents = {a1, a2, a3, b1, c1}
    SourceOf <- MCSourceOf
    KeyOf <- MCKeyOf
    UrlOf <- MCUrlOf
    MaxItems = 3
    MinItems = 2
    MinSources = 2
    SourceLimit = 2
    MaxScore = 1
    MaxDraft = 3
INVARIANTS ChunksTile ChunksBounded SelectionExact IssueSound
\* A pass over a text, and the work on a day, end.
CHECK_DEADLOCK FALSE

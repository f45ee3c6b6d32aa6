SPECIFICATION Spec
CONSTANTS
    Caller = {a1}
    Vertical = {otsec, energy}
    d1 = d1
    u1 = u1
    e1 = e1
    e2 = e2
    brief = brief
    revised = revised
    long = long
    Doc = {d1, u1}
    UploadDoc = {u1}
    Entity = {e1, e2}
    Text = {brief, revised, long}
    LengthOf <- MCLengthOf
    Mentions <- MCMentions
    Batch <- MCBatch
    Related <- MCRelated
    MaxChunkSize = 4
    Overlap = 1
PROPERTIES ChunkingEnds
CHECK_DEADLOCK FALSE

SPECIFICATION StoresSpec
SYMMETRY MCStoresSymmetry
CONSTANTS
    Caller = {a1, a2}
    Vertical = {otsec, energy}
    d1 = d1
    u1 = u1
    e1 = e1
    e2 = e2
    brief = brief
    revised = revised
    long = long
    Doc = {d1, u1}
    UploadDoc = {u1}
    Entity = {e1, e2}
    Text = {brief, revised, long}
    LengthOf <- MCLengthOf
    Mentions <- MCMentions
    Batch <- MCBatch
    Related <- MCRelated
    MaxChunkSize = 4
    Overlap = 1
    Request = {r1, r2}
    c1 = c1
    c2 = c2
    t1 = t1
    g1 = g1
    Cve = {c1, c2}
    StixObject = {t1, g1}
    Keywords <- MCKeywords
    Found <- MCFound
    Relationship <- MCRelationship
INVARIANTS
    CleanReportIsStored
    RecordedEntitiesExist
    AllSyncIsComplete
    KeywordsAreAccountedFor
CHECK_DEADLOCK FALSE

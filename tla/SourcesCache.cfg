SPECIFICATION Spec
SYMMETRY MCSymmetry
CONSTANTS
    Request = {r1, r2}
    Source = {db, docs}
    Documents = {docs}
    Ttl = 1
    FetchTimeout = 1
    MaxTime = 3
INVARIANTS TypeOK AnswersAreFresh AnswersAreComplete
PROPERTIES ImplementsService
CHECK_DEADLOCK FALSE

CONSTANTS
    Request = {r1}
    AgentCore = TRUE
    AgentCap = 3
    RestCap = 2
    VectorBudget = 2
    NoteBudget = 1
    HeroBudget = 1
    LiveBudget = 1
    MaxWaited = 16
SPECIFICATION Spec
INVARIANTS WaitIsBounded SynthesisWins
PROPERTIES EveryQuestionEnds

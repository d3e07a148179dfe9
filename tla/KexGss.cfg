CONSTANTS
    DH_GRP_MIN = 2
    DH_GRP_MAX = 4
    Proposals <- OurProposals
    MaxTokens = 4
    MaxKex = 2
    MaxStray = 4
SPECIFICATION Spec
INVARIANTS KeysAreProven ContextsAgree
PROPERTIES ExchangeEnds ExchangeSucceeds
CHECK_DEADLOCK FALSE

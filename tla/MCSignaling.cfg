CONSTANTS
    MaxOffers = 3
    MaxCandidates = 2
SPECIFICATION FairSpec
INVARIANTS
    AnswerPrecedesCandidates
    CandidatesAreSentOnce
PROPERTIES
    WaitingEnds
CHECK_DEADLOCK FALSE

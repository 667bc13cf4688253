SPECIFICATION FairSpec
CONSTANTS
    Answers <- ShortAnswers
    MaxRounds = 2
INVARIANTS
    TypeOK
    OneAnswer
    CallsAnswered
    RoundsBounded
    ExpandHidden
PROPERTIES
    Ends
CHECK_DEADLOCK FALSE

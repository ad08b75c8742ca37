CONSTANTS
    Holders = {bot}
    MaxSessions = 2
    MaxPrompts = 2
    MaxCalls = 2
    MaxMessages = 5
    EventCap = 1
    MaxFaults = 1
    MaxUpdates = 3
    MaxUnanswered = 1
    TextMax = 3
    Texts <- McTexts
SPECIFICATION FairSpec
INVARIANTS
    StoredAgrees
    AnswersAreStored
    AnsweredOnce
    TrailIsShown
PROPERTIES
    PromptsAreAnswered

CHECK_DEADLOCK FALSE

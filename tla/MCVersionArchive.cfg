SPECIFICATION FairSpec
CONSTANTS
    r1 = r1 r2 = r2 r3 = r3 d1 = d1 d2 = d2
    Requests <- MCRequests
    Drafts <- MCDrafts
    MaxVersion = 4
    MaxCrashes = 1
    MaxFaults = 1
INVARIANTS IndexedIsArchived HistoryIsGapFree NoRepeatInARow AnswerIsTrue
PROPERTIES SuccessLeavesNoLeftover EveryAttemptEnds

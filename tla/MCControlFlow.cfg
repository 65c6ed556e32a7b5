SPECIFICATION FairSpec
CONSTANTS
    Programs <- MCPrograms
    MaxIterations = 3
INVARIANTS TypeOK AnswersAgree OnlyWhatRuns WalksAgree
PROPERTIES SignalsStay Answered

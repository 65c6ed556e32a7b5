SPECIFICATION FairSpec
CONSTANTS
    Programs <- ElseContinuePrograms
    MaxIterations = 3
INVARIANT AnswersAgree

SPECIFICATION FairSpec
CONSTANTS
    Programs <- ReadmePrograms
    MaxIterations = 3
INVARIANT WalksAgree

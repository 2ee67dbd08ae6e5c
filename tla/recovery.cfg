SPECIFICATION FairSpec
CONSTANT Tasks <- MCTasks
INVARIANTS
    NeverBeneathServer
    CleanExit
    PassMeansRecovered
    FailureHasCause
PROPERTY
    Ends

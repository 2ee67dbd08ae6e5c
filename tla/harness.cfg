SPECIFICATION Spec
CONSTANTS
    Sessions = {"A", "B"}
    Lessons <- MCLessons
    Statuses <- MCStatuses
    MaxNoise = 1
INVARIANTS
    PassMeansRan
    FailMeansCause
PROPERTY
    Terminates

SPECIFICATION FairSpec
CONSTANTS
    retired = retired
    command = command
    skill = skill
    Places <- MCPlaces
    Retired = {retired}
    Directories = {skill}
    Runs = {"A", "B"}
    MaxEdits = 1
    MaxKills = 1
    Started <- MCStarted
INVARIANTS
    OnlyTouchedIsLost
    InstalledMeansLinked
PROPERTIES
    RefusalTouchesNothing
    Converges

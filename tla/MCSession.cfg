SPECIFICATION MCSpec
CONSTANTS
    FirstDoc <- MCFirstDoc
    Parts = {"transitions"}
    NewInputs <- MCNewInputs
    NewScenes <- MCNewScenes
    NewUnits <- MCNewUnits
    NewOutputs <- MCNewOutputs
    AnyId = {2, 3}
    MaxEdits = 4
    Savers = {"service", "host"}
    Docs = {1, 2}
    Limit = 1
    Unix = TRUE
    MaxSaves = 3
    MaxFaults = 2
    Clients = {"c1"}
    Cap = 1
    Chunks = 2
    MaxTries = 3
    MaxLinks = 2
CHECK_DEADLOCK FALSE
INVARIANTS
    DocumentIsSound
    WholeUnlessOverlapped
    AnswersHold
    FilesAccountedFor
PROPERTIES
    IdsKeepTheirMeaning
    ReloadKeepsDocument
    KeepsHistory
    SettledWhenTold
    EveryCallReturns

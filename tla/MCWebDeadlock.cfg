SPECIFICATION WebSpec
CONSTANTS
    Publishers = {"service"}
    Hosts = {"host"}
    Settings <- MCSettings
    NoApi = NoApi
    Suspend = Suspend
    Nobody = Nobody
    MaxConfigures = 2
INVARIANTS
    JoinsWithFreeHands
CHECK_DEADLOCK FALSE

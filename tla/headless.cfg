SPECIFICATION FairSpec
CONSTANTS
    Ports <- MCPorts
    MinPort = 1024
    MaxPort = 65535
    Documents <- MCDocuments
    Intervals = {2}
    Sources = {guacamole, other}
    AllowedIp = guacamole
    Bytes = {0, 255}
    FF = 255
    HeaderLength = 1
    MacLength = 1
    Repeats = 2
    MaxTime = 2
    Nothing = Nothing
INVARIANTS
    WakesJustified
    DeafAfterShutdown
    ExitTruthful
PROPERTIES
    ConfigFaithful
    LimiterExact
    DrainsOnSignal
CHECK_DEADLOCK FALSE

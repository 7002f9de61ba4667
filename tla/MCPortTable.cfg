\* Three stable names and one that is not; the configuration changes six times
\* and the daemon crashes once.
SPECIFICATION PortFairSpec
CONSTANTS
    MaxVports = 6
    Type <- Types
    PHYPORT0 = 5
    Name <- Names
    Default <- Defaults
    Choices <- SomeChoices
    MaxChanges = 6
    MaxCrashes = 1
INVARIANT ByName
 
INVARIANT KnownIsEnabled
 
CHECK_DEADLOCK FALSE

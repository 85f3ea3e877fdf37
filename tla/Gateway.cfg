\* The gateway's threads in both modes.
CONSTANTS
    Noticed = {2}
    MaxRead = 2
    Scopes <- MCScopes
SPECIFICATION FairSpec
CHECK_DEADLOCK FALSE
INVARIANTS TypeOK AlertsAccounted UpdatesSurvive CleanEnd AbortHasCause
PROPERTIES AlertsAtMostOnce ShutdownEnds

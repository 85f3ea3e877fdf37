\* Liveness of the poller: more faults and restarts, fewer kinds of updates.
CONSTANTS
    owner = owner
    guest = guest
    guest2 = guest2
    pin = pin
    w1 = w1
    w2 = w2
    none = none
    Users = {owner, guest}
    Owner = owner
    Messages <- Commands
    Pins = {pin}
    RateLimit = 2
    MaxBatch = 2
    MaxUpdates = 3
    MaxFaults = 2
    MaxRestarts = 1
SPECIFICATION FairSpec
PROPERTIES AllConfirmed

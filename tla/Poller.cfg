\* Safety of the poller on every path of handle_message.
CONSTANTS
    owner = owner
    guest = guest
    guest2 = guest2
    pin = pin
    w1 = w1
    w2 = w2
    none = none
    Users = {owner, guest}
    Owner = owner
    Messages <- AllPaths
    Pins = {pin}
    RateLimit = 2
    MaxBatch = 2
    MaxUpdates = 3
    MaxFaults = 1
    MaxRestarts = 1
SPECIFICATION Spec
INVARIANTS TypeOK OwnerCommandsKept OnceWithoutFaults RetriesKeepOrder 
PROPERTIES ReplayAboveConfirmed

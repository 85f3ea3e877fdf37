\* One PIN and two guests, without failures, against "single-use".
CONSTANTS
    owner = owner
    guest = guest
    guest2 = guest2
    pin = pin
    w1 = w1
    w2 = w2
    none = none
    Users = {owner, guest, guest2}
    Owner = owner
    Messages <- Pairing
    Pins = {pin}
    RateLimit = 2
    MaxBatch = 2
    MaxUpdates = 3
    MaxFaults = 0
    MaxRestarts = 0
SPECIFICATION Spec
INVARIANTS PinsSingleUse

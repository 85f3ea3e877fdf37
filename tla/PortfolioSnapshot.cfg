\* The fixed wallet_id of a snapshot against the comment above it.
CONSTANTS
    owner = owner
    guest = guest
    w1 = w1
    w2 = w2
    none = none
    Users = {owner, guest}
    Requests <- Balances
    Addresses = {w1, w2}
    NoArg = none
    MaxRead = 2
    MaxRequests = 4
    MaxFaults = 0
    MaxRestarts = 0
SPECIFICATION Spec
INVARIANTS SnapshotOfItsWallet

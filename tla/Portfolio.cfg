\* Safety and progress of the command consumer on every handler.
CONSTANTS
    owner = owner
    guest = guest
    w1 = w1
    w2 = w2
    none = none
    Users = {owner, guest}
    Requests <- AllCommands
    Addresses = {w1, w2}
    NoArg = none
    MaxRead = 2
    MaxRequests = 3
    MaxFaults = 1
    MaxRestarts = 1
SPECIFICATION FairSpec
INVARIANTS TypeOK ChangesInOrder NothingStranded SilenceHasCause WalletOneExists
PROPERTIES StrandedForever RepliesTrue ActsAtMostOnce AllTaken

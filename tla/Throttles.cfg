\* The throttles' verdicts against the full log, with a clock that may step back.
CONSTANTS
    sol = sol
    solx = solx
    actionable = actionable
    headsup = headsup
    h1 = h1
    h2 = h2
    Symbols = {sol, solx}
    Bands = {actionable, headsup}
    Hashes = {h1, h2}
    Begins <- Apart
    Cooldown = 2
    DedupTtl = 3
    Guard = 3
    Hour = 2
    MaxPerHour = 2
    MaxAge = 3
    MaxTime = 5
    MaxRecords = 3
    MaxSteps = 1
SPECIFICATION Spec
INVARIANTS TypeOK CooldownExact GlobalExact DuplicateExact GuardExact RefusalsHaveCause
PROPERTIES CleanupInvisible

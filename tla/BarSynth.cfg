\* The bars of one pool: two long bars and what the clock, a failed save and a
\* restart do to them.
CONSTANTS
    Short = 2
    Long = 4
    MaxTime = 9
    MaxTicks = 5
    MaxSteps = 1
    MaxFaults = 1
    MaxRestarts = 1
SPECIFICATION Spec
INVARIANTS TypeOK BarsWhole TicksKept BarsAgree OneOpenBar
PROPERTIES RowsFinal

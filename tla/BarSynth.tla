------------------------------ MODULE BarSynth ------------------------------
(***************************************************************************)
(* One pool of the market ingestor: each pass of the ingest loop           *)
(* (ingestor/src/main.cpp) adds a tick to a synthesizer of short bars and  *)
(* to one of long bars (bar_synth.cpp), takes the completed bars of each   *)
(* and saves them in Postgres.                                             *)
(*                                                                         *)
(* A tick is its index in `times'; a bar is the set of ticks it was made   *)
(* from, which settles its prices and its volume.  current_bar_start_ms_   *)
(* is the bar of the ticks that were kept: it decides nothing else.        *)
(*                                                                         *)
(* The system clock may be set back, a save may fail, the process may go   *)
(* down and lose its ticks: MaxSteps, MaxFaults and MaxRestarts bound how  *)
(* often, MaxTime and MaxTicks how long the run is.                        *)
(***************************************************************************)
EXTENDS Integers, Sequences, FiniteSets

CONSTANTS Short, Long, MaxTime, MaxTicks, MaxSteps, MaxFaults, MaxRestarts

ASSUME IntervalsAssumption ==
    /\ Short \in Nat \ {0} /\ Long \in Nat \ {0}
    /\ Short < Long /\ Long % Short = 0
ASSUME BoundsAssumption ==
    MaxTime \in Nat \ {0} /\ {MaxTicks, MaxSteps, MaxFaults, MaxRestarts} \subseteq Nat

Intervals == {Short, Long}
Idle == 0     \* the loop between two passes

VARIABLES
    now,       \* the system clock
    times,     \* history: the timestamp of every tick
    ticks,     \* ticks_ of each synthesizer
    pc,        \* the synthesizer whose bars are taken next, or Idle
    saved,     \* Postgres: interval -> bar start -> the bar of that row
    steps, faults, downs

vars == <<now, times, ticks, pc, saved, steps, faults, downs>>

Init ==
    /\ now = 1 /\ times = <<>> /\ pc = Idle
    /\ ticks = [i \in Intervals |-> {}]
    /\ saved = [i \in Intervals |-> <<>>]
    /\ steps = 0 /\ faults = 0 /\ downs = 0

-----------------------------------------------------------------------------
(* The clock and the process (external).                                   *)

Advance ==
    /\ now < MaxTime /\ now' = now + 1
    /\ UNCHANGED <<times, ticks, pc, saved, steps, faults, downs>>

SetBack ==
    /\ now > 1 /\ steps < MaxSteps
    /\ now' = now - 1 /\ steps' = steps + 1
    /\ UNCHANGED <<times, ticks, pc, saved, faults, downs>>

\* Down and up again: the synthesizers live in ingest_loop.
Restart ==
    /\ downs < MaxRestarts
    /\ ticks' = [i \in Intervals |-> {}] /\ pc' = Idle
    /\ downs' = downs + 1
    /\ UNCHANGED <<now, times, saved, steps, faults>>

-----------------------------------------------------------------------------
(* One pass.                                                               *)

\* Mutant of BarOf: rounded to the nearest start instead of down.
BarOfNearest(i, k) == ((times[k] + i \div 2) \div i) * i

BarOf(i, k) == (times[k] \div i) * i

\* get_completed_bars walks the sorted ticks: the last bar stays open; each
\* earlier one is completed if its end has passed, else its ticks are dropped.
LastBar(i) == CHOOSE b \in {BarOf(i, k) : k \in ticks[i]} :
                  \A k \in ticks[i] : BarOf(i, k) <= b
InBar(i, b) == {k \in ticks[i] : BarOf(i, k) = b}

\* Mutants of Completed: a bar ends one moment late; the open bar is taken too.
CompletedLate(i) ==
    {b \in {BarOf(i, k) : k \in ticks[i]} : b # LastBar(i) /\ now > b + i}
CompletedAll(i) == {BarOf(i, k) : k \in ticks[i]}

Completed(i) ==
    {b \in {BarOf(i, k) : k \in ticks[i]} : b # LastBar(i) /\ now >= b + i}

\* Mutants of Kept: nothing is kept when a bar was completed; all is kept.
KeptUnlessCompleted(i) == IF Completed(i) = {} THEN ticks[i] ELSE {}
KeptAll(i) == ticks[i]

Kept(i) == IF ticks[i] = {} THEN {} ELSE InBar(i, LastBar(i))

\* The two synthesizers get the same tick.
AddTick ==
    /\ pc = Idle /\ Len(times) < MaxTicks
    /\ times' = Append(times, now)
    /\ ticks' = [i \in Intervals |-> ticks[i] \cup {Len(times) + 1}]
    /\ pc' = Short
    /\ UNCHANGED <<now, saved, steps, faults, downs>>

\* save_5m_stats and save_15m_bar are upserts; they log and swallow errors.
Upsert(i, bars) ==
    saved' = [saved EXCEPT ![i] =
                 [b \in DOMAIN @ \cup bars |-> IF b \in bars THEN InBar(i, b) ELSE @[b]]]

\* The request for the route (main.cpp:112; its client is not in the repository)
\* may throw at a short bar: it and the later ones are lost.
Thrown(i, lost) ==
    i = Short /\ \E b \in lost : \A c \in Completed(i) : b <= c => c \in lost

\* The completed bars of interval i are taken and saved one by one; an exception
\* ends the pass, so that the long ones are not taken.
SaveBars(i) ==
    /\ pc = i
    /\ \E failed \in SUBSET Completed(i) :
          /\ faults + Cardinality(failed) <= MaxFaults
          /\ faults' = faults + Cardinality(failed)
          /\ \E lost \in SUBSET failed :
                /\ Upsert(i, Completed(i) \ lost)
                /\ \/ pc' = IF i = Short THEN Long ELSE Idle
                   \/ Thrown(i, lost) /\ pc' = Idle
    /\ ticks' = [ticks EXCEPT ![i] = Kept(i)]
    /\ UNCHANGED <<now, times, steps, downs>>

\* A pass that fails for the pool, or whose answer of Raydium lacks it.
PassWithout == pc = Idle /\ UNCHANGED vars

Next ==
    \/ AddTick \/ PassWithout \/ (\E i \in Intervals : SaveBars(i))
    \/ Advance \/ SetBack \/ Restart

Spec == Init /\ [][Next]_vars

-----------------------------------------------------------------------------
(* Properties.                                                             *)

Ticks == DOMAIN times
Inside(k, b, i) == b <= times[k] /\ times[k] < b + i

\* Every variable has its type; a row's bar has at least one tick, and all of
\* them lie inside it.
TypeOK ==
    /\ now \in 1 .. MaxTime /\ pc \in Intervals \cup {Idle}
    /\ \A k \in Ticks : times[k] \in 1 .. MaxTime
    /\ \A i \in Intervals :
          /\ ticks[i] \subseteq Ticks
          /\ \A b \in DOMAIN saved[i] :
                saved[i][b] # {} /\ \A k \in saved[i][b] : k \in Ticks /\ Inside(k, b, i)

\* While the clock is not set back and the process stays up, a saved bar is
\* made of all ticks inside it, none came after it was saved (bar_synth.cpp:47).
BarsWhole ==
    steps = 0 /\ downs = 0 =>
        \A i \in Intervals : \A b \in DOMAIN saved[i] :
            saved[i][b] = {k \in Ticks : Inside(k, b, i)}

\* If besides no save fails, every tick is in a row or still with the
\* synthesizer: dropping the ticks of the earlier bars loses nothing
\* (bar_synth.cpp:51, 58).
TicksKept ==
    steps = 0 /\ downs = 0 /\ faults = 0 =>
        \A i \in Intervals, k \in Ticks :
            k \in ticks[i] \/ \E b \in DOMAIN saved[i] : k \in saved[i][b]

\* Then the two tables agree: a long bar is the union of the short bars that
\* are in the table for its time (main.cpp:108-124 saves the short ones first).
BarsAgree ==
    steps = 0 /\ downs = 0 /\ faults = 0 =>
        \A b \in DOMAIN saved[Long] :
            saved[Long][b] = UNION {saved[Short][c] : c \in DOMAIN saved[Short] \cap (b .. b + Long - 1)}

\* Between two passes a synthesizer holds the ticks of one bar only, whatever
\* the clock does: ticks_ does not grow with the life of the process.  For the
\* long bars this takes that no pass was ended by an exception.
OneOpenBar ==
    pc = Idle =>
        \A i \in Intervals : i = Short \/ faults = 0 =>
            \A j, k \in ticks[i] : BarOf(i, j) = BarOf(i, k)

\* While the clock was not set back, a row once written is never changed,
\* across failed saves and restarts: the upserts only ever insert.
RowsFinal ==
    [][steps = 0 => \A i \in Intervals : \A b \in DOMAIN saved[i] :
          b \in DOMAIN saved'[i] /\ saved'[i][b] = saved[i][b]]_vars
=============================================================================

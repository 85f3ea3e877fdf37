--------------------------- MODULE BarSynthProofs ---------------------------
(***************************************************************************)
(* Proofs about the bars of one pool, for any interval lengths, one a      *)
(* multiple of the other, and any run of ticks, clock steps, failed saves  *)
(* and restarts.                                                           *)
(*                                                                         *)
(* That no row is changed and that no tick is lost rest on the same fact:  *)
(* while the clock goes forward a bar that was dropped has ended, so no    *)
(* later tick falls into it.                                               *)
(***************************************************************************)
EXTENDS BarSynth, FiniteSetTheorems, WellFoundedInduction, TLAPS

Moment == 1 .. MaxTime

Typed ==
    /\ now \in Moment /\ times \in Seq(Moment) /\ pc \in Intervals \cup {Idle}
    /\ {steps, faults, downs} \subseteq Nat
    /\ ticks \in [Intervals -> SUBSET Ticks]
    /\ saved = [i \in Intervals |-> saved[i]]

\* A row holds at least one tick and no tick that is not inside it.
RowsInside ==
    \A i \in Intervals : \A b \in DOMAIN saved[i] :
        saved[i][b] # {} /\ \A k \in saved[i][b] : k \in Ticks /\ Inside(k, b, i)

\* A synthesizer whose bars were taken since the last tick holds one bar; an
\* exception may keep the long ones from being taken.
Taken(i) ==
    \/ pc = Idle /\ (i = Short \/ faults = 0)
    \/ pc = Long /\ i = Short
OneBar   == \A i \in Intervals : Taken(i) => \A j, k \in ticks[i] : BarOf(i, j) = BarOf(i, k)

\* The clock not having been set back: the ticks are in order, and a row is a
\* bar that has ended and has no tick waiting.
InOrder ==
    /\ \A k \in Ticks : times[k] <= now
    /\ \A j, k \in Ticks : j <= k => times[j] <= times[k]
Aligned(i, b) == \E q \in Nat : b = q * i
RowsClosed ==
    \A i \in Intervals : \A b \in DOMAIN saved[i] :
        Aligned(i, b) /\ b + i <= now /\ \A k \in ticks[i] : BarOf(i, k) # b

\* The process not having been down either: the bars that wait are whole, and
\* those that do not have ended; the latest tick waits; the short bars of a long
\* bar's row do not.
WaitingWhole ==
    \A i \in Intervals : \A j \in Ticks, k \in ticks[i] :
        BarOf(i, j) = BarOf(i, k) => j \in ticks[i]
GoneEnded ==
    \A i \in Intervals : \A k \in Ticks : k \in ticks[i] \/ BarOf(i, k) + i <= now
LatestWaits ==
    \A i \in Intervals : times # <<>> => Len(times) \in ticks[i]
ShortFirst ==
    \A b \in DOMAIN saved[Long] : \A k \in ticks[Short] : b + Long <= times[k]
RowsWhole ==
    \A i \in Intervals : \A b \in DOMAIN saved[i] :
        saved[i][b] = {k \in Ticks : Inside(k, b, i)}

\* No save having failed: every tick waits or is in a row.
Everywhere ==
    \A i \in Intervals, k \in Ticks :
        k \in ticks[i] \/ \E b \in DOMAIN saved[i] : k \in saved[i][b]

Forward   == steps = 0
Unbroken  == steps = 0 /\ downs = 0
Untroubled == steps = 0 /\ downs = 0 /\ faults = 0

IInv ==
    /\ Typed /\ RowsInside /\ OneBar
    /\ Forward => InOrder /\ RowsClosed
    /\ Unbroken => WaitingWhole /\ GoneEnded /\ LatestWaits /\ ShortFirst /\ RowsWhole
    /\ Untroubled => Everywhere

-----------------------------------------------------------------------------
(* Bars.                                                                   *)

Below == {p \in Nat \X Nat : p[1] < p[2]}

\* A nonempty set of bounded numbers has a greatest element.
LEMMA GreatestExists ==
    ASSUME NEW m \in Nat, NEW S, S \subseteq 0 .. m, S # {}
    PROVE  \E x \in S : \A y \in S : y <= x
  <1>. DEFINE T == {m - x : x \in S}
  <1>1. T \subseteq Nat /\ T # {}
    <2>1. \A x \in S : x \in 0 .. m /\ m - x \in Nat
      OBVIOUS
    <2>2. \A y \in T : y \in Nat
      BY <2>1
    <2>3. \E y : y \in T
      BY Zenon
    <2>. QED
      BY <2>2, <2>3
  <1>2. IsWellFoundedOn(Below, Nat)
    BY NatLessThanWellFounded DEF OpToRel, Below
  <1>3. PICK t \in T : \A u \in T : ~ (<<u, t>> \in Below)
    BY <1>1, <1>2, WFMin
  <1>4. PICK x \in S : t = m - x
    OBVIOUS
  <1>5. ASSUME NEW y \in S
        PROVE  y <= x
    <2>1. m - y \in T /\ m - y \in Nat /\ m - x \in Nat
      OBVIOUS
    <2>2. ~ (m - y < m - x)
      BY <1>3, <1>4, <2>1 DEF Below
    <2>. QED
      BY <2>2
  <1>. QED
    BY <1>5

\* Interval lengths are positive and none is the idle mark of the loop.
LEMMA IntervalFacts ==
    /\ \A i \in Intervals : i \in Nat \ {0}
    /\ Short \in Intervals /\ Long \in Intervals
    /\ Short # Long /\ Short # Idle /\ Long # Idle
  BY IntervalsAssumption DEF Intervals, Idle

\* Rounding down to a multiple.
LEMMA RoundDown ==
    ASSUME NEW t \in Nat, NEW i \in Nat \ {0}
    PROVE  (t \div i) \in Nat /\ (t \div i) * i <= t /\ t < (t \div i) * i + i
  OBVIOUS

\* Different multiples are a whole interval apart.
LEMMA MultiplesApart ==
    ASSUME NEW p \in Nat, NEW q \in Nat, NEW i \in Nat \ {0}, p < q
    PROVE  p * i + i <= q * i
  OBVIOUS

\* Two aligned starts are equal or a whole interval apart.
LEMMA AlignedApart ==
    ASSUME NEW i \in Nat \ {0}, NEW b, NEW c, Aligned(i, b), Aligned(i, c)
    PROVE  b \in Nat /\ c \in Nat /\ (b < c => b + i <= c)
  <1>1. PICK p \in Nat : b = p * i
    BY DEF Aligned
  <1>2. PICK q \in Nat : c = q * i
    BY DEF Aligned
  <1>3. b \in Nat /\ c \in Nat
    BY <1>1, <1>2
  <1>4. ASSUME b < c
        PROVE  p < q
    <2>1. q < p => q * i + i <= p * i
      BY MultiplesApart
    <2>2. q = p => c = b
      BY <1>1, <1>2
    <2>. QED
      BY <1>1, <1>2, <1>3, <1>4, <2>1, <2>2
  <1>. QED
    BY <1>1, <1>2, <1>3, <1>4, MultiplesApart

\* What a multiple of the long interval is to the short one.
LEMMA LongIsAligned ==
    ASSUME NEW b, Aligned(Long, b)
    PROVE  Aligned(Short, b) /\ Aligned(Short, b + Long)
  <1>. DEFINE m == Long \div Short
  <1>1. m \in Nat /\ Long = m * Short /\ Short \in Nat
    BY IntervalsAssumption
  <1>. HIDE DEF m
  <1>2. PICK q \in Nat : b = q * Long
    BY DEF Aligned
  <1>3. q * m \in Nat /\ q * m + m \in Nat
    BY <1>1
  <1>4. b = (q * m) * Short
    BY <1>1, <1>2
  <1>5. b + Long = (q * m + m) * Short
    BY <1>1, <1>3, <1>4
  <1>. QED
    BY <1>3, <1>4, <1>5 DEF Aligned

\* A tick has a time, and lies inside its bar (bar_synth.cpp:26).
LEMMA BarFacts ==
    ASSUME Typed, NEW i \in Intervals, NEW k \in Ticks
    PROVE  /\ times[k] \in Nat /\ times[k] <= MaxTime
           /\ BarOf(i, k) \in 0 .. MaxTime /\ Aligned(i, BarOf(i, k))
           /\ BarOf(i, k) <= times[k] /\ times[k] < BarOf(i, k) + i
  <1>1. times[k] \in Moment
    BY DEF Typed, Ticks
  <1>2. times[k] \in Nat /\ times[k] <= MaxTime /\ MaxTime \in Nat /\ i \in Nat \ {0}
    BY <1>1, BoundsAssumption, IntervalFacts DEF Moment
  <1>. DEFINE q == times[k] \div i
  <1>3. q \in Nat /\ q * i <= times[k] /\ times[k] < q * i + i
    BY <1>2, RoundDown
  <1>4. BarOf(i, k) = q * i
    BY DEF BarOf
  <1>. HIDE DEF q
  <1>5. q * i \in Nat
    BY <1>2, <1>3
  <1>. QED
    BY <1>2, <1>3, <1>4, <1>5 DEF Aligned

\* It lies inside no other.
LEMMA BarIsOnly ==
    ASSUME Typed, NEW i \in Intervals, NEW k \in Ticks, NEW b, Aligned(i, b)
    PROVE  Inside(k, b, i) <=> BarOf(i, k) = b
  <1>. DEFINE c == BarOf(i, k)
  <1>1. /\ times[k] \in Nat /\ Aligned(i, c) /\ c \in Nat
        /\ c <= times[k] /\ times[k] < c + i /\ i \in Nat \ {0}
    BY BarFacts, IntervalFacts
  <1>. HIDE DEF c
  <1>2. b \in Nat /\ (b < c => b + i <= c) /\ (c < b => c + i <= b)
    BY <1>1, AlignedApart
  <1>. QED
    BY <1>1, <1>2 DEF Inside, c

\* A later tick is in the same bar or a later one.
LEMMA BarsInOrder ==
    ASSUME Typed, NEW i \in Intervals, NEW j \in Ticks, NEW k \in Ticks, times[j] <= times[k]
    PROVE  BarOf(i, j) <= BarOf(i, k)
  <1>. DEFINE b == BarOf(i, j)
              c == BarOf(i, k)
  <1>1. /\ times[j] \in Nat /\ times[k] \in Nat /\ i \in Nat \ {0}
        /\ Aligned(i, b) /\ Aligned(i, c) /\ b <= times[j] /\ times[k] < c + i
    BY BarFacts, IntervalFacts
  <1>. HIDE DEF b, c
  <1>2. b \in Nat /\ c \in Nat /\ (c < b => c + i <= b)
    BY <1>1, AlignedApart
  <1>. QED
    BY <1>1, <1>2 DEF b, c

\* The last bar is one of the bars, and none is after it.
LEMMA LastBarFacts ==
    ASSUME Typed, NEW i \in Intervals, ticks[i] # {}
    PROVE  /\ \E k \in ticks[i] : LastBar(i) = BarOf(i, k)
           /\ \A k \in ticks[i] : BarOf(i, k) <= LastBar(i)
  <1>. DEFINE S == {BarOf(i, k) : k \in ticks[i]}
  <1>1. ticks[i] \subseteq Ticks /\ MaxTime \in Nat
    BY BoundsAssumption DEF Typed
  <1>2. \A k \in ticks[i] : BarOf(i, k) \in 0 .. MaxTime
    BY <1>1, BarFacts
  <1>3. S \subseteq 0 .. MaxTime /\ S # {}
    BY <1>2
  <1>4. \E x \in S : \A y \in S : y <= x
    BY <1>1, <1>3, GreatestExists
  <1>5. LastBar(i) = CHOOSE b \in S : \A k \in ticks[i] : BarOf(i, k) <= b
    BY DEF LastBar
  <1>6. \E b \in S : \A k \in ticks[i] : BarOf(i, k) <= b
    BY <1>4
  <1>7. LastBar(i) \in S /\ \A k \in ticks[i] : BarOf(i, k) <= LastBar(i)
    BY <1>5, <1>6
  <1>. QED
    BY <1>7

\* A completed bar is one of the bars, and has ended.
LEMMA CompletedFacts ==
    ASSUME Typed, NEW i \in Intervals, NEW b \in Completed(i)
    PROVE  /\ ticks[i] # {} /\ Aligned(i, b) /\ b \in Nat
           /\ b # LastBar(i) /\ b + i <= LastBar(i) /\ b + i <= now
           /\ \E k \in ticks[i] : BarOf(i, k) = b
  <1>1. PICK k \in ticks[i] : b = BarOf(i, k)
    BY DEF Completed
  <1>2. PICK m \in ticks[i] : LastBar(i) = BarOf(i, m)
    BY <1>1, LastBarFacts
  <1>3. b <= LastBar(i) /\ b # LastBar(i) /\ now >= b + i
    BY <1>1, LastBarFacts DEF Completed
  <1>4. Aligned(i, b) /\ Aligned(i, LastBar(i)) /\ i \in Nat \ {0}
    <2>1. k \in Ticks /\ m \in Ticks
      BY DEF Typed
    <2>. QED
      BY <1>1, <1>2, <2>1, BarFacts, IntervalFacts
  <1>5. b \in Nat /\ LastBar(i) \in Nat /\ (b < LastBar(i) => b + i <= LastBar(i))
    BY <1>4, AlignedApart
  <1>6. now \in Nat
    BY BoundsAssumption DEF Typed, Moment
  <1>. QED
    BY <1>1, <1>3, <1>4, <1>5, <1>6

-----------------------------------------------------------------------------
(* Steps.                                                                  *)

\* What a step does to the ticks that are there.
LEMMA TicksGrow ==
    ASSUME Typed, [Next]_vars
    PROVE  /\ \A k \in Ticks : k \in Ticks' /\ times'[k] = times[k]
           /\ \A i, k : k \in Ticks => BarOf(i, k)' = BarOf(i, k)
           /\ \A k, b, i : k \in Ticks => (Inside(k, b, i)' <=> Inside(k, b, i))
           /\ ~ AddTick => times' = times
           /\ Ticks = 1 .. Len(times) /\ Len(times) \in Nat
  <1>1. times \in Seq(Moment) /\ now \in Moment
    BY DEF Typed
  <1>2. AddTick => times' = Append(times, now)
    BY DEF AddTick
  <1>3. ~ AddTick => times' = times
    BY DEF Next, PassWithout, SaveBars, Advance, SetBack, Restart, vars
  <1>4. Ticks = 1 .. Len(times) /\ Len(times) \in Nat
    BY <1>1 DEF Ticks
  <1>5. /\ DOMAIN Append(times, now) = 1 .. Len(times) + 1
        /\ \A k \in 1 .. Len(times) : Append(times, now)[k] = times[k]
    BY <1>1
  <1>6. \A k \in Ticks : k \in Ticks' /\ times'[k] = times[k]
    BY <1>2, <1>3, <1>4, <1>5 DEF Ticks
  <1>. QED
    BY <1>3, <1>4, <1>6 DEF BarOf, Inside

\* A tick of the current time, for both synthesizers.
LEMMA AddTickFacts ==
    ASSUME Typed, AddTick
    PROVE  /\ times' \in Seq(Moment) /\ Ticks' = Ticks \cup {Len(times) + 1}
           /\ Len(times') = Len(times) + 1 /\ times'[Len(times) + 1] = now
           /\ Len(times) + 1 \notin Ticks
           /\ \A i \in Intervals : ticks'[i] = ticks[i] \cup {Len(times) + 1}
           /\ ticks' = [i \in Intervals |-> ticks[i] \cup {Len(times) + 1}]
           /\ pc = Idle /\ pc' = Short /\ UNCHANGED <<now, saved, steps, faults, downs>>
  <1>1. times \in Seq(Moment) /\ now \in Moment
    BY DEF Typed
  <1>2. /\ times' = Append(times, now) /\ pc = Idle /\ pc' = Short
        /\ ticks' = [i \in Intervals |-> ticks[i] \cup {Len(times) + 1}]
        /\ UNCHANGED <<now, saved, steps, faults, downs>>
    BY DEF AddTick
  <1>3. /\ Append(times, now) \in Seq(Moment) /\ Len(Append(times, now)) = Len(times) + 1
        /\ Append(times, now)[Len(times) + 1] = now
        /\ DOMAIN Append(times, now) = 1 .. Len(times) + 1
        /\ DOMAIN times = 1 .. Len(times) /\ Len(times) \in Nat
    BY <1>1
  <1>4. Ticks' = Ticks \cup {Len(times) + 1} /\ Len(times) + 1 \notin Ticks
    BY <1>2, <1>3 DEF Ticks
  <1>. QED
    BY <1>2, <1>3, <1>4

\* The bars that are saved, all but those that were lost.
Saves(i, lost) ==
    LET written == Completed(i) \ lost
    IN  /\ faults' \in Nat /\ faults <= faults' /\ (faults' = 0 => lost = {})
        /\ DOMAIN saved'[i] = DOMAIN saved[i] \cup written
        /\ \A b \in DOMAIN saved'[i] :
              saved'[i][b] = IF b \in written THEN InBar(i, b) ELSE saved[i][b]
        /\ \A j \in Intervals : j # i => saved'[j] = saved[j] /\ ticks'[j] = ticks[j]
        /\ saved' = [j \in Intervals |-> saved'[j]]
        /\ \A k : k \in ticks'[i] <=> k \in ticks[i] /\ BarOf(i, k) = LastBar(i)
        /\ ticks' \in [Intervals -> SUBSET Ticks]
        /\ pc = i /\ pc' \in {Long, Idle}
        /\ i = Short => pc' = Long \/ lost # {}
        /\ i = Long => pc' = Idle
        /\ UNCHANGED <<now, times, steps, downs>>

\* get_completed_bars and the upserts (bar_synth.cpp:16-73, main.cpp:108-124).
LEMMA SaveFacts ==
    ASSUME Typed, NEW i \in Intervals, SaveBars(i)
    PROVE  \E lost : Saves(i, lost)
  <1>1. PICK failed \in SUBSET Completed(i) :
            /\ faults' = faults + Cardinality(failed)
            /\ \E lost \in SUBSET failed :
                  /\ Upsert(i, Completed(i) \ lost)
                  /\ \/ pc' = IF i = Short THEN Long ELSE Idle
                     \/ Thrown(i, lost) /\ pc' = Idle
    BY DEF SaveBars
  <1>2. PICK lost \in SUBSET failed :
            /\ Upsert(i, Completed(i) \ lost)
            /\ \/ pc' = IF i = Short THEN Long ELSE Idle
               \/ Thrown(i, lost) /\ pc' = Idle
    BY <1>1
  <1>16. /\ pc' \in {Long, Idle} /\ (i = Long => pc' = Idle)
         /\ i = Short => pc' = Long \/ lost # {}
    <2>1. Thrown(i, lost) => i = Short /\ lost # {}
      BY DEF Thrown
    <2>. QED
      BY <1>2, <2>1, IntervalFacts
  <1>3. /\ ticks' = [ticks EXCEPT ![i] = Kept(i)] /\ pc = i
        /\ UNCHANGED <<now, times, steps, downs>>
    BY Zenon DEF SaveBars
  <1>4. IsFiniteSet(failed)
    <2>1. MaxTime \in Nat /\ IsFiniteSet(0 .. MaxTime)
      BY BoundsAssumption, FS_Interval
    <2>2. \A k \in ticks[i] : BarOf(i, k) \in 0 .. MaxTime
      BY BarFacts DEF Typed
    <2>3. failed \subseteq 0 .. MaxTime
      BY <2>2 DEF Completed
    <2>. QED
      BY <2>1, <2>3, FS_Subset
  <1>5. Cardinality(failed) \in Nat /\ (Cardinality(failed) = 0 <=> failed = {})
    BY <1>4, FS_CardinalityType, FS_EmptySet
  <1>6. faults' \in Nat /\ faults <= faults' /\ (faults' = 0 => lost = {})
    BY <1>1, <1>2, <1>5 DEF Typed
  <1>. DEFINE written == Completed(i) \ lost
              row == [b \in DOMAIN saved[i] \cup written |->
                         IF b \in written THEN InBar(i, b) ELSE saved[i][b]]
  <1>7. saved' = [saved EXCEPT ![i] = row]
    BY <1>2 DEF Upsert
  <1>8. DOMAIN saved = Intervals
    BY DEF Typed
  <1>9. /\ saved'[i] = row /\ \A j \in Intervals : j # i => saved'[j] = saved[j]
        /\ saved' = [j \in Intervals |-> saved'[j]]
    <2>. HIDE DEF row
    <2>1. saved'[i] = row /\ \A j \in Intervals : j # i => saved'[j] = saved[j]
      BY <1>7, <1>8
    <2>2. saved' = [j \in Intervals |-> saved'[j]]
      BY <1>7, <1>8
    <2>. QED
      BY <2>1, <2>2
  <1>10. /\ DOMAIN saved'[i] = DOMAIN saved[i] \cup written
         /\ \A b \in DOMAIN saved'[i] :
               saved'[i][b] = IF b \in written THEN InBar(i, b) ELSE saved[i][b]
    BY <1>9
  <1>11. \A k : k \in Kept(i) <=> k \in ticks[i] /\ BarOf(i, k) = LastBar(i)
    BY DEF Kept, InBar
  <1>12. Kept(i) \in SUBSET Ticks /\ ticks \in [Intervals -> SUBSET Ticks]
    BY <1>11 DEF Typed
  <1>13. /\ ticks'[i] = Kept(i) /\ \A j \in Intervals : j # i => ticks'[j] = ticks[j]
         /\ ticks' \in [Intervals -> SUBSET Ticks]
    BY <1>3, <1>12
  <1>. HIDE DEF row, written
  <1>14. /\ \A j \in Intervals : j # i => saved'[j] = saved[j] /\ ticks'[j] = ticks[j]
         /\ \A k : k \in ticks'[i] <=> k \in ticks[i] /\ BarOf(i, k) = LastBar(i)
    BY <1>9, <1>11, <1>13
  <1>15. /\ saved' = [j \in Intervals |-> saved'[j]]
         /\ ticks' \in [Intervals -> SUBSET Ticks]
    BY <1>9, <1>13
  <1>. QED
    BY <1>3, <1>6, <1>10, <1>14, <1>15, <1>16, Zenon DEF Saves, written

\* Types survive every step.
LEMMA TypedStep ==
    ASSUME Typed, [Next]_vars
    PROVE  Typed'
  <1>1. CASE AddTick
    <2>1. /\ times' \in Seq(Moment) /\ Ticks' = Ticks \cup {Len(times) + 1}
          /\ ticks' = [i \in Intervals |-> ticks[i] \cup {Len(times) + 1}]
          /\ pc' = Short /\ UNCHANGED <<now, saved, steps, faults, downs>>
      BY <1>1, AddTickFacts
    <2>2. ticks' \in [Intervals -> SUBSET Ticks']
      BY <2>1 DEF Typed
    <2>. QED
      BY <2>1, <2>2 DEF Typed, Intervals
  <1>2. ASSUME NEW i \in Intervals, SaveBars(i)
        PROVE  Typed'
    <2>1. PICK lost : Saves(i, lost)
      BY <1>2, SaveFacts
    <2>2. /\ saved' = [j \in Intervals |-> saved'[j]] /\ ticks' \in [Intervals -> SUBSET Ticks]
          /\ faults' \in Nat /\ pc' \in {Long, Idle}
          /\ UNCHANGED <<now, times, steps, downs>>
      BY <2>1, Zenon DEF Saves
    <2>3. Ticks' = Ticks
      BY <2>2 DEF Ticks
    <2>4. pc' \in Intervals \cup {Idle}
      BY <2>2 DEF Intervals
    <2>. QED
      BY <2>2, <2>3, <2>4 DEF Typed
  <1>3. CASE Advance \/ SetBack \/ PassWithout \/ UNCHANGED vars
    <2>1. UNCHANGED <<times, ticks, pc, saved, faults, downs>>
      BY <1>3 DEF Advance, SetBack, PassWithout, vars
    <2>2. now' \in Moment /\ steps' \in Nat
      BY <1>3, BoundsAssumption DEF Advance, SetBack, PassWithout, vars, Typed, Moment
    <2>. QED
      BY <2>1, <2>2 DEF Typed, Ticks
  <1>4. CASE Restart
    <2>1. /\ ticks' = [i \in Intervals |-> {}] /\ pc' = Idle /\ downs' = downs + 1
          /\ UNCHANGED <<now, times, saved, steps, faults>>
      BY <1>4 DEF Restart
    <2>. QED
      BY <2>1 DEF Typed, Ticks
  <1>. QED
    BY <1>1, <1>2, <1>3, <1>4 DEF Next

\* Rows keep at least one tick, and only ticks that are inside them.
LEMMA RowsInsideStep ==
    ASSUME Typed, RowsInside, [Next]_vars
    PROVE  RowsInside'
  <1>1. ASSUME saved' = saved
        PROVE  RowsInside'
    <2>1. ASSUME NEW i \in Intervals, NEW b \in DOMAIN saved[i]
          PROVE  saved[i][b] # {} /\ \A k \in saved[i][b] : k \in Ticks' /\ Inside(k, b, i)'
      BY TicksGrow DEF RowsInside
    <2>. QED
      BY <1>1, <2>1 DEF RowsInside
  <1>2. ASSUME NEW i \in Intervals, SaveBars(i)
        PROVE  RowsInside'
    <2>1. PICK lost : Saves(i, lost)
      BY <1>2, SaveFacts
    <2>2. ASSUME NEW j \in Intervals, NEW b \in DOMAIN saved'[j]
          PROVE  saved'[j][b] # {} /\ \A k \in saved'[j][b] : k \in Ticks' /\ Inside(k, b, j)'
      <3>1. CASE j # i
        <4>1. saved'[j] = saved[j]
          BY <2>1, <3>1 DEF Saves
        <4>. QED
          BY <2>2, <4>1, TicksGrow DEF RowsInside
      <3>2. CASE j = i /\ b \in Completed(i) \ lost
        <4>1. saved'[j][b] = InBar(i, b)
          BY <2>1, <2>2, <3>2 DEF Saves
        <4>2. Aligned(i, b) /\ \E k \in ticks[i] : BarOf(i, k) = b
          BY <3>2, CompletedFacts
        <4>3. ASSUME NEW k \in ticks[i], BarOf(i, k) = b
              PROVE  k \in Ticks' /\ Inside(k, b, i)'
          <5>1. k \in Ticks
            BY DEF Typed
          <5>2. Inside(k, b, i)
            BY <4>2, <4>3, <5>1, BarIsOnly
          <5>. QED
            BY <5>1, <5>2, TicksGrow
        <4>. QED
          BY <3>2, <4>1, <4>2, <4>3 DEF InBar
      <3>3. CASE j = i /\ b \notin Completed(i) \ lost
        <4>1. saved'[j][b] = saved[j][b] /\ b \in DOMAIN saved[j]
          BY <2>1, <2>2, <3>3 DEF Saves
        <4>. QED
          BY <4>1, TicksGrow DEF RowsInside
      <3>. QED
        BY <3>1, <3>2, <3>3
    <2>. QED
      BY <2>2 DEF RowsInside
  <1>. QED
    BY <1>1, <1>2 DEF Next, AddTick, PassWithout, Advance, SetBack, Restart, vars

\* get_completed_bars leaves one bar.
LEMMA OneBarStep ==
    ASSUME Typed, OneBar, [Next]_vars
    PROVE  OneBar'
  <1>1. CASE AddTick
    <2>1. pc' = Short
      BY <1>1, AddTickFacts
    <2>. QED
      BY <2>1, IntervalFacts DEF OneBar, Taken
  <1>2. ASSUME NEW i \in Intervals, SaveBars(i)
        PROVE  OneBar'
    <2>1. PICK lost : Saves(i, lost)
      BY <1>2, SaveFacts
    <2>2. ASSUME NEW n \in Intervals, Taken(n)', NEW j \in ticks'[n], NEW k \in ticks'[n]
          PROVE  BarOf(n, j)' = BarOf(n, k)'
      <3>1. /\ times' = times /\ pc = i /\ (faults' = 0 => lost = {})
            /\ i = Short => pc' = Long \/ lost # {}
        BY <2>1, Zenon DEF Saves
      <3>2. BarOf(n, j)' = BarOf(n, j) /\ BarOf(n, k)' = BarOf(n, k)
        BY <3>1 DEF BarOf
      <3>3. CASE n = i
        BY <2>1, <2>2, <3>2, <3>3 DEF Saves
      <3>4. CASE n # i
        <4>1. ticks'[n] = ticks[n]
          BY <2>1, <3>4 DEF Saves
        <4>2. i = Long /\ n = Short /\ Taken(n)
          BY <2>2, <3>1, <3>4, IntervalFacts DEF Taken, Intervals
        <4>. QED
          BY <2>2, <3>2, <4>1, <4>2 DEF OneBar
      <3>. QED
        BY <3>3, <3>4
    <2>. QED
      BY <2>2 DEF OneBar
  <1>3. CASE Advance \/ SetBack \/ PassWithout \/ UNCHANGED vars
    <2>1. UNCHANGED <<times, ticks, pc, faults>>
      BY <1>3 DEF Advance, SetBack, PassWithout, vars
    <2>. QED
      BY <2>1 DEF OneBar, Taken, BarOf
  <1>4. CASE Restart
    BY <1>4 DEF Restart, OneBar
  <1>. QED
    BY <1>1, <1>2, <1>3, <1>4 DEF Next

-----------------------------------------------------------------------------
(* While the clock is not set back.                                        *)

\* What had not happened yet had not happened before.
LEMMA Earlier ==
    ASSUME Typed, [Next]_vars
    PROVE  /\ now \in Nat /\ now' \in Nat /\ {steps, downs, faults} \subseteq Nat
           /\ Forward' => Forward /\ ~ SetBack /\ now <= now'
           /\ Unbroken' => Unbroken /\ ~ Restart
           /\ Untroubled' => Untroubled
  <1>1. now \in Nat /\ {steps, downs, faults} \subseteq Nat
    BY BoundsAssumption DEF Typed, Moment
  <1>2. SetBack => steps' # 0
    BY <1>1 DEF SetBack
  <1>3. Restart => downs' # 0 /\ UNCHANGED <<now, steps, faults>>
    BY <1>1 DEF Restart
  <1>4. Advance => now' = now + 1 /\ UNCHANGED <<steps, downs, faults>>
    BY DEF Advance
  <1>5. AddTick \/ PassWithout \/ UNCHANGED vars => UNCHANGED <<now, steps, downs, faults>>
    BY DEF AddTick, PassWithout, vars
  <1>6. ASSUME NEW i \in Intervals, SaveBars(i)
        PROVE  UNCHANGED <<now, steps, downs>> /\ faults' \in Nat /\ faults <= faults'
    BY <1>6, SaveFacts DEF Saves
  <1>7. SetBack => now' = now - 1 /\ now > 1 /\ UNCHANGED <<downs, faults>>
    BY DEF SetBack
  <1>8. ASSUME SetBack
        PROVE  now' \in Nat /\ ~ Forward' /\ ~ Unbroken' /\ ~ Untroubled'
    BY <1>1, <1>2, <1>7, <1>8 DEF Forward, Unbroken, Untroubled
  <1>9. ASSUME ~ SetBack
        PROVE  /\ now' \in Nat /\ now <= now' /\ steps' = steps
               /\ Restart \/ downs' = downs
               /\ faults' = 0 => faults = 0
    BY <1>1, <1>3, <1>4, <1>5, <1>6, <1>9 DEF Next
  <1>. QED
    BY <1>1, <1>3, <1>8, <1>9 DEF Forward, Unbroken, Untroubled

\* The ticks stay in order.
LEMMA InOrderStep ==
    ASSUME Typed, InOrder, [Next]_vars, Forward'
    PROVE  InOrder'
  <1>1. now \in Nat /\ now' \in Nat /\ now <= now'
    BY Earlier
  <1>2. \A k \in Ticks : times[k] \in Nat /\ times[k] <= now
    BY BarFacts, IntervalFacts DEF InOrder
  <1>3. CASE AddTick
    <2>1. /\ Ticks' = Ticks \cup {Len(times) + 1} /\ times'[Len(times) + 1] = now
          /\ now' = now
      BY <1>3, AddTickFacts
    <2>2. Ticks = 1 .. Len(times) /\ Len(times) \in Nat /\ \A k \in Ticks : times'[k] = times[k]
      BY TicksGrow
    <2>3. \A k \in Ticks' : times'[k] <= now'
      BY <1>1, <1>2, <2>1, <2>2
    <2>4. ASSUME NEW j \in Ticks', NEW k \in Ticks', j <= k
          PROVE  times'[j] <= times'[k]
      <3>1. CASE k \in Ticks
        <4>1. j \in Ticks
          BY <2>1, <2>2, <2>4, <3>1
        <4>. QED
          BY <2>2, <2>4, <3>1, <4>1 DEF InOrder
      <3>2. CASE k = Len(times) + 1
        BY <2>1, <2>3, <3>2
      <3>. QED
        BY <2>1, <3>1, <3>2
    <2>. QED
      BY <2>3, <2>4 DEF InOrder
  <1>4. CASE ~ AddTick
    <2>1. times' = times
      BY <1>4, TicksGrow
    <2>2. \A k \in Ticks : times[k] <= now'
      BY <1>1, <1>2
    <2>. QED
      BY <2>1, <2>2 DEF InOrder, Ticks
  <1>. QED
    BY <1>3, <1>4

\* A tick of now is in no bar that has ended.
LEMMA NotInEnded ==
    ASSUME Typed, [Next]_vars, NEW i \in Intervals, NEW k \in Ticks', NEW b \in Nat,
           b + i <= times'[k]
    PROVE  BarOf(i, k)' # b /\ ~ Inside(k, b, i)'
  <1>1. times'[k] \in Nat /\ i \in Nat \ {0}
    <2>1. times' \in Seq(Moment)
      BY TypedStep DEF Typed
    <2>2. times'[k] \in Moment
      BY <2>1 DEF Ticks
    <2>. QED
      BY <2>2, IntervalFacts, BoundsAssumption DEF Moment
  <1>. DEFINE t == times'[k]
              q == t \div i
  <1>2. q \in Nat /\ t < q * i + i
    BY <1>1, RoundDown
  <1>3. BarOf(i, k)' = q * i
    BY DEF BarOf
  <1>4. ~ Inside(k, b, i)' <=> ~ (b <= t /\ t < b + i)
    BY DEF Inside
  <1>. HIDE DEF q
  <1>5. q * i \in Nat
    BY <1>1, <1>2
  <1>. QED
    BY <1>1, <1>2, <1>3, <1>4, <1>5

\* A row's bar has ended, and no tick that waits is in it.
LEMMA RowsClosedStep ==
    ASSUME Typed, InOrder, RowsClosed, [Next]_vars, Forward'
    PROVE  RowsClosed'
  <1>1. now \in Nat /\ now' \in Nat /\ now <= now' /\ ~ SetBack
    BY Earlier
  <1>2. ASSUME NEW i \in Intervals, NEW b \in DOMAIN saved[i]
        PROVE  Aligned(i, b) /\ b \in Nat /\ i \in Nat /\ b + i <= now /\ b + i <= now'
    <2>1. Aligned(i, b) /\ b + i <= now /\ i \in Nat \ {0}
      BY <1>2, IntervalFacts DEF RowsClosed
    <2>2. b \in Nat
      BY <2>1, AlignedApart
    <2>. QED
      BY <1>1, <2>1, <2>2
  <1>3. CASE AddTick
    <2>1. /\ \A i \in Intervals : ticks'[i] = ticks[i] \cup {Len(times) + 1}
          /\ times'[Len(times) + 1] = now /\ Len(times) + 1 \in Ticks' /\ saved' = saved
      BY <1>3, AddTickFacts
    <2>2. ASSUME NEW i \in Intervals, NEW b \in DOMAIN saved[i], NEW k \in ticks'[i]
          PROVE  BarOf(i, k)' # b
      <3>1. CASE k \in ticks[i]
        <4>1. k \in Ticks
          BY <3>1 DEF Typed
        <4>. QED
          BY <3>1, <4>1, TicksGrow DEF RowsClosed
      <3>2. CASE k = Len(times) + 1
        BY <1>2, <2>1, <3>2, NotInEnded
      <3>. QED
        BY <2>1, <3>1, <3>2
    <2>. QED
      BY <1>2, <2>1, <2>2 DEF RowsClosed
  <1>4. ASSUME NEW i \in Intervals, SaveBars(i)
        PROVE  RowsClosed'
    <2>1. PICK lost : Saves(i, lost)
      BY <1>4, SaveFacts
    <2>2. times' = times /\ now' = now
      BY <2>1 DEF Saves
    <2>3. ASSUME NEW j \in Intervals, NEW b \in DOMAIN saved'[j]
          PROVE  Aligned(j, b) /\ b + j <= now' /\ \A k \in ticks'[j] : BarOf(j, k)' # b
      <3>1. \A k : BarOf(j, k)' = BarOf(j, k)
        BY <2>2 DEF BarOf
      <3>2. \A k \in ticks'[j] : k \in ticks[j]
        BY <2>1 DEF Saves
      <3>3. CASE b \in DOMAIN saved[j]
        BY <1>2, <3>1, <3>2, <3>3 DEF RowsClosed
      <3>4. CASE b \notin DOMAIN saved[j]
        <4>1. j = i /\ b \in Completed(i)
          BY <2>1, <2>3, <3>4 DEF Saves
        <4>2. Aligned(i, b) /\ b # LastBar(i) /\ b + i <= now
          BY <4>1, CompletedFacts
        <4>3. \A k \in ticks'[i] : BarOf(i, k) = LastBar(i)
          BY <2>1 DEF Saves
        <4>. QED
          BY <2>2, <3>1, <4>1, <4>2, <4>3
      <3>. QED
        BY <3>3, <3>4
    <2>. QED
      BY <2>3 DEF RowsClosed
  <1>5. CASE Advance \/ PassWithout \/ UNCHANGED vars
    <2>1. UNCHANGED <<times, ticks, saved>>
      BY <1>5 DEF Advance, PassWithout, vars
    <2>. QED
      BY <1>2, <2>1 DEF RowsClosed, BarOf
  <1>6. CASE Restart
    <2>1. ticks' = [i \in Intervals |-> {}] /\ saved' = saved /\ now' = now
      BY <1>6 DEF Restart
    <2>. QED
      BY <1>2, <2>1 DEF RowsClosed
  <1>. QED
    BY <1>1, <1>3, <1>4, <1>5, <1>6 DEF Next

\* A bar before the last one has ended, so it is completed and its ticks are
\* dropped for a reason (bar_synth.cpp:41-58).
LEMMA EarlierEnded ==
    ASSUME Typed, InOrder, NEW i \in Intervals, NEW k \in ticks[i], BarOf(i, k) # LastBar(i)
    PROVE  BarOf(i, k) + i <= now /\ BarOf(i, k) \in Completed(i)
  <1>. DEFINE b == BarOf(i, k)
  <1>1. PICK m \in ticks[i] : LastBar(i) = BarOf(i, m)
    BY LastBarFacts
  <1>2. k \in Ticks /\ m \in Ticks /\ b <= LastBar(i)
    BY LastBarFacts DEF Typed
  <1>3. /\ Aligned(i, b) /\ Aligned(i, LastBar(i)) /\ i \in Nat \ {0}
        /\ times[m] \in Nat /\ LastBar(i) <= times[m] /\ times[m] <= now
    BY <1>1, <1>2, BarFacts, IntervalFacts DEF InOrder
  <1>4. b \in {BarOf(i, x) : x \in ticks[i]} /\ b # LastBar(i)
    OBVIOUS
  <1>. HIDE DEF b
  <1>5. b \in Nat /\ LastBar(i) \in Nat /\ (b < LastBar(i) => b + i <= LastBar(i))
    BY <1>3, AlignedApart
  <1>6. now \in Nat
    BY BoundsAssumption DEF Typed, Moment
  <1>7. b + i <= now
    BY <1>2, <1>3, <1>4, <1>5, <1>6
  <1>8. now >= b + i
    BY <1>3, <1>5, <1>6, <1>7
  <1>. QED
    BY <1>4, <1>7, <1>8 DEF Completed, b

\* The latest tick is in the last bar.
LEMMA LatestIsLast ==
    ASSUME Typed, InOrder, LatestWaits, NEW i \in Intervals, ticks[i] # {}
    PROVE  Len(times) \in ticks[i] /\ Len(times) \in Ticks /\ LastBar(i) = BarOf(i, Len(times))
  <1>. DEFINE n == Len(times)
  <1>1. PICK m \in ticks[i] : LastBar(i) = BarOf(i, m)
    BY LastBarFacts
  <1>2. times \in Seq(Moment) /\ m \in Ticks
    BY DEF Typed
  <1>3. n \in Nat /\ m \in 1 .. n /\ Ticks = 1 .. n
    BY <1>2 DEF Ticks
  <1>4. n \in ticks[i] /\ n \in Ticks /\ times[m] <= times[n]
    BY <1>2, <1>3 DEF LatestWaits, InOrder
  <1>5. BarOf(i, m) <= BarOf(i, n) /\ BarOf(i, n) <= LastBar(i)
    BY <1>2, <1>4, BarsInOrder, LastBarFacts
  <1>6. BarOf(i, m) \in Nat /\ BarOf(i, n) \in Nat
    BY <1>2, <1>4, BarFacts
  <1>. QED
    BY <1>1, <1>4, <1>5, <1>6

\* Bars wait whole: the tick that comes is in no bar that is gone, and bars go
\* whole.
LEMMA WaitingWholeStep ==
    ASSUME Typed, InOrder, WaitingWhole, GoneEnded, [Next]_vars, Unbroken'
    PROVE  WaitingWhole'
  <1>1. \A i \in Intervals : \A k \in ticks[i] : k \in Ticks
    BY DEF Typed
  <1>2. CASE AddTick
    <2>. DEFINE n == Len(times) + 1
    <2>1. /\ \A i \in Intervals : ticks'[i] = ticks[i] \cup {n}
          /\ times'[n] = now /\ n \in Ticks' /\ Ticks' = Ticks \cup {n}
      BY <1>2, AddTickFacts
    <2>. HIDE DEF n
    <2>2. ASSUME NEW i \in Intervals, NEW j \in Ticks, j \notin ticks[i], NEW k \in ticks'[i]
          PROVE  BarOf(i, j)' # BarOf(i, k)'
      <3>1. BarOf(i, j)' = BarOf(i, j) /\ BarOf(i, j) \in Nat /\ BarOf(i, j) + i <= now
        BY <2>2, TicksGrow, BarFacts DEF GoneEnded
      <3>2. CASE k \in ticks[i]
        <4>1. BarOf(i, k)' = BarOf(i, k)
          BY <1>1, <3>2, TicksGrow
        <4>. QED
          BY <2>2, <3>1, <3>2, <4>1 DEF WaitingWhole
      <3>3. CASE k = n
        BY <2>1, <3>1, <3>3, NotInEnded
      <3>. QED
        BY <2>1, <2>2, <3>2, <3>3
    <2>. QED
      BY <2>1, <2>2 DEF WaitingWhole
  <1>3. ASSUME NEW i \in Intervals, SaveBars(i)
        PROVE  WaitingWhole'
    <2>1. PICK lost : Saves(i, lost)
      BY <1>3, SaveFacts
    <2>2. times' = times /\ \A j \in Intervals : j # i => ticks'[j] = ticks[j]
      BY <2>1 DEF Saves
    <2>3. \A k : k \in ticks'[i] <=> k \in ticks[i] /\ BarOf(i, k) = LastBar(i)
      BY <2>1 DEF Saves
    <2>4. ASSUME NEW m \in Intervals, NEW j \in Ticks, NEW k \in ticks'[m],
                 BarOf(m, j) = BarOf(m, k)
          PROVE  j \in ticks'[m]
      BY <2>2, <2>3, <2>4 DEF WaitingWhole
    <2>. QED
      BY <2>2, <2>4 DEF WaitingWhole, Ticks, BarOf
  <1>4. CASE Advance \/ SetBack \/ PassWithout \/ UNCHANGED vars
    <2>1. UNCHANGED <<times, ticks>>
      BY <1>4 DEF Advance, SetBack, PassWithout, vars
    <2>. QED
      BY <2>1 DEF WaitingWhole, Ticks, BarOf
  <1>. QED
    BY <1>2, <1>3, <1>4, Earlier DEF Next

\* A tick that no longer waits was in a bar that has ended.
LEMMA GoneEndedStep ==
    ASSUME Typed, InOrder, GoneEnded, [Next]_vars, Unbroken'
    PROVE  GoneEnded'
  <1>1. now \in Nat /\ now' \in Nat /\ now <= now' /\ ~ SetBack /\ ~ Restart
    BY Earlier DEF Unbroken, Forward
  <1>2. ASSUME NEW i \in Intervals, NEW k \in Ticks, BarOf(i, k) + i <= now
        PROVE  BarOf(i, k)' + i <= now'
    <2>1. BarOf(i, k) \in Nat /\ i \in Nat /\ BarOf(i, k)' = BarOf(i, k)
      BY BarFacts, IntervalFacts, TicksGrow
    <2>. QED
      BY <1>1, <1>2, <2>1
  <1>3. CASE AddTick
    <2>1. /\ \A i \in Intervals : ticks'[i] = ticks[i] \cup {Len(times) + 1}
          /\ Ticks' = Ticks \cup {Len(times) + 1}
      BY <1>3, AddTickFacts
    <2>2. \A i \in Intervals : \A k \in Ticks' : k \in ticks'[i] \/ BarOf(i, k)' + i <= now'
      BY <1>2, <2>1 DEF GoneEnded
    <2>. QED
      BY <2>2 DEF GoneEnded
  <1>4. ASSUME NEW i \in Intervals, SaveBars(i)
        PROVE  GoneEnded'
    <2>1. PICK lost : Saves(i, lost)
      BY <1>4, SaveFacts
    <2>2. times' = times /\ \A j \in Intervals : j # i => ticks'[j] = ticks[j]
      BY <2>1 DEF Saves
    <2>3. \A k : k \in ticks'[i] <=> k \in ticks[i] /\ BarOf(i, k) = LastBar(i)
      BY <2>1 DEF Saves
    <2>4. ASSUME NEW m \in Intervals, NEW k \in Ticks
          PROVE  k \in ticks'[m] \/ BarOf(m, k) + m <= now
      BY <2>2, <2>3, EarlierEnded DEF GoneEnded
    <2>5. \A m \in Intervals : \A k \in Ticks : k \in ticks'[m] \/ BarOf(m, k)' + m <= now'
      BY <1>2, <2>4
    <2>. QED
      BY <2>2, <2>5 DEF GoneEnded, Ticks
  <1>5. CASE Advance \/ PassWithout \/ UNCHANGED vars
    <2>1. UNCHANGED <<times, ticks>>
      BY <1>5 DEF Advance, PassWithout, vars
    <2>2. \A m \in Intervals : \A k \in Ticks : k \in ticks[m] \/ BarOf(m, k)' + m <= now'
      BY <1>2 DEF GoneEnded
    <2>. QED
      BY <2>1, <2>2 DEF GoneEnded, Ticks
  <1>. QED
    BY <1>1, <1>3, <1>4, <1>5 DEF Next

\* The latest tick is never dropped.
LEMMA LatestWaitsStep ==
    ASSUME Typed, InOrder, LatestWaits, [Next]_vars, Unbroken'
    PROVE  LatestWaits'
  <1>1. CASE AddTick
    BY <1>1, AddTickFacts DEF LatestWaits
  <1>2. ASSUME NEW i \in Intervals, SaveBars(i)
        PROVE  LatestWaits'
    <2>1. PICK lost : Saves(i, lost)
      BY <1>2, SaveFacts
    <2>2. times' = times /\ \A j \in Intervals : j # i => ticks'[j] = ticks[j]
      BY <2>1 DEF Saves
    <2>3. \A k : k \in ticks'[i] <=> k \in ticks[i] /\ BarOf(i, k) = LastBar(i)
      BY <2>1 DEF Saves
    <2>4. times # <<>> => ticks[i] # {}
      BY DEF LatestWaits
    <2>5. times # <<>> => Len(times) \in ticks'[i]
      BY <2>3, <2>4, LatestIsLast
    <2>. QED
      BY <2>2, <2>5 DEF LatestWaits
  <1>3. CASE Advance \/ SetBack \/ PassWithout \/ UNCHANGED vars
    <2>1. UNCHANGED <<times, ticks>>
      BY <1>3 DEF Advance, SetBack, PassWithout, vars
    <2>. QED
      BY <2>1 DEF LatestWaits
  <1>. QED
    BY <1>1, <1>2, <1>3, Earlier DEF Next

\* A row of a long bar is written when no short bar of its time waits
\* (main.cpp:108-124 takes the short ones first).
LEMMA ShortFirstStep ==
    ASSUME Typed, OneBar, InOrder, RowsClosed, LatestWaits, ShortFirst, [Next]_vars, Unbroken'
    PROVE  ShortFirst'
  <1>1. now \in Nat /\ ~ SetBack /\ ~ Restart
    BY Earlier DEF Unbroken, Forward
  <1>2. CASE AddTick
    <2>. DEFINE n == Len(times) + 1
    <2>1. ticks'[Short] = ticks[Short] \cup {n} /\ times'[n] = now /\ saved' = saved
      BY <1>2, AddTickFacts, IntervalFacts
    <2>2. \A k \in ticks[Short] : times'[k] = times[k]
      BY TicksGrow, IntervalFacts DEF Typed
    <2>3. \A b \in DOMAIN saved[Long] : b + Long <= now
      BY IntervalFacts DEF RowsClosed
    <2>. QED
      BY <2>1, <2>2, <2>3 DEF ShortFirst
  <1>3. ASSUME NEW i \in Intervals, SaveBars(i)
        PROVE  ShortFirst'
    <2>1. PICK lost : Saves(i, lost)
      BY <1>3, SaveFacts
    <2>2. times' = times /\ pc = i
      BY <2>1 DEF Saves
    <2>3. CASE i = Short
      <3>1. saved'[Long] = saved[Long] /\ \A k \in ticks'[Short] : k \in ticks[Short]
        BY <2>1, <2>3, IntervalFacts DEF Saves
      <3>. QED
        BY <2>2, <3>1 DEF ShortFirst
    <2>4. CASE i = Long
      <3>1. ticks'[Short] = ticks[Short]
        BY <2>1, <2>4, IntervalFacts DEF Saves
      <3>2. ASSUME NEW b \in Completed(Long), NEW k \in ticks[Short]
            PROVE  b + Long <= times[k]
        <4>. DEFINE n == Len(times)
                    s == BarOf(Short, k)
        <4>1. Aligned(Long, b) /\ b \in Nat /\ b + Long <= LastBar(Long) /\ ticks[Long] # {}
          BY <3>2, CompletedFacts, IntervalFacts
        <4>2. n \in Ticks /\ LastBar(Long) = BarOf(Long, n)
          BY <4>1, LatestIsLast, IntervalFacts
        <4>3. n \in ticks[Short] /\ k \in Ticks
          BY <3>2, LatestIsLast, IntervalFacts DEF Typed
        <4>4. BarOf(Short, n) = s
          BY <2>2, <2>4, <4>3, IntervalFacts DEF OneBar, Taken
        <4>5. /\ times[n] \in Nat /\ BarOf(Long, n) <= times[n] /\ BarOf(Long, n) \in Nat
              /\ times[n] < s + Short /\ Aligned(Short, s)
              /\ times[k] \in Nat /\ s <= times[k]
          BY <4>2, <4>3, <4>4, BarFacts, IntervalFacts
        <4>6. Aligned(Short, b + Long)
          BY <4>1, LongIsAligned
        <4>. HIDE DEF n, s
        <4>7. Short \in Nat \ {0} /\ Long \in Nat /\ b + Long \in Nat
          BY <4>1, IntervalFacts
        <4>8. s \in Nat /\ (s < b + Long => s + Short <= b + Long)
          BY <4>5, <4>6, <4>7, AlignedApart
        <4>9. b + Long <= times[n]
          BY <4>1, <4>2, <4>5, <4>7
        <4>. QED
          BY <4>5, <4>7, <4>8, <4>9
      <3>3. \A b \in DOMAIN saved'[Long] : b \in DOMAIN saved[Long] \/ b \in Completed(Long)
        BY <2>1, <2>4 DEF Saves
      <3>. QED
        BY <2>2, <3>1, <3>2, <3>3 DEF ShortFirst
    <2>. QED
      BY <2>3, <2>4 DEF Intervals
  <1>4. CASE Advance \/ PassWithout \/ UNCHANGED vars
    BY <1>4 DEF Advance, PassWithout, vars, ShortFirst
  <1>. QED
    BY <1>1, <1>2, <1>3, <1>4 DEF Next

\* A row holds every tick that is inside it: its bar waited whole when it was
\* written, and has ended since.
LEMMA RowsWholeStep ==
    ASSUME Typed, InOrder, RowsClosed, WaitingWhole, RowsWhole, [Next]_vars, Unbroken'
    PROVE  RowsWhole'
  <1>1. ~ SetBack /\ ~ Restart
    BY Earlier DEF Unbroken, Forward
  <1>2. \A i \in Intervals : \A b \in DOMAIN saved[i] : b \in Nat /\ b + i <= now
    <2>. SUFFICES ASSUME NEW i \in Intervals, NEW b \in DOMAIN saved[i]
                  PROVE  b \in Nat /\ b + i <= now
      OBVIOUS
    <2>1. Aligned(i, b) /\ b + i <= now /\ i \in Nat \ {0}
      BY IntervalFacts DEF RowsClosed
    <2>. QED
      BY <2>1, AlignedApart
  <1>3. CASE AddTick
    <2>1. PICK n : times'[n] = now /\ saved' = saved /\ n \in Ticks' /\ Ticks' = Ticks \cup {n}
      BY <1>3, AddTickFacts
    <2>2. ASSUME NEW i \in Intervals, NEW b \in DOMAIN saved[i]
          PROVE  saved[i][b] = {k \in Ticks' : Inside(k, b, i)'}
      <3>1. ~ Inside(n, b, i)'
        BY <1>2, <2>1, NotInEnded
      <3>2. \A k \in Ticks : Inside(k, b, i)' <=> Inside(k, b, i)
        BY TicksGrow
      <3>3. saved[i][b] = {k \in Ticks : Inside(k, b, i)}
        BY DEF RowsWhole
      <3>. QED
        BY <2>1, <3>1, <3>2, <3>3
    <2>. QED
      BY <2>1, <2>2 DEF RowsWhole
  <1>4. ASSUME NEW i \in Intervals, SaveBars(i)
        PROVE  RowsWhole'
    <2>1. PICK lost : Saves(i, lost)
      BY <1>4, SaveFacts
    <2>2. times' = times /\ \A j \in Intervals : j # i => saved'[j] = saved[j]
      BY <2>1 DEF Saves
    <2>3. ASSUME NEW j \in Intervals, NEW b \in DOMAIN saved'[j]
          PROVE  saved'[j][b] = {k \in Ticks : Inside(k, b, j)}
      <3>1. CASE j = i /\ b \in Completed(i) \ lost
        <4>1. saved'[j][b] = InBar(i, b)
          BY <2>1, <2>3, <3>1 DEF Saves
        <4>2. Aligned(i, b) /\ \E m \in ticks[i] : BarOf(i, m) = b
          BY <3>1, CompletedFacts
        <4>3. \A k \in Ticks : Inside(k, b, i) <=> BarOf(i, k) = b
          BY <4>2, BarIsOnly
        <4>4. \A k \in Ticks : BarOf(i, k) = b => k \in ticks[i]
          BY <4>2 DEF WaitingWhole
        <4>5. ticks[i] \subseteq Ticks
          BY DEF Typed
        <4>. QED
          BY <3>1, <4>1, <4>3, <4>4, <4>5 DEF InBar
      <3>2. CASE ~ (j = i /\ b \in Completed(i) \ lost)
        <4>1. b \in DOMAIN saved[j] /\ saved'[j][b] = saved[j][b]
          BY <2>1, <2>3, <3>2 DEF Saves
        <4>. QED
          BY <4>1 DEF RowsWhole
      <3>. QED
        BY <3>1, <3>2
    <2>. QED
      BY <2>2, <2>3 DEF RowsWhole, Ticks, Inside
  <1>5. CASE Advance \/ PassWithout \/ UNCHANGED vars
    <2>1. UNCHANGED <<times, saved>>
      BY <1>5 DEF Advance, PassWithout, vars
    <2>. QED
      BY <2>1 DEF RowsWhole, Ticks, Inside
  <1>. QED
    BY <1>1, <1>3, <1>4, <1>5 DEF Next

\* While the clock is not set back a row once written stays as it is: its bar
\* is not completed again.
LEMMA RowStays ==
    ASSUME Typed, RowsClosed, [Next]_vars, NEW i \in Intervals, NEW b \in DOMAIN saved[i]
    PROVE  b \in DOMAIN saved'[i] /\ saved'[i][b] = saved[i][b]
  <1>1. ASSUME NEW j \in Intervals, SaveBars(j)
        PROVE  b \in DOMAIN saved'[i] /\ saved'[i][b] = saved[i][b]
    <2>1. PICK lost : Saves(j, lost)
      BY <1>1, SaveFacts
    <2>2. CASE i = j
      <3>1. \A k \in ticks[i] : BarOf(i, k) # b
        BY DEF RowsClosed
      <3>2. b \notin Completed(i)
        BY <3>1, CompletedFacts
      <3>. QED
        BY <2>1, <2>2, <3>2 DEF Saves
    <2>3. CASE i # j
      BY <2>1, <2>3 DEF Saves
    <2>. QED
      BY <2>2, <2>3
  <1>. QED
    BY <1>1 DEF Next, AddTick, PassWithout, Advance, SetBack, Restart, vars

\* Every tick waits or is in a row.
LEMMA EverywhereStep ==
    ASSUME Typed, InOrder, RowsClosed, Everywhere, [Next]_vars, Untroubled'
    PROVE  Everywhere'
  <1>1. ~ SetBack /\ ~ Restart
    BY Earlier DEF Unbroken, Forward, Untroubled
  <1>2. ASSUME NEW i \in Intervals, NEW k, \E b \in DOMAIN saved[i] : k \in saved[i][b]
        PROVE  \E b \in DOMAIN saved'[i] : k \in saved'[i][b]
    BY <1>2, RowStays
  <1>3. CASE AddTick
    <2>1. /\ \A i \in Intervals : ticks'[i] = ticks[i] \cup {Len(times) + 1}
          /\ Ticks' = Ticks \cup {Len(times) + 1}
      BY <1>3, AddTickFacts
    <2>. QED
      BY <1>2, <2>1 DEF Everywhere
  <1>4. ASSUME NEW i \in Intervals, SaveBars(i)
        PROVE  Everywhere'
    <2>1. PICK lost : Saves(i, lost)
      BY <1>4, SaveFacts
    <2>2. /\ times' = times /\ \A j \in Intervals : j # i => ticks'[j] = ticks[j]
          /\ lost = {}
      BY <2>1 DEF Saves, Untroubled
    <2>3. \A k : k \in ticks'[i] <=> k \in ticks[i] /\ BarOf(i, k) = LastBar(i)
      BY <2>1 DEF Saves
    <2>4. ASSUME NEW k \in ticks[i], BarOf(i, k) # LastBar(i)
          PROVE  \E b \in DOMAIN saved'[i] : k \in saved'[i][b]
      <3>. DEFINE b == BarOf(i, k)
      <3>1. b \in Completed(i)
        BY <2>4, EarlierEnded
      <3>2. b \in DOMAIN saved'[i] /\ saved'[i][b] = InBar(i, b)
        BY <2>1, <2>2, <3>1 DEF Saves
      <3>. QED
        BY <3>2 DEF InBar
    <2>5. ASSUME NEW m \in Intervals, NEW k \in Ticks
          PROVE  k \in ticks'[m] \/ \E b \in DOMAIN saved'[m] : k \in saved'[m][b]
      BY <1>2, <2>2, <2>3, <2>4 DEF Everywhere
    <2>. QED
      BY <2>2, <2>5 DEF Everywhere, Ticks
  <1>5. CASE Advance \/ PassWithout \/ UNCHANGED vars
    <2>1. UNCHANGED <<times, ticks, saved>>
      BY <1>5 DEF Advance, PassWithout, vars
    <2>. QED
      BY <2>1 DEF Everywhere, Ticks
  <1>. QED
    BY <1>1, <1>3, <1>4, <1>5 DEF Next

-----------------------------------------------------------------------------
(* The invariant.                                                          *)

\* A process that has just started.
LEMMA InitHolds == Init => IInv
  <1>. SUFFICES ASSUME Init
                PROVE  IInv
    OBVIOUS
  <1>1. /\ times = <<>> /\ Ticks = {} /\ pc = Idle /\ now = 1
        /\ ticks = [i \in Intervals |-> {}] /\ saved = [i \in Intervals |-> <<>>]
        /\ steps = 0 /\ faults = 0 /\ downs = 0
    BY DEF Init, Ticks
  <1>2. \A i \in Intervals : ticks[i] = {} /\ DOMAIN saved[i] = {}
    BY <1>1
  <1>3. Typed
    <2>1. <<>> \in Seq(Moment) /\ 1 \in Moment
      BY BoundsAssumption DEF Moment
    <2>. QED
      BY <1>1, <2>1 DEF Typed
  <1>4. RowsInside /\ OneBar /\ RowsClosed /\ RowsWhole
    BY <1>2 DEF RowsInside, OneBar, RowsClosed, RowsWhole
  <1>5. InOrder /\ WaitingWhole /\ GoneEnded /\ LatestWaits /\ Everywhere
    BY <1>1 DEF InOrder, WaitingWhole, GoneEnded, LatestWaits, Everywhere
  <1>6. ShortFirst
    BY <1>2, IntervalFacts DEF ShortFirst
  <1>. QED
    BY <1>3, <1>4, <1>5, <1>6 DEF IInv

\* Every step keeps the invariant.
LEMMA StepHolds == IInv /\ [Next]_vars => IInv'
  <1>. SUFFICES ASSUME IInv, [Next]_vars
                PROVE  IInv'
    OBVIOUS
  <1>1. Typed /\ RowsInside /\ OneBar
    BY DEF IInv
  <1>2. Typed' /\ RowsInside' /\ OneBar'
    BY <1>1, TypedStep, RowsInsideStep, OneBarStep
  <1>3. ASSUME Forward'
        PROVE  InOrder' /\ RowsClosed'
    BY <1>1, <1>3, Earlier, InOrderStep, RowsClosedStep DEF IInv
  <1>4. ASSUME Unbroken'
        PROVE  WaitingWhole' /\ GoneEnded' /\ LatestWaits' /\ ShortFirst' /\ RowsWhole'
    <2>1. InOrder /\ RowsClosed /\ WaitingWhole /\ GoneEnded /\ LatestWaits /\ ShortFirst /\ RowsWhole
      BY <1>1, <1>4, Earlier DEF IInv, Unbroken, Forward
    <2>. QED
      BY <1>1, <1>4, <2>1, WaitingWholeStep, GoneEndedStep, LatestWaitsStep, ShortFirstStep,
         RowsWholeStep
  <1>5. ASSUME Untroubled'
        PROVE  Everywhere'
    <2>1. InOrder /\ RowsClosed /\ Everywhere
      BY <1>1, <1>5, Earlier DEF IInv, Untroubled, Forward
    <2>. QED
      BY <1>1, <1>5, <2>1, EverywhereStep
  <1>. QED
    BY <1>2, <1>3, <1>4, <1>5 DEF IInv

\* What waits, what is saved and what is gone, in every state (bar_synth.cpp).
THEOREM IInvHolds == Spec => []IInv
  <1>. QED
    BY InitHolds, StepHolds, PTL DEF Spec

-----------------------------------------------------------------------------
(* What follows.                                                           *)

\* Every variable has its type; a row's bar has at least one tick, and all of
\* them lie inside it.
THEOREM TypeCorrect == Spec => []TypeOK
  <1>1. IInv => TypeOK
    <2>. SUFFICES ASSUME IInv
                  PROVE  TypeOK
      OBVIOUS
    <2>1. Typed /\ RowsInside
      BY DEF IInv
    <2>2. \A k \in Ticks : times[k] \in Moment
      BY <2>1 DEF Typed, Ticks
    <2>3. \A i \in Intervals : ticks[i] \subseteq Ticks
      BY <2>1 DEF Typed
    <2>. QED
      BY <2>1, <2>2, <2>3 DEF TypeOK, Typed, RowsInside, Moment
  <1>. QED
    BY IInvHolds, <1>1, PTL

\* While the clock is not set back and the process stays up, a saved bar holds
\* all ticks inside it (bar_synth.cpp:47).
THEOREM BarsAreWhole == Spec => []BarsWhole
  <1>1. IInv => BarsWhole
    BY DEF IInv, Unbroken, RowsWhole, BarsWhole
  <1>. QED
    BY IInvHolds, <1>1, PTL

\* If besides no save fails, every tick is in a row or still with the
\* synthesizer (bar_synth.cpp:51, 58).
THEOREM TicksAreKept == Spec => []TicksKept
  <1>1. IInv => TicksKept
    BY DEF IInv, Untroubled, Everywhere, TicksKept
  <1>. QED
    BY IInvHolds, <1>1, PTL

\* Then a long bar is the union of the short bars in the table for its time.
THEOREM BarsDoAgree == Spec => []BarsAgree
  <1>1. IInv => BarsAgree
    <2>. SUFFICES ASSUME IInv, Untroubled, NEW b \in DOMAIN saved[Long]
                  PROVE  saved[Long][b] =
                            UNION {saved[Short][c] : c \in DOMAIN saved[Short] \cap (b .. b + Long - 1)}
      BY DEF BarsAgree, Untroubled
    <2>1. /\ Typed /\ RowsClosed /\ RowsInside /\ RowsWhole /\ ShortFirst /\ Everywhere
      BY DEF IInv, Untroubled, Unbroken, Forward
    <2>2. Aligned(Long, b) /\ Aligned(Short, b) /\ Aligned(Short, b + Long)
      BY <2>1, LongIsAligned, IntervalFacts DEF RowsClosed
    <2>3. /\ Short \in Nat \ {0} /\ Long \in Nat \ {0} /\ b \in Nat
          /\ \A k \in Ticks : times[k] \in Nat
      BY <2>1, <2>2, IntervalFacts, AlignedApart, BarFacts
    <2>4. ASSUME NEW k \in saved[Long][b]
          PROVE  \E c \in DOMAIN saved[Short] \cap (b .. b + Long - 1) : k \in saved[Short][c]
      <3>1. k \in Ticks /\ b <= times[k] /\ times[k] < b + Long
        BY <2>1, <2>4, IntervalFacts DEF RowsInside, Inside
      <3>2. k \notin ticks[Short]
        <4>1. k \in ticks[Short] => b + Long <= times[k]
          BY <2>1 DEF ShortFirst
        <4>. QED
          BY <2>3, <3>1, <4>1
      <3>3. PICK c \in DOMAIN saved[Short] : k \in saved[Short][c]
        BY <2>1, <3>1, <3>2, IntervalFacts DEF Everywhere
      <3>4. Aligned(Short, c) /\ c <= times[k] /\ times[k] < c + Short
        BY <2>1, <3>3, IntervalFacts DEF RowsClosed, RowsInside, Inside
      <3>5. c \in Nat /\ (c < b => c + Short <= b)
        BY <2>2, <2>3, <3>4, AlignedApart
      <3>6. c \in b .. b + Long - 1
        BY <2>3, <3>1, <3>4, <3>5
      <3>. QED
        BY <3>3, <3>6
    <2>5. ASSUME NEW c \in DOMAIN saved[Short], c \in b .. b + Long - 1, NEW k \in saved[Short][c]
          PROVE  k \in saved[Long][b]
      <3>1. Aligned(Short, c) /\ k \in Ticks /\ c <= times[k] /\ times[k] < c + Short
        BY <2>1, <2>5, IntervalFacts DEF RowsClosed, RowsInside, Inside
      <3>2. b + Long \in Nat /\ c \in Nat /\ b <= c /\ c < b + Long
        BY <2>3, <2>5
      <3>3. c + Short <= b + Long
        BY <2>2, <2>3, <3>1, <3>2, AlignedApart
      <3>4. b <= times[k] /\ times[k] < b + Long
        BY <2>3, <3>1, <3>2, <3>3
      <3>. QED
        BY <2>1, <3>1, <3>4, IntervalFacts DEF RowsWhole, Inside
    <2>. QED
      BY <2>4, <2>5
  <1>. QED
    BY IInvHolds, <1>1, PTL

\* Between two passes a synthesizer holds one bar's ticks, whatever the clock
\* does; the long one while no exception ended a pass before its turn
\* (bar_synth.cpp:58, main.cpp:108-124).
THEOREM OneBarIsOpen == Spec => []OneOpenBar
  <1>1. IInv => OneOpenBar
    BY DEF IInv, OneBar, Taken, OneOpenBar
  <1>. QED
    BY IInvHolds, <1>1, PTL

\* While the clock was not set back, a row once written is never changed,
\* across failed saves and restarts (main.cpp:108-124).
THEOREM RowsAreFinal == Spec => RowsFinal
  <1>1. IInv /\ [Next]_vars =>
           [steps = 0 => \A i \in Intervals : \A b \in DOMAIN saved[i] :
               b \in DOMAIN saved'[i] /\ saved'[i][b] = saved[i][b]]_vars
    BY RowStays DEF IInv, Forward
  <1>. QED
    BY IInvHolds, <1>1, PTL DEF Spec, RowsFinal
=============================================================================

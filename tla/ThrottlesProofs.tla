--------------------------- MODULE ThrottlesProofs ---------------------------
(***************************************************************************)
(* Proofs about ThrottleManager, for any symbols, windows and limits: what *)
(* it forgets never shows.                                                 *)
(***************************************************************************)
EXTENDS Throttles, FiniteSetTheorems, WellFoundedInduction, TLAPS

Moment == 0 .. MaxTime
Stop   == [symbol : Symbols, time : Moment]

\* Every variable has its type, and nothing is remembered that did not happen.
Typed ==
    /\ now \in Moment /\ steps \in 0 .. MaxSteps
    /\ tokenHistory \in [Key -> Seq(Record)] /\ log \in Seq(Record)
    /\ globalTimes \in Seq(Moment) /\ globalLog \in Seq(Moment)
    /\ stopTimes \in [Symbols -> Moment \cup {Never}] /\ stopLog \subseteq Stop

Happened ==
    /\ \A k \in Key : \A r \in Members(tokenHistory[k]) :
          r \in Members(log) /\ <<r.symbol, r.band>> = k
    /\ Members(globalTimes) \subseteq Members(globalLog)
    /\ \A s \in Symbols :
          stopTimes[s] = Never \/ [symbol |-> s, time |-> stopTimes[s]] \in stopLog

\* The clock not having been set back: nothing is ahead of it, ...
NotAhead ==
    /\ \A r \in Members(log) : r.time <= now
    /\ \A i \in 1 .. Len(globalLog) : globalLog[i] <= now
    /\ \A t \in stopLog : t.time <= now

\* ... what was recorded in order is in order, ...
InOrder ==
    /\ \A k \in Key : \A i, j \in 1 .. Len(tokenHistory[k]) :
          i <= j => tokenHistory[k][i].time <= tokenHistory[k][j].time
    /\ \A i, j \in 1 .. Len(globalLog) : i <= j => globalLog[i] <= globalLog[j]

\* ... and what is forgotten is old.
AlertsKept ==
    \A r \in Members(log) :
        \/ r \in Members(tokenHistory[<<r.symbol, r.band>>])
        \/ r.time < now - MaxAge
StopsKept ==
    \A t \in stopLog : t.time <= stopTimes[t.symbol] \/ t.time < now - MaxAge
HourKept ==
    \E d \in 0 .. Len(globalLog) :
        /\ Len(globalTimes) = Len(globalLog) - d
        /\ \A i \in 1 .. Len(globalTimes) : globalTimes[i] = globalLog[d + i]
        /\ \A i \in 1 .. d : globalLog[i] < now - Hour

IInv ==
    /\ Typed /\ Happened
    /\ Monotone => NotAhead /\ InOrder /\ AlertsKept /\ StopsKept /\ HourKept

-----------------------------------------------------------------------------
(* Pruning.                                                                *)

Below == {p \in Nat \X Nat : p[1] < p[2]}

\* A nonempty set of numbers has a least element.
LEMMA LeastExists ==
    ASSUME NEW S, S \subseteq Nat, S # {}
    PROVE  \E m \in S : \A n \in S : m <= n
  <1>1. IsWellFoundedOn(Below, Nat)
    BY NatLessThanWellFounded DEF OpToRel, Below
  <1>2. PICK m \in S : \A n \in S : ~ (<<n, m>> \in Below)
    BY <1>1, WFMin
  <1>3. ASSUME NEW n \in S
        PROVE  m <= n
    <2>1. m \in Nat /\ n \in Nat
      OBVIOUS
    <2>2. n < m => <<n, m>> \in Below
      BY <2>1 DEF Below
    <2>. QED
      BY <1>2, <2>1, <2>2
  <1>. QED
    BY <1>3

\* The loop of pop_front stops at the first time that is not below the cutoff
\* (throttles.cpp:49-52, 113-117).
LEMMA DropOldStops ==
    ASSUME NEW S, NEW s \in Seq(S), NEW times, NEW cutoff \in Int,
           \A i \in 1 .. Len(s) : times[i] \in Int
    PROVE  \E n \in 0 .. Len(s) :
              /\ DropOld(s, times, cutoff) = SubSeq(s, n + 1, Len(s))
              /\ \A i \in 1 .. n : times[i] < cutoff
              /\ n < Len(s) => times[n + 1] >= cutoff
  <1>. DEFINE Stops(k) == /\ \A i \in 1 .. k : times[i] < cutoff
                          /\ k < Len(s) => times[k + 1] >= cutoff
              young == {i \in 1 .. Len(s) : times[i] >= cutoff}
  <1>1. Len(s) \in Nat
    OBVIOUS
  <1>2. \E k \in 0 .. Len(s) : Stops(k)
    <2>1. CASE young = {}
      <3>1. \A i \in 1 .. Len(s) : times[i] < cutoff
        BY <2>1
      <3>. QED
        BY <1>1, <3>1
    <2>2. CASE young # {}
      <3>1. young \subseteq Nat
        OBVIOUS
      <3>2. PICK m \in young : \A n \in young : m <= n
        BY <2>2, <3>1, LeastExists
      <3>3. m \in 1 .. Len(s) /\ times[m] >= cutoff /\ m - 1 \in 0 .. Len(s) /\ (m - 1) + 1 = m
        BY <1>1, <3>2
      <3>4. ASSUME NEW i \in 1 .. m - 1
            PROVE  times[i] < cutoff
        <4>1. i \in 1 .. Len(s) /\ ~ (m <= i)
          BY <1>1, <3>3
        <4>2. i \notin young
          BY <3>2, <4>1
        <4>. QED
          BY <4>1, <4>2
      <3>5. Stops(m - 1)
        BY <3>3, <3>4
      <3>. QED
        BY <3>3, <3>5
    <2>. QED
      BY <2>1, <2>2
  <1>. DEFINE n == CHOOSE k \in 0 .. Len(s) : Stops(k)
  <1>3. n \in 0 .. Len(s) /\ Stops(n)
    BY <1>2
  <1>4. DropOld(s, times, cutoff) = SubSeq(s, n + 1, Len(s))
    BY DEF DropOld
  <1>. QED
    BY <1>3, <1>4

\* What is left is a suffix, and what is gone is below the cutoff.
LEMMA SuffixFacts ==
    ASSUME NEW S, NEW s \in Seq(S), NEW n \in 0 .. Len(s), NEW r, r = SubSeq(s, n + 1, Len(s))
    PROVE  /\ r \in Seq(S) /\ Len(r) = Len(s) - n
           /\ \A i \in 1 .. Len(r) : r[i] = s[n + i] /\ n + i \in 1 .. Len(s)
           /\ \A i \in n + 1 .. Len(s) : i - n \in 1 .. Len(r) /\ r[i - n] = s[i]
  <1>1. r \in Seq(S) /\ Len(r) = Len(s) - n
    OBVIOUS
  <1>2. \A i \in 1 .. Len(r) : r[i] = s[n + i] /\ n + i \in 1 .. Len(s)
    OBVIOUS
  <1>3. ASSUME NEW i \in n + 1 .. Len(s)
        PROVE  i - n \in 1 .. Len(r) /\ r[i - n] = s[i]
    <2>1. i - n \in 1 .. Len(r) /\ n + (i - n) = i
      BY <1>1
    <2>. QED
      BY <1>2, <2>1
  <1>. QED
    BY <1>1, <1>2, <1>3

\* Append adds one member, at the end.
LEMMA AppendFacts ==
    ASSUME NEW S, NEW s \in Seq(S), NEW e \in S
    PROVE  /\ Append(s, e) \in Seq(S) /\ Len(Append(s, e)) = Len(s) + 1
           /\ Append(s, e)[Len(s) + 1] = e
           /\ \A i \in 1 .. Len(s) : Append(s, e)[i] = s[i]
           /\ Members(Append(s, e)) = Members(s) \cup {e}
  <1>. DEFINE r == Append(s, e)
  <1>1. /\ r \in Seq(S) /\ Len(r) = Len(s) + 1 /\ r[Len(s) + 1] = e
        /\ \A i \in 1 .. Len(s) : r[i] = s[i]
    OBVIOUS
  <1>2. DOMAIN r = 1 .. Len(s) + 1 /\ DOMAIN s = 1 .. Len(s) /\ Len(s) \in Nat
    BY <1>1
  <1>. HIDE DEF r
  <1>3. Members(r) = Members(s) \cup {e}
    BY <1>1, <1>2 DEF Members
  <1>. QED
    BY <1>1, <1>3 DEF r

\* A suffix has the members that are not before it.
LEMMA SuffixMembers ==
    ASSUME NEW S, NEW s \in Seq(S), NEW n \in 0 .. Len(s), NEW r \in Seq(S),
           \A i \in 1 .. Len(r) : r[i] = s[n + i] /\ n + i \in 1 .. Len(s),
           \A i \in n + 1 .. Len(s) : i - n \in 1 .. Len(r) /\ r[i - n] = s[i]
    PROVE  /\ Members(r) \subseteq Members(s)
           /\ \A x \in Members(s) : x \in Members(r) \/ \E i \in 1 .. n : x = s[i]
  <1>1. DOMAIN r = 1 .. Len(r) /\ DOMAIN s = 1 .. Len(s)
    OBVIOUS
  <1>2. Len(s) \in Nat
    OBVIOUS
  <1>3. ASSUME NEW x \in Members(r)
        PROVE  x \in Members(s)
    <2>1. PICK i \in 1 .. Len(r) : x = r[i]
      BY <1>1, Zenon DEF Members
    <2>2. n + i \in DOMAIN s /\ x = s[n + i]
      BY <1>1, <2>1
    <2>. QED
      BY <2>2, Zenon DEF Members
  <1>4. ASSUME NEW x \in Members(s)
        PROVE  x \in Members(r) \/ \E i \in 1 .. n : x = s[i]
    <2>1. PICK i \in 1 .. Len(s) : x = s[i]
      BY <1>1, Zenon DEF Members
    <2>2. i \in 1 .. n \/ i \in n + 1 .. Len(s)
      BY <1>2
    <2>3. ASSUME i \in n + 1 .. Len(s)
          PROVE  x \in Members(r)
      <3>1. i - n \in DOMAIN r /\ x = r[i - n]
        BY <1>1, <2>1, <2>3
      <3>. QED
        BY <3>1, Zenon DEF Members
    <2>. QED
      BY <2>1, <2>2, <2>3
  <1>. QED
    BY <1>3, <1>4

\* What pop_front leaves of the records of a key: those from some one on, and
\* every record that is young enough, whatever the order.
LEMMA CleanedFacts ==
    ASSUME NEW h \in Seq(Record), NEW c \in Int
    PROVE  LET r == DropOld(h, [i \in DOMAIN h |-> h[i].time], c)
           IN  \E n \in 0 .. Len(h) :
                  /\ r = SubSeq(h, n + 1, Len(h))
                  /\ \A i \in 1 .. n : h[i].time < c
                  /\ r \in Seq(Record) /\ Members(r) \subseteq Members(h)
                  /\ \A x \in Members(h) : x \in Members(r) \/ x.time < c
  <1>. DEFINE times == [i \in DOMAIN h |-> h[i].time]
  <1>1. DOMAIN h = 1 .. Len(h) /\ \A i \in 1 .. Len(h) : h[i] \in Record
    OBVIOUS
  <1>2. \A i \in 1 .. Len(h) : times[i] = h[i].time /\ times[i] \in Int
    BY <1>1, BoundsAssumption DEF Record
  <1>. HIDE DEF times
  <1>. DEFINE r == DropOld(h, times, c)
  <1>3. PICK n \in 0 .. Len(h) : /\ r = SubSeq(h, n + 1, Len(h))
                                 /\ \A i \in 1 .. n : times[i] < c
    BY <1>2, DropOldStops
  <1>. HIDE DEF r
  <1>4. \A i \in 1 .. n : h[i].time < c
    BY <1>2, <1>3
  <1>5. /\ r \in Seq(Record)
        /\ \A i \in 1 .. Len(r) : r[i] = h[n + i] /\ n + i \in 1 .. Len(h)
        /\ \A i \in n + 1 .. Len(h) : i - n \in 1 .. Len(r) /\ r[i - n] = h[i]
    <2>1. r = SubSeq(h, n + 1, Len(h))
      BY <1>3
    <2>2. r \in Seq(Record)
      BY <2>1, SuffixFacts
    <2>3. \A i \in 1 .. Len(r) : r[i] = h[n + i] /\ n + i \in 1 .. Len(h)
      BY <2>1, SuffixFacts
    <2>4. \A i \in n + 1 .. Len(h) : i - n \in 1 .. Len(r) /\ r[i - n] = h[i]
      BY <2>1, SuffixFacts
    <2>. QED
      BY <2>2, <2>3, <2>4
  <1>6. /\ Members(r) \subseteq Members(h)
        /\ \A x \in Members(h) : x \in Members(r) \/ \E i \in 1 .. n : x = h[i]
    BY <1>5, SuffixMembers
  <1>7. \A x \in Members(h) : x \in Members(r) \/ x.time < c
    BY <1>4, <1>6
  <1>. QED
    BY <1>3, <1>4, <1>5, <1>6, <1>7 DEF r, times

\* What check_global_limit leaves.
LEMMA HourFacts ==
    ASSUME Typed
    PROVE  \E n \in 0 .. Len(globalTimes) :
              /\ GlobalWindow = SubSeq(globalTimes, n + 1, Len(globalTimes))
              /\ \A i \in 1 .. n : globalTimes[i] < now - Hour
              /\ n < Len(globalTimes) => globalTimes[n + 1] >= now - Hour
  <1>1. globalTimes \in Seq(Moment) /\ now - Hour \in Int
    BY BoundsAssumption, WindowsAssumption DEF Typed, Moment
  <1>2. \A i \in 1 .. Len(globalTimes) : globalTimes[i] \in Int
    <2>1. \A i \in 1 .. Len(globalTimes) : globalTimes[i] \in Moment
      BY <1>1
    <2>. QED
      BY <2>1, BoundsAssumption DEF Moment
  <1>. QED
    BY <1>1, <1>2, DropOldStops DEF GlobalWindow

-----------------------------------------------------------------------------
(* Types and origins.                                                      *)

\* What was recorded has its type and a record of it.
LEMMA InitHolds == Init => IInv
  <1>. SUFFICES ASSUME Init
                PROVE  IInv
    OBVIOUS
  <1>1. Members(<<>>) = {}
    BY DEF Members
  <1>2. <<>> \in Seq(Record) /\ <<>> \in Seq(Moment) /\ Len(<<>>) = 0
    OBVIOUS
  <1>3. 0 \in Moment /\ 0 \in 0 .. MaxSteps
    BY BoundsAssumption DEF Moment
  <1>4. Typed
    BY <1>2, <1>3 DEF Init, Typed
  <1>5. Happened
    BY <1>1, <1>4 DEF Init, Happened
  <1>6. NotAhead /\ AlertsKept /\ StopsKept
    BY <1>1, <1>2 DEF Init, NotAhead, AlertsKept, StopsKept
  <1>7. InOrder
    BY <1>2 DEF Init, InOrder
  <1>8. HourKept
    BY <1>2 DEF Init, HourKept
  <1>. QED
    BY <1>4, <1>5, <1>6, <1>7, <1>8 DEF IInv

\* The cleanup shortens each key's records from the front and forgets old stops
\* (throttles.cpp:107-134).
LEMMA CleanupStep ==
    ASSUME Typed, CleanupOldRecords
    PROVE  /\ now - MaxAge \in Int
           /\ tokenHistory' \in [Key -> Seq(Record)]
           /\ \A k \in Key : \E n \in 0 .. Len(tokenHistory[k]) :
                 /\ tokenHistory'[k] = SubSeq(tokenHistory[k], n + 1, Len(tokenHistory[k]))
                 /\ \A i \in 1 .. n : tokenHistory[k][i].time < now - MaxAge
                 /\ Members(tokenHistory'[k]) \subseteq Members(tokenHistory[k])
                 /\ \A x \in Members(tokenHistory[k]) :
                       x \in Members(tokenHistory'[k]) \/ x.time < now - MaxAge
           /\ stopTimes' = [s \in Symbols |->
                                IF stopTimes[s] < now - MaxAge THEN Never ELSE stopTimes[s]]
           /\ UNCHANGED <<now, globalTimes, history, steps>>
  <1>. DEFINE c == now - MaxAge
              Left(h) == DropOld(h, [i \in DOMAIN h |-> h[i].time], c)
  <1>1. c \in Int
    BY BoundsAssumption, WindowsAssumption DEF Typed, Moment
  <1>2. /\ tokenHistory' = [k \in Key |-> Left(tokenHistory[k])]
        /\ stopTimes' = [s \in Symbols |-> IF stopTimes[s] < c THEN Never ELSE stopTimes[s]]
        /\ UNCHANGED <<now, globalTimes, history, steps>>
    BY Zenon DEF CleanupOldRecords
  <1>3. \A h \in Seq(Record) : \E n \in 0 .. Len(h) :
            /\ Left(h) = SubSeq(h, n + 1, Len(h))
            /\ \A i \in 1 .. n : h[i].time < c
            /\ Left(h) \in Seq(Record) /\ Members(Left(h)) \subseteq Members(h)
            /\ \A x \in Members(h) : x \in Members(Left(h)) \/ x.time < c
    BY <1>1, CleanedFacts
  <1>. HIDE DEF Left
  <1>4. \A k \in Key : tokenHistory[k] \in Seq(Record) /\ tokenHistory'[k] = Left(tokenHistory[k])
    BY <1>2 DEF Typed
  <1>5. ASSUME NEW k \in Key
        PROVE  \E n \in 0 .. Len(tokenHistory[k]) :
                 /\ tokenHistory'[k] = SubSeq(tokenHistory[k], n + 1, Len(tokenHistory[k]))
                 /\ \A i \in 1 .. n : tokenHistory[k][i].time < c
                 /\ tokenHistory'[k] \in Seq(Record)
                 /\ Members(tokenHistory'[k]) \subseteq Members(tokenHistory[k])
                 /\ \A x \in Members(tokenHistory[k]) :
                       x \in Members(tokenHistory'[k]) \/ x.time < c
    BY <1>3, <1>4, Zenon
  <1>6. tokenHistory' \in [Key -> Seq(Record)]
    BY <1>2, <1>3, <1>4
  <1>. QED
    BY <1>1, <1>2, <1>5, <1>6

\* One more record of a key, of the clock's time (throttles.cpp:93-105).
Recorded(s, b, rec) ==
    /\ rec \in Record /\ rec.symbol = s /\ rec.band = b /\ rec.time = now
    /\ tokenHistory' \in [Key -> Seq(Record)] /\ log' \in Seq(Record)
    /\ Members(log') = Members(log) \cup {rec}
    /\ \A k \in Key : k # <<s, b>> => tokenHistory'[k] = tokenHistory[k]
    /\ tokenHistory'[<<s, b>>] = Append(tokenHistory[<<s, b>>], rec)
    /\ Members(tokenHistory'[<<s, b>>]) = Members(tokenHistory[<<s, b>>]) \cup {rec}
    /\ UNCHANGED <<now, globalTimes, stopTimes, globalLog, stopLog, steps>>

LEMMA RecordStepFacts ==
    ASSUME Typed, NEW s \in Symbols, NEW b \in Bands, NEW h \in Hashes, RecordAlert(s, b, h)
    PROVE  \E rec : Recorded(s, b, rec)
  <1>. DEFINE rec == [symbol |-> s, band |-> b, hash |-> h, time |-> now]
              key == <<s, b>>
  <1>1. /\ tokenHistory' = [tokenHistory EXCEPT ![key] = Append(tokenHistory[key], rec)]
        /\ log' = Append(log, rec)
        /\ UNCHANGED <<now, globalTimes, stopTimes, globalLog, stopLog, steps>>
    BY DEF RecordAlert
  <1>2. rec \in Record /\ rec.symbol = s /\ rec.band = b /\ rec.time = now
    BY DEF Record, Typed, Moment
  <1>3. key \in Key /\ tokenHistory \in [Key -> Seq(Record)] /\ log \in Seq(Record)
    BY DEF Key, Typed
  <1>. HIDE DEF rec, key
  <1>4. log' \in Seq(Record) /\ Members(log') = Members(log) \cup {rec}
    <2>1. Append(log, rec) \in Seq(Record) /\ Members(Append(log, rec)) = Members(log) \cup {rec}
      BY <1>2, <1>3, AppendFacts
    <2>. QED
      BY <1>1, <2>1
  <1>5. tokenHistory[key] \in Seq(Record)
    BY <1>3
  <1>6. tokenHistory'[key] = Append(tokenHistory[key], rec)
    BY <1>1, <1>3
  <1>7. /\ tokenHistory'[key] \in Seq(Record)
        /\ Members(tokenHistory'[key]) = Members(tokenHistory[key]) \cup {rec}
    <2>1. /\ Append(tokenHistory[key], rec) \in Seq(Record)
          /\ Members(Append(tokenHistory[key], rec)) = Members(tokenHistory[key]) \cup {rec}
      BY <1>2, <1>5, AppendFacts
    <2>. QED
      BY <1>6, <2>1
  <1>8. \A k \in Key : k # key => tokenHistory'[k] = tokenHistory[k]
    BY <1>1, <1>3
  <1>9. tokenHistory' \in [Key -> Seq(Record)]
    BY <1>1, <1>3, <1>6, <1>7
  <1>. QED
    BY <1>1, <1>2, <1>4, <1>6, <1>7, <1>8, <1>9 DEF key, Recorded

\* Types survive every call and every move of the clock.
LEMMA TypedStep ==
    ASSUME Typed, [Next]_vars
    PROVE  Typed'
  <1>. USE DEF Typed
  <1>1. CASE Advance
    BY <1>1, BoundsAssumption DEF Advance, manager, history, Moment
  <1>2. CASE SetBack
    BY <1>2, BoundsAssumption DEF SetBack, manager, history, Moment
  <1>3. CASE AskGlobalLimit
    <2>1. GlobalWindow \in Seq(Moment)
      <3>1. PICK n \in 0 .. Len(globalTimes) :
               GlobalWindow = SubSeq(globalTimes, n + 1, Len(globalTimes))
        BY HourFacts
      <3>. QED
        BY <3>1, SuffixFacts
    <2>. QED
      BY <1>3, <2>1 DEF AskGlobalLimit, history
  <1>4. CASE CleanupOldRecords
    <2>1. stopTimes' \in [Symbols -> Moment \cup {Never}]
      BY <1>4, CleanupStep
    <2>. QED
      BY <1>4, <2>1, CleanupStep DEF history
  <1>5. CASE RecordGlobalAlert
    <2>1. Append(globalTimes, now) \in Seq(Moment) /\ Append(globalLog, now) \in Seq(Moment)
      OBVIOUS
    <2>. QED
      BY <1>5, <2>1 DEF RecordGlobalAlert
  <1>6. ASSUME NEW s \in Symbols, NEW b \in Bands, NEW h \in Hashes, RecordAlert(s, b, h)
        PROVE  Typed'
    BY <1>6, RecordStepFacts DEF Recorded
  <1>7. ASSUME NEW s \in Symbols, RecordStop(s)
        PROVE  Typed'
    <2>1. [symbol |-> s, time |-> now] \in Stop
      BY DEF Stop
    <2>. QED
      BY <1>7, <2>1 DEF RecordStop
  <1>8. CASE UNCHANGED vars
    BY <1>8 DEF vars, manager, history
  <1>. QED
    BY <1>1, <1>2, <1>3, <1>4, <1>5, <1>6, <1>7, <1>8 DEF Next

\* Nothing is remembered that did not happen, whatever the clock does.
LEMMA HappenedStep ==
    ASSUME Typed, Happened, [Next]_vars
    PROVE  Happened'
  <1>. USE DEF Happened
  <1>1. CASE Advance \/ SetBack \/ UNCHANGED vars
    BY <1>1 DEF Advance, SetBack, vars, manager, history
  <1>2. CASE AskGlobalLimit
    <2>1. PICK n \in 0 .. Len(globalTimes) :
             GlobalWindow = SubSeq(globalTimes, n + 1, Len(globalTimes))
      BY <1>2, HourFacts
    <2>2. globalTimes \in Seq(Moment)
      BY DEF Typed
    <2>3. /\ GlobalWindow \in Seq(Moment)
          /\ \A i \in 1 .. Len(GlobalWindow) :
                GlobalWindow[i] = globalTimes[n + i] /\ n + i \in 1 .. Len(globalTimes)
          /\ \A i \in n + 1 .. Len(globalTimes) :
                i - n \in 1 .. Len(GlobalWindow) /\ GlobalWindow[i - n] = globalTimes[i]
      BY <2>1, <2>2, SuffixFacts
    <2>4. Members(GlobalWindow) \subseteq Members(globalTimes)
      BY <2>2, <2>3, SuffixMembers
    <2>. QED
      BY <1>2, <2>4 DEF AskGlobalLimit, history
  <1>3. CASE CleanupOldRecords
    <2>1. /\ stopTimes' = [s \in Symbols |->
                              IF stopTimes[s] < now - MaxAge THEN Never ELSE stopTimes[s]]
          /\ UNCHANGED <<now, globalTimes, history, steps>>
          /\ \A k \in Key : Members(tokenHistory'[k]) \subseteq Members(tokenHistory[k])
      BY <1>3, CleanupStep
    <2>2. \A s \in Symbols : stopTimes'[s] = Never \/ stopTimes'[s] = stopTimes[s]
      BY <2>1
    <2>. QED
      BY <2>1, <2>2 DEF history
  <1>4. CASE RecordGlobalAlert
    <2>1. globalTimes \in Seq(Moment) /\ globalLog \in Seq(Moment) /\ now \in Moment
      BY DEF Typed
    <2>2. /\ Members(Append(globalTimes, now)) = Members(globalTimes) \cup {now}
          /\ Members(Append(globalLog, now)) = Members(globalLog) \cup {now}
      BY <2>1, AppendFacts
    <2>. QED
      BY <1>4, <2>2 DEF RecordGlobalAlert
  <1>5. ASSUME NEW s \in Symbols, NEW b \in Bands, NEW h \in Hashes, RecordAlert(s, b, h)
        PROVE  Happened'
    <2>1. PICK rec : Recorded(s, b, rec)
      BY <1>5, RecordStepFacts
    <2>2. ASSUME NEW k \in Key, NEW r \in Members(tokenHistory'[k])
          PROVE  r \in Members(log') /\ <<r.symbol, r.band>> = k
      BY <2>1, <2>2 DEF Recorded
    <2>. QED
      BY <2>1, <2>2 DEF Recorded
  <1>6. ASSUME NEW s \in Symbols, RecordStop(s)
        PROVE  Happened'
    <2>1. ASSUME NEW t \in Symbols
          PROVE  stopTimes'[t] = Never \/ [symbol |-> t, time |-> stopTimes'[t]] \in stopLog'
      BY <1>6, <2>1 DEF RecordStop, Typed
    <2>. QED
      BY <1>6, <2>1 DEF RecordStop
  <1>. QED
    BY <1>1, <1>2, <1>3, <1>4, <1>5, <1>6 DEF Next

-----------------------------------------------------------------------------
(* While the clock is not set back.                                        *)

\* The clock goes on, and was not set back before either.
LEMMA OnlyForward ==
    ASSUME Typed, [Next]_vars, Monotone'
    PROVE  Monotone /\ ~ SetBack /\ now <= now' /\ now \in Int /\ now' \in Int
  <1>1. now \in Int /\ steps \in Nat
    BY BoundsAssumption DEF Typed, Moment
  <1>2. ~ SetBack
    BY <1>1 DEF SetBack, Monotone
  <1>3. Advance => now' = now + 1 /\ steps' = steps
    BY DEF Advance
  <1>4. ASSUME AskGlobalLimit \/ CleanupOldRecords \/ RecordGlobalAlert \/ UNCHANGED vars
        PROVE  now' = now /\ steps' = steps
    BY <1>4 DEF AskGlobalLimit, CleanupOldRecords, RecordGlobalAlert, vars
  <1>5. ASSUME NEW s \in Symbols, NEW b \in Bands, NEW h \in Hashes, RecordAlert(s, b, h)
        PROVE  now' = now /\ steps' = steps
    BY <1>5 DEF RecordAlert
  <1>6. ASSUME NEW s \in Symbols, RecordStop(s)
        PROVE  now' = now /\ steps' = steps
    BY <1>6 DEF RecordStop
  <1>7. now <= now' /\ steps' = steps /\ now' \in Int
    BY <1>1, <1>2, <1>3, <1>4, <1>5, <1>6 DEF Next
  <1>. QED
    BY <1>1, <1>2, <1>7 DEF Monotone

\* Nothing recorded is ahead of the clock.
LEMMA NotAheadStep ==
    ASSUME Typed, NotAhead, [Next]_vars, Monotone'
    PROVE  NotAhead'
  <1>. USE DEF NotAhead
  <1>1. /\ now <= now' /\ ~ SetBack /\ now \in Int /\ now' \in Int
        /\ \A r \in Members(log) : r.time \in Int
        /\ \A i \in 1 .. Len(globalLog) : globalLog[i] \in Int
        /\ \A t \in stopLog : t.time \in Int
    <2>1. log \in Seq(Record) /\ globalLog \in Seq(Moment) /\ stopLog \subseteq Stop
      BY DEF Typed
    <2>2. \A r \in Members(log) : r \in Record
      BY <2>1 DEF Members
    <2>3. \A i \in 1 .. Len(globalLog) : globalLog[i] \in Moment
      BY <2>1
    <2>. QED
      BY <2>1, <2>2, <2>3, OnlyForward, BoundsAssumption DEF Record, Stop, Moment
  <1>2. CASE Advance \/ AskGlobalLimit \/ CleanupOldRecords \/ UNCHANGED vars
    <2>1. UNCHANGED history
      BY <1>2 DEF Advance, AskGlobalLimit, CleanupOldRecords, vars
    <2>. QED
      BY <1>1, <2>1 DEF history
  <1>3. CASE RecordGlobalAlert
    <2>1. globalLog \in Seq(Moment) /\ now \in Moment
      BY DEF Typed
    <2>2. /\ Len(Append(globalLog, now)) = Len(globalLog) + 1
          /\ Append(globalLog, now)[Len(globalLog) + 1] = now
          /\ \A i \in 1 .. Len(globalLog) : Append(globalLog, now)[i] = globalLog[i]
      BY <2>1, AppendFacts
    <2>3. globalLog' = Append(globalLog, now) /\ UNCHANGED <<now, log, stopLog>>
      BY <1>3 DEF RecordGlobalAlert
    <2>4. Len(globalLog) \in Nat
      BY <2>1
    <2>5. \A i \in 1 .. Len(globalLog') : globalLog'[i] <= now
      BY <1>1, <2>2, <2>3, <2>4
    <2>. QED
      BY <2>3, <2>5
  <1>4. ASSUME NEW s \in Symbols, NEW b \in Bands, NEW h \in Hashes, RecordAlert(s, b, h)
        PROVE  NotAhead'
    <2>1. PICK rec : Recorded(s, b, rec)
      BY <1>4, RecordStepFacts
    <2>. QED
      BY <1>1, <2>1 DEF Recorded
  <1>5. ASSUME NEW s \in Symbols, RecordStop(s)
        PROVE  NotAhead'
    BY <1>1, <1>5 DEF RecordStop
  <1>. QED
    BY <1>1, <1>2, <1>3, <1>4, <1>5 DEF Next

\* What is forgotten of the alerts is old.
LEMMA AlertsKeptStep ==
    ASSUME Typed, AlertsKept, [Next]_vars, Monotone'
    PROVE  AlertsKept'
  <1>. USE DEF AlertsKept
  <1>1. /\ now <= now' /\ ~ SetBack /\ now \in Int /\ now' \in Int /\ MaxAge \in Int
        /\ \A r \in Members(log) : r.time \in Int /\ <<r.symbol, r.band>> \in Key
    <2>1. log \in Seq(Record)
      BY DEF Typed
    <2>2. \A r \in Members(log) : r \in Record
      BY <2>1 DEF Members
    <2>. QED
      BY <2>2, OnlyForward, BoundsAssumption, WindowsAssumption DEF Record, Key
  <1>2. CASE Advance \/ AskGlobalLimit \/ RecordGlobalAlert \/ UNCHANGED vars
    <2>1. UNCHANGED <<tokenHistory, log>>
      BY <1>2 DEF Advance, AskGlobalLimit, RecordGlobalAlert, vars, manager, history
    <2>2. ASSUME NEW r \in Members(log), r.time < now - MaxAge
          PROVE  r.time < now' - MaxAge
      <3>1. r.time \in Int /\ now \in Int /\ now' \in Int /\ MaxAge \in Int /\ now <= now'
        BY <1>1
      <3>. QED
        BY <2>2, <3>1
    <2>. QED
      BY <2>1, <2>2
  <1>3. CASE CleanupOldRecords
    BY <1>1, <1>3, CleanupStep DEF history
  <1>4. ASSUME NEW s \in Symbols, NEW b \in Bands, NEW h \in Hashes, RecordAlert(s, b, h)
        PROVE  AlertsKept'
    <2>1. PICK rec : Recorded(s, b, rec)
      BY <1>4, RecordStepFacts
    <2>2. ASSUME NEW r \in Members(log')
          PROVE  \/ r \in Members(tokenHistory'[<<r.symbol, r.band>>])
                 \/ r.time < now' - MaxAge
      BY <1>1, <2>1 DEF Recorded
    <2>. QED
      BY <2>2
  <1>5. ASSUME NEW s \in Symbols, RecordStop(s)
        PROVE  AlertsKept'
    BY <1>5 DEF RecordStop
  <1>. QED
    BY <1>1, <1>2, <1>3, <1>4, <1>5 DEF Next

\* What is forgotten of the stops is old, and the one kept is the latest.
LEMMA StopsKeptStep ==
    ASSUME Typed, NotAhead, StopsKept, [Next]_vars, Monotone'
    PROVE  StopsKept'
  <1>. USE DEF StopsKept
  <1>1. /\ now <= now' /\ ~ SetBack /\ now \in Int /\ now' \in Int /\ MaxAge \in Int
        /\ \A t \in stopLog : t.time \in Nat /\ t.symbol \in Symbols /\ t.time <= now
        /\ \A s \in Symbols : stopTimes[s] \in Int
    BY OnlyForward, BoundsAssumption, WindowsAssumption DEF Typed, Stop, Moment, Never, NotAhead
  <1>2. CASE Advance \/ AskGlobalLimit \/ RecordGlobalAlert \/ UNCHANGED vars
    <2>1. UNCHANGED <<stopTimes, stopLog>>
      BY <1>2 DEF Advance, AskGlobalLimit, RecordGlobalAlert, vars, manager, history
    <2>. QED
      BY <1>1, <2>1
  <1>3. CASE CleanupOldRecords
    <2>1. /\ stopTimes' = [s \in Symbols |->
                              IF stopTimes[s] < now - MaxAge THEN Never ELSE stopTimes[s]]
          /\ UNCHANGED <<now, stopLog>>
      BY <1>3, CleanupStep DEF history
    <2>. QED
      BY <1>1, <2>1
  <1>4. ASSUME NEW s \in Symbols, NEW b \in Bands, NEW h \in Hashes, RecordAlert(s, b, h)
        PROVE  StopsKept'
    BY <1>4 DEF RecordAlert
  <1>5. ASSUME NEW s \in Symbols, RecordStop(s)
        PROVE  StopsKept'
    <2>1. /\ stopTimes' = [stopTimes EXCEPT ![s] = now] /\ now' = now
          /\ stopLog' = stopLog \cup {[symbol |-> s, time |-> now]}
      BY <1>5 DEF RecordStop
    <2>2. ASSUME NEW t \in stopLog'
          PROVE  t.time <= stopTimes'[t.symbol] \/ t.time < now - MaxAge
      <3>1. stopTimes'[s] = now /\ \A x \in Symbols : x # s => stopTimes'[x] = stopTimes[x]
        BY <2>1 DEF Typed
      <3>. QED
        BY <1>1, <2>1, <3>1
    <2>. QED
      BY <2>1, <2>2
  <1>. QED
    BY <1>1, <1>2, <1>3, <1>4, <1>5 DEF Next

\* The records of a key are in order.
LEMMA HistoriesInOrder ==
    ASSUME Typed, Happened, NotAhead, InOrder, [Next]_vars, Monotone', NEW k \in Key,
           NEW i \in 1 .. Len(tokenHistory'[k]), NEW j \in 1 .. Len(tokenHistory'[k]), i <= j
    PROVE  tokenHistory'[k][i].time <= tokenHistory'[k][j].time
  <1>. DEFINE h == tokenHistory[k]
  <1>1. h \in Seq(Record)
    BY DEF Typed
  <1>2. \A m, n \in 1 .. Len(h) : m <= n => h[m].time <= h[n].time
    BY DEF InOrder
  <1>3. \A m \in 1 .. Len(h) : h[m].time <= now
    <2>1. \A m \in 1 .. Len(h) : h[m] \in Members(h)
      BY <1>1 DEF Members
    <2>. QED
      BY <2>1 DEF Happened, NotAhead
  <1>4. CASE Advance \/ SetBack \/ AskGlobalLimit \/ RecordGlobalAlert \/ UNCHANGED vars
    <2>1. tokenHistory' = tokenHistory
      BY <1>4 DEF Advance, SetBack, AskGlobalLimit, RecordGlobalAlert, vars, manager
    <2>. QED
      BY <1>2, <2>1
  <1>5. CASE CleanupOldRecords
    <2>1. PICK n \in 0 .. Len(h) : tokenHistory'[k] = SubSeq(h, n + 1, Len(h))
      BY <1>5, CleanupStep
    <2>. DEFINE r == SubSeq(h, n + 1, Len(h))
    <2>2. \A m \in 1 .. Len(r) : r[m] = h[n + m] /\ n + m \in 1 .. Len(h)
      BY <1>1, SuffixFacts
    <2>. HIDE DEF r
    <2>3. tokenHistory'[k] = r /\ n + i <= n + j
      BY <2>1 DEF r
    <2>. QED
      BY <1>2, <2>2, <2>3
  <1>6. ASSUME NEW s \in Symbols, NEW b \in Bands, NEW x \in Hashes, RecordAlert(s, b, x)
        PROVE  tokenHistory'[k][i].time <= tokenHistory'[k][j].time
    <2>1. PICK rec : Recorded(s, b, rec)
      BY <1>6, RecordStepFacts
    <2>2. CASE k # <<s, b>>
      BY <1>2, <2>1, <2>2 DEF Recorded
    <2>3. CASE k = <<s, b>>
      <3>. DEFINE r == Append(h, rec)
      <3>1. /\ Len(r) = Len(h) + 1 /\ r[Len(h) + 1] = rec
            /\ \A m \in 1 .. Len(h) : r[m] = h[m]
        BY <1>1, <2>1, AppendFacts DEF Recorded
      <3>2. tokenHistory'[k] = r /\ rec.time = now
        BY <2>1, <2>3, Zenon DEF Recorded
      <3>3. now \in Int /\ Len(h) \in Nat
        BY <1>1, BoundsAssumption DEF Typed, Moment
      <3>. HIDE DEF r, h
      <3>4. CASE j = Len(h) + 1
        BY <1>3, <3>1, <3>2, <3>3, <3>4
      <3>5. CASE j # Len(h) + 1
        BY <1>2, <3>1, <3>2, <3>3, <3>5
      <3>. QED
        BY <3>4, <3>5
    <2>. QED
      BY <2>2, <2>3
  <1>7. ASSUME NEW s \in Symbols, RecordStop(s)
        PROVE  tokenHistory'[k][i].time <= tokenHistory'[k][j].time
    BY <1>2, <1>7 DEF RecordStop
  <1>. QED
    BY <1>4, <1>5, <1>6, <1>7 DEF Next

\* The log of global alerts grows by the current time or not at all.
LEMMA GlobalLogGrows ==
    ASSUME Typed, [Next]_vars
    PROVE  /\ globalLog \in Seq(Moment) /\ Len(globalLog) \in Nat
           /\ \A i \in 1 .. Len(globalLog) : globalLog[i] \in Int /\ globalLog'[i] = globalLog[i]
           /\ \/ globalLog' = globalLog
              \/ /\ RecordGlobalAlert /\ Len(globalLog') = Len(globalLog) + 1
                 /\ globalLog'[Len(globalLog) + 1] = now
  <1>1. globalLog \in Seq(Moment) /\ now \in Moment
    BY DEF Typed
  <1>2. Len(globalLog) \in Nat /\ \A i \in 1 .. Len(globalLog) : globalLog[i] \in Moment
    BY <1>1
  <1>3. \/ globalLog' = globalLog
        \/ RecordGlobalAlert /\ globalLog' = Append(globalLog, now)
    BY DEF Next, Advance, SetBack, AskGlobalLimit, CleanupOldRecords, RecordGlobalAlert,
       RecordAlert, RecordStop, vars, history
  <1>4. /\ Len(Append(globalLog, now)) = Len(globalLog) + 1
        /\ Append(globalLog, now)[Len(globalLog) + 1] = now
        /\ \A i \in 1 .. Len(globalLog) : Append(globalLog, now)[i] = globalLog[i]
    BY <1>1, AppendFacts
  <1>. QED
    BY <1>1, <1>2, <1>3, <1>4, BoundsAssumption DEF Moment

\* What was recorded in order stays in order.
LEMMA InOrderStep ==
    ASSUME Typed, Happened, NotAhead, InOrder, [Next]_vars, Monotone'
    PROVE  InOrder'
  <1>1. \A k \in Key : \A i, j \in 1 .. Len(tokenHistory'[k]) :
            i <= j => tokenHistory'[k][i].time <= tokenHistory'[k][j].time
    BY HistoriesInOrder
  <1>2. ASSUME NEW i \in 1 .. Len(globalLog'), NEW j \in 1 .. Len(globalLog'), i <= j
        PROVE  globalLog'[i] <= globalLog'[j]
    <2>1. \A m, n \in 1 .. Len(globalLog) : m <= n => globalLog[m] <= globalLog[n]
      BY DEF InOrder
    <2>2. \A m \in 1 .. Len(globalLog) : globalLog[m] <= now
      BY DEF NotAhead
    <2>3. now \in Int
      BY BoundsAssumption DEF Typed, Moment
    <2>. QED
      BY <1>2, <2>1, <2>2, <2>3, GlobalLogGrows
  <1>. QED
    BY <1>1, <1>2 DEF InOrder

\* The list of the global limit is the log without an old beginning.
LEMMA HourKeptStep ==
    ASSUME Typed, HourKept, [Next]_vars, Monotone'
    PROVE  HourKept'
  <1>1. PICK d \in 0 .. Len(globalLog) :
            /\ Len(globalTimes) = Len(globalLog) - d
            /\ \A i \in 1 .. Len(globalTimes) : globalTimes[i] = globalLog[d + i]
            /\ \A i \in 1 .. d : globalLog[i] < now - Hour
    BY DEF HourKept
  <1>2. /\ globalTimes \in Seq(Moment) /\ now <= now' /\ now \in Int /\ now' \in Int
        /\ Hour \in Int /\ ~ SetBack /\ Len(globalTimes) \in Nat
    BY OnlyForward, WindowsAssumption DEF Typed
  <1>3. /\ Len(globalLog) \in Nat
        /\ \A i \in 1 .. Len(globalLog) : globalLog[i] \in Int /\ globalLog'[i] = globalLog[i]
    BY GlobalLogGrows
  <1>4. \A i \in 1 .. d : globalLog[i] < now' - Hour /\ globalLog'[i] = globalLog[i]
    BY <1>1, <1>2, <1>3
  <1>5. ASSUME UNCHANGED <<globalTimes, globalLog>>
        PROVE  HourKept'
    BY <1>1, <1>4, <1>5 DEF HourKept
  <1>6. CASE AskGlobalLimit
    <2>1. PICK n \in 0 .. Len(globalTimes) :
             /\ GlobalWindow = SubSeq(globalTimes, n + 1, Len(globalTimes))
             /\ \A i \in 1 .. n : globalTimes[i] < now - Hour
      BY HourFacts
    <2>2. globalTimes' = GlobalWindow /\ globalLog' = globalLog /\ now' = now
      BY <1>6 DEF AskGlobalLimit, history
    <2>3. /\ Len(GlobalWindow) = Len(globalTimes) - n
          /\ \A i \in 1 .. Len(GlobalWindow) :
                GlobalWindow[i] = globalTimes[n + i] /\ n + i \in 1 .. Len(globalTimes)
      BY <1>2, <2>1, SuffixFacts
    <2>4. d + n \in 0 .. Len(globalLog) /\ Len(GlobalWindow) = Len(globalLog) - (d + n)
      BY <1>1, <1>2, <1>3, <2>3
    <2>5. ASSUME NEW i \in 1 .. Len(GlobalWindow)
          PROVE  GlobalWindow[i] = globalLog[(d + n) + i]
      <3>1. d + (n + i) = (d + n) + i
        BY <1>3, <2>4
      <3>. QED
        BY <1>1, <2>3, <3>1
    <2>6. ASSUME NEW i \in 1 .. d + n
          PROVE  globalLog[i] < now - Hour
      <3>1. CASE i \in 1 .. d
        BY <1>1, <3>1
      <3>2. CASE i \notin 1 .. d
        <4>1. i - d \in 1 .. n /\ d + (i - d) = i /\ i - d \in 1 .. Len(globalTimes)
          BY <1>2, <3>2
        <4>. QED
          BY <1>1, <2>1, <4>1
      <3>. QED
        BY <3>1, <3>2
    <2>. QED
      BY <2>2, <2>4, <2>5, <2>6 DEF HourKept
  <1>7. CASE RecordGlobalAlert
    <2>1. globalTimes' = Append(globalTimes, now) /\ globalLog' = Append(globalLog, now)
      BY <1>7 DEF RecordGlobalAlert
    <2>2. globalLog \in Seq(Moment) /\ now \in Moment
      BY DEF Typed
    <2>3. /\ Len(Append(globalTimes, now)) = Len(globalTimes) + 1
          /\ Append(globalTimes, now)[Len(globalTimes) + 1] = now
          /\ \A i \in 1 .. Len(globalTimes) : Append(globalTimes, now)[i] = globalTimes[i]
      BY <1>2, <2>2, AppendFacts
    <2>4. /\ Len(Append(globalLog, now)) = Len(globalLog) + 1
          /\ Append(globalLog, now)[Len(globalLog) + 1] = now
          /\ \A i \in 1 .. Len(globalLog) : Append(globalLog, now)[i] = globalLog[i]
      BY <2>2, AppendFacts
    <2>5. ASSUME NEW i \in 1 .. Len(globalTimes')
          PROVE  globalTimes'[i] = globalLog'[d + i]
      <3>1. CASE i = Len(globalTimes) + 1
        <4>1. d + i = Len(globalLog) + 1
          BY <1>1, <1>3, <3>1
        <4>. QED
          BY <2>1, <2>3, <2>4, <3>1, <4>1
      <3>2. CASE i # Len(globalTimes) + 1
        <4>1. i \in 1 .. Len(globalTimes) /\ d + i \in 1 .. Len(globalLog)
          BY <1>1, <1>2, <1>3, <2>1, <2>3, <3>2
        <4>. QED
          BY <1>1, <2>1, <2>3, <2>4, <4>1
      <3>. QED
        BY <3>1, <3>2
    <2>6. d \in 0 .. Len(globalLog') /\ Len(globalTimes') = Len(globalLog') - d
      BY <1>1, <1>3, <2>1, <2>3, <2>4
    <2>. QED
      BY <1>4, <2>5, <2>6 DEF HourKept
  <1>8. ASSUME NEW s \in Symbols, NEW b \in Bands, NEW h \in Hashes, RecordAlert(s, b, h)
        PROVE  UNCHANGED <<globalTimes, globalLog>>
    BY <1>8 DEF RecordAlert
  <1>. QED
    BY <1>2, <1>5, <1>6, <1>7, <1>8 DEF Next, Advance, CleanupOldRecords, RecordStop, vars,
       manager, history

\* Every step keeps the invariant: the conjuncts under Monotone only have to
\* survive the steps after which the clock was never set back.
LEMMA StepHolds == IInv /\ [Next]_vars => IInv'
  <1>. SUFFICES ASSUME IInv, [Next]_vars
                PROVE  IInv'
    OBVIOUS
  <1>. USE DEF IInv
  <1>1. Typed' /\ Happened'
    BY TypedStep, HappenedStep
  <1>2. ASSUME Monotone'
        PROVE  NotAhead' /\ InOrder' /\ AlertsKept' /\ StopsKept' /\ HourKept'
    <2>1. NotAhead /\ InOrder /\ AlertsKept /\ StopsKept /\ HourKept
      BY <1>2, OnlyForward
    <2>. QED
      BY <1>2, <2>1, NotAheadStep, InOrderStep, AlertsKeptStep, StopsKeptStep, HourKeptStep
  <1>. QED
    BY <1>1, <1>2

\* What the manager remembers, in every state (throttles.cpp).
THEOREM IInvHolds == Spec => []IInv
  <1>. QED
    BY InitHolds, StepHolds, PTL DEF Spec

-----------------------------------------------------------------------------
(* The verdicts.                                                           *)

\* The members of the logs and lists have their types, and so have the windows.
LEMMA Scales ==
    ASSUME Typed
    PROVE  /\ now \in Int
           /\ {Cooldown, DedupTtl, Guard, Hour, MaxAge} \subseteq Int
           /\ Cooldown <= MaxAge /\ DedupTtl <= MaxAge /\ Guard <= MaxAge
           /\ \A r \in Members(log) :
                 r \in Record /\ r.time \in Int /\ <<r.symbol, r.band>> \in Key
           /\ \A k \in Key : tokenHistory[k] \in Seq(Record)
           /\ \A t \in stopLog : t.time \in Int /\ t.symbol \in Symbols
           /\ \A s \in Symbols : stopTimes[s] \in Int
  <1>1. log \in Seq(Record) /\ tokenHistory \in [Key -> Seq(Record)] /\ stopLog \subseteq Stop
    BY DEF Typed
  <1>2. \A r \in Members(log) : r \in Record
    BY <1>1 DEF Members
  <1>3. \A r \in Record : r.time \in Int /\ <<r.symbol, r.band>> \in Key
    BY BoundsAssumption DEF Record, Key
  <1>4. \A t \in stopLog : t.time \in Int /\ t.symbol \in Symbols
    BY <1>1, BoundsAssumption DEF Stop, Moment
  <1>5. now \in Int /\ \A s \in Symbols : stopTimes[s] \in Int
    BY BoundsAssumption DEF Typed, Moment, Never
  <1>6. /\ {Cooldown, DedupTtl, Guard, Hour, MaxAge} \subseteq Int
        /\ Cooldown <= MaxAge /\ DedupTtl <= MaxAge /\ Guard <= MaxAge
    BY WindowsAssumption
  <1>. QED
    BY <1>1, <1>2, <1>3, <1>4, <1>5, <1>6

\* A nonempty history ends in one of its members.
LEMMA LastIsMember ==
    ASSUME NEW S, NEW h \in Seq(S)
    PROVE  /\ h # <<>> => Len(h) \in 1 .. Len(h) /\ h[Len(h)] \in Members(h)
           /\ \A x \in Members(h) : h # <<>> /\ \E i \in 1 .. Len(h) : x = h[i] /\ i <= Len(h)
  <1>1. DOMAIN h = 1 .. Len(h) /\ Len(h) \in Nat /\ (h # <<>> <=> Len(h) > 0)
    OBVIOUS
  <1>2. h # <<>> => Len(h) \in 1 .. Len(h)
    BY <1>1
  <1>3. h # <<>> => h[Len(h)] \in Members(h)
    BY <1>1, <1>2, Zenon DEF Members
  <1>4. ASSUME NEW x \in Members(h)
        PROVE  h # <<>> /\ \E i \in 1 .. Len(h) : x = h[i] /\ i <= Len(h)
    <2>1. PICK i \in 1 .. Len(h) : x = h[i]
      BY <1>1, Zenon DEF Members
    <2>. QED
      BY <1>1, <2>1
  <1>. QED
    BY <1>2, <1>3, <1>4

\* Every variable has its type, and nothing is remembered that did not happen.
THEOREM TypeCorrect == Spec => []TypeOK
  <1>1. IInv => TypeOK
    <2>. SUFFICES ASSUME IInv
                  PROVE  TypeOK
      OBVIOUS
    <2>1. Typed /\ Happened
      BY DEF IInv
    <2>2. Members(log) \subseteq Record
      BY <2>1, Scales
    <2>3. Members(globalLog) \subseteq 0 .. MaxTime
      <3>1. globalLog \in Seq(Moment)
        BY <2>1 DEF Typed
      <3>2. \A i \in DOMAIN globalLog : globalLog[i] \in Moment
        BY <3>1
      <3>. QED
        BY <3>2, Zenon DEF Members, Moment
    <2>. QED
      BY <2>1, <2>2, <2>3 DEF TypeOK, Typed, Happened, Moment
  <1>. QED
    BY IInvHolds, <1>1, PTL

\* The last record of a key stands for all, and what cleanup dropped would not
\* have counted (throttles.cpp:22).
THEOREM CooldownIsExact == Spec => []CooldownExact
  <1>1. IInv => CooldownExact
    <2>. SUFFICES ASSUME IInv, Monotone, NEW s \in Symbols, NEW b \in Bands
                  PROVE  CheckTokenCooldown(s, b) <=>
                            \A r \in Alerts(s) : r.band = b => ~Recent(r.time, Cooldown)
      BY DEF CooldownExact
    <2>. DEFINE h == tokenHistory[<<s, b>>]
    <2>1. Typed /\ Happened /\ InOrder /\ AlertsKept
      BY DEF IInv
    <2>2. <<s, b>> \in Key /\ h \in Seq(Record)
      BY <2>1, Scales DEF Key
    <2>3. \A i, j \in 1 .. Len(h) : i <= j => h[i].time <= h[j].time
      BY <2>1, <2>2 DEF InOrder
    <2>4. \A x \in Members(h) : x \in Members(log) /\ x.symbol = s /\ x.band = b
      BY <2>1, <2>2 DEF Happened
    <2>5. /\ h # <<>> => Len(h) \in 1 .. Len(h) /\ h[Len(h)] \in Members(h)
          /\ \A x \in Members(h) : h # <<>> /\ \E i \in 1 .. Len(h) : x = h[i] /\ i <= Len(h)
      BY <2>2, LastIsMember
    <2>6. ASSUME NEW r \in Members(log), r.symbol = s, r.band = b, Recent(r.time, Cooldown)
          PROVE  h # <<>> /\ Recent(h[Len(h)].time, Cooldown)
      <3>1. r.time \in Int /\ now \in Int /\ Cooldown \in Int /\ MaxAge \in Int /\ Cooldown <= MaxAge
        BY <2>1, Scales
      <3>2. r \in Members(h)
        BY <2>1, <2>6, <3>1 DEF AlertsKept, Recent
      <3>3. h # <<>> /\ h[Len(h)].time \in Int /\ r.time <= h[Len(h)].time
        BY <2>1, <2>3, <2>4, <2>5, <3>2, Scales
      <3>. QED
        BY <2>6, <3>1, <3>3 DEF Recent
    <2>. HIDE DEF h
    <2>7. CheckTokenCooldown(s, b) <=> h = <<>> \/ ~Recent(h[Len(h)].time, Cooldown)
      BY DEF CheckTokenCooldown, h
    <2>. QED
      BY <2>4, <2>5, <2>6, <2>7 DEF Alerts
  <1>. QED
    BY IInvHolds, <1>1, PTL

\* The latest stop of a token stands for all (throttles.cpp:81).
THEOREM GuardIsExact == Spec => []GuardExact
  <1>1. IInv => GuardExact
    <2>. SUFFICES ASSUME IInv, Monotone, NEW s \in Symbols
                  PROVE  CheckReentryGuard(s) <=>
                            \A t \in stopLog : t.symbol = s => ~Recent(t.time, Guard)
      BY DEF GuardExact
    <2>1. Typed /\ Happened /\ StopsKept
      BY DEF IInv
    <2>2. stopTimes[s] = Never \/ [symbol |-> s, time |-> stopTimes[s]] \in stopLog
      BY <2>1 DEF Happened
    <2>3. ASSUME NEW t \in stopLog, t.symbol = s, Recent(t.time, Guard)
          PROVE  stopTimes[s] # Never /\ Recent(stopTimes[s], Guard)
      <3>1. /\ t.time \in Nat /\ now \in Int /\ Guard \in Int /\ MaxAge \in Int /\ Guard <= MaxAge
            /\ stopTimes[s] \in Int
        BY <2>1, Scales, BoundsAssumption DEF Typed, Stop, Moment
      <3>2. t.time <= stopTimes[s]
        BY <2>1, <2>3, <3>1 DEF StopsKept, Recent
      <3>. QED
        BY <2>3, <3>1, <3>2 DEF Recent, Never
    <2>4. CheckReentryGuard(s) <=> stopTimes[s] = Never \/ ~Recent(stopTimes[s], Guard)
      BY DEF CheckReentryGuard
    <2>. QED
      BY <2>2, <2>3, <2>4
  <1>. QED
    BY IInvHolds, <1>1, PTL

\* A refusal has a cause, even when the clock was set back (throttles.cpp:22, 81).
THEOREM RefusalsAreCaused == Spec => []RefusalsHaveCause
  <1>1. IInv => RefusalsHaveCause
    <2>. SUFFICES ASSUME IInv, NEW s \in Symbols
                  PROVE  /\ \A b \in Bands : ~CheckTokenCooldown(s, b) =>
                               \E r \in Alerts(s) : r.band = b /\ Recent(r.time, Cooldown)
                         /\ ~CheckReentryGuard(s) =>
                               \E t \in stopLog : t.symbol = s /\ Recent(t.time, Guard)
      BY DEF RefusalsHaveCause
    <2>1. Typed /\ Happened
      BY DEF IInv
    <2>2. ASSUME NEW b \in Bands, ~CheckTokenCooldown(s, b)
          PROVE  \E r \in Alerts(s) : r.band = b /\ Recent(r.time, Cooldown)
      <3>. DEFINE h == tokenHistory[<<s, b>>]
      <3>1. h # <<>> /\ Recent(h[Len(h)].time, Cooldown)
        BY <2>2 DEF CheckTokenCooldown
      <3>2. <<s, b>> \in Key /\ h \in Seq(Record)
        BY <2>1, Scales DEF Key
      <3>3. h[Len(h)] \in Members(h)
        BY <3>1, <3>2, LastIsMember
      <3>4. \A x \in Members(h) : x \in Members(log) /\ x.symbol = s /\ x.band = b
        BY <2>1, <3>2 DEF Happened
      <3>. QED
        BY <3>1, <3>3, <3>4 DEF Alerts
    <2>3. ASSUME ~CheckReentryGuard(s)
          PROVE  \E t \in stopLog : t.symbol = s /\ Recent(t.time, Guard)
      <3>1. stopTimes[s] # Never /\ Recent(stopTimes[s], Guard)
        BY <2>3 DEF CheckReentryGuard
      <3>2. [symbol |-> s, time |-> stopTimes[s]] \in stopLog
        BY <2>1, <3>1 DEF Happened
      <3>. QED
        BY <3>1, <3>2
    <2>. QED
      BY <2>2, <2>3
  <1>. QED
    BY IInvHolds, <1>1, PTL

\* The list of the last hour is as long as the log has alerts of that hour.
LEMMA HourCounted ==
    ASSUME Typed, HourKept, InOrder
    PROVE  Cardinality({i \in DOMAIN globalLog : globalLog[i] >= now - Hour}) = Len(GlobalWindow)
  <1>. DEFINE cutoff == now - Hour
              L == Len(globalLog)
  <1>1. PICK d \in 0 .. L :
            /\ Len(globalTimes) = L - d
            /\ \A i \in 1 .. Len(globalTimes) : globalTimes[i] = globalLog[d + i]
            /\ \A i \in 1 .. d : globalLog[i] < cutoff
    BY DEF HourKept
  <1>2. PICK n \in 0 .. Len(globalTimes) :
            /\ GlobalWindow = SubSeq(globalTimes, n + 1, Len(globalTimes))
            /\ \A i \in 1 .. n : globalTimes[i] < cutoff
            /\ n < Len(globalTimes) => globalTimes[n + 1] >= cutoff
    BY HourFacts
  <1>3. globalLog \in Seq(Moment) /\ globalTimes \in Seq(Moment) /\ cutoff \in Int
    BY BoundsAssumption, WindowsAssumption DEF Typed, Moment
  <1>4. /\ DOMAIN globalLog = 1 .. L /\ L \in Nat /\ Len(globalTimes) \in Nat
        /\ \A i \in 1 .. L : globalLog[i] \in Moment
    BY <1>3
  <1>5. \A i \in 1 .. L : globalLog[i] \in Int
    BY <1>4, BoundsAssumption DEF Moment
  <1>6. \A i, j \in 1 .. L : i <= j => globalLog[i] <= globalLog[j]
    BY DEF InOrder
  <1>7. Len(GlobalWindow) = Len(globalTimes) - n
    BY <1>2, <1>3, SuffixFacts
  <1>. DEFINE m == d + n
  <1>8. m \in 0 .. L /\ Len(GlobalWindow) = L - m
    BY <1>1, <1>4, <1>7
  <1>. HIDE DEF cutoff, L
  <1>9. ASSUME NEW i \in 1 .. m
        PROVE  globalLog[i] < cutoff
    <2>1. CASE i \in 1 .. d
      BY <1>1, <2>1
    <2>2. CASE i \notin 1 .. d
      <3>1. i - d \in 1 .. n /\ d + (i - d) = i /\ i - d \in 1 .. Len(globalTimes)
        BY <1>4, <2>2
      <3>. QED
        BY <1>1, <1>2, <3>1
    <2>. QED
      BY <2>1, <2>2
  <1>10. ASSUME NEW i \in m + 1 .. L
         PROVE  globalLog[i] >= cutoff
    <2>1. n + 1 \in 1 .. Len(globalTimes) /\ d + (n + 1) = m + 1 /\ m + 1 \in 1 .. L /\ i \in 1 .. L
      BY <1>1, <1>4
    <2>2. globalLog[m + 1] >= cutoff
      BY <1>1, <1>2, <2>1
    <2>3. globalLog[m + 1] <= globalLog[i] /\ globalLog[m + 1] \in Int /\ globalLog[i] \in Int
      BY <1>5, <1>6, <2>1
    <2>. QED
      BY <1>3, <2>2, <2>3
  <1>. HIDE DEF m
  <1>11. {i \in DOMAIN globalLog : globalLog[i] >= cutoff} = m + 1 .. L
    <2>1. ASSUME NEW i \in 1 .. L, globalLog[i] >= cutoff
          PROVE  i \in m + 1 .. L
      <3>1. i \notin 1 .. m
        BY <1>3, <1>5, <1>9, <2>1
      <3>. QED
        BY <1>4, <1>8, <3>1
    <2>2. \A i \in m + 1 .. L : i \in 1 .. L
      BY <1>4, <1>8
    <2>. QED
      BY <1>4, <1>10, <2>1, <2>2
  <1>12. Cardinality(m + 1 .. L) = L - m
    <2>1. m + 1 \in Int /\ L \in Int
      BY <1>4, <1>8
    <2>2. Cardinality(m + 1 .. L) = IF m + 1 > L THEN 0 ELSE L - (m + 1) + 1
      BY <2>1, FS_Interval
    <2>. QED
      BY <1>4, <1>8, <2>2
  <1>. QED
    BY <1>8, <1>11, <1>12 DEF cutoff

\* What earlier questions pruned would not have counted, and the alerts of the
\* hour are those behind the first one of it (throttles.cpp:49).
THEOREM GlobalIsExact == Spec => []GlobalExact
  <1>1. IInv => GlobalExact
    BY HourCounted DEF IInv, GlobalExact, CheckGlobalLimit
  <1>. QED
    BY IInvHolds, <1>1, PTL

\* Whatever the names are, the search finds exactly the young records with the
\* same reasons of the symbols whose names begin with this one
\* (throttles.cpp:71): the deques forget none of them.
DuplicateByName ==
    Monotone => \A s \in Symbols, h \in Hashes :
        IsDuplicate(s, h) <=>
            \E r \in Members(log) : /\ <<s, r.symbol>> \in Begins
                                    /\ r.hash = h /\ Recent(r.time, DedupTtl)

\* The search for duplicates sees every record that counts (throttles.cpp:67-78).
THEOREM DuplicatesByName == Spec => []DuplicateByName
  <1>1. IInv => DuplicateByName
    <2>. SUFFICES ASSUME IInv, Monotone, NEW s \in Symbols, NEW h \in Hashes
                  PROVE  IsDuplicate(s, h) <=>
                            \E r \in Members(log) : /\ <<s, r.symbol>> \in Begins
                                                    /\ r.hash = h /\ Recent(r.time, DedupTtl)
      BY DEF DuplicateByName
    <2>1. Typed /\ Happened /\ AlertsKept
      BY DEF IInv
    <2>2. ASSUME NEW k \in Key, NEW r \in Members(tokenHistory[k])
          PROVE  r \in Members(log) /\ r.symbol = k[1]
      BY <2>1 DEF Happened, Key
    <2>3. ASSUME NEW r \in Members(log), Recent(r.time, DedupTtl)
          PROVE  LET k == <<r.symbol, r.band>>
                 IN  k \in Key /\ k[1] = r.symbol /\ r \in Members(tokenHistory[k])
      <3>1. /\ r.time \in Int /\ now \in Int /\ DedupTtl \in Int /\ MaxAge \in Int
            /\ DedupTtl <= MaxAge /\ <<r.symbol, r.band>> \in Key
        BY <2>1, Scales
      <3>2. ~(r.time < now - MaxAge)
        BY <2>3, <3>1 DEF Recent
      <3>. QED
        BY <2>1, <3>1, <3>2 DEF AlertsKept
    <2>. QED
      BY <2>2, <2>3 DEF IsDuplicate
  <1>. QED
    BY IInvHolds, <1>1, PTL

\* No symbol's name begins another's.
Apart == \A p \in Begins : p[1] = p[2]

\* If no name begins another, is_duplicate answers what the comment at
\* throttles.cpp:70 says: the alerts of this symbol, in all its bands.
THEOREM DuplicateIsExactApart == Apart /\ Spec => []DuplicateExact
  <1>1. Apart /\ DuplicateByName => DuplicateExact
    BY BeginsAssumption, Zenon DEF Apart, DuplicateByName, DuplicateExact, Alerts
  <1>2. CASE Apart
    <2>1. DuplicateByName => DuplicateExact
      BY <1>1, <1>2
    <2>. QED
      BY DuplicatesByName, <2>1, PTL
  <1>. QED
    BY <1>2

\* At the moment the cleanup runs it changes no verdict, whatever order the
\* records are in (throttles.cpp:114, 127).
THEOREM CleanupIsInvisible == Spec => CleanupInvisible
  <1>1. ASSUME Typed, CleanupOldRecords
        PROVE  /\ \A s \in Symbols, b \in Bands :
                     CheckTokenCooldown(s, b) <=> CheckTokenCooldown(s, b)'
               /\ \A s \in Symbols, h \in Hashes : IsDuplicate(s, h) <=> IsDuplicate(s, h)'
               /\ \A s \in Symbols : CheckReentryGuard(s) <=> CheckReentryGuard(s)'
    <2>1. /\ now - MaxAge \in Int /\ now' = now
          /\ tokenHistory' \in [Key -> Seq(Record)]
          /\ stopTimes' = [s \in Symbols |->
                              IF stopTimes[s] < now - MaxAge THEN Never ELSE stopTimes[s]]
      BY <1>1, CleanupStep
    <2>2. \A k \in Key : \E n \in 0 .. Len(tokenHistory[k]) :
             /\ tokenHistory'[k] = SubSeq(tokenHistory[k], n + 1, Len(tokenHistory[k]))
             /\ \A i \in 1 .. n : tokenHistory[k][i].time < now - MaxAge
             /\ Members(tokenHistory'[k]) \subseteq Members(tokenHistory[k])
             /\ \A x \in Members(tokenHistory[k]) :
                   x \in Members(tokenHistory'[k]) \/ x.time < now - MaxAge
      BY <1>1, CleanupStep
    <2>3. /\ now \in Int /\ {Cooldown, DedupTtl, Guard, Hour, MaxAge} \subseteq Int
          /\ Cooldown <= MaxAge /\ DedupTtl <= MaxAge /\ Guard <= MaxAge
          /\ \A s \in Symbols : stopTimes[s] \in Int
          /\ \A k \in Key : tokenHistory[k] \in Seq(Record)
      BY <1>1, Scales
    <2>4. ASSUME NEW k \in Key, NEW x \in Members(tokenHistory[k])
          PROVE  x \in Record /\ x.time \in Int
      <3>1. tokenHistory[k] \in Seq(Record)
        BY <2>3
      <3>2. PICK i \in 1 .. Len(tokenHistory[k]) : x = tokenHistory[k][i]
        BY <3>1, LastIsMember
      <3>3. x \in Record
        BY <3>1, <3>2
      <3>. QED
        BY <3>3, BoundsAssumption DEF Record
    <2>5. ASSUME NEW s \in Symbols, NEW b \in Bands
          PROVE  CheckTokenCooldown(s, b) <=> CheckTokenCooldown(s, b)'
      <3>. DEFINE h == tokenHistory[<<s, b>>]
                  g == tokenHistory'[<<s, b>>]
      <3>1. <<s, b>> \in Key
        BY DEF Key
      <3>2. h \in Seq(Record) /\ Len(h) \in Nat /\ (h = <<>> <=> Len(h) = 0)
        BY <2>3, <3>1
      <3>3. PICK n \in 0 .. Len(h) : /\ g = SubSeq(h, n + 1, Len(h))
                                     /\ \A i \in 1 .. n : h[i].time < now - MaxAge
        BY <2>2, <3>1
      <3>. HIDE DEF h, g
      <3>4. g \in Seq(Record) /\ Len(g) = Len(h) - n
        BY <3>2, <3>3, SuffixFacts
      <3>5. \A i \in 1 .. Len(g) : g[i] = h[n + i]
        BY <3>2, <3>3, SuffixFacts
      <3>6. /\ CheckTokenCooldown(s, b) <=> h = <<>> \/ ~(h[Len(h)].time > now - Cooldown)
            /\ CheckTokenCooldown(s, b)' <=> g = <<>> \/ ~(g[Len(g)].time > now - Cooldown)
        BY <2>1 DEF CheckTokenCooldown, Recent, h, g
      <3>7. CASE n = Len(h)
        <4>1. g = <<>>
          BY <3>4, <3>7
        <4>2. h = <<>> \/ h[Len(h)].time < now - MaxAge
          BY <3>2, <3>3, <3>7
        <4>3. h = <<>> \/ (h[Len(h)].time \in Int /\ h[Len(h)].time < now - MaxAge)
          BY <2>4, <3>1, <3>2, <4>2, LastIsMember DEF h
        <4>. QED
          BY <2>3, <3>6, <4>1, <4>3
      <3>8. CASE n # Len(h)
        <4>1. Len(g) \in 1 .. Len(g) /\ n + Len(g) = Len(h) /\ g # <<>> /\ h # <<>>
          BY <3>2, <3>4, <3>8
        <4>2. g[Len(g)] = h[Len(h)]
          BY <3>5, <4>1
        <4>. QED
          BY <3>6, <4>1, <4>2
      <3>. QED
        BY <3>7, <3>8
    <2>6. ASSUME NEW s \in Symbols, NEW h \in Hashes
          PROVE  IsDuplicate(s, h) <=> IsDuplicate(s, h)'
      <3>1. ASSUME NEW k \in Key, NEW r \in Members(tokenHistory[k]), Recent(r.time, DedupTtl)
            PROVE  r \in Members(tokenHistory'[k])
        <4>1. r.time \in Int /\ (r \in Members(tokenHistory'[k]) \/ r.time < now - MaxAge)
          BY <2>2, <2>4
        <4>. QED
          BY <2>3, <3>1, <4>1 DEF Recent
      <3>2. \A k \in Key : Members(tokenHistory'[k]) \subseteq Members(tokenHistory[k])
        BY <2>2
      <3>. QED
        BY <2>1, <3>1, <3>2 DEF IsDuplicate, Recent
    <2>7. ASSUME NEW s \in Symbols
          PROVE  CheckReentryGuard(s) <=> CheckReentryGuard(s)'
      BY <2>1, <2>3 DEF CheckReentryGuard, Recent, Never
    <2>. QED
      BY <2>5, <2>6, <2>7
  <1>2. IInv /\ [Next]_vars => [CleanupOldRecords =>
            /\ \A s \in Symbols, b \in Bands :
                  CheckTokenCooldown(s, b) <=> CheckTokenCooldown(s, b)'
            /\ \A s \in Symbols, h \in Hashes : IsDuplicate(s, h) <=> IsDuplicate(s, h)'
            /\ \A s \in Symbols : CheckReentryGuard(s) <=> CheckReentryGuard(s)']_vars
    BY <1>1 DEF IInv
  <1>. QED
    BY IInvHolds, <1>2, PTL DEF Spec, CleanupInvisible
=============================================================================

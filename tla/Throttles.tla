------------------------------ MODULE Throttles ------------------------------
(***************************************************************************)
(* ThrottleManager (analytics/src/throttles.cpp): what the analytics       *)
(* service remembers of the alerts it sent, to keep from sending the same  *)
(* again too soon.  Every method holds the mutex from its first line to    *)
(* its last, so one call is one action, and any thread may make any call.  *)
(*                                                                         *)
(* The class forgets: check_global_limit and cleanup_old_records drop what *)
(* is old.  log, stopLog and globalLog forget nothing; the properties say  *)
(* that the difference never shows.                                        *)
(*                                                                         *)
(* util::current_timestamp_ms reads the system clock, which may be set     *)
(* back.  MaxTime, MaxRecords and MaxSteps bound the clock, the calls that *)
(* record something, and the steps back.                                   *)
(***************************************************************************)
EXTENDS Integers, Sequences, FiniteSets

CONSTANTS
    Symbols, Bands, Hashes,
    Begins,        \* <<s, t>>: the name of t begins with the name of s
    Cooldown,      \* cooldown_hours
    DedupTtl,      \* ttl_hours of is_duplicate
    Guard,         \* guard_hours
    Hour,          \* the window of the global limit
    MaxPerHour,    \* max_per_hour
    MaxAge,        \* max_age_hours of cleanup_old_records
    MaxTime, MaxRecords, MaxSteps

ASSUME BeginsAssumption ==
    Begins \subseteq Symbols \X Symbols /\ \A s \in Symbols : <<s, s>> \in Begins
ASSUME WindowsAssumption ==
    /\ {Cooldown, DedupTtl, Guard, Hour, MaxAge} \subseteq Nat \ {0}
    /\ \A w \in {Cooldown, DedupTtl, Guard} : w <= MaxAge
ASSUME BoundsAssumption ==
    {MaxPerHour, MaxTime, MaxRecords, MaxSteps} \subseteq Nat

Never == -1   \* a symbol without an entry in stop_times_

VARIABLES
    now,            \* the system clock
    tokenHistory,   \* token_history_: symbol and band -> alert records, in order
    globalTimes,    \* global_alert_times_
    stopTimes,      \* stop_times_
    log,            \* history: every record_alert
    globalLog,      \* history: the time of every record_global_alert
    stopLog,        \* history: every record_stop, [symbol, time]
    steps           \* how often the clock was set back

manager == <<tokenHistory, globalTimes, stopTimes>>
history == <<log, globalLog, stopLog>>
vars    == <<now, manager, history, steps>>

Members(s) == {s[k] : k \in DOMAIN s}
Key == Symbols \X Bands
Record == [symbol : Symbols, band : Bands, hash : Hashes, time : 0 .. MaxTime]

Init ==
    /\ now = 0 /\ steps = 0
    /\ tokenHistory = [k \in Key |-> <<>>]
    /\ globalTimes = <<>> /\ stopTimes = [s \in Symbols |-> Never]
    /\ log = <<>> /\ globalLog = <<>> /\ stopLog = {}

-----------------------------------------------------------------------------
(* The clock (external).                                                   *)

Advance ==
    /\ now < MaxTime
    /\ now' = now + 1
    /\ UNCHANGED <<manager, history, steps>>

SetBack ==
    /\ now > 0 /\ steps < MaxSteps
    /\ now' = now - 1 /\ steps' = steps + 1
    /\ UNCHANGED <<manager, history>>

-----------------------------------------------------------------------------
(* The checks.  An empty deque that operator[] leaves in the map is the    *)
(* same as no deque.                                                       *)

Recent(t, window) == t > now - window

\* Mutants of CheckTokenCooldown, GlobalWindow and IsDuplicate: the first
\* record decides; the first moment of the hour is pruned; only the last record
\* of a key is looked at.
CheckFirstRecord(s, b) ==
    LET h == tokenHistory[<<s, b>>] IN h = <<>> \/ ~Recent(h[1].time, Cooldown)
IsLastDuplicate(s, hash) ==
    \E k \in Key : /\ <<s, k[1]>> \in Begins /\ tokenHistory[k] # <<>>
                   /\ LET r == tokenHistory[k][Len(tokenHistory[k])]
                     IN  Recent(r.time, DedupTtl) /\ r.hash = hash

\* The last record of a key decides.
CheckTokenCooldown(s, b) ==
    LET h == tokenHistory[<<s, b>>] IN h = <<>> \/ ~Recent(h[Len(h)].time, Cooldown)

\* pop_front while the front is below the cutoff; times are those of s.
DropOld(s, times, cutoff) ==
    LET n == CHOOSE k \in 0 .. Len(s) : /\ \A i \in 1 .. k : times[i] < cutoff
                                        /\ k < Len(s) => times[k + 1] >= cutoff
    IN  SubSeq(s, n + 1, Len(s))

GlobalWindowPruned == DropOld(globalTimes, globalTimes, now - Hour + 1)

GlobalWindow == DropOld(globalTimes, globalTimes, now - Hour)
CheckGlobalLimit == Len(GlobalWindow) < MaxPerHour

\* Every key that begins with the symbol is searched.
IsDuplicate(s, hash) ==
    \E k \in Key : <<s, k[1]>> \in Begins /\
        \E r \in Members(tokenHistory[k]) : Recent(r.time, DedupTtl) /\ r.hash = hash

\* Mutant of CheckReentryGuard: a stop guards for ever.
GuardForever(s) == stopTimes[s] = Never

CheckReentryGuard(s) == stopTimes[s] = Never \/ ~Recent(stopTimes[s], Guard)

\* check_global_limit is the one check that changes something.
AskGlobalLimit ==
    /\ globalTimes' = GlobalWindow
    /\ UNCHANGED <<now, tokenHistory, stopTimes, history, steps>>

-----------------------------------------------------------------------------
(* The calls that record, and the cleanup.                                 *)

MayRecord == Len(log) + Len(globalLog) + Cardinality(stopLog) < MaxRecords

\* Mutant of RecordAlert: the record goes under every band.
RecordEveryBand(s, b, hash) ==
    /\ MayRecord
    /\ LET rec == [symbol |-> s, band |-> b, hash |-> hash, time |-> now]
       IN  /\ tokenHistory' = [k \in Key |-> IF k[1] = s THEN Append(tokenHistory[k], rec)
                                                       ELSE tokenHistory[k]]
           /\ log' = Append(log, rec)
    /\ UNCHANGED <<now, globalTimes, stopTimes, globalLog, stopLog, steps>>

RecordAlert(s, b, hash) ==
    /\ MayRecord
    /\ LET rec == [symbol |-> s, band |-> b, hash |-> hash, time |-> now]
       IN  /\ tokenHistory' = [tokenHistory EXCEPT ![<<s, b>>] = Append(@, rec)]
           /\ log' = Append(log, rec)
    /\ UNCHANGED <<now, globalTimes, stopTimes, globalLog, stopLog, steps>>

RecordGlobalAlert ==
    /\ MayRecord
    /\ globalTimes' = Append(globalTimes, now)
    /\ globalLog' = Append(globalLog, now)
    /\ UNCHANGED <<now, tokenHistory, stopTimes, log, stopLog, steps>>

\* Mutant of RecordStop: the first stop is kept.
RecordFirstStop(s) ==
    /\ MayRecord
    /\ stopTimes' = [stopTimes EXCEPT ![s] = IF @ = Never THEN now ELSE @]
    /\ stopLog' = stopLog \cup {[symbol |-> s, time |-> now]}
    /\ UNCHANGED <<now, tokenHistory, globalTimes, log, globalLog, steps>>

RecordStop(s) ==
    /\ MayRecord
    /\ stopTimes' = [stopTimes EXCEPT ![s] = now]
    /\ stopLog' = stopLog \cup {[symbol |-> s, time |-> now]}
    /\ UNCHANGED <<now, tokenHistory, globalTimes, log, globalLog, steps>>

\* Mutant of CleanupOldRecords: the age is taken in the wrong unit.
CleanupWrongUnit ==
    LET cutoff == now - MaxAge \div 2
        Times(h) == [i \in DOMAIN h |-> h[i].time]
    IN  /\ tokenHistory' = [k \in Key |-> DropOld(tokenHistory[k], Times(tokenHistory[k]), cutoff)]
        /\ stopTimes' = [s \in Symbols |-> IF stopTimes[s] < cutoff THEN Never ELSE stopTimes[s]]
        /\ UNCHANGED <<now, globalTimes, history, steps>>

CleanupOldRecords ==
    LET cutoff == now - MaxAge
        Times(h) == [i \in DOMAIN h |-> h[i].time]
    IN  /\ tokenHistory' = [k \in Key |-> DropOld(tokenHistory[k], Times(tokenHistory[k]), cutoff)]
        /\ stopTimes' = [s \in Symbols |-> IF stopTimes[s] < cutoff THEN Never ELSE stopTimes[s]]
        /\ UNCHANGED <<now, globalTimes, history, steps>>

-----------------------------------------------------------------------------
Next ==
    \/ Advance \/ SetBack
    \/ AskGlobalLimit \/ CleanupOldRecords \/ RecordGlobalAlert
    \/ \E s \in Symbols, b \in Bands, h \in Hashes : RecordAlert(s, b, h)
    \/ \E s \in Symbols : RecordStop(s)

Spec == Init /\ [][Next]_vars

-----------------------------------------------------------------------------
(* Properties.                                                             *)

Monotone == steps = 0
Alerts(s) == {r \in Members(log) : r.symbol = s}

\* Every variable has its type, and nothing is remembered that did not happen.
TypeOK ==
    /\ now \in 0 .. MaxTime /\ steps \in 0 .. MaxSteps
    /\ \A k \in Key : Members(tokenHistory[k]) \subseteq
          {r \in Members(log) : <<r.symbol, r.band>> = k}
    /\ Members(log) \subseteq Record
    /\ Members(globalTimes) \subseteq Members(globalLog)
    /\ Members(globalLog) \subseteq 0 .. MaxTime
    /\ \A s \in Symbols : stopTimes[s] = Never \/ [symbol |-> s, time |-> stopTimes[s]] \in stopLog

\* While the clock is not set back, a token is on cooldown exactly if an alert
\* of its band is younger than the cooldown: the last record stands for all
\* (throttles.cpp:22), and what cleanup dropped would not have counted.
CooldownExact ==
    Monotone => \A s \in Symbols, b \in Bands :
        CheckTokenCooldown(s, b) <=>
            \A r \in Alerts(s) : r.band = b => ~Recent(r.time, Cooldown)

\* While the clock is not set back, the global limit counts exactly the alerts
\* of the last hour, its first moment included (throttles.cpp:50), although
\* earlier questions pruned the list.
GlobalExact ==
    Monotone => (CheckGlobalLimit <=>
        Cardinality({i \in DOMAIN globalLog : globalLog[i] >= now - Hour}) < MaxPerHour)

\* The comment at throttles.cpp:70, "Check all bands for this symbol": an alert
\* is a duplicate exactly if this symbol had one with the same reasons within
\* the window, in whatever band, also after a cleanup.
DuplicateExact ==
    Monotone => \A s \in Symbols, h \in Hashes :
        IsDuplicate(s, h) <=> \E r \in Alerts(s) : r.hash = h /\ Recent(r.time, DedupTtl)

\* While the clock is not set back, re-entry is refused exactly if some stop of
\* the symbol is younger than the guard: the latest stop stands for all.
GuardExact ==
    Monotone => \A s \in Symbols :
        CheckReentryGuard(s) <=>
            \A t \in stopLog : t.symbol = s => ~Recent(t.time, Guard)

\* Even if the clock is set back, a refusal for cooldown or re-entry has a
\* cause: something recorded for this very symbol within the window.
RefusalsHaveCause ==
    \A s \in Symbols :
        /\ \A b \in Bands : ~CheckTokenCooldown(s, b) =>
              \E r \in Alerts(s) : r.band = b /\ Recent(r.time, Cooldown)
        /\ ~CheckReentryGuard(s) =>
              \E t \in stopLog : t.symbol = s /\ Recent(t.time, Guard)

\* cleanup_old_records is invisible: at the moment it runs it changes no
\* verdict, whatever order the records are in (throttles.cpp:114, 127).
CleanupInvisible ==
    [][CleanupOldRecords =>
        /\ \A s \in Symbols, b \in Bands : CheckTokenCooldown(s, b) <=> CheckTokenCooldown(s, b)'
        /\ \A s \in Symbols, h \in Hashes : IsDuplicate(s, h) <=> IsDuplicate(s, h)'
        /\ \A s \in Symbols : CheckReentryGuard(s) <=> CheckReentryGuard(s)']_vars
=============================================================================

---------------------------- MODULE PollerProofs ----------------------------
(***************************************************************************)
(* Proofs about the poller, for any users, messages, limits and bounds.    *)
(*                                                                         *)
(* The inductive invariant IInv says where the batch in hand lies: it      *)
(* continues `Confirm', the larger of Telegram's and the poller's position,*)
(* without a gap, and everything up to Confirm is settled.                 *)
(***************************************************************************)
EXTENDS Poller, TLAPS

\* An owner's command that needs no further attempt.
Settled(i) ==
    (sent[i].user = Owner /\ sent[i].cmd \in Forwarded) => Published(i) \/ i \in limited

\* The batch is the run of updates right above Confirm.
BatchContinues ==
    /\ \A k \in DOMAIN batch : batch[k] = Confirm + k
    /\ Confirm + Len(batch) <= Len(sent)

\* What was published lies at most one above Confirm in the current run, and
\* not above it while nothing failed.
RequestsBehind ==
    \A k \in DOMAIN requests :
        /\ requests[k].run <= run
        /\ requests[k].run = run => requests[k].id <= Confirm + 1
        /\ faults = 0 /\ run = 0 => requests[k].id <= Confirm

IInv ==
    /\ TypeOK
    /\ BatchContinues
    /\ \A i \in 1 .. Confirm : Settled(i)
    /\ RequestsBehind
    /\ RetriesKeepOrder
    /\ OnceWithoutFaults

-----------------------------------------------------------------------------
(* What handling one update amounts to, whatever path it takes.            *)

Outcome(i) ==
    /\ \/ Finish(i) /\ faults' >= faults
       \/ pc' = "pause" /\ batch' = <<>> /\ UNCHANGED lastUpdateId /\ faults' > faults
    /\ faults' \in Nat
    /\ charges' \in [Users -> 0 .. RateLimit]
    /\ UNCHANGED <<telegram, running, run>>
    /\ sessions' \subseteq Users /\ pins' \subseteq Pins

\* Handling an update adds at most its own request, and leaves it unsettled
\* only by throwing.
RequestOutcome(i) ==
    /\ limited' = limited \/ (limited' = limited \cup {i} /\ Finish(i))
    /\ \/ requests' = requests
       \/ \E role \in Roles : /\ sent[i].cmd \in Forwarded
                              /\ requests' = Append(requests, Request(i, role))
    /\ (Finish(i) /\ sent[i].user = Owner /\ sent[i].cmd \in Forwarded
            /\ requests' = requests) => i \in limited'

\* The head of the batch is an update Telegram holds.
LEMMA HeadOfBatch ==
  ASSUME TypeOK, BatchContinues, pc = "work"
  PROVE  /\ Head(batch) = Confirm + 1
         /\ Head(batch) \in 1 .. Len(sent)
         /\ sent[Head(batch)] \in Messages
         /\ sent[Head(batch)].user \in Users
         /\ Confirm \in Nat
<1>1. batch # <<>> /\ Len(batch) > 0 /\ 1 \in DOMAIN batch
  BY DEF TypeOK
<1>2. Confirm \in Nat
  BY DEF TypeOK, Confirm, Larger
<1>3. Head(batch) = batch[1]
  BY <1>1 DEF TypeOK
<1>4. Head(batch) = Confirm + 1
  BY <1>1, <1>3 DEF BatchContinues
<1>5. Head(batch) \in 1 .. Len(sent)
  BY <1>1, <1>2, <1>4 DEF BatchContinues, TypeOK
<1>6. sent[Head(batch)] \in Messages
  BY <1>5 DEF TypeOK
<1> QED
  BY <1>2, <1>4, <1>5, <1>6, MessagesAssumption

\* Every path of process_update has an Outcome.
LEMMA PathOutcome ==
  ASSUME TypeOK, BatchContinues, ProcessUpdate
  PROVE  Outcome(Head(batch))
<1> DEFINE i == Head(batch)
<1>1. pc = "work"
  BY DEF ProcessUpdate
<1>2. i \in 1 .. Len(sent) /\ sent[i] \in Messages /\ sent[i].user \in Users
  BY <1>1, HeadOfBatch
<1>3. UNCHANGED <<telegram, running, run>>
  BY DEF ProcessUpdate
<1>4. faults \in Nat /\ charges \in [Users -> 0 .. RateLimit]
      /\ sessions \subseteq Users /\ pins \subseteq Pins
  BY DEF TypeOK
<1>5. Admit(i) => charges' \in [Users -> 0 .. RateLimit]
  BY <1>2, <1>4, BoundsAssumption DEF Admit
<1>6. /\ Return(i) => (Finish(i) /\ faults' = faults) \/ (Throw /\ faults' = faults + 1)
      /\ ReturnLogged(i) => (Finish(i) \/ Throw) /\ faults' = faults + 1
  BY DEF Return, ReturnLogged, NoFault, Fault, Throw
<1> DEFINE Ends == \/ Finish(i) /\ faults' \in {faults, faults + 1}
                   \/ Throw /\ faults' = faults + 1
<1>7. IgnoreUpdate(i) \/ HandleMessage(i)
  BY DEF ProcessUpdate
<1>8. Ends /\ charges' \in [Users -> 0 .. RateLimit]
      /\ sessions' \subseteq Users /\ pins' \subseteq Pins
  <2>1. CASE IgnoreUpdate(i)
    BY <2>1, <1>4 DEF IgnoreUpdate, NoFault, access
  <2>2. CASE RefuseRate(i)
    BY <2>2, <1>4 DEF RefuseRate, NoFault, Throw, Fault, access
  <2>3. CASE RefuseParse(i)
    BY <2>3, <1>4, <1>5, <1>6 DEF RefuseParse, access
  <2>4. CASE StartNoGrant(i)
    BY <2>4, <1>4, <1>5, <1>6 DEF StartNoGrant, access
  <2>5. CASE StartGrant(i)
    BY <2>5, <1>2, <1>4, <1>5, <1>6 DEF StartGrant
  <2>6. CASE Deny(i)
    BY <2>6, <1>4, <1>5, <1>6 DEF Deny, access
  <2>7. CASE Help(i)
    BY <2>7, <1>4, <1>5, <1>6 DEF Help, access
  <2>8. CASE GuestPin(i)
    BY <2>8, <1>4, <1>5, <1>6 DEF GuestPin
  <2>9. CASE Publish(i)
    BY <2>9, <1>4, <1>5, <1>6 DEF Publish, Throw, Fault, access
  <2> QED
    BY <1>7, <2>1, <2>2, <2>3, <2>4, <2>5, <2>6, <2>7, <2>8, <2>9 DEF HandleMessage
<1> QED
  BY <1>3, <1>4, <1>8 DEF Outcome, Throw

\* Every path of process_update has a RequestOutcome.
LEMMA PathRequestOutcome ==
  ASSUME TypeOK, BatchContinues, ProcessUpdate
  PROVE  RequestOutcome(Head(batch))
<1> DEFINE i == Head(batch)
<1>1. pc = "work"
  BY DEF ProcessUpdate
<1>2. i \in 1 .. Len(sent) /\ sent[i] \in Messages /\ i \in Nat
  BY <1>1, HeadOfBatch
<1>3. NoText \notin Forwarded /\ Unparsed \notin Forwarded
      /\ "start" \notin Forwarded /\ "help" \notin Forwarded /\ "guest" \notin Forwarded
  BY DEF NoText, Unparsed, Forwarded, OwnerOnly
<1>4. Throw => ~Finish(i)
  BY DEF Throw, Finish
<1>5. IgnoreUpdate(i) \/ HandleMessage(i)
  BY DEF ProcessUpdate
<1>6. CASE IgnoreUpdate(i)
  BY <1>3, <1>6 DEF IgnoreUpdate, RequestOutcome
<1>7. CASE RefuseRate(i)
  BY <1>4, <1>7 DEF RefuseRate, RequestOutcome
<1>8. CASE RefuseParse(i) \/ StartNoGrant(i) \/ StartGrant(i)
  BY <1>3, <1>8 DEF RefuseParse, StartNoGrant, StartGrant, RequestOutcome
<1>9. CASE Deny(i)
  BY <1>9 DEF Deny, Allowed, IsOwner, IsGuest, RequestOutcome
<1>10. CASE Help(i) \/ GuestPin(i)
  BY <1>3, <1>10 DEF Help, GuestPin, RequestOutcome
<1>11. CASE Publish(i)
  <2> DEFINE role == IF IsOwner(i) THEN "owner" ELSE "guest"
  <2>1. limited' = limited /\ sent[i].cmd \in Forwarded /\ role \in Roles
    BY <1>11 DEF Publish, Roles
  <2>2. CASE requests' = Append(requests, Request(i, role)) /\ requests' # requests
    BY <2>1, <2>2 DEF RequestOutcome
  <2>3. CASE UNCHANGED requests /\ Throw
    BY <1>4, <2>1, <2>3 DEF RequestOutcome
  <2>4. requests \in Seq(RequestType) => Append(requests, Request(i, role)) # requests
    OBVIOUS
  <2>5. requests \in Seq(RequestType)
    BY DEF TypeOK
  <2> QED
    BY <1>11, <2>2, <2>3, <2>4, <2>5 DEF Publish
<1> QED
  BY <1>5, <1>6, <1>7, <1>8, <1>9, <1>10, <1>11 DEF HandleMessage

-----------------------------------------------------------------------------
(* Where a step leaves the positions.                                      *)

\* Finishing the head of the batch moves Confirm by one.
LEMMA FinishAdvances ==
  ASSUME TypeOK, BatchContinues, pc = "work", Finish(Head(batch)), UNCHANGED telegram
  PROVE  /\ Confirm' = Confirm + 1 /\ lastUpdateId' = Confirm + 1
         /\ lastUpdateId' <= Len(sent)
         /\ batch' \in Seq(Nat) /\ Len(batch') = Len(batch) - 1
         /\ BatchContinues'
<1>1. Head(batch) = Confirm + 1 /\ Head(batch) \in 1 .. Len(sent) /\ Confirm \in Nat
  BY HeadOfBatch
<1>2. batch \in Seq(Nat) /\ batch # <<>> /\ Len(batch) > 0
  BY DEF TypeOK
<1>3. batch' = Tail(batch)
  BY DEF Finish
<1>4. /\ batch' \in Seq(Nat) /\ Len(batch') = Len(batch) - 1
      /\ \A k \in DOMAIN batch' : k + 1 \in DOMAIN batch /\ batch'[k] = batch[k + 1] /\ k \in Nat
  BY <1>2, <1>3
<1>5. confirmed \in Nat /\ lastUpdateId \in Nat /\ confirmed' = confirmed /\ sent' = sent
  BY DEF TypeOK, telegram
<1>6. lastUpdateId' = Confirm + 1
  BY <1>1, <1>5 DEF Finish, Confirm, Larger
<1>7. Confirm' = Confirm + 1
  BY <1>1, <1>5, <1>6 DEF Confirm, Larger
<1>8. \A k \in DOMAIN batch' : batch'[k] = Confirm' + k
  <2> SUFFICES ASSUME NEW k \in DOMAIN batch' PROVE batch'[k] = Confirm' + k
    OBVIOUS
  <2>1. batch[k + 1] = Confirm + (k + 1)
    BY <1>4 DEF BatchContinues
  <2> QED
    BY <1>1, <1>4, <1>7, <2>1
<1>9. Confirm' + Len(batch') <= Len(sent')
  BY <1>1, <1>2, <1>4, <1>5, <1>7 DEF BatchContinues
<1> QED
  BY <1>1, <1>4, <1>6, <1>7, <1>8, <1>9 DEF BatchContinues

\* A poll takes over the larger position and starts the batch right above it.
LEMMA PollAdvances ==
  ASSUME TypeOK, GetUpdates
  PROVE  /\ Confirm' = Confirm /\ confirmed' = Confirm
         /\ batch' \in Seq(Nat) /\ BatchContinues'
         /\ pc' = "work" <=> batch' # <<>>
<1> DEFINE n == Smaller(MaxBatch, Len(sent) - Confirm)
<1>1. /\ confirmed \in Nat /\ lastUpdateId \in Nat /\ Len(sent) \in Nat
      /\ confirmed <= Len(sent) /\ lastUpdateId <= Len(sent) /\ sent' = sent
      /\ confirmed' = Confirm /\ lastUpdateId' = lastUpdateId
  BY DEF TypeOK, GetUpdates
<1>2. Confirm \in Nat /\ Confirm <= Len(sent) /\ Confirm' = Confirm
  BY <1>1 DEF Confirm, Larger
<1>3. n \in Nat /\ Confirm + n <= Len(sent) /\ (n = 0 <=> Len(sent) = Confirm)
  BY <1>1, <1>2, BoundsAssumption DEF Smaller
<1>4. batch' = [k \in 1 .. n |-> Confirm + k]
  BY DEF GetUpdates
<1>5. batch' \in Seq(Nat) /\ Len(batch') = n /\ DOMAIN batch' = 1 .. n
  BY <1>2, <1>3, <1>4
<1>6. \A k \in DOMAIN batch' : batch'[k] = Confirm' + k
  BY <1>2, <1>4, <1>5
<1>7. batch' # <<>> <=> n # 0
  BY <1>3, <1>5
<1>8. pc' = "work" <=> n # 0
  BY <1>1, <1>2, <1>3 DEF GetUpdates
<1> QED
  BY <1>1, <1>2, <1>3, <1>5, <1>6, <1>7, <1>8 DEF BatchContinues

-----------------------------------------------------------------------------
(* Type correctness.                                                       *)

\* Init establishes the types and the shape of the batch.
LEMMA InitTyped == Init => TypeOK /\ BatchContinues
  BY BoundsAssumption DEF Init, TypeOK, BatchContinues, Confirm, Larger

\* A step adds at most one event to the trail.
LEMMA TrailStep ==
  ASSUME TypeOK, BatchContinues, [Next]_vars
  PROVE  trail' = trail \/ \E e \in EventType : trail' = Append(trail, e)
<1>1. \A w, x, n : Event(w, x, n) \in EventType <=>
          /\ w \in {"stored", "expired", "opened", "ended", "asked"}
          /\ x \in Users \cup Pins /\ n \in Nat
  <2> SUFFICES ASSUME NEW w, NEW x, NEW n
               PROVE  [what |-> w, key |-> x, by |-> n] \in EventType <=>
                        /\ w \in {"stored", "expired", "opened", "ended", "asked"}
                        /\ x \in Users \cup Pins /\ n \in Nat
    BY DEF Event
  <2> DEFINE r == [what |-> w, key |-> x, by |-> n]
  <2>1. r.what = w /\ r.key = x /\ r.by = n
    OBVIOUS
  <2> QED
    BY <2>1 DEF EventType
<1>2. CASE KeyExpires
  <2>1. sessions \subseteq Users /\ pins \subseteq Pins
    BY DEF TypeOK
  <2>2. \E w \in {"ended", "expired"}, x \in Users \cup Pins : trail' = Append(trail, Event(w, x, 0))
    BY <1>2, <2>1 DEF KeyExpires, Note
  <2> QED
    BY <1>1, <2>2
<1>3. CASE ProcessUpdate
  <2> DEFINE i == Head(batch)
  <2>1. i \in Nat /\ sent[i].user \in Users
    BY <1>3, HeadOfBatch DEF ProcessUpdate
  <2>2. IgnoreUpdate(i) \/ HandleMessage(i)
    BY <1>3 DEF ProcessUpdate
  <2>3. CASE StartGrant(i)
    BY <1>1, <2>1, <2>3 DEF StartGrant, Note
  <2>4. CASE GuestPin(i)
    BY <1>1, <2>1, <2>4 DEF GuestPin, Note
  <2>5. CASE Publish(i)
    <3> DEFINE added == Append(requests, Request(i, IF IsOwner(i) THEN "owner" ELSE "guest"))
    <3>1. trail' = trail \/ trail' = Append(trail, Event("asked", sent[i].user, Len(added)))
      BY <2>5 DEF Publish, Note
    <3>2. Len(added) \in Nat
      <4>1. \A S, r : \A q \in Seq(S) : Len(Append(q, r)) \in Nat
        OBVIOUS
      <4>2. requests \in Seq(RequestType)
        BY DEF TypeOK
      <4> QED
        BY <4>1, <4>2
    <3> QED
      BY <1>1, <2>1, <3>1, <3>2
  <2>6. CASE ~ (StartGrant(i) \/ GuestPin(i) \/ Publish(i))
    BY <2>2, <2>6 DEF HandleMessage, IgnoreUpdate, RefuseRate, RefuseParse, StartNoGrant,
       Deny, Help, access
  <2> QED
    BY <2>3, <2>4, <2>5, <2>6
<1>4. CASE ~ KeyExpires /\ ~ ProcessUpdate
  BY <1>4 DEF Next, PollLoop, Environment, Send, ChargeExpires, Stop, Crash, Restart,
     GetUpdates, GetUpdatesFails, WakeUp, LoopExits, access, vars
<1> QED
  BY <1>2, <1>3, <1>4

\* Every step keeps them.
LEMMA StepTyped ==
  ASSUME TypeOK, BatchContinues, [Next]_vars
  PROVE  TypeOK' /\ BatchContinues'
<1>0. trail' \in Seq(EventType)
  <2>1. trail \in Seq(EventType)
    BY DEF TypeOK
  <2> QED
    BY <2>1, TrailStep
<1> USE <1>0 DEF telegram, thread, access
<1>1. CASE UNCHANGED vars
  BY <1>1 DEF vars, TypeOK, BatchContinues, Confirm
<1>2. ASSUME NEW m \in Messages, Send(m)
      PROVE  TypeOK' /\ BatchContinues'
  <2>1. sent' = Append(sent, m) /\ sent' \in Seq(Messages) /\ Len(sent') = Len(sent) + 1
        /\ Len(sent) \in Nat
    BY <1>2 DEF Send, TypeOK
  <2>2. UNCHANGED <<confirmed, thread, charges, access, requests, limited, faults, run>>
    BY <1>2 DEF Send
  <2>3. confirmed' \in 0 .. Len(sent') /\ lastUpdateId' \in 0 .. Len(sent')
        /\ limited' \subseteq 1 .. Len(sent')
    BY <2>1, <2>2 DEF TypeOK
  <2>4. Confirm' = Confirm /\ Confirm \in Nat
    BY <2>2 DEF Confirm, Larger, TypeOK
  <2>5. Confirm' + Len(batch') <= Len(sent')
    BY <2>1, <2>2, <2>4 DEF BatchContinues, TypeOK
  <2> QED
    BY <2>1, <2>2, <2>3, <2>4, <2>5 DEF TypeOK, BatchContinues
<1>3. ASSUME NEW u \in Users, ChargeExpires(u)
      PROVE  TypeOK' /\ BatchContinues'
  BY <1>3, BoundsAssumption DEF ChargeExpires, TypeOK, BatchContinues, Confirm
<1>4. CASE KeyExpires
  BY <1>4 DEF KeyExpires, TypeOK, BatchContinues, Confirm
<1>5. CASE Stop \/ WakeUp \/ LoopExits
  BY <1>5 DEF Stop, WakeUp, LoopExits, TypeOK, BatchContinues, Confirm
<1>6. CASE Crash
  BY <1>6 DEF Crash, TypeOK, BatchContinues, Confirm, Larger
<1>7. CASE Restart
  BY <1>7, BoundsAssumption DEF Restart, TypeOK, BatchContinues, Confirm, Larger
<1>8. CASE GetUpdates
  <2>2. /\ confirmed' = Confirm /\ batch' \in Seq(Nat) /\ BatchContinues'
        /\ pc' = "work" <=> batch' # <<>>
    BY <1>8, PollAdvances
  <2>3. pc' \in {"poll", "work"}
        /\ UNCHANGED <<sent, running, lastUpdateId, charges, access, requests, limited, faults, run>>
    BY <1>8 DEF GetUpdates
  <2>4. Confirm \in 0 .. Len(sent)
    BY DEF TypeOK, Confirm, Larger
  <2> QED
    BY <2>2, <2>3, <2>4 DEF TypeOK
<1>9. CASE GetUpdatesFails
  BY <1>9 DEF GetUpdatesFails, Fault, TypeOK, BatchContinues, Confirm, Larger
<1>10. CASE ProcessUpdate
  <2>1. pc = "work"
    BY <1>10 DEF ProcessUpdate
  <2>2. Head(batch) \in 1 .. Len(sent) /\ sent[Head(batch)] \in Messages
        /\ sent[Head(batch)].user \in Users
    BY <2>1, HeadOfBatch
  <2>3. Outcome(Head(batch)) /\ RequestOutcome(Head(batch))
    BY <1>10, PathOutcome, PathRequestOutcome
  <2>4. limited' \subseteq 1 .. Len(sent')
    BY <2>2, <2>3 DEF RequestOutcome, Outcome, TypeOK
  <2>5. requests' \in Seq(RequestType)
    <3>1. \A role \in Roles : sent[Head(batch)].cmd \in Forwarded
                => Request(Head(batch), role) \in RequestType
      BY <2>2 DEF Request, RequestType, TypeOK
    <3>2. requests \in Seq(RequestType)
      BY DEF TypeOK
    <3> QED
      BY <2>3, <3>1, <3>2 DEF RequestOutcome
  <2>6. /\ lastUpdateId' \in 0 .. Len(sent') /\ batch' \in Seq(Nat)
        /\ pc' \in {"poll", "work", "pause", "down"} /\ (pc' = "work" <=> batch' # <<>>)
        /\ BatchContinues'
    <3>1. CASE Finish(Head(batch))
      <4>1. UNCHANGED telegram
        BY <2>3 DEF Outcome
      <4>2. /\ lastUpdateId' = Confirm + 1 /\ lastUpdateId' <= Len(sent)
            /\ batch' \in Seq(Nat) /\ BatchContinues'
        BY <2>1, <3>1, <4>1, FinishAdvances
      <4>3. Confirm \in Nat
        BY <2>1, HeadOfBatch
      <4> QED
        BY <3>1, <4>1, <4>2, <4>3 DEF Finish, TypeOK
    <3>2. CASE ~Finish(Head(batch))
      <4>1. /\ pc' = "pause" /\ batch' = <<>> /\ lastUpdateId' = lastUpdateId
            /\ sent' = sent /\ confirmed' = confirmed
        BY <2>3, <3>2 DEF Outcome
      <4> QED
        BY <4>1 DEF TypeOK, BatchContinues, Confirm, Larger
    <3> QED
      BY <3>1, <3>2
  <2> QED
    BY <2>3, <2>4, <2>5, <2>6 DEF Outcome, TypeOK
<1> QED
  BY <1>1, <1>2, <1>3, <1>4, <1>5, <1>6, <1>7, <1>8, <1>9, <1>10
     DEF Next, PollLoop, Environment

-----------------------------------------------------------------------------
(* The invariant.                                                          *)

\* A step outside process_update leaves the stream alone; it keeps Confirm,
\* or starts a new run with a Confirm that is not larger.
LEMMA QuietStep ==
  ASSUME TypeOK, [Next]_vars, ~ProcessUpdate
  PROVE  /\ requests' = requests /\ limited' = limited
         /\ Len(sent) <= Len(sent') /\ \A i \in 1 .. Len(sent) : sent'[i] = sent[i]
         /\ faults' >= faults
         /\ \/ run' = run /\ Confirm' = Confirm
            \/ run' = run + 1 /\ Confirm' <= Confirm
<1> USE DEF telegram, thread, access
<1>1. CASE UNCHANGED vars
  BY <1>1 DEF vars, TypeOK, Confirm
<1>2. ASSUME NEW m \in Messages, Send(m)
      PROVE  /\ UNCHANGED <<requests, limited, run, faults, Confirm>>
             /\ Len(sent) <= Len(sent') /\ \A i \in 1 .. Len(sent) : sent'[i] = sent[i]
  BY <1>2 DEF Send, TypeOK, Confirm
<1>3. CASE (\E u \in Users : ChargeExpires(u)) \/ KeyExpires
  BY <1>3 DEF ChargeExpires, KeyExpires, TypeOK, Confirm
<1>4. CASE Stop \/ WakeUp \/ LoopExits \/ Crash
  BY <1>4 DEF Stop, WakeUp, LoopExits, Crash, TypeOK, Confirm
<1>5. CASE Restart
  BY <1>5 DEF Restart, TypeOK, Confirm, Larger
<1>6. CASE GetUpdates
  BY <1>6, PollAdvances DEF GetUpdates, TypeOK
<1>7. CASE GetUpdatesFails
  BY <1>7 DEF GetUpdatesFails, Fault, TypeOK, Confirm, Larger
<1>8. \/ UNCHANGED vars \/ \E m \in Messages : Send(m)
      \/ (\E u \in Users : ChargeExpires(u)) \/ KeyExpires
      \/ Stop \/ WakeUp \/ LoopExits \/ Crash \/ Restart \/ GetUpdates \/ GetUpdatesFails
  BY DEF Next, PollLoop, Environment
<1>9. faults \in Nat
  BY DEF TypeOK
<1> QED
  BY <1>1, <1>2, <1>3, <1>4, <1>5, <1>6, <1>7, <1>8, <1>9

\* Ids and run numbers in the stream are natural numbers.
LEMMA RequestFields ==
  ASSUME NEW s \in Seq(RequestType), NEW k \in DOMAIN s
  PROVE  s[k].id \in Nat /\ s[k].run \in Nat
<1>1. s[k] \in RequestType
  OBVIOUS
<1> QED
  BY <1>1 DEF RequestType

\* Such a step keeps the invariant.
LEMMA QuietStepKeeps ==
  ASSUME IInv, [Next]_vars, ~ProcessUpdate
  PROVE  IInv'
<1>1. TypeOK' /\ BatchContinues'
  BY StepTyped DEF IInv
<1>2. /\ requests' = requests /\ limited' = limited
      /\ Len(sent) <= Len(sent') /\ \A i \in 1 .. Len(sent) : sent'[i] = sent[i]
      /\ faults' >= faults
      /\ \/ run' = run /\ Confirm' = Confirm
         \/ run' = run + 1 /\ Confirm' <= Confirm
  BY QuietStep DEF IInv
<1>3. /\ Confirm \in Nat /\ Confirm' \in Nat /\ Confirm <= Len(sent)
      /\ run \in Nat /\ faults \in Nat /\ faults' \in Nat
      /\ requests \in Seq(RequestType)
  BY <1>1 DEF IInv, TypeOK, Confirm, Larger
<1>4. \A i \in 1 .. Confirm' : Settled(i)'
  <2> SUFFICES ASSUME NEW i \in 1 .. Confirm' PROVE Settled(i)'
    OBVIOUS
  <2>1. i \in 1 .. Confirm /\ i \in 1 .. Len(sent)
    BY <1>2, <1>3 DEF TypeOK, IInv
  <2> QED
    BY <1>2, <2>1 DEF IInv, Settled, Published
<1>5. RequestsBehind'
  <2> SUFFICES ASSUME NEW k \in DOMAIN requests
               PROVE  /\ requests[k].run <= run'
                      /\ requests[k].run = run' => requests[k].id <= Confirm' + 1
                      /\ faults' = 0 /\ run' = 0 => requests[k].id <= Confirm'
    BY <1>2 DEF RequestsBehind
  <2>1. requests[k].run \in Nat /\ requests[k].id \in Nat
    BY <1>3, RequestFields
  <2>2. /\ requests[k].run <= run
        /\ requests[k].run = run => requests[k].id <= Confirm + 1
        /\ faults = 0 /\ run = 0 => requests[k].id <= Confirm
    BY DEF IInv, RequestsBehind
  <2> QED
    BY <1>2, <1>3, <2>1, <2>2
<1>6. RetriesKeepOrder' /\ OnceWithoutFaults'
  BY <1>2, <1>3 DEF IInv, RetriesKeepOrder, OnceWithoutFaults
<1> QED
  BY <1>1, <1>4, <1>5, <1>6 DEF IInv

\* process_update keeps the invariant.
LEMMA ProcessKeeps ==
  ASSUME IInv, ProcessUpdate
  PROVE  IInv'
<1> DEFINE i == Head(batch)
<1>1. TypeOK /\ BatchContinues /\ TypeOK' /\ BatchContinues'
  BY StepTyped DEF IInv, Next, PollLoop
<1>2. pc = "work"
  BY DEF ProcessUpdate
<1>3. i = Confirm + 1 /\ i \in 1 .. Len(sent) /\ Confirm \in Nat
  BY <1>1, <1>2, HeadOfBatch
<1>4. Outcome(i) /\ RequestOutcome(i)
  BY <1>1, PathOutcome, PathRequestOutcome
<1>5. /\ sent' = sent /\ confirmed' = confirmed /\ run' = run
      /\ faults \in Nat /\ faults' \in Nat /\ faults' >= faults /\ run \in Nat
  BY <1>1, <1>4 DEF Outcome, telegram, TypeOK
<1>6. Finish(i) => Confirm' = Confirm + 1
  BY <1>1, <1>2, <1>5, FinishAdvances DEF telegram
<1>7. ~Finish(i) => Confirm' = Confirm /\ faults' > 0
  BY <1>4, <1>5 DEF Outcome, Confirm
<1>8. requests \in Seq(RequestType) /\ requests' \in Seq(RequestType)
  BY <1>1 DEF TypeOK
<1>9. limited \subseteq limited'
  BY <1>4 DEF RequestOutcome
<1>10. \A k \in DOMAIN requests : k \in DOMAIN requests' /\ requests'[k] = requests[k]
  BY <1>4, <1>8 DEF RequestOutcome
<1>11. \A k \in DOMAIN requests' \ DOMAIN requests :
          /\ requests'[k].id = i /\ requests'[k].run = run
          /\ k = Len(requests) + 1 /\ Len(requests') = Len(requests) + 1
  <2>1. ASSUME NEW role \in Roles, requests' = Append(requests, Request(i, role))
        PROVE  /\ Len(requests') = Len(requests) + 1
               /\ requests'[Len(requests) + 1] = Request(i, role)
               /\ DOMAIN requests' = 1 .. Len(requests) + 1
               /\ DOMAIN requests = 1 .. Len(requests) /\ Len(requests) \in Nat
    BY <1>8, <2>1
  <2>2. CASE requests' = requests
    BY <2>2
  <2>3. CASE requests' # requests
    <3>1. PICK role \in Roles : requests' = Append(requests, Request(i, role))
      BY <1>4, <2>3 DEF RequestOutcome
    <3>2. Request(i, role).id = i /\ Request(i, role).run = run
      BY DEF Request
    <3> QED
      BY <2>1, <3>1, <3>2
  <2> QED
    BY <2>2, <2>3
<1>12. \A j \in 1 .. Confirm' : Settled(j)'
  <2> SUFFICES ASSUME NEW j \in 1 .. Confirm' PROVE Settled(j)'
    OBVIOUS
  <2>1. CASE j \in 1 .. Confirm
    <3>1. Settled(j)
      BY <2>1 DEF IInv
    <3> QED
      BY <1>5, <1>9, <1>10, <3>1 DEF Settled, Published
  <2>2. CASE j \notin 1 .. Confirm
    <3>1. Finish(i) /\ j = i
      BY <1>3, <1>6, <1>7, <2>2
    <3>2. CASE requests' = requests
      BY <1>4, <1>5, <3>1, <3>2 DEF RequestOutcome, Settled
    <3>3. CASE requests' # requests
      <4>1. PICK role \in Roles : requests' = Append(requests, Request(i, role))
        BY <1>4, <3>3 DEF RequestOutcome
      <4>2. Len(requests) + 1 \in DOMAIN requests' /\ requests'[Len(requests) + 1].id = i
        BY <1>8, <4>1 DEF Request
      <4> QED
        BY <3>1, <4>2 DEF Settled, Published
    <3> QED
      BY <3>2, <3>3
  <2> QED
    BY <2>1, <2>2
<1>13. RequestsBehind'
  <2> SUFFICES ASSUME NEW k \in DOMAIN requests'
               PROVE  /\ requests'[k].run <= run
                      /\ requests'[k].run = run => requests'[k].id <= Confirm' + 1
                      /\ faults' = 0 /\ run = 0 => requests'[k].id <= Confirm'
    BY <1>5 DEF RequestsBehind
  <2>1. requests'[k].run \in Nat /\ requests'[k].id \in Nat
    BY <1>8, RequestFields
  <2>2. CASE k \in DOMAIN requests
    <3>1. /\ requests[k].run <= run
          /\ requests[k].run = run => requests[k].id <= Confirm + 1
          /\ faults = 0 /\ run = 0 => requests[k].id <= Confirm
      BY <2>2 DEF IInv, RequestsBehind
    <3> QED
      BY <1>3, <1>5, <1>6, <1>7, <1>10, <2>1, <2>2, <3>1
  <2>3. CASE k \notin DOMAIN requests
    BY <1>3, <1>5, <1>6, <1>7, <1>11, <2>3
  <2> QED
    BY <2>2, <2>3
<1>14. RetriesKeepOrder'
  <2> SUFFICES ASSUME NEW j \in DOMAIN requests', NEW k \in DOMAIN requests',
                      j < k, requests'[j].run = requests'[k].run
               PROVE  requests'[j].id <= requests'[k].id
    BY DEF RetriesKeepOrder
  <2>1. j \in DOMAIN requests
    BY <1>8, <1>11
  <2>2. CASE k \in DOMAIN requests
    BY <1>10, <2>1, <2>2 DEF IInv, RetriesKeepOrder
  <2>3. CASE k \notin DOMAIN requests
    BY <1>3, <1>10, <1>11, <2>1, <2>3 DEF IInv, RequestsBehind
  <2> QED
    BY <2>2, <2>3
<1>15. OnceWithoutFaults'
  <2> SUFFICES ASSUME faults' = 0, run = 0,
                      NEW j \in DOMAIN requests', NEW k \in DOMAIN requests',
                      requests'[j].id = requests'[k].id
               PROVE  j = k
    BY <1>5 DEF OnceWithoutFaults
  <2>1. faults = 0
    BY <1>5
  <2>2. \A l \in DOMAIN requests : requests'[l].id # i
    <3> SUFFICES ASSUME NEW l \in DOMAIN requests PROVE requests'[l].id # i
      OBVIOUS
    <3>1. requests[l].id <= Confirm /\ requests[l].id \in Nat
      BY <1>5, <1>8, <2>1, RequestFields DEF IInv, RequestsBehind
    <3> QED
      BY <1>3, <1>10, <3>1
  <2>3. CASE j \in DOMAIN requests /\ k \in DOMAIN requests
    BY <1>10, <2>1, <2>3 DEF IInv, OnceWithoutFaults
  <2> QED
    BY <1>11, <2>2, <2>3
<1> QED
  BY <1>1, <1>12, <1>13, <1>14, <1>15 DEF IInv

-----------------------------------------------------------------------------
(* Theorems.                                                               *)

\* The strengthening holds in every reachable state.
THEOREM Inductive == Spec => []IInv
<1>1. Init => IInv
  BY InitTyped DEF Init, IInv, Confirm, Larger, RequestsBehind, RetriesKeepOrder,
     OnceWithoutFaults
<1>2. IInv /\ [Next]_vars => IInv'
  BY QuietStepKeeps, ProcessKeeps
<1> QED
  BY <1>1, <1>2, PTL DEF Spec

\* Every variable keeps its type (poller.hpp and the Redis keys).
THEOREM TypeCorrect == Spec => []TypeOK
<1>1. IInv => TypeOK
  BY DEF IInv
<1> QED
  BY <1>1, Inductive, PTL

\* No owner's command is lost between Telegram and the request stream, for
\* any number of updates, failures and restarts (poller.cpp:43 and 53-58).
THEOREM CommandsKept == Spec => []OwnerCommandsKept
<1>1. IInv => OwnerCommandsKept
  BY DEF IInv, OwnerCommandsKept, Settled, TypeOK, Confirm, Larger
<1> QED
  BY <1>1, Inductive, PTL

\* Retries publish in the order of the updates (poller.cpp:43 and 61-64).
THEOREM OrderKept == Spec => []RetriesKeepOrder
<1>1. IInv => RetriesKeepOrder
  BY DEF IInv
<1> QED
  BY <1>1, Inductive, PTL

\* Without failure or restart each update is published at most once, for any
\* updates and users (poller.cpp:53-58).
THEOREM PublishedOnce == Spec => []OnceWithoutFaults
<1>1. IInv => OnceWithoutFaults
  BY DEF IInv
<1> QED
  BY <1>1, Inductive, PTL

\* What Telegram was told is done is never published again, not even by a
\* new process that asks from offset 1 (poller.cpp:43).
THEOREM NoReplayOfConfirmed == Spec => ReplayAboveConfirmed
<1>1. ASSUME IInv, [Next]_vars, requests' # requests
      PROVE  requests'[Len(requests')].id > confirmed
  <2>1. ProcessUpdate
    BY <1>1, QuietStep DEF IInv
  <2>2. pc = "work" /\ TypeOK /\ BatchContinues
    BY <1>1, <2>1 DEF ProcessUpdate, IInv
  <2>3. Head(batch) = Confirm + 1 /\ confirmed \in Nat /\ Confirm >= confirmed
    BY <2>2, HeadOfBatch DEF TypeOK, Confirm, Larger
  <2>4. RequestOutcome(Head(batch))
    BY <2>1, <2>2, PathRequestOutcome
  <2>5. requests'[Len(requests')].id = Head(batch)
    <3>1. PICK role \in Roles : requests' = Append(requests, Request(Head(batch), role))
      BY <1>1, <2>4 DEF RequestOutcome
    <3>2. requests' [Len(requests')] = Request(Head(batch), role)
      BY <2>2, <3>1 DEF TypeOK
    <3> QED
      BY <3>2 DEF Request
  <2>6. Confirm \in Nat
    BY <2>2, HeadOfBatch
  <2> QED
    BY <2>3, <2>5, <2>6
<1>2. IInv /\ [Next]_vars => [requests' # requests => requests'[Len(requests')].id > confirmed]_vars
  BY <1>1
<1> QED
  BY <1>2, Inductive, PTL DEF Spec, ReplayAboveConfirmed

-----------------------------------------------------------------------------
(* Where a guest's access comes from.                                      *)

\* What the trail says of a live PIN, a live session and a guest's request.
PinHeld(p)     == \E g \in DOMAIN trail : Issued(g, p) /\ Lasts(g, Len(trail), "expired")
SessionHeld(u) == \E o \in DOMAIN trail : Opened(o, u) /\ Lasts(o, Len(trail), "ended")
Grounded(k) ==
    requests[k].role = "guest" =>
        /\ requests[k].cmd \notin OwnerOnly
        /\ \E n \in DOMAIN trail :
              /\ trail[n] = Event("asked", requests[k].user, k)
              /\ \E o \in 1 .. n - 1 : Opened(o, requests[k].user) /\ Lasts(o, n, "ended")

\* A PIN is stored and a session opened by an update that was sent.
TrailSent ==
    \A n \in DOMAIN trail : trail[n].what \in {"stored", "opened"} => trail[n].by \in 1 .. Len(sent)

AccessInv ==
    /\ TypeOK /\ BatchContinues /\ TrailSent
    /\ \A p \in pins : PinHeld(p)
    /\ \A u \in sessions : SessionHeld(u)
    /\ \A k \in DOMAIN requests : Grounded(k)

\* What users sent and what the trail holds stays, and the trail grows by at
\* most one event.
LEMMA PastStays ==
  ASSUME TypeOK, BatchContinues, [Next]_vars
  PROVE  /\ 1 .. Len(sent) \subseteq 1 .. Len(sent')
         /\ \A i \in 1 .. Len(sent) : sent'[i] = sent[i]
         /\ Len(trail) \in Nat /\ DOMAIN trail = 1 .. Len(trail)
         /\ DOMAIN trail' = 1 .. Len(trail')
         /\ Len(trail') \in {Len(trail), Len(trail) + 1}
         /\ \A n \in DOMAIN trail : n \in DOMAIN trail' /\ trail'[n] = trail[n]
<1>1. Len(sent) <= Len(sent') /\ \A i \in 1 .. Len(sent) : sent'[i] = sent[i]
  <2>1. CASE ProcessUpdate
    BY <2>1 DEF ProcessUpdate, telegram, TypeOK
  <2>2. CASE ~ProcessUpdate
    BY <2>2, QuietStep
  <2> QED
    BY <2>1, <2>2
<1>2. Len(sent) \in Nat /\ Len(sent') \in Nat
  <2>1. sent' = sent \/ \E m \in Messages : sent' = Append(sent, m)
    BY DEF Next, PollLoop, Environment, Send, ChargeExpires, KeyExpires, Stop, Crash,
       Restart, GetUpdates, GetUpdatesFails, WakeUp, LoopExits, ProcessUpdate,
       telegram, vars
  <2> QED
    BY <2>1 DEF TypeOK
<1>3. 1 .. Len(sent) \subseteq 1 .. Len(sent')
  BY <1>1, <1>2
<1>4. trail \in Seq(EventType)
  BY DEF TypeOK
<1>5. CASE trail' = trail
  BY <1>1, <1>3, <1>4, <1>5
<1>6. ASSUME NEW e \in EventType, trail' = Append(trail, e)
      PROVE  /\ DOMAIN trail' = 1 .. Len(trail') /\ Len(trail') = Len(trail) + 1
             /\ \A n \in DOMAIN trail : n \in DOMAIN trail' /\ trail'[n] = trail[n]
  BY <1>4, <1>6
<1> QED
  BY <1>1, <1>3, <1>4, <1>5, <1>6, TrailStep

\* So does what can be read off the trail.
LEMMA ChainStays ==
  ASSUME AccessInv, [Next]_vars, NEW n \in DOMAIN trail
  PROVE  /\ \A p : Issued(n, p) => Issued(n, p)'
         /\ \A g \in DOMAIN trail : \A gone : Lasts(g, n, gone) => Lasts(g, n, gone)'
         /\ \A u : Opened(n, u) => Opened(n, u)'
<1>0. /\ TypeOK /\ BatchContinues /\ TrailSent /\ n \in 1 .. Len(trail) /\ Len(trail) \in Nat
      /\ \A m \in 1 .. Len(trail) : trail'[m] = trail[m]
      /\ DOMAIN trail = 1 .. Len(trail)
      /\ \A i \in 1 .. Len(sent) : sent'[i] = sent[i]
  BY PastStays DEF AccessInv
<1>1. ASSUME NEW m \in DOMAIN trail, NEW p, Issued(m, p)
      PROVE  Issued(m, p)'
  <2>1. trail[m].by \in 1 .. Len(sent) /\ trail'[m] = trail[m]
    BY <1>0, <1>1 DEF Issued, TrailSent
  <2>2. sent'[trail[m].by] = sent[trail[m].by]
    BY <1>0, <2>1
  <2> QED
    BY <1>1, <2>1, <2>2 DEF Issued
<1>2. ASSUME NEW m \in DOMAIN trail, NEW g \in DOMAIN trail, NEW gone, Lasts(g, m, gone)
      PROVE  Lasts(g, m, gone)'
  <2>1. \A e \in g .. m : trail'[e] = trail[e] /\ trail'[g] = trail[g]
    BY <1>0
  <2> QED
    BY <1>2, <2>1 DEF Lasts
<1>3. ASSUME NEW u, Opened(n, u)
      PROVE  Opened(n, u)'
  <2>1. trail[n].by \in 1 .. Len(sent) /\ trail'[n] = trail[n]
    BY <1>0, <1>3 DEF Opened, TrailSent
  <2>2. sent'[trail[n].by] = sent[trail[n].by]
    BY <1>0, <2>1
  <2>3. PICK g \in 1 .. n - 1 : Issued(g, sent[trail[n].by].arg) /\ Lasts(g, n, "expired")
    BY <1>3 DEF Opened
  <2>4. g \in DOMAIN trail
    BY <1>0, <2>3
  <2>5. Issued(g, sent[trail[n].by].arg)' /\ Lasts(g, n, "expired")'
    <3> DEFINE p == sent[trail[n].by].arg
    <3>1. Issued(g, p) /\ p' = p
      BY <2>1, <2>2, <2>3
    <3> HIDE DEF p
    <3>2. Issued(g, p)'
      <4>1. PICK q : q = p
        OBVIOUS
      <4>2. Issued(g, q)'
        BY <1>1, <2>4, <3>1, <4>1
      <4> QED
        BY <3>1, <4>1, <4>2
    <3>3. Lasts(g, n, "expired")'
      BY <1>2, <2>3, <2>4
    <3> QED
      BY <3>2, <3>3 DEF p
  <2> QED
    BY <1>3, <2>1, <2>2, <2>3, <2>5 DEF Opened
<1> QED
  BY <1>1, <1>2, <1>3

LEMMA OneMore ==
  \A a, b \in Nat : b \in {a, a + 1} =>
      /\ \A e \in 1 .. b : e \in 1 .. a \/ e = b
      /\ \A g \in 1 .. a : /\ \A e \in g .. a : e \in 1 .. a
                           /\ \A e \in g .. b : e \in g .. a \/ e = b
OBVIOUS

LEMMA TrailIndices ==
  ASSUME TypeOK, BatchContinues, [Next]_vars
  PROVE  /\ \A e \in DOMAIN trail' : e \in DOMAIN trail \/ e = Len(trail')
         /\ \A g \in DOMAIN trail : /\ \A e \in g .. Len(trail) : e \in DOMAIN trail
                                    /\ \A e \in g .. Len(trail') : e \in g .. Len(trail) \/ e = Len(trail')
<1>1. /\ Len(trail) \in Nat /\ DOMAIN trail = 1 .. Len(trail) /\ DOMAIN trail' = 1 .. Len(trail')
      /\ Len(trail') \in {Len(trail), Len(trail) + 1}
  BY PastStays
<1>2. Len(trail') \in Nat
  <2>1. \A a \in Nat : \A b \in {a, a + 1} : b \in Nat
    OBVIOUS
  <2> QED
    BY <1>1, <2>1, Zenon
<1> QED
  BY <1>1, <1>2, OneMore, Zenon

\* A PIN and a session are held until the event that takes them away.
LEMMA PinKept ==
  ASSUME AccessInv, [Next]_vars, NEW p, PinHeld(p),
         trail' # trail => ~ (trail'[Len(trail')].what = "expired" /\ trail'[Len(trail')].key = p)
  PROVE  PinHeld(p)'
<1>0. /\ Len(trail) \in Nat /\ DOMAIN trail = 1 .. Len(trail) /\ DOMAIN trail' = 1 .. Len(trail')
      /\ Len(trail') \in {Len(trail), Len(trail) + 1}
      /\ \A n \in DOMAIN trail : n \in DOMAIN trail' /\ trail'[n] = trail[n]
  BY PastStays DEF AccessInv
<1>1. PICK g \in DOMAIN trail : Issued(g, p) /\ Lasts(g, Len(trail), "expired")
  BY DEF PinHeld
<1>2. Issued(g, p)'
  BY <1>1, ChainStays
<1>3. \A e \in g .. Len(trail) : ~ (trail'[e].what = "expired" /\ trail'[e].key = trail'[g].key)
  <2>1. trail'[g] = trail[g]
    BY <1>0, <1>1
  <2>2. \A e \in g .. Len(trail) : trail'[e] = trail[e]
    BY <1>0, <1>1, TrailIndices DEF AccessInv
  <2> QED
    BY <1>1, <2>1, <2>2 DEF Lasts
<1>4. trail'[g].key = p
  BY <1>2 DEF Issued
<1>5. Lasts(g, Len(trail), "expired")'
  <2>1. CASE trail' = trail
    BY <1>3, <2>1 DEF Lasts
  <2>2. CASE trail' # trail
    <3>1. \A e \in g .. Len(trail') : e \in g .. Len(trail) \/ e = Len(trail')
      BY <1>1, TrailIndices DEF AccessInv
    <3> QED
      BY <1>3, <1>4, <2>2, <3>1 DEF Lasts
  <2> QED
    BY <2>1, <2>2
<1> QED
  BY <1>0, <1>1, <1>2, <1>5 DEF PinHeld

LEMMA SessionKept ==
  ASSUME AccessInv, [Next]_vars, NEW u, SessionHeld(u),
         trail' # trail => ~ (trail'[Len(trail')].what = "ended" /\ trail'[Len(trail')].key = u)
  PROVE  SessionHeld(u)'
<1>0. /\ Len(trail) \in Nat /\ DOMAIN trail = 1 .. Len(trail) /\ DOMAIN trail' = 1 .. Len(trail')
      /\ Len(trail') \in {Len(trail), Len(trail) + 1}
      /\ \A n \in DOMAIN trail : n \in DOMAIN trail' /\ trail'[n] = trail[n]
  BY PastStays DEF AccessInv
<1>1. PICK o \in DOMAIN trail : Opened(o, u) /\ Lasts(o, Len(trail), "ended")
  BY DEF SessionHeld
<1>2. Opened(o, u)'
  BY <1>1, ChainStays
<1>3. \A e \in o .. Len(trail) : ~ (trail'[e].what = "ended" /\ trail'[e].key = trail'[o].key)
  <2>1. trail'[o] = trail[o]
    BY <1>0, <1>1
  <2>2. \A e \in o .. Len(trail) : trail'[e] = trail[e]
    BY <1>0, <1>1, TrailIndices DEF AccessInv
  <2> QED
    BY <1>1, <2>1, <2>2 DEF Lasts
<1>4. trail'[o].key = u
  BY <1>2 DEF Opened
<1>5. Lasts(o, Len(trail), "ended")'
  <2>1. CASE trail' = trail
    BY <1>3, <2>1 DEF Lasts
  <2>2. CASE trail' # trail
    <3>1. \A e \in o .. Len(trail') : e \in o .. Len(trail) \/ e = Len(trail')
      BY <1>1, TrailIndices DEF AccessInv
    <3> QED
      BY <1>3, <1>4, <2>2, <3>1 DEF Lasts
  <2> QED
    BY <2>1, <2>2
<1> QED
  BY <1>0, <1>1, <1>2, <1>5 DEF SessionHeld

\* A request with a chain of events behind it keeps it.
LEMMA GroundedKept ==
  ASSUME AccessInv, [Next]_vars, NEW k \in DOMAIN requests, requests'[k] = requests[k]
  PROVE  Grounded(k)'
<1>0. /\ DOMAIN trail = 1 .. Len(trail) /\ Len(trail) \in Nat
      /\ \A n \in DOMAIN trail : n \in DOMAIN trail' /\ trail'[n] = trail[n]
  BY PastStays DEF AccessInv
<1>1. CASE requests[k].role # "guest"
  BY <1>1 DEF Grounded
<1>2. CASE requests[k].role = "guest"
  <2>1. PICK n \in DOMAIN trail :
          /\ requests[k].cmd \notin OwnerOnly
          /\ trail[n] = Event("asked", requests[k].user, k)
          /\ \E o \in 1 .. n - 1 : Opened(o, requests[k].user) /\ Lasts(o, n, "ended")
    BY <1>2 DEF AccessInv, Grounded
  <2>2. PICK o \in 1 .. n - 1 : Opened(o, requests[k].user) /\ Lasts(o, n, "ended")
    BY <2>1
  <2>3. o \in DOMAIN trail
    BY <1>0, <2>2
  <2> DEFINE u == requests[k].user
  <2>4. PICK v : v = u
    OBVIOUS
  <2>5. Opened(o, v)' /\ Lasts(o, n, "ended")'
    BY <2>2, <2>3, <2>4, ChainStays
  <2>6. requests'[k].user = v
    BY <2>4
  <2>7. Opened(o, requests[k].user)'
    BY <2>5, <2>6
  <2>8. trail'[n] = Event("asked", requests'[k].user, k) /\ n \in DOMAIN trail'
    BY <1>0, <2>1 DEF Event
  <2>9. requests'[k].cmd \notin OwnerOnly
    BY <2>1
  <2> QED
    BY <2>2, <2>5, <2>7, <2>8, <2>9 DEF Grounded
<1> QED
  BY <1>1, <1>2

\* Only these steps touch PINs, sessions, the trail or the stream.
LEMMA AccessSteps ==
  ASSUME [Next]_vars
  PROVE  \/ KeyExpires
         \/ /\ ProcessUpdate
            /\ StartGrant(Head(batch)) \/ GuestPin(Head(batch)) \/ Publish(Head(batch))
         \/ UNCHANGED <<access, requests>>
<1>1. CASE ProcessUpdate
  BY <1>1 DEF ProcessUpdate, HandleMessage, IgnoreUpdate, RefuseRate, RefuseParse,
     StartNoGrant, Deny, Help
<1>2. CASE ~ ProcessUpdate
  BY <1>2 DEF Next, PollLoop, Environment, Send, ChargeExpires, Stop, Crash, Restart,
     GetUpdates, GetUpdatesFails, WakeUp, LoopExits, access, vars
<1> QED
  BY <1>1, <1>2

\* An event at the end of the trail.
LEMMA Noted ==
  ASSUME AccessInv, NEW w, NEW x, NEW n, Note(w, x, n)
  PROVE  LET e == trail'[Len(trail')]
         IN  /\ e = Event(w, x, n) /\ e.what = w /\ e.key = x /\ e.by = n
             /\ Len(trail') = Len(trail) + 1 /\ Len(trail) \in Nat
             /\ DOMAIN trail' = 1 .. Len(trail) + 1
             /\ \A m \in DOMAIN trail : trail'[m] = trail[m]
<1>1. trail \in Seq(EventType)
  BY DEF AccessInv, TypeOK
<1>2. Event(w, x, n).what = w /\ Event(w, x, n).key = x /\ Event(w, x, n).by = n
  BY DEF Event
<1>3. trail' = Append(trail, Event(w, x, n))
  BY DEF Note
<1>4. PICK e : e = Event(w, x, n)
  OBVIOUS
<1>5. /\ Len(trail') = Len(trail) + 1 /\ Len(trail) \in Nat /\ DOMAIN trail' = 1 .. Len(trail) + 1
      /\ \A m \in DOMAIN trail : trail'[m] = trail[m]
      /\ trail'[Len(trail')] = e
  BY <1>1, <1>3, <1>4
<1> QED
  BY <1>2, <1>4, <1>5

\* What was stored or opened was so by an update that was sent.
LEMMA SentKept ==
  ASSUME AccessInv, [Next]_vars,
         trail' # trail => LET e == trail'[Len(trail')]
                           IN  e.what \in {"stored", "opened"} => e.by \in 1 .. Len(sent)
  PROVE  TrailSent'
<1>0. /\ Len(trail) \in Nat /\ DOMAIN trail = 1 .. Len(trail) /\ DOMAIN trail' = 1 .. Len(trail')
      /\ Len(trail') \in {Len(trail), Len(trail) + 1}
      /\ \A n \in DOMAIN trail : trail'[n] = trail[n]
      /\ 1 .. Len(sent) \subseteq 1 .. Len(sent')
  BY PastStays DEF AccessInv
<1>1. \A n \in DOMAIN trail : trail[n].what \in {"stored", "opened"} => trail[n].by \in 1 .. Len(sent)
  BY DEF AccessInv, TrailSent
<1>2. CASE trail' = trail
  BY <1>0, <1>1, <1>2 DEF TrailSent
<1>3. CASE trail' # trail
  <2>1. \A n \in DOMAIN trail' : n \in DOMAIN trail \/ n = Len(trail')
    BY TrailIndices DEF AccessInv
  <2> QED
    BY <1>0, <1>1, <1>3, <2>1 DEF TrailSent
<1> QED
  BY <1>2, <1>3

\* Granting a session, storing a PIN, publishing a request.
LEMMA GrantKeeps ==
  ASSUME AccessInv, [Next]_vars, ProcessUpdate, StartGrant(Head(batch)), trail' # trail
  PROVE  /\ TrailSent' /\ \A p \in pins' : PinHeld(p)'
         /\ \A u \in sessions' : SessionHeld(u)'
<1>0. Head(batch) \in 1 .. Len(sent) /\ Len(trail) \in Nat /\ DOMAIN trail = 1 .. Len(trail)
  BY HeadOfBatch, PastStays DEF AccessInv, ProcessUpdate
<1>1. PICK i \in 1 .. Len(sent), u \in {sent[Head(batch)].user}, p \in {sent[Head(batch)].arg},
           n \in Nat : i = Head(batch) /\ n = Len(trail) + 1
  BY <1>0
<1>2. /\ sent' = sent /\ sent[i].user = u /\ sent[i].cmd = "start" /\ sent[i].arg = p
      /\ p \in pins /\ pins' = pins /\ sessions' = sessions \cup {u} /\ Note("opened", u, i)
  BY <1>1 DEF ProcessUpdate, StartGrant, Admit, telegram
<1>3. /\ trail'[n].what = "opened" /\ trail'[n].key = u /\ trail'[n].by = i
      /\ Len(trail') = n /\ DOMAIN trail' = 1 .. n /\ n \in 1 .. n
      /\ \A m \in DOMAIN trail : trail'[m] = trail[m]
  BY <1>1, <1>2, Noted
<1>4. TrailSent'
  BY <1>1, <1>3, SentKept
<1>5. \A q \in pins' : PinHeld(q)'
  <2> SUFFICES ASSUME NEW q \in pins PROVE PinHeld(q)'
    BY <1>2
  <2>1. PinHeld(q)
    BY DEF AccessInv
  <2> QED
    BY <1>3, <2>1, PinKept
<1>6. Opened(n, u)'
  <2>1. PinHeld(p)' /\ Issued(n, p)' = FALSE
    BY <1>2, <1>3, <1>5 DEF Issued
  <2>2. PICK g \in 1 .. n : Issued(g, p)' /\ Lasts(g, n, "expired")'
    BY <1>3, <2>1 DEF PinHeld
  <2>3. g \in 1 .. n - 1
    BY <1>1, <2>1, <2>2
  <2>4. sent'[trail'[n].by].user = u /\ sent'[trail'[n].by].cmd = "start" /\ sent'[trail'[n].by].arg = p
    BY <1>2, <1>3
  <2>5. Issued(g, sent[trail[n].by].arg)'
    BY <2>2, <2>4 DEF Issued
  <2> QED
    BY <1>3, <2>2, <2>3, <2>4, <2>5 DEF Opened
<1>7. ASSUME NEW v \in sessions'
      PROVE  SessionHeld(v)'
  <2>1. CASE v = u
    <3>1. \A e \in n .. n : e = n
      BY <1>1
    <3>2. Lasts(n, n, "ended")'
      BY <1>3, <3>1 DEF Lasts
    <3>3. n \in DOMAIN trail' /\ Len(trail') = n
      BY <1>3
    <3> QED
      BY <1>6, <2>1, <3>2, <3>3 DEF SessionHeld
  <2>2. CASE v # u
    <3>1. SessionHeld(v)
      BY <1>2, <2>2 DEF AccessInv
    <3> QED
      BY <1>3, <3>1, SessionKept
  <2> QED
    BY <2>1, <2>2
<1> QED
  BY <1>4, <1>5, <1>7

LEMMA StoreKeeps ==
  ASSUME AccessInv, [Next]_vars, ProcessUpdate, GuestPin(Head(batch)), trail' # trail
  PROVE  /\ TrailSent' /\ \A p \in pins' : PinHeld(p)'
         /\ \A u \in sessions' : SessionHeld(u)'
<1>0. Head(batch) \in 1 .. Len(sent) /\ Len(trail) \in Nat
  BY HeadOfBatch, PastStays DEF AccessInv, ProcessUpdate
<1>1. PICK i \in 1 .. Len(sent), n \in Nat : i = Head(batch) /\ n = Len(trail) + 1
  BY <1>0
<1>2. /\ sent' = sent /\ sessions' = sessions
      /\ sent[i].user = Owner /\ sent[i].cmd = "guest"
  BY <1>1 DEF ProcessUpdate, GuestPin, Admit, Allowed, IsOwner, OwnerOnly, telegram
<1>3. PICK q \in Pins : pins' = pins \cup {q} /\ Note("stored", q, i)
  BY <1>1 DEF GuestPin
<1>4. /\ trail'[n].what = "stored" /\ trail'[n].key = q /\ trail'[n].by = i
      /\ Len(trail') = n /\ DOMAIN trail' = 1 .. n /\ n \in 1 .. n
  BY <1>1, <1>3, Noted
<1>5. TrailSent'
  BY <1>1, <1>4, SentKept
<1>6. ASSUME NEW p \in pins' PROVE PinHeld(p)'
  <2>1. CASE p = q
    <3>1. \A e \in n .. n : e = n
      BY <1>1
    <3>2. Issued(n, p)' /\ Lasts(n, n, "expired")'
      BY <1>2, <1>4, <2>1, <3>1 DEF Issued, Lasts
    <3>3. n \in DOMAIN trail' /\ Len(trail') = n
      BY <1>4
    <3> QED
      BY <3>2, <3>3 DEF PinHeld
  <2>2. CASE p # q
    <3>1. PinHeld(p)
      BY <1>3, <2>2 DEF AccessInv
    <3> QED
      BY <1>4, <3>1, PinKept
  <2> QED
    BY <2>1, <2>2
<1>7. ASSUME NEW u \in sessions' PROVE SessionHeld(u)'
  <2>1. SessionHeld(u)
    BY <1>2 DEF AccessInv
  <2> QED
    BY <1>4, <2>1, SessionKept
<1> QED
  BY <1>5, <1>6, <1>7

\* A request of a guest is published in a session that is still open.
LEMMA PublishKeeps ==
  ASSUME AccessInv, [Next]_vars, ProcessUpdate, Publish(Head(batch))
  PROVE  /\ TrailSent' /\ \A p \in pins' : PinHeld(p)'
         /\ \A u \in sessions' : SessionHeld(u)'
         /\ \A k \in DOMAIN requests' : Grounded(k)'
<1>0. /\ Head(batch) \in 1 .. Len(sent) /\ Len(trail) \in Nat /\ DOMAIN trail = 1 .. Len(trail)
      /\ requests \in Seq(RequestType) /\ sent' = sent /\ pins' = pins /\ sessions' = sessions
  BY HeadOfBatch, PastStays DEF AccessInv, ProcessUpdate, Publish, TypeOK, telegram
<1>1. PICK i \in 1 .. Len(sent), u \in {sent[Head(batch)].user},
           n \in Nat : i = Head(batch) /\ n = Len(trail) + 1
  BY <1>0
<1> DEFINE r == Request(i, IF IsOwner(i) THEN "owner" ELSE "guest")
<1>2. /\ r.user = u /\ r.cmd = sent[i].cmd
      /\ r.role = "guest" => /\ ~ IsOwner(i) /\ u \in sessions /\ sent[i].cmd \notin OwnerOnly
  BY <1>1 DEF Request, Publish, Allowed, IsGuest, IsOwner
<1>3. \/ requests' = Append(requests, r) /\ IsOwner(i) /\ trail' = trail
      \/ requests' = Append(requests, r) /\ ~ IsOwner(i) /\ Note("asked", u, Len(Append(requests, r)))
      \/ requests' = requests /\ trail' = trail
  BY <1>1 DEF Publish
<1> HIDE DEF r
<1>4. PICK k \in Nat : k = Len(requests) + 1
  BY <1>0
<1>5. Len(Append(requests, r)) = k /\ DOMAIN Append(requests, r) = 1 .. k
      /\ Append(requests, r)[k] = r /\ DOMAIN requests = 1 .. k - 1
      /\ \A m \in 1 .. k - 1 : Append(requests, r)[m] = requests[m]
  BY <1>0, <1>4
<1>6. trail' = trail \/ /\ trail'[n] = Event("asked", u, k) /\ trail'[n].what = "asked"
                        /\ Len(trail') = n /\ DOMAIN trail' = 1 .. n /\ n \in 1 .. n
  <2>1. CASE Note("asked", u, k)
    BY <1>1, <2>1, Noted
  <2> QED
    BY <1>3, <1>5, <2>1
<1>7. TrailSent'
  BY <1>6, SentKept
<1>8. \A p \in pins' : PinHeld(p)'
  <2> SUFFICES ASSUME NEW p \in pins PROVE PinHeld(p)'
    BY <1>0
  <2>1. PinHeld(p)
    BY DEF AccessInv
  <2> QED
    BY <1>6, <2>1, PinKept
<1>9. ASSUME NEW v \in sessions' PROVE SessionHeld(v)'
  <2>1. SessionHeld(v)
    BY <1>0 DEF AccessInv
  <2> QED
    BY <1>6, <2>1, SessionKept
<1>10. \A m \in DOMAIN requests : requests'[m] = requests[m]
  BY <1>3, <1>5
<1>11. \A m \in DOMAIN requests : Grounded(m)'
  BY <1>10, GroundedKept
<1>12. ASSUME requests' = Append(requests, r) PROVE Grounded(k)'
  <2>1. requests'[k] = r
    BY <1>5, <1>12
  <2>2. CASE r.role # "guest"
    BY <2>1, <2>2 DEF Grounded
  <2>3. CASE r.role = "guest"
    <3>1. ~ IsOwner(i) /\ u \in sessions' /\ sent[i].cmd \notin OwnerOnly
      BY <1>0, <1>2, <2>3
    <3>2. /\ trail'[n] = Event("asked", u, k) /\ trail'[n].what = "asked"
          /\ Len(trail') = n /\ DOMAIN trail' = 1 .. n /\ n \in 1 .. n
      <4>1. requests' # requests
        <5>1. DOMAIN requests' # DOMAIN requests
          <6>1. k \in 1 .. k /\ k \notin 1 .. k - 1
            BY <1>0, <1>4
          <6> QED
            BY <1>5, <1>12, <6>1
        <5> QED
          BY <5>1
      <4>2. Note("asked", u, k)
        BY <1>3, <1>5, <3>1, <4>1
      <4> QED
        BY <1>1, <4>2, Noted
    <3>3. PICK o \in 1 .. n : Opened(o, u)' /\ Lasts(o, n, "ended")'
      BY <1>9, <3>1, <3>2 DEF SessionHeld
    <3>4. o \in 1 .. n - 1
      <4>1. trail'[o].what = "opened"
        BY <3>3 DEF Opened
      <4> QED
        BY <1>1, <3>2, <3>3, <4>1
    <3>5. requests'[k].user = u /\ requests'[k].cmd \notin OwnerOnly
      BY <1>2, <2>1, <3>1
    <3>6. Opened(o, requests[k].user)'
      BY <3>3, <3>5 DEF Opened
    <3>7. trail'[n] = Event("asked", requests'[k].user, k)
      BY <3>2, <3>5
    <3> QED
      BY <3>2, <3>3, <3>4, <3>5, <3>6, <3>7 DEF Grounded
  <2> QED
    BY <2>2, <2>3
<1>13. \A m \in DOMAIN requests' : m \in DOMAIN requests \/ (m = k /\ requests' = Append(requests, r))
  <2>1. \A m \in 1 .. k : m \in 1 .. k - 1 \/ m = k
    BY <1>4
  <2> QED
    BY <1>3, <1>5, <2>1
<1> QED
  BY <1>7, <1>8, <1>9, <1>11, <1>12, <1>13

\* A key that expires takes only itself away.
LEMMA ExpiryKeeps ==
  ASSUME AccessInv, [Next]_vars, KeyExpires
  PROVE  /\ TrailSent' /\ \A p \in pins' : PinHeld(p)'
         /\ \A u \in sessions' : SessionHeld(u)'
<1>1. CASE \E v \in sessions : /\ sessions' = sessions \ {v} /\ UNCHANGED pins
                               /\ Note("ended", v, 0)
  <2>1. PICK v \in sessions : /\ sessions' = sessions \ {v} /\ UNCHANGED pins
                              /\ Note("ended", v, 0)
    BY <1>1
  <2>2. trail'[Len(trail')].what = "ended" /\ trail'[Len(trail')].key = v
    BY <2>1, Noted
  <2>3. TrailSent'
    BY <2>2, SentKept
  <2>4. ASSUME NEW p \in pins' PROVE PinHeld(p)'
    <3>1. PinHeld(p)
      BY <2>1 DEF AccessInv
    <3> QED
      BY <2>2, <3>1, PinKept
  <2>5. ASSUME NEW u \in sessions' PROVE SessionHeld(u)'
    <3>1. SessionHeld(u) /\ u # v
      BY <2>1 DEF AccessInv
    <3> QED
      BY <2>2, <3>1, SessionKept
  <2> QED
    BY <2>3, <2>4, <2>5
<1>2. CASE \E q \in pins : /\ pins' = pins \ {q} /\ UNCHANGED sessions
                           /\ Note("expired", q, 0)
  <2>1. PICK q \in pins : /\ pins' = pins \ {q} /\ UNCHANGED sessions
                          /\ Note("expired", q, 0)
    BY <1>2
  <2>2. trail'[Len(trail')].what = "expired" /\ trail'[Len(trail')].key = q
    BY <2>1, Noted
  <2>3. TrailSent'
    BY <2>2, SentKept
  <2>4. ASSUME NEW p \in pins' PROVE PinHeld(p)'
    <3>1. PinHeld(p) /\ p # q
      BY <2>1 DEF AccessInv
    <3> QED
      BY <2>2, <3>1, PinKept
  <2>5. ASSUME NEW u \in sessions' PROVE SessionHeld(u)'
    <3>1. SessionHeld(u)
      BY <2>1 DEF AccessInv
    <3> QED
      BY <2>2, <3>1, SessionKept
  <2> QED
    BY <2>3, <2>4, <2>5
<1> QED
  BY <1>1, <1>2 DEF KeyExpires

\* Nothing noted, nothing stored, granted or published.
LEMMA QuietKeeps ==
  ASSUME AccessInv, [Next]_vars, UNCHANGED access
  PROVE  /\ TrailSent' /\ \A p \in pins' : PinHeld(p)'
         /\ \A u \in sessions' : SessionHeld(u)'
<1>1. trail' = trail /\ pins' = pins /\ sessions' = sessions
  BY DEF access
<1>2. TrailSent'
  BY <1>1, SentKept
<1>3. ASSUME NEW p \in pins' PROVE PinHeld(p)'
  <2>1. PinHeld(p)
    BY <1>1 DEF AccessInv
  <2> QED
    BY <1>1, <2>1, PinKept
<1>4. ASSUME NEW u \in sessions' PROVE SessionHeld(u)'
  <2>1. SessionHeld(u)
    BY <1>1 DEF AccessInv
  <2> QED
    BY <1>1, <2>1, SessionKept
<1> QED
  BY <1>2, <1>3, <1>4

LEMMA AccessStep ==
  ASSUME AccessInv, [Next]_vars
  PROVE  AccessInv'
<1>1. TypeOK' /\ BatchContinues'
  BY StepTyped DEF AccessInv
<1>2. CASE ProcessUpdate /\ Publish(Head(batch))
  BY <1>1, <1>2, PublishKeeps DEF AccessInv
<1>3. ASSUME requests' = requests PROVE \A k \in DOMAIN requests' : Grounded(k)'
  BY <1>3, GroundedKept
<1>4. CASE KeyExpires
  <2>1. requests' = requests
    BY <1>4 DEF KeyExpires
  <2> QED
    BY <1>1, <1>3, <1>4, <2>1, ExpiryKeeps DEF AccessInv
<1>5. CASE ProcessUpdate /\ StartGrant(Head(batch))
  <2>1. requests' = requests /\ (trail' # trail \/ UNCHANGED access)
    <3>1. \A e : trail' = Append(trail, e) => trail' # trail
      <4>1. trail \in Seq(EventType)
        BY DEF AccessInv, TypeOK
      <4> QED
        BY <4>1
    <3> QED
      BY <1>5, <3>1 DEF StartGrant, Note, access
  <2> QED
    BY <1>1, <1>3, <1>5, <2>1, GrantKeeps, QuietKeeps DEF AccessInv
<1>6. CASE ProcessUpdate /\ GuestPin(Head(batch))
  <2>1. requests' = requests /\ (trail' # trail \/ UNCHANGED access)
    <3>1. \A e : trail' = Append(trail, e) => trail' # trail
      <4>1. trail \in Seq(EventType)
        BY DEF AccessInv, TypeOK
      <4> QED
        BY <4>1
    <3> QED
      BY <1>6, <3>1 DEF GuestPin, Note, access
  <2> QED
    BY <1>1, <1>3, <1>6, <2>1, StoreKeeps, QuietKeeps DEF AccessInv
<1>7. CASE UNCHANGED <<access, requests>>
  BY <1>1, <1>3, <1>7, QuietKeeps DEF AccessInv
<1> QED
  BY <1>2, <1>4, <1>5, <1>6, <1>7, AccessSteps

\* Every guest's request goes back, in this order, to a PIN stored for the
\* owner's /guest, to the guest's /start with that PIN before it expired, and
\* to the session so opened, which had not ended; for any users, PINs,
\* messages, failures and restarts (poller.cpp:110-128, 154-185).
THEOREM GuestsHavePins == Spec => []GuestChain
<1>1. Init => AccessInv
  <2>1. Init => TypeOK /\ BatchContinues
    BY InitTyped
  <2> QED
    BY <2>1 DEF Init, AccessInv, TrailSent
<1>2. AccessInv => GuestChain
  BY DEF AccessInv, Grounded, GuestChain
<1> QED
  BY <1>1, <1>2, AccessStep, PTL DEF Spec
=============================================================================

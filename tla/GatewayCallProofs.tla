-------------------------- MODULE GatewayCallProofs --------------------------
(***************************************************************************)
(* More about the gateway's threads: what a call of make_request may meet  *)
(* on the shared handle, in what order the threads start and end, and what *)
(* becomes of an alert.                                                    *)
(***************************************************************************)
EXTENDS GatewayProofs, FiniteSetTheorems

-----------------------------------------------------------------------------
(* Calls on the shared handle.                                             *)

Waits(c) == call[c].step = "wait"

\* Two calls that are under way at once are in trouble, both.
Meet ==
    \A c, d \in Callers : c # d /\ Active(c) /\ Active(d) => call[c].troubled

\* The handle is busy for one call.
OneWaits ==
    /\ \A c \in Callers : Waits(c) => busy
    /\ busy => \E c \in Callers : Waits(c)
    /\ \A c, d \in Callers : Waits(c) /\ Waits(d) => c = d

\* A call out of trouble has its own request on the wire and its own answer.
Clean ==
    \A c \in Callers : ~ call[c].troubled =>
        /\ ~ call[c].bad
        /\ call[c].step = "perform" => url = call[c].req /\ call[c].got = <<>>
        /\ call[c].step = "wait" =>
              call[c].wire = call[c].req /\ out = c /\ call[c].got = <<>>
        /\ call[c].step = "done" => Len(call[c].got) = 1 /\ call[c].got[1].m # "odd"

\* An answer without "ok" was a failure.
OddHasCause ==
    /\ faults \in Nat
    /\ \A c \in Callers : \A j \in DOMAIN call[c].got : call[c].got[j].m = "odd" => faults > 0

\* A string gets one answer that is not for it at most: that of the call which
\* its own call met, and left, before the one it is for.
TwoAtMost ==
    \A c \in Callers :
        /\ call[c].step = "idle" => call[c].got = <<>>
        /\ call[c].step = "perform" =>
              Len(call[c].got) <= 1 /\ (Len(call[c].got) = 1 => ~ (busy /\ out = c))
        /\ Waits(c) => Len(call[c].got) <= 1
        /\ Len(call[c].got) <= 2

CInv == Meet /\ OneWaits /\ Clean /\ OddHasCause /\ TwoAtMost

LEMMA CallTypes ==
    ASSUME UInv, NEW c \in Callers
    PROVE  /\ call \in [Callers -> Calls] /\ out \in Callers /\ call[c] \in Calls
           /\ call[c].step \in {"idle", "perform", "wait", "done"}
           /\ call[c].got \in Seq(Answers) /\ Len(call[c].got) \in Nat
           /\ call[c].bad \in BOOLEAN /\ call[c].troubled \in BOOLEAN
  <1>1. call \in [Callers -> Calls] /\ out \in Callers /\ call[c] \in Calls
    BY DEF UInv, HandleInv, Carries
  <1>2. call[c].got \in Seq(Answers)
    BY <1>1 DEF Calls
  <1>. QED
    BY <1>1, <1>2 DEF Calls

LEMMA IdleStep ==
    Idle.step = "idle" /\ Idle.got = <<>> /\ Idle.bad = FALSE /\ Idle.troubled = FALSE
  BY DEF Idle

\* What each step of make_request does to the calls.
LEMMA BeginFacts ==
    ASSUME UInv, NEW c \in Callers, NEW m \in Methods, NEW n \in Nat, Begin(c, m, n)
    PROVE  /\ url' = [m |-> m, n |-> n]
           /\ call'[c].step = "perform" /\ call'[c].req = [m |-> m, n |-> n]
           /\ call'[c].got = <<>> /\ ~ call'[c].bad /\ call'[c].wire = NoRequest
           /\ call'[c].troubled = \E e \in Callers : Active(e)
           /\ \A d \in Callers : d # c =>
                 /\ call'[d].step = call[d].step /\ call'[d].req = call[d].req
                 /\ call'[d].got = call[d].got /\ call'[d].wire = call[d].wire
                 /\ call'[d].bad = call[d].bad
                 /\ call'[d].troubled = (call[d].troubled \/ Active(d))
                 /\ call[d] = Idle => call'[d] = Idle
  <1>. DEFINE w == [m |-> m, n |-> n]
              b == \E e \in Callers : Active(e)
  <1>1. /\ \A d \in Callers : d # c => call'[d] = Overlapped(d)
        /\ call'[c] = [Idle EXCEPT !.step = "perform", !.req = w, !.troubled = b]
        /\ url' = w
    BY Zenon DEF Begin
  <1>2. ASSUME NEW d \in Callers, d # c
        PROVE  /\ call'[d].step = call[d].step /\ call'[d].req = call[d].req
               /\ call'[d].got = call[d].got /\ call'[d].wire = call[d].wire
               /\ call'[d].bad = call[d].bad
               /\ call'[d].troubled = (call[d].troubled \/ Active(d))
               /\ call[d] = Idle => call'[d] = Idle
    <2>. DEFINE t == call[d].troubled \/ Active(d)
    <2>1. call[d] \in Calls
      BY CallTypes
    <2>2. call'[d] = [call[d] EXCEPT !.troubled = t] /\ t \in BOOLEAN
      BY <1>1, <1>2, Zenon DEF Overlapped
    <2>3. \A r \in Calls, x \in BOOLEAN :
             LET q == [r EXCEPT !.troubled = x]
             IN  /\ q.step = r.step /\ q.req = r.req /\ q.got = r.got /\ q.wire = r.wire
                 /\ q.bad = r.bad /\ q.troubled = x
      BY Zenon DEF Calls
    <2>4. call[d] = Idle => t = FALSE /\ [Idle EXCEPT !.troubled = FALSE] = Idle
      <3>1. Idle.step = "idle" /\ Idle.troubled = FALSE
        BY DEF Idle
      <3>2. [Idle EXCEPT !.troubled = FALSE] = Idle
        <4>1. \A r \in Calls : r.troubled = FALSE => [r EXCEPT !.troubled = FALSE] = r
          BY DEF Calls
        <4>. QED
          BY <3>1, <4>1, IdleTyped
      <3>. QED
        BY <3>1, <3>2 DEF Active
    <2>. HIDE DEF t
    <2>5. call[d] = Idle => call'[d] = Idle
      BY <2>2, <2>4
    <2>6. LET q == call'[d]
          IN  /\ q.step = call[d].step /\ q.req = call[d].req /\ q.got = call[d].got
              /\ q.wire = call[d].wire /\ q.bad = call[d].bad /\ q.troubled = t
      BY <2>1, <2>2, <2>3
    <2>. QED
      BY <2>5, <2>6 DEF t
  <1>3. /\ call'[c].step = "perform" /\ call'[c].req = w
        /\ call'[c].got = <<>> /\ ~ call'[c].bad /\ call'[c].wire = NoRequest
        /\ call'[c].troubled = b
    <2>. HIDE DEF b, w
    <2>. QED
      BY <1>1, Zenon DEF Idle
  <1>. QED
    BY <1>1, <1>2, <1>3

LEMMA PerformFacts ==
    ASSUME UInv, NEW c \in Callers, Perform(c)
    PROVE  /\ call[c].step = "perform" /\ out' = c /\ url' = url /\ faults' = faults
           /\ \A d \in Callers : d # c => call'[d] = call[d]
           /\ call'[c].req = call[c].req /\ call'[c].got = call[c].got
           /\ call'[c].troubled = call[c].troubled
           /\ busy => /\ busy' = busy
                      /\ call'[c].step = "done" /\ call'[c].bad = TRUE /\ call'[c].wire = call[c].wire
           /\ ~ busy => /\ busy' = TRUE
                        /\ call'[c].step = "wait" /\ call'[c].wire = url /\ call'[c].bad = call[c].bad
  <1>1. call \in [Callers -> Calls] /\ call[c] \in Calls
    BY CallTypes
  <1>2. call[c].step = "perform" /\ out' = c /\ url' = url /\ faults' = faults
    BY DEF Perform
  <1>3. CASE busy
    <2>1. /\ busy' = busy
          /\ call' = [call EXCEPT ![c] = [call[c] EXCEPT !.step = "done", !.bad = TRUE]]
      BY <1>3, Zenon DEF Perform
    <2>2. call'[c] = [call[c] EXCEPT !.step = "done", !.bad = TRUE]
      BY <1>1, <2>1
    <2>. QED
      BY <1>1, <1>2, <1>3, <2>1, <2>2 DEF Calls
  <1>4. CASE ~ busy
    <2>1. /\ busy' = TRUE
          /\ call' = [call EXCEPT ![c] = [call[c] EXCEPT !.step = "wait", !.wire = url]]
      BY <1>4, Zenon DEF Perform
    <2>2. call'[c] = [call[c] EXCEPT !.step = "wait", !.wire = url]
      BY <1>1, <2>1
    <2>. QED
      BY <1>1, <1>2, <1>4, <2>1, <2>2 DEF Calls
  <1>. QED
    BY <1>3, <1>4

\* The answer a was written to the string set last, if its call still runs.
Landed(a) ==
    \A d \in Callers :
        call'[d].got = IF d = out /\ Active(out) THEN Append(call[d].got, a) ELSE call[d].got

LEMMA AnswerFacts ==
    ASSUME UInv, NEW c \in Callers, Answer(c)
    PROVE  /\ call[c].step = "wait" /\ busy' = FALSE /\ out' = out /\ url' = url
           /\ call'[c].step = "done"
           /\ \A d \in Callers :
                 /\ call'[d].req = call[d].req /\ call'[d].wire = call[d].wire
                 /\ d # c => /\ call'[d].step = call[d].step /\ call'[d].bad = call[d].bad
                             /\ call'[d].troubled = call[d].troubled
                             /\ call[d] = Idle => call'[d] = Idle
           /\ \/ /\ faults' = faults /\ TakesEffect(call[c].wire)
                 /\ call'[c].troubled = call[c].troubled /\ call'[c].bad = call[c].bad
                 /\ Landed(AnswerTo(call[c].wire))
              \/ /\ faults' = faults + 1 /\ call'[c].troubled = TRUE
                 /\ TakesEffect(call[c].wire) \/ NoEffect
                 /\ Landed(Odd) \/ \A d \in Callers : call'[d].got = call[d].got
  <1>. DEFINE w == call[c].wire
              Written(k, a) == IF Active(out) THEN [k EXCEPT ![out].got = Append(@, a)] ELSE k
              Done(k)    == [k EXCEPT ![c].step = "done"]
              Failed(k)  == [Done(k) EXCEPT ![c].troubled = TRUE]
              bad        == [call EXCEPT ![c].bad = TRUE]
  <1>1. call \in [Callers -> Calls] /\ out \in Callers /\ \A d \in Callers : call[d].got \in Seq(Answers)
    BY CallTypes
  <1>2. Odd \in Answers
    BY DEF Odd, Answers
  <1>3. AnswerTo(w) \in Answers
    BY ConfirmsSafe DEF UInv, Typed, HandleInv, Carries, Calls
  <1>4. ASSUME NEW a \in Answers
        PROVE  /\ Written(call, a) \in [Callers -> Calls]
               /\ \A d \in Callers : 
                     /\ Written(call, a)[d].step = call[d].step /\ Written(call, a)[d].req = call[d].req
                     /\ Written(call, a)[d].wire = call[d].wire /\ Written(call, a)[d].bad = call[d].bad
                     /\ Written(call, a)[d].troubled = call[d].troubled
                     /\ Written(call, a)[d].got = IF d = out /\ Active(out) THEN Append(call[d].got, a) ELSE call[d].got
    <2>. DEFINE q == [call[out] EXCEPT !.got = Append(call[out].got, a)]
    <2>1. Append(call[out].got, a) \in Seq(Answers)
      BY <1>1, <1>4
    <2>2. /\ q \in Calls /\ q.step = call[out].step /\ q.req = call[out].req /\ q.wire = call[out].wire
          /\ q.bad = call[out].bad /\ q.troubled = call[out].troubled
          /\ q.got = Append(call[out].got, a)
      <3>1. \A r \in Calls, g \in Seq(Answers) :
               LET p == [r EXCEPT !.got = g]
               IN  /\ p \in Calls /\ p.step = r.step /\ p.req = r.req /\ p.wire = r.wire
                   /\ p.bad = r.bad /\ p.troubled = r.troubled /\ p.got = g
        BY Zenon DEF Calls
      <3>. QED
        BY <1>1, <2>1, <3>1
    <2>3. Active(out) => Written(call, a) = [call EXCEPT ![out] = q]
      OBVIOUS
    <2>4. ~ Active(out) => Written(call, a) = call
      OBVIOUS
    <2>. HIDE DEF q, Written
    <2>. QED
      BY <1>1, <2>2, <2>3, <2>4
  <1>5. ASSUME NEW k \in [Callers -> Calls]
        PROVE  /\ Done(k) \in [Callers -> Calls] /\ Done(k)[c].step = "done"
               /\ Done(k)[c].bad = k[c].bad /\ Done(k)[c].troubled = k[c].troubled
               /\ Done(k)[c].got = k[c].got /\ Done(k)[c].req = k[c].req /\ Done(k)[c].wire = k[c].wire
               /\ \A d \in Callers : d # c => Done(k)[d] = k[d]
    BY <1>5 DEF Calls
  <1>6. ASSUME NEW k \in [Callers -> Calls]
        PROVE  /\ Failed(k)[c].step = "done"
               /\ Failed(k)[c].troubled = TRUE
               /\ Failed(k)[c].got = k[c].got /\ Failed(k)[c].req = k[c].req /\ Failed(k)[c].wire = k[c].wire
               /\ \A d \in Callers : d # c => Failed(k)[d] = k[d]
    <2>. HIDE DEF Done
    <2>. QED
      BY <1>5 DEF Calls
  <1>7. /\ bad \in [Callers -> Calls] /\ bad[c].got = call[c].got
        /\ bad[c].req = call[c].req /\ bad[c].wire = call[c].wire
        /\ \A d \in Callers : d # c => bad[d] = call[d]
    BY <1>1 DEF Calls
  <1>8. /\ call[c].step = "wait" /\ busy' = FALSE /\ out' = out /\ url' = url
        /\ \/ faults' = faults /\ TakesEffect(w) /\ call' = Done(Written(call, AnswerTo(w)))
           \/ /\ faults' = faults + 1 /\ (TakesEffect(w) \/ NoEffect)
              /\ \/ call' = Failed(bad)
                 \/ call' = Failed(Written(call, Odd))
    BY Zenon DEF Answer, Fault, NoFault
  <1>i. ASSUME NEW a \in Answers, NEW d \in Callers, d # c, call[d] = Idle
        PROVE  Written(call, a)[d] = Idle
    <2>1. d = out => ~ Active(out)
      <3>1. Idle.step = "idle"
        BY DEF Idle
      <3>. QED
        BY <1>i, <3>1 DEF Active
    <2>. QED
      BY <1>1, <1>i, <2>1
  <1>. HIDE DEF Written, Done, Failed, bad
  <1>9. CASE faults' = faults /\ TakesEffect(w) /\ call' = Done(Written(call, AnswerTo(w)))
    <2>. DEFINE k == Written(call, AnswerTo(w))
    <2>1. /\ k \in [Callers -> Calls]
          /\ \A d \in Callers : 
                     /\ k[d].step = call[d].step /\ k[d].req = call[d].req
                     /\ k[d].wire = call[d].wire /\ k[d].bad = call[d].bad
                     /\ k[d].troubled = call[d].troubled
                     /\ k[d].got = IF d = out /\ Active(out) THEN Append(call[d].got, AnswerTo(w)) ELSE call[d].got
                     /\ d # c /\ call[d] = Idle => k[d] = Idle
      BY <1>3, <1>4, <1>i
    <2>. HIDE DEF k
    <2>2. /\ call'[c].step = "done"
               /\ call'[c].bad = k[c].bad /\ call'[c].troubled = k[c].troubled
               /\ call'[c].got = k[c].got /\ call'[c].req = k[c].req /\ call'[c].wire = k[c].wire
               /\ \A d \in Callers : d # c => call'[d] = k[d]
      BY <1>5, <1>9, <2>1 DEF k
    <2>3. Landed(AnswerTo(w))
      BY <2>1, <2>2 DEF Landed
    <2>. QED
      BY <1>8, <1>9, <2>1, <2>2, <2>3
  <1>10. CASE faults' = faults + 1 /\ (TakesEffect(w) \/ NoEffect) /\ call' = Failed(bad)
    BY <1>6, <1>7, <1>8, <1>10
  <1>11. CASE faults' = faults + 1 /\ (TakesEffect(w) \/ NoEffect) /\ call' = Failed(Written(call, Odd))
    <2>. DEFINE k == Written(call, Odd)
    <2>1. /\ k \in [Callers -> Calls]
          /\ \A d \in Callers : 
                     /\ k[d].step = call[d].step /\ k[d].req = call[d].req
                     /\ k[d].wire = call[d].wire /\ k[d].bad = call[d].bad
                     /\ k[d].troubled = call[d].troubled
                     /\ k[d].got = IF d = out /\ Active(out) THEN Append(call[d].got, Odd) ELSE call[d].got
                     /\ d # c /\ call[d] = Idle => k[d] = Idle
      BY <1>2, <1>4, <1>i
    <2>. HIDE DEF k
    <2>2. /\ call'[c].step = "done" /\ call'[c].troubled = TRUE
               /\ call'[c].got = k[c].got /\ call'[c].req = k[c].req /\ call'[c].wire = k[c].wire
               /\ \A d \in Callers : d # c => call'[d] = k[d]
      BY <1>6, <1>11, <2>1 DEF k
    <2>3. Landed(Odd)
      BY <2>1, <2>2 DEF Landed
    <2>. QED
      BY <1>8, <1>11, <2>1, <2>2, <2>3
  <1>. QED
    BY <1>8, <1>9, <1>10, <1>11

\* The URL goes out.  A call out of trouble is alone, so it is its own.
LEMMA PerformCalls ==
    ASSUME UInv, CInv, NEW c \in Callers, Perform(c)
    PROVE  CInv'
  <1>1. /\ call[c].step = "perform" /\ out' = c /\ url' = url /\ faults' = faults
        /\ \A d \in Callers : d # c => call'[d] = call[d]
        /\ call'[c].req = call[c].req /\ call'[c].got = call[c].got
        /\ call'[c].troubled = call[c].troubled
        /\ busy => /\ busy' = busy
                   /\ call'[c].step = "done" /\ call'[c].bad = TRUE
        /\ ~ busy => /\ busy' = TRUE
                     /\ call'[c].step = "wait" /\ call'[c].wire = url /\ call'[c].bad = call[c].bad
    BY PerformFacts
  <1>2. /\ \A d \in Callers : d # c => (Waits(d) <=> Waits(d)') /\ (Active(d) <=> Active(d)')
        /\ Active(c) /\ ~ Waits(c) /\ (Waits(c)' <=> ~ busy)
        /\ \A d \in Callers : Len(call[d].got) \in Nat
    BY <1>1, CallTypes DEF Waits, Active
  <1>3. Meet'
    BY <1>1, <1>2 DEF CInv, Meet
  <1>4. OneWaits'
    BY <1>1, <1>2 DEF CInv, OneWaits
  <1>5. Clean'
    <2>1. ASSUME NEW d \in Callers, ~ call'[d].troubled
          PROVE  /\ ~ call'[d].bad
                 /\ call'[d].step = "perform" => url' = call'[d].req /\ call'[d].got = <<>>
                 /\ call'[d].step = "wait" =>
                       call'[d].wire = call'[d].req /\ out' = d /\ call'[d].got = <<>>
                 /\ call'[d].step = "done" => Len(call'[d].got) = 1 /\ call'[d].got[1].m # "odd"
      <3>1. CASE d = c
        <4>1. ~ busy
          <5>1. \A e \in Callers : Waits(e) => Active(e) /\ e # c
            BY <1>2 DEF Waits, Active
          <5>. QED
            BY <1>1, <1>2, <2>1, <3>1, <5>1 DEF CInv, Meet, OneWaits
        <4>. QED
          BY <1>1, <2>1, <3>1, <4>1 DEF CInv, Clean
      <3>2. CASE d # c
        <4>1. call'[d] = call[d] /\ ~ call[d].troubled /\ ~ Waits(d)
          BY <1>1, <1>2, <2>1, <3>2 DEF CInv, Meet, Waits, Active
        <4>. QED
          BY <1>1, <4>1 DEF CInv, Clean, Waits
      <3>. QED
        BY <3>1, <3>2
    <2>. QED
      BY <2>1 DEF Clean
  <1>6. \A d \in Callers : call'[d].got = call[d].got
    BY <1>1
  <1>7. OddHasCause'
    BY <1>1, <1>6 DEF CInv, OddHasCause
  <1>8. TwoAtMost'
    <2>1. ASSUME NEW d \in Callers
          PROVE  /\ call'[d].step = "idle" => call'[d].got = <<>>
                 /\ call'[d].step = "perform" =>
                       Len(call'[d].got) <= 1 /\ (Len(call'[d].got) = 1 => ~ (busy' /\ out' = d))
                 /\ Waits(d)' => Len(call'[d].got) <= 1
                 /\ Len(call'[d].got) <= 2
      <3>1. CASE d = c
        BY <1>1, <1>2, <3>1 DEF CInv, TwoAtMost, Waits
      <3>2. CASE d # c
        BY <1>1, <1>2, <3>2 DEF CInv, TwoAtMost, Waits
      <3>. QED
        BY <3>1, <3>2
    <2>. QED
      BY <2>1 DEF TwoAtMost
  <1>. QED
    BY <1>3, <1>4, <1>5, <1>7, <1>8 DEF CInv

\* An answer comes in.
LEMMA AnswerCalls ==
    ASSUME UInv, CInv, NEW c \in Callers, Answer(c)
    PROVE  CInv'
  <1>. DEFINE w == call[c].wire
              a == AnswerTo(w)
  <1>1. /\ call[c].step = "wait" /\ busy' = FALSE /\ out' = out /\ url' = url
        /\ call'[c].step = "done"
        /\ \A d \in Callers :
              /\ call'[d].req = call[d].req /\ call'[d].wire = call[d].wire
              /\ d # c => /\ call'[d].step = call[d].step /\ call'[d].bad = call[d].bad
                          /\ call'[d].troubled = call[d].troubled
        /\ \/ /\ faults' = faults
              /\ call'[c].troubled = call[c].troubled /\ call'[c].bad = call[c].bad
              /\ Landed(a)
           \/ /\ faults' = faults + 1 /\ call'[c].troubled = TRUE
              /\ Landed(Odd) \/ \A d \in Callers : call'[d].got = call[d].got
    BY AnswerFacts
  <1>2. a.m \in {"updates", "other"} /\ Odd.m = "odd"
    BY DEF AnswerTo, Odd
  <1>. HIDE DEF a
  <1>3. PICK b : /\ b.m \in {"updates", "other", "odd"} /\ (b.m = "odd" => faults' > 0)
                 /\ faults' = faults => b = a
                 /\ \/ Landed(b)
                    \/ faults' = faults + 1 /\ \A d \in Callers : call'[d].got = call[d].got
    <2>1. faults \in Nat
      BY DEF CInv, OddHasCause
    <2>2. CASE faults' = faults
      BY <1>1, <1>2, <2>1, <2>2
    <2>3. CASE faults' = faults + 1
      BY <1>1, <1>2, <2>1, <2>3
    <2>. QED
      BY <1>1, <2>2, <2>3
  <1>4. /\ \A d \in Callers : d # c => (Waits(d) <=> Waits(d)') /\ (Active(d) <=> Active(d)')
        /\ Active(c) /\ Waits(c) /\ ~ Waits(c)' /\ ~ Active(c)' /\ busy
        /\ \A d \in Callers : Waits(d) => d = c
        /\ \A d \in Callers : call[d].got \in Seq(Answers) /\ Len(call[d].got) \in Nat
        /\ \A d \in Callers : d # c => ~ Waits(d) /\ ~ Waits(d)'
    BY <1>1, CallTypes DEF Waits, Active, CInv, OneWaits
  <1>5. Meet'
    BY <1>1, <1>4 DEF CInv, Meet
  <1>6. OneWaits'
    BY <1>1, <1>4 DEF OneWaits
  <1>7. \A d \in Callers : \/ call'[d].got = call[d].got
                           \/ call'[d].got = Append(call[d].got, b) /\ Active(d) /\ d = out
    BY <1>3 DEF Landed
  <1>8. Clean'
    <2>1. ASSUME NEW d \in Callers, ~ call'[d].troubled
          PROVE  /\ ~ call'[d].bad
                 /\ call'[d].step = "perform" => url' = call'[d].req /\ call'[d].got = <<>>
                 /\ call'[d].step = "wait" =>
                       call'[d].wire = call'[d].req /\ out' = d /\ call'[d].got = <<>>
                 /\ call'[d].step = "done" => Len(call'[d].got) = 1 /\ call'[d].got[1].m # "odd"
      <3>1. CASE d = c
        <4>1. /\ faults' = faults /\ ~ call[c].troubled /\ call'[c].bad = call[c].bad
          BY <1>1, <2>1, <3>1
        <4>2. out = c /\ call[c].got = <<>> /\ ~ call[c].bad
          BY <1>1, <4>1 DEF CInv, Clean
        <4>3. Landed(a)
          BY <1>1, <4>1 DEF CInv, OddHasCause
        <4>4. call'[c].got = Append(<<>>, a)
          BY <1>4, <4>2, <4>3 DEF Landed
        <4>. QED
          BY <1>1, <1>2, <3>1, <4>1, <4>2, <4>4
      <3>2. CASE d # c
        <4>1. ~ call[d].troubled /\ ~ Active(d)
          BY <1>1, <1>4, <2>1, <3>2 DEF CInv, Meet
        <4>2. call'[d].got = call[d].got
          BY <1>7, <4>1
        <4>. QED
          BY <1>1, <1>4, <3>2, <4>1, <4>2 DEF CInv, Clean, Active
      <3>. QED
        BY <3>1, <3>2
    <2>. QED
      BY <2>1 DEF Clean
  <1>9. OddHasCause'
    <2>1. faults \in Nat /\ faults' \in {faults, faults + 1}
      BY <1>1 DEF CInv, OddHasCause
    <2>2. ASSUME NEW d \in Callers, NEW j \in DOMAIN call'[d].got, call'[d].got[j].m = "odd"
          PROVE  faults' > 0
      <3>1. CASE call'[d].got = call[d].got
        BY <2>1, <2>2, <3>1 DEF CInv, OddHasCause
      <3>2. CASE call'[d].got = Append(call[d].got, b)
        <4>1. call'[d].got[j] = b \/ (j \in DOMAIN call[d].got /\ call'[d].got[j] = call[d].got[j])
          BY <1>4, <2>2, <3>2
        <4>. QED
          BY <1>3, <2>1, <2>2, <4>1 DEF CInv, OddHasCause
      <3>. QED
        BY <1>7, <3>1, <3>2
    <2>3. faults' \in Nat
      BY <2>1
    <2>. QED
      BY <2>2, <2>3 DEF OddHasCause
  <1>10. TwoAtMost'
    <2>1. ASSUME NEW d \in Callers
          PROVE  /\ call'[d].step = "idle" => call'[d].got = <<>>
                 /\ call'[d].step = "perform" =>
                       Len(call'[d].got) <= 1 /\ (Len(call'[d].got) = 1 => ~ (busy' /\ out' = d))
                 /\ Waits(d)' => Len(call'[d].got) <= 1
                 /\ Len(call'[d].got) <= 2
      <3>1. /\ Len(call[d].got) \in Nat
            /\ Len(call'[d].got) \in {Len(call[d].got), Len(call[d].got) + 1}
        BY <1>4, <1>7
      <3>2. Len(call'[d].got) = Len(call[d].got) \/ (Active(d) /\ d = out)
        BY <1>7
      <3>3. CASE d = c
        <4>1. Len(call[d].got) <= 1
          BY <1>4, <3>3 DEF CInv, TwoAtMost
        <4>. QED
          BY <1>1, <1>4, <3>1, <3>3, <4>1
      <3>4. CASE d # c
        <4>1. /\ call'[d].step = call[d].step /\ ~ Waits(d) /\ ~ Waits(d)' /\ ~ busy'
              /\ (Active(d) => call[d].step = "perform")
          BY <1>1, <1>4, <3>4 DEF Active, Waits
        <4>2. CASE Len(call'[d].got) = Len(call[d].got)
          <5>1. call'[d].got = call[d].got
            BY <1>7, <1>4, <4>2
          <5>. QED
            BY <4>1, <5>1, <3>1 DEF CInv, TwoAtMost
        <4>3. CASE call[d].step = "perform" /\ d = out
          <5>1. Len(call[d].got) <= 1 /\ Len(call[d].got) # 1
            <6>1. busy
              BY <1>4
            <6>. QED
              BY <4>3, <6>1 DEF CInv, TwoAtMost
          <5>2. \A n \in Nat : \A m \in {n, n + 1} : n <= 1 /\ n # 1 =>
                   m <= 1 /\ m <= 2
            OBVIOUS
          <5>4. Len(call'[d].got) <= 1 /\ Len(call'[d].got) <= 2
            BY <3>1, <5>1, <5>2, Zenon
          <5>3. call'[d].step = "perform" /\ ~ Waits(d)' /\ ~ busy'
            BY <4>1, <4>3
          <5>. QED
            BY <5>3, <5>4, Zenon
        <4>. QED
          BY <3>2, <4>1, <4>2, <4>3
      <3>. QED
        BY <3>3, <3>4
    <2>. QED
      BY <2>1 DEF TwoAtMost
  <1>. QED
    BY <1>5, <1>6, <1>8, <1>9, <1>10 DEF CInv

\* A thread without a call begins one: it meets those under way, and they it.
LEMMA BeginCalls ==
    ASSUME UInv, CInv, NEW c \in Callers, NEW m \in Methods, NEW n \in Nat, Begin(c, m, n),
           call[c] = Idle, UNCHANGED <<out, busy, faults>>
    PROVE  CInv'
  <1>1. /\ url' = [m |-> m, n |-> n]
        /\ call'[c].step = "perform" /\ call'[c].req = [m |-> m, n |-> n]
        /\ call'[c].got = <<>> /\ ~ call'[c].bad
        /\ call'[c].troubled = \E e \in Callers : Active(e)
        /\ \A d \in Callers : d # c =>
              /\ call'[d].step = call[d].step /\ call'[d].req = call[d].req
              /\ call'[d].got = call[d].got /\ call'[d].wire = call[d].wire
              /\ call'[d].bad = call[d].bad
              /\ call'[d].troubled = (call[d].troubled \/ Active(d))
    BY BeginFacts
  <1>2. /\ \A d \in Callers : d # c => (Waits(d) <=> Waits(d)') /\ (Active(d) <=> Active(d)')
        /\ Active(c)' /\ ~ Active(c) /\ ~ Waits(c) /\ ~ Waits(c)'
    <2>1. call[c].step = "idle"
      BY IdleStep
    <2>. QED
      BY <1>1, <2>1 DEF Waits, Active
  <1>3. Meet'
    BY <1>1, <1>2 DEF Meet
  <1>4. OneWaits'
    BY <1>2 DEF CInv, OneWaits
  <1>5. Clean'
    <2>1. ASSUME NEW d \in Callers, ~ call'[d].troubled
          PROVE  /\ ~ call'[d].bad
                 /\ call'[d].step = "perform" => url' = call'[d].req /\ call'[d].got = <<>>
                 /\ call'[d].step = "wait" =>
                       call'[d].wire = call'[d].req /\ out' = d /\ call'[d].got = <<>>
                 /\ call'[d].step = "done" => Len(call'[d].got) = 1 /\ call'[d].got[1].m # "odd"
      <3>1. CASE d = c
        BY <1>1, <3>1
      <3>2. CASE d # c
        <4>1. ~ call[d].troubled /\ ~ Active(d)
          BY <1>1, <2>1, <3>2
        <4>. QED
          BY <1>1, <3>2, <4>1 DEF CInv, Clean, Active
      <3>. QED
        BY <3>1, <3>2
    <2>. QED
      BY <2>1 DEF Clean
  <1>6. \A d \in Callers : call'[d].got = call[d].got \/ call'[d].got = <<>>
    BY <1>1
  <1>7. OddHasCause'
    BY <1>6 DEF CInv, OddHasCause
  <1>8. TwoAtMost'
    <2>1. ASSUME NEW d \in Callers
          PROVE  /\ call'[d].step = "idle" => call'[d].got = <<>>
                 /\ call'[d].step = "perform" =>
                       Len(call'[d].got) <= 1 /\ (Len(call'[d].got) = 1 => ~ (busy' /\ out' = d))
                 /\ Waits(d)' => Len(call'[d].got) <= 1
                 /\ Len(call'[d].got) <= 2
      <3>1. CASE d = c
        BY <1>1, <1>2, <3>1
      <3>2. CASE d # c
        BY <1>1, <1>2, <3>2 DEF CInv, TwoAtMost
      <3>. QED
        BY <3>1, <3>2
    <2>. QED
      BY <2>1 DEF TwoAtMost
  <1>. QED
    BY <1>3, <1>4, <1>5, <1>7, <1>8 DEF CInv

\* A call returns.
LEMMA ReturnCalls ==
    ASSUME UInv, CInv, NEW c \in Callers, Return(c), call[c].step = "done",
           UNCHANGED <<out, busy>>, faults' \in Nat, faults <= faults'
    PROVE  CInv'
  <1>1. url' = url /\ call'[c] = Idle /\ \A d \in Callers : d # c => call'[d] = call[d]
    BY CallTypes DEF Return
  <1>2. Idle.step = "idle" /\ Idle.got = <<>> /\ ~ Idle.bad
    BY IdleStep
  <1>3. /\ \A d \in Callers : (Waits(d) <=> Waits(d)') /\ (Active(d) <=> Active(d)')
        /\ ~ Active(c)
    BY <1>1, <1>2 DEF Waits, Active
  <1>4. Meet'
    BY <1>1, <1>3 DEF CInv, Meet
  <1>5. OneWaits'
    BY <1>3 DEF CInv, OneWaits
  <1>6. Clean'
    BY <1>1, <1>2 DEF CInv, Clean
  <1>7. OddHasCause'
    <2>1. ASSUME NEW d \in Callers, NEW j \in DOMAIN call'[d].got, call'[d].got[j].m = "odd"
          PROVE  faults' > 0
      <3>1. d # c
        BY <1>1, <1>2, <2>1
      <3>2. faults > 0 /\ faults \in Nat
        BY <1>1, <2>1, <3>1 DEF CInv, OddHasCause
      <3>. QED
        BY <3>2
    <2>. QED
      BY <2>1 DEF OddHasCause
  <1>8. TwoAtMost'
    <2>1. ASSUME NEW d \in Callers
          PROVE  /\ call'[d].step = "idle" => call'[d].got = <<>>
                 /\ call'[d].step = "perform" =>
                       Len(call'[d].got) <= 1 /\ (Len(call'[d].got) = 1 => ~ (busy' /\ out' = d))
                 /\ Waits(d)' => Len(call'[d].got) <= 1
                 /\ Len(call'[d].got) <= 2
      <3>1. CASE d = c
        BY <1>1, <1>2, <1>3, <3>1 DEF Waits
      <3>2. CASE d # c
        BY <1>1, <1>3, <3>2 DEF CInv, TwoAtMost
      <3>. QED
        BY <3>1, <3>2
    <2>. QED
      BY <2>1 DEF TwoAtMost
  <1>. QED
    BY <1>4, <1>5, <1>6, <1>7, <1>8 DEF CInv

\* Nobody calls.
LEMMA NoCallCalls ==
    ASSUME CInv, NoCall, UNCHANGED <<out, busy>>, faults' \in Nat, faults <= faults'
    PROVE  CInv'
  <1>1. /\ url' = url /\ call' = call
        /\ \A d \in Callers : (Waits(d) <=> Waits(d)') /\ (Active(d) <=> Active(d)')
    BY DEF NoCall, Waits, Active
  <1>2. Meet' /\ OneWaits' /\ Clean' /\ TwoAtMost'
    BY <1>1 DEF CInv, Meet, OneWaits, Clean, TwoAtMost
  <1>3. OddHasCause'
    BY <1>1 DEF CInv, OddHasCause
  <1>. QED
    BY <1>2, <1>3 DEF CInv

\* A new process has no call.
LEMMA FreshCalls ==
    ASSUME call = NoCalls, busy = FALSE, faults \in Nat
    PROVE  CInv
  <1>1. \A d \in Callers : call[d] = Idle
    BY DEF NoCalls
  <1>2. Idle.step = "idle" /\ Idle.got = <<>> /\ ~ Idle.bad
    BY IdleStep
  <1>3. \A d \in Callers : ~ Waits(d) /\ ~ Active(d)
    BY <1>1, <1>2 DEF Waits, Active
  <1>4. \A d \in Callers : call[d].step = "idle" /\ call[d].got = <<>> /\ ~ call[d].bad
    BY <1>1, <1>2
  <1>. QED
    BY <1>3, <1>4 DEF CInv, Meet, OneWaits, Clean, OddHasCause, TwoAtMost

\* The thread c is inside make_request, or its process died there.
InCall(c) ==
    \/ c = "main" /\ (at["main"] = "hooked" \/ ended = "abort")
    \/ c = "alert" /\ at["alert"] = "send"
    \/ c = "poll" /\ at["poll"] \in {"asked", "notice"}
    \/ c = "http" /\ at["http"] = "notice"

\* Outside it has no call.
Resting == \A c \in Callers : InCall(c) \/ call[c] = Idle

LEMMA ThreadSets ==
    /\ \A c \in Callers : c \in Threads
    /\ \A l \in Loops : l \in Threads
    /\ "main" \in Callers /\ "alert" \in Callers /\ "poll" \in Callers /\ "http" \in Callers
    /\ "alert" \in Loops /\ "reply" \in Loops /\ "reply" \notin Callers
    /\ \A l \in Loops : l = "alert" \/ l = "reply"
    /\ \A c \in Callers : c \in {"main", "alert", "poll", "http"}
    /\ "hook" \in Methods /\ "alert" \in Methods /\ "updates" \in Methods /\ "notice" \in Methods
  BY DEF Threads, Callers, Loops, Methods

LEMMA GotoFacts ==
    ASSUME UInv, NEW t \in Threads, NEW label, Goto(t, label)
    PROVE  at'[t] = label /\ \A u \in Threads : u # t => at'[u] = at[u]
  <1>1. at = [u \in Threads |-> at[u]] /\ at' = [at EXCEPT ![t] = label]
    BY DEF UInv, Typed, Threaded, Goto
  <1>. QED
    BY <1>1

\* One thread moves: it keeps out of a call, enters one or returns.
LEMMA RestMoves ==
    ASSUME Resting, ended' = ended, NEW c \in Callers, InCall(c)' \/ call'[c] = Idle,
           \A d \in Callers : d # c => at'[d] = at[d] /\ (call[d] = Idle => call'[d] = Idle)
    PROVE  Resting'
  BY ThreadSets DEF Resting, InCall

\* What the steps on the calls leave of a thread without one.
LEMMA IdleStays ==
    ASSUME UInv
    PROVE  /\ NoCall => \A d \in Callers : call'[d] = call[d]
           /\ \A c \in Callers : Return(c) =>
                 call'[c] = Idle /\ \A d \in Callers : d # c => call'[d] = call[d]
           /\ \A c \in Callers, m \in Methods, n \in Nat : Begin(c, m, n) =>
                 \A d \in Callers : d # c => (call[d] = Idle => call'[d] = Idle)
           /\ \A c \in Callers : Perform(c) \/ Answer(c) =>
                 /\ call[c] # Idle
                 /\ \A d \in Callers : d # c => (call[d] = Idle => call'[d] = Idle)
  <1>1. ASSUME NEW c \in Callers, Perform(c) \/ Answer(c)
        PROVE  /\ call[c] # Idle
               /\ \A d \in Callers : d # c => (call[d] = Idle => call'[d] = Idle)
    BY <1>1, PerformFacts, AnswerFacts, IdleStep
  <1>2. ASSUME NEW c \in Callers, NEW m \in Methods, NEW n \in Nat, Begin(c, m, n)
        PROVE  \A d \in Callers : d # c => (call[d] = Idle => call'[d] = Idle)
    BY <1>2, BeginFacts
  <1>3. ASSUME NEW c \in Callers, Return(c)
        PROVE  call'[c] = Idle /\ \A d \in Callers : d # c => call'[d] = call[d]
    BY <1>3, CallTypes DEF Return
  <1>4. NoCall => \A d \in Callers : call'[d] = call[d]
    BY DEF NoCall
  <1>. QED
    BY <1>1, <1>2, <1>3, <1>4

\* How far main has come says which threads may run.
Early == at["main"] \in {"spawn", "hook", "hooked"}
Late  == at["main"] \in {"stopServer", "joinServer", "join"} \/ ended = "exit"
Life ==
    /\ at["main"] = "spawn" => \A l \in Loops : at[l] = "off"
    /\ mode = "webhook" \/ Early => at["poll"] = "off"
    /\ Late => at["poll"] \in {"off", "ended"}
    /\ Early => server = "none"
    /\ server \in {"none", "spawned"} => at["http"] = "off"
    /\ server = "ended" => at["http"] = "idle"
    /\ at["main"] = "join" \/ ended = "exit" => server = "ended"
    /\ ended = "exit" => at["main"] = "down" /\ \A l \in Loops : at[l] = "ended"
    /\ ended = "abort" => killed
    /\ ended \in {"no", "exit", "abort"}

NInv == UInv /\ CInv /\ Resting /\ Life /\ AbortHasCause

\* Failures are counted.
LEMMA FaultSteps ==
    ASSUME CInv
    PROVE  /\ faults \in Nat
           /\ NoFault \/ faults' = faults => faults' \in Nat /\ faults <= faults'
           /\ Fault => faults' \in Nat /\ faults <= faults' /\ faults' > 0
  <1>1. faults \in Nat
    BY DEF CInv, OddHasCause
  <1>. QED
    BY <1>1 DEF NoFault, Fault

\* While the process runs nobody died at a call.
LEMMA CauseStays ==
    ASSUME ended' = "no" \/ ended' = "exit"
    PROVE  AbortHasCause'
  BY DEF AbortHasCause

LEMMA CallCauses ==
    ASSUME NInv, NEW c \in Callers, CallStep(c)
    PROVE  CInv' /\ Resting' /\ Life' /\ AbortHasCause'
  <1>1. ended = "no" /\ ended' = ended /\ at' = at /\ (Perform(c) \/ Answer(c))
        /\ UNCHANGED <<scope, server, killed>>
    BY Zenon DEF CallStep, ends
  <1>2. CInv'
    BY <1>1, PerformCalls, AnswerCalls DEF NInv
  <1>3. InCall(c)
    BY <1>1, IdleStays DEF NInv, Resting
  <1>4. Resting'
    BY <1>1, <1>3, IdleStays, RestMoves DEF NInv, InCall
  <1>5. Life'
    BY <1>1 DEF NInv, Life, Early, Late, mode
  <1>. QED
    BY <1>1, <1>2, <1>4, <1>5, CauseStays

LEMMA LoopCauses ==
    ASSUME NInv, NEW l \in Loops, LoopStep(l)
    PROVE  CInv' /\ Resting' /\ Life' /\ AbortHasCause'
  <1>1. ended = "no" /\ ended' = ended /\ UNCHANGED <<out, busy, scope, server, killed>>
    BY Zenon DEF LoopStep, ends
  <1>0. Life'
    <2>1. at' = at \/ \E label : Goto(l, label)
      BY DEF LoopStep, LoopStarts, LoopReads, LoopEnds, LoopEntry, LoopAcks, AlertSent, NextEntry
    <2>2. \A u \in Threads : u # l => at'[u] = at[u]
      BY <2>1, GotoFacts, ThreadSets DEF NInv
    <2>3. at[l] # "off"
      BY DEF LoopStep, LoopStarts, LoopReads, LoopEnds, LoopEntry, LoopAcks, AlertSent
    <2>4. at'["main"] = at["main"] /\ at["main"] # "spawn"
          /\ at'["poll"] = at["poll"] /\ at'["http"] = at["http"]
      BY <2>2, <2>3, ThreadSets DEF NInv, Life
    <2>. QED
      BY <1>1, <2>4 DEF NInv, Life, Early, Late, mode
  <1>. SUFFICES CInv' /\ Resting'
    BY <1>0, <1>1, CauseStays
  <1>2. UInv /\ CInv /\ Resting /\ l \in Threads /\ (l = "reply" => l \notin Callers)
    BY ThreadSets DEF NInv
  <1>3. ASSUME at[l] # "send", NoCall, faults' \in Nat, faults <= faults', NEW label, Goto(l, label)
        PROVE  CInv' /\ Resting'
    <2>1. CInv'
      BY <1>1, <1>2, <1>3, NoCallCalls
    <2>2. at'[l] = label /\ \A u \in Threads : u # l => at'[u] = at[u]
      BY <1>2, <1>3, GotoFacts
    <2>3. CASE l = "alert"
      <3>1. call["alert"] = Idle /\ call'["alert"] = Idle
        BY <1>2, <1>3, <2>3, IdleStays, ThreadSets DEF Resting, InCall
      <3>. QED
        BY <1>1, <1>2, <1>3, <2>1, <2>2, <2>3, <3>1, IdleStays, ThreadSets, RestMoves
    <2>4. CASE l = "reply"
      BY <1>1, <1>2, <1>3, <2>1, <2>2, <2>4, IdleStays, ThreadSets DEF Resting, InCall
    <2>. QED
      BY <2>3, <2>4, ThreadSets
  <1>4. faults \in Nat /\ (NoFault \/ faults' = faults \/ Fault => faults' \in Nat /\ faults <= faults')
    BY <1>2, FaultSteps
  <1>5. CASE LoopStarts(l)
    BY <1>3, <1>4, <1>5 DEF LoopStarts
  <1>6. CASE LoopReads(l)
    <2>1. at[l] = "read" /\ NoCall /\ (NoFault \/ Fault)
          /\ (Goto(l, "entry") \/ at' = at)
      BY <1>6 DEF LoopReads
    <2>2. Goto(l, "entry") \/ Goto(l, "read")
      <3>1. at = [t \in Threads |-> at[t]]
        BY <1>2 DEF UInv, Typed, Threaded
      <3>2. at = [at EXCEPT ![l] = "read"]
        BY <1>2, <2>1, <3>1
      <3>. QED
        BY <2>1, <3>2 DEF Goto
    <2>. QED
      BY <1>3, <1>4, <2>1, <2>2
  <1>7. CASE LoopEnds(l)
    BY <1>3, <1>4, <1>7 DEF LoopEnds
  <1>8. CASE LoopEntry(l)
    <2>1. at[l] = "entry" /\ faults' = faults
      BY <1>8 DEF LoopEntry
    <2>2. CASE NoCall /\ \E label : Goto(l, label)
      BY <1>3, <1>4, <2>1, <2>2
    <2>3. CASE l = "alert" /\ Begin("alert", "alert", Head(todo[l])) /\ Goto(l, "send")
      <3>1. Head(todo[l]) \in Nat
        BY <1>2, <2>1 DEF UInv, Typed
      <3>2. call["alert"] = Idle
        BY <1>2, <2>1, <2>3, ThreadSets DEF Resting, InCall
      <3>3. CInv'
        BY <1>1, <1>2, <2>1, <2>3, <3>1, <3>2, BeginCalls, ThreadSets
      <3>4. at'[l] = "send" /\ \A u \in Threads : u # l => at'[u] = at[u]
        BY <1>2, <2>3, GotoFacts
      <3>5. \A d \in Callers : d # "alert" => (call[d] = Idle => call'[d] = Idle)
        BY <1>2, <2>3, <3>1, IdleStays, ThreadSets
      <3>6. InCall("alert")'
        BY <2>3, <3>4 DEF InCall
      <3>7. Resting'
        BY <1>1, <1>2, <2>3, <3>4, <3>5, <3>6, RestMoves, ThreadSets
      <3>. QED
        BY <3>3, <3>7
    <2>. QED
      BY <1>8, <2>2, <2>3 DEF LoopEntry, NextEntry
  <1>9. CASE l = "alert" /\ AlertSent
    <2>1. /\ at["alert"] = "send" /\ call["alert"].step = "done" /\ Return("alert")
          /\ faults' = faults /\ \E label : Goto("alert", label)
      BY <1>9 DEF AlertSent, NextEntry
    <2>2. CInv'
      BY <1>1, <1>2, <1>4, <2>1, ReturnCalls, ThreadSets
    <2>3. \A u \in Threads : u # "alert" => at'[u] = at[u]
      BY <1>2, <2>1, GotoFacts, ThreadSets
    <2>4. Resting'
      BY <1>1, <1>2, <2>1, <2>3, IdleStays, RestMoves, ThreadSets
    <2>. QED
      BY <2>2, <2>4
  <1>10. CASE LoopAcks(l)
    BY <1>3, <1>4, <1>10 DEF LoopAcks, NextEntry
  <1>. QED
    BY <1>1, <1>5, <1>6, <1>7, <1>8, <1>9, <1>10 DEF LoopStep

\* A thread other than the consumers moves without a call under way.
LEMMA ThreadMoves ==
    ASSUME NInv, ended' = ended, UNCHANGED <<out, busy>>, faults' \in Nat, faults <= faults',
           NEW c \in Callers, \A d \in Callers : d # c => at'[d] = at[d],
           \/ NoCall /\ ~ InCall(c)
           \/ Return(c) /\ call[c].step = "done"
           \/ /\ \E m \in Methods, n \in Nat : Begin(c, m, n)
              /\ ~ InCall(c) /\ InCall(c)' /\ faults' = faults
    PROVE  CInv' /\ Resting'
  <1>1. UInv /\ CInv /\ Resting
    BY DEF NInv
  <1>2. CASE NoCall /\ ~ InCall(c)
    <2>1. CInv'
      BY <1>1, <1>2, NoCallCalls
    <2>2. call[c] = Idle
      BY <1>1, <1>2 DEF Resting
    <2>. QED
      BY <1>1, <1>2, <2>1, <2>2, IdleStays, RestMoves
  <1>3. CASE Return(c) /\ call[c].step = "done"
    <2>1. CInv'
      BY <1>1, <1>3, ReturnCalls
    <2>. QED
      BY <1>1, <1>3, <2>1, IdleStays, RestMoves
  <1>4. CASE (\E m \in Methods, n \in Nat : Begin(c, m, n)) /\ ~ InCall(c) /\ InCall(c)' /\ faults' = faults
    <2>1. call[c] = Idle
      BY <1>1, <1>4 DEF Resting
    <2>2. CInv'
      BY <1>1, <1>4, <2>1, BeginCalls
    <2>. QED
      BY <1>1, <1>4, <2>2, IdleStays, RestMoves
  <1>. QED
    BY <1>2, <1>3, <1>4

LEMMA PollCauses ==
    ASSUME NInv, PollStep
    PROVE  CInv' /\ Resting' /\ Life' /\ AbortHasCause'
  <1>1. ended = "no" /\ ended' = ended /\ UNCHANGED <<out, busy, scope, server, killed>>
    BY Zenon DEF PollStep, ends
  <1>2. /\ UInv /\ "poll" \in Callers /\ "poll" \in Threads /\ faults \in Nat
        /\ (NoFault \/ faults' = faults \/ Fault => faults' \in Nat /\ faults <= faults')
    BY FaultSteps, ThreadSets DEF NInv
  <1>3. \E label : Goto("poll", label)
    BY DEF PollStep, PollAsks, PollEnds, PollAnswered, PollUpdate, PollNoticed, Advance, GiveUp
  <1>4. \A d \in Callers : d # "poll" => at'[d] = at[d]
    BY <1>2, <1>3, GotoFacts, ThreadSets
  <1>0. Life'
    <2>1. at["poll"] \in {"ask", "asked", "update", "notice"}
      BY DEF PollStep, PollAsks, PollEnds, PollAnswered, PollUpdate, PollNoticed
    <2>2. /\ at'["main"] = at["main"] /\ at'["http"] = at["http"]
          /\ \A l \in Loops : at'[l] = at[l]
      BY <1>2, <1>3, GotoFacts, ThreadSets
    <2>. QED
      BY <1>1, <2>1, <2>2 DEF NInv, Life, Early, Late, mode
  <1>. SUFFICES CInv' /\ Resting'
    BY <1>0, <1>1, CauseStays
  <1>5. at["poll"] \in {"ask", "update"} => ~ InCall("poll")
    BY DEF InCall
  <1>6. CASE PollAsks
    <2>1. offset + 1 \in Nat /\ at["poll"] = "ask" /\ faults' = faults
          /\ Begin("poll", "updates", offset + 1) /\ Goto("poll", "asked")
      BY <1>2, <1>6 DEF PollAsks, UInv, BatchInv
    <2>2. InCall("poll")'
      BY <1>2, <2>1, GotoFacts DEF InCall
    <2>. QED
      BY <1>1, <1>2, <1>4, <1>5, <2>1, <2>2, ThreadMoves, ThreadSets
  <1>7. CASE PollEnds
    BY <1>1, <1>2, <1>4, <1>5, <1>7, ThreadMoves DEF PollEnds
  <1>8. CASE PollAnswered
    BY <1>1, <1>2, <1>4, <1>8, ThreadMoves DEF PollAnswered
  <1>9. CASE PollUpdate
    <2>1. CASE Begin("poll", "notice", Head(batch)) /\ Goto("poll", "notice") /\ faults' = faults
      <3>1. Head(batch) \in Nat /\ at["poll"] = "update"
        BY <1>2, <1>9 DEF PollUpdate, UInv, BatchInv
      <3>2. InCall("poll")'
        BY <1>2, <2>1, GotoFacts DEF InCall
      <3>. QED
        BY <1>1, <1>2, <1>4, <1>5, <2>1, <3>1, <3>2, ThreadMoves, ThreadSets
    <2>2. CASE NoCall /\ (NoFault \/ Fault)
      <3>1. at["poll"] = "update"
        BY <1>9 DEF PollUpdate
      <3>. QED
        BY <1>1, <1>2, <1>4, <1>5, <2>2, <3>1, ThreadMoves
    <2>. QED
      BY <1>9, <2>1, <2>2 DEF PollUpdate
  <1>10. CASE PollNoticed
    BY <1>1, <1>2, <1>4, <1>10, ThreadMoves DEF PollNoticed
  <1>. QED
    BY <1>6, <1>7, <1>8, <1>9, <1>10 DEF PollStep

LEMMA ServerCauses ==
    ASSUME NInv, ServerStep
    PROVE  CInv' /\ Resting' /\ Life' /\ AbortHasCause'
  <1>1. ended = "no" /\ ended' = ended /\ UNCHANGED <<out, busy, scope, killed>>
    BY Zenon DEF ServerStep, ends
  <1>2. /\ UInv /\ "http" \in Callers /\ "http" \in Threads /\ faults \in Nat
        /\ (NoFault \/ faults' = faults \/ Fault => faults' \in Nat /\ faults <= faults')
    BY FaultSteps, ThreadSets DEF NInv
  <1>3. (\E label : Goto("http", label)) \/ at' = at
    BY DEF ServerStep, ServerListens, ServerEnds, HttpRefuses, HttpRefused, HttpPublishes
  <1>4. \A d \in Callers : d # "http" => at'[d] = at[d]
    BY <1>2, <1>3, GotoFacts, ThreadSets
  <1>0. Life'
    <2>1. /\ at'["main"] = at["main"] /\ at'["poll"] = at["poll"]
          /\ \A l \in Loops : at'[l] = at[l]
      BY <1>2, <1>3, GotoFacts, ThreadSets
    <2>2. \A label : Goto("http", label) => at'["http"] = label
      BY <1>2, GotoFacts
    <2>3. CASE ServerListens
      <3>1. server = "spawned" /\ server' = "listening"
        BY <2>3 DEF ServerListens
      <3>. QED
        BY <1>1, <2>1, <3>1 DEF NInv, Life, Early, Late, mode
    <2>4. CASE ServerEnds
      <3>1. server = "stopping" /\ server' = "ended" /\ at'["http"] = "idle"
        BY <2>4 DEF ServerEnds
      <3>. QED
        BY <1>1, <2>1, <3>1 DEF NInv, Life, Early, Late, mode
    <2>5. CASE HttpRefuses \/ HttpPublishes
      <3>1. server = "listening" /\ server' = "listening"
        BY <2>5 DEF HttpRefuses, HttpPublishes
      <3>. QED
        BY <1>1, <2>1, <3>1 DEF NInv, Life, Early, Late, mode
    <2>6. CASE HttpRefused
      <3>1. at["http"] = "notice" /\ at'["http"] = "idle" /\ server' = server
        BY <2>2, <2>6 DEF HttpRefused
      <3>. QED
        BY <1>1, <2>1, <3>1 DEF NInv, Life, Early, Late, mode
    <2>. QED
      BY <2>3, <2>4, <2>5, <2>6 DEF ServerStep
  <1>. SUFFICES CInv' /\ Resting'
    BY <1>0, <1>1, CauseStays
  <1>5. at["http"] # "notice" => ~ InCall("http")
    BY DEF InCall
  <1>6. CASE HttpRefuses
    <2>1. InCall("http")'
      BY <1>2, <1>6, GotoFacts DEF InCall, HttpRefuses
    <2>. QED
      BY <1>1, <1>2, <1>4, <1>5, <1>6, <2>1, ThreadMoves, ThreadSets DEF HttpRefuses
  <1>7. CASE HttpRefused
    BY <1>1, <1>2, <1>4, <1>7, ThreadMoves DEF HttpRefused
  <1>8. CASE ServerEnds \/ HttpPublishes
    BY <1>1, <1>2, <1>4, <1>5, <1>8, ThreadMoves DEF ServerEnds, HttpPublishes
  <1>9. CASE ServerListens
    <2>1. at["http"] = "off"
      BY <1>9 DEF ServerListens, NInv, Life
    <2>2. NoCall /\ Goto("http", "idle") /\ faults' = faults /\ server = "spawned"
      BY <1>9 DEF ServerListens
    <2>. QED
      BY <1>1, <1>2, <1>4, <1>5, <2>1, <2>2, ThreadMoves
  <1>. QED
    BY <1>6, <1>7, <1>8, <1>9 DEF ServerStep

LEMMA MainCauses ==
    ASSUME NInv, MainStep
    PROVE  CInv' /\ Resting' /\ Life' /\ AbortHasCause'
  <1>1. ended = "no" /\ UNCHANGED <<out, busy, scope, faults>> /\ mode' = mode
    BY Zenon DEF MainStep, mode
  <1>2. /\ UInv /\ CInv /\ Resting /\ Life /\ "main" \in Callers /\ "main" \in Threads
        /\ faults \in Nat /\ faults' \in Nat /\ faults <= faults'
    BY <1>1, FaultSteps, ThreadSets DEF NInv
  <1>3. ASSUME NEW label, Goto("main", label)
        PROVE  /\ at'["main"] = label /\ at'["poll"] = at["poll"] /\ at'["http"] = at["http"]
               /\ \A l \in Loops : at'[l] = at[l]
               /\ \A d \in Callers : d # "main" => at'[d] = at[d]
    BY <1>2, <1>3, GotoFacts, ThreadSets
  <1>4. at["main"] # "hooked" => ~ InCall("main")
    BY <1>1 DEF InCall
  <1>5. CASE MainSpawns
    <2>1. /\ at["main"] = "spawn" /\ at'["main"] = "hook" /\ at'["poll"] = at["poll"] /\ NoCall
          /\ at'["http"] = at["http"] /\ UNCHANGED <<server, ended, killed>>
      BY <1>2, <1>5, ThreadSets DEF MainSpawns, UInv, Typed, Threaded, ends
    <2>2. CInv'
      BY <1>1, <1>2, <2>1, NoCallCalls
    <2>3. at["alert"] = "off"
      BY <1>2, <2>1, ThreadSets DEF Life
    <2>4. Resting'
      BY <1>1, <1>2, <2>1, <2>3, IdleStays, ThreadSets DEF Resting, InCall
    <2>5. Life'
      BY <1>1, <1>2, <2>1 DEF Life, Early, Late
    <2>. QED
      BY <1>1, <2>1, <2>2, <2>4, <2>5, CauseStays
  <1>6. CASE MainHooks
    <2>1. /\ at["main"] = "hook" /\ Begin("main", "hook", 0) /\ Goto("main", "hooked")
          /\ UNCHANGED <<server, ended, killed>>
      BY <1>6 DEF MainHooks, ends
    <2>2. InCall("main")'
      BY <1>3, <2>1 DEF InCall
    <2>3. CInv' /\ Resting'
      <3>1. \E m \in Methods, n \in Nat : Begin("main", m, n)
        BY <2>1, ThreadSets
      <3>. QED
        BY <1>1, <1>2, <1>3, <1>4, <2>1, <2>2, <3>1, ThreadMoves
    <2>4. Life'
      BY <1>1, <1>2, <1>3, <2>1 DEF Life, Early, Late
    <2>. QED
      BY <1>1, <2>1, <2>3, <2>4, CauseStays
  <1>7. CASE MainAborts
    <2>1. /\ at["main"] = "hooked" /\ call["main"].step = "done" /\ HookFails
          /\ ended' = "abort" /\ killed' /\ Goto("main", "down") /\ NoCall /\ server' = server
      BY <1>7 DEF MainAborts
    <2>2. CInv'
      BY <1>1, <1>2, <2>1, NoCallCalls
    <2>3. Resting'
      BY <1>2, <1>3, <2>1, IdleStays, ThreadSets DEF Resting, InCall
    <2>4. Life'
      BY <1>1, <1>2, <1>3, <2>1 DEF Life, Early, Late
    <2>5. Result("main") = "odd" => faults > 0 /\ call["main"].troubled
      <3>. SUFFICES ASSUME Result("main") = "odd" PROVE faults > 0 /\ call["main"].troubled
        OBVIOUS
      <3>1. ~ call["main"].bad /\ Len(call["main"].got) = 1 /\ call["main"].got[1].m = "odd"
        BY DEF Result
      <3>2. 1 \in DOMAIN call["main"].got
        BY <1>2, <3>1, CallTypes
      <3>. QED
        BY <1>2, <2>1, <3>1, <3>2 DEF CInv, OddHasCause, Clean
    <2>6. Result("main") = "bad" => call["main"].troubled
      <3>. SUFFICES ASSUME Result("main") = "bad", ~ call["main"].troubled PROVE FALSE
        OBVIOUS
      <3>1. ~ call["main"].bad /\ Len(call["main"].got) = 1
        BY <1>2, <2>1 DEF CInv, Clean
      <3>2. call["main"].got[1].m = "bad"
        BY <3>1 DEF Result
      <3>3. call["main"].got[1] \in Answers
        BY <1>2, <3>1, CallTypes
      <3>. QED
        BY <3>2, <3>3 DEF Answers
    <2>7. AbortHasCause'
      BY <1>1, <1>2, <2>1, <2>5, <2>6, IdleStays DEF AbortHasCause, HookFails
    <2>. QED
      BY <2>2, <2>3, <2>4, <2>7
  <1>8. CASE MainServes
    <2>1. /\ at["main"] = "hooked" /\ call["main"].step = "done" /\ Return("main")
          /\ server' = "spawned" /\ UNCHANGED <<ended, killed>>
          /\ at' = [at EXCEPT !["main"] = "serve", !["poll"] = IF mode = "poll" THEN "ask" ELSE @]
      BY <1>8 DEF MainServes, ends
    <2>2. /\ at'["main"] = "serve" /\ at'["alert"] = at["alert"] /\ at'["http"] = at["http"]
          /\ at'["poll"] = IF mode = "poll" THEN "ask" ELSE at["poll"]
      BY <1>2, <2>1, ThreadSets DEF UInv, Typed, Threaded
    <2>3. CInv'
      BY <1>1, <1>2, <2>1, ReturnCalls
    <2>4. at["poll"] = "off" /\ server = "none" /\ at["http"] = "off"
      BY <1>2, <2>1 DEF Life, Early
    <2>5. Resting'
      BY <1>1, <1>2, <2>1, <2>2, <2>4, IdleStays, ThreadSets DEF Resting, InCall
    <2>6. Life'
      BY <1>1, <1>2, <2>1, <2>2, <2>4 DEF Life, Early, Late
    <2>. QED
      BY <1>1, <2>1, <2>3, <2>5, <2>6, CauseStays
  <1>9. ASSUME NoCall, at["main"] # "hooked", ended' = ended, NEW label, Goto("main", label)
        PROVE  CInv' /\ Resting'
    BY <1>1, <1>2, <1>3, <1>4, <1>9, ThreadMoves
  <1>10. CASE MainStops
    <2>1. /\ at["main"] = "serve" /\ NoCall /\ UNCHANGED <<server, ended, killed>>
          /\ Goto("main", IF mode = "poll" THEN "joinPoll" ELSE "stopServer")
      BY <1>10 DEF MainStops, ends
    <2>2. mode = "poll" \/ mode = "webhook"
      BY <1>2, ScopesAssumption DEF UInv, Typed, mode
    <2>3. Life'
      BY <1>1, <1>2, <1>3, <2>1, <2>2 DEF Life, Early, Late
    <2>. QED
      BY <1>1, <1>9, <2>1, <2>3, CauseStays
  <1>11. CASE MainJoinsPoller
    <2>1. /\ at["main"] = "joinPoll" /\ NoCall /\ UNCHANGED <<server, ended, killed>>
          /\ Goto("main", "stopServer") /\ at["poll"] = "ended"
      BY <1>11 DEF MainJoinsPoller, ends
    <2>3. Life'
      BY <1>1, <1>2, <1>3, <2>1 DEF Life, Early, Late
    <2>. QED
      BY <1>1, <1>9, <2>1, <2>3, CauseStays
  <1>12. CASE MainStopsServer
    <2>1. /\ at["main"] = "stopServer" /\ NoCall /\ UNCHANGED <<ended, killed>>
          /\ Goto("main", "joinServer")
          /\ server' = IF server = "listening" THEN "stopping" ELSE server
      BY <1>12 DEF MainStopsServer, ends
    <2>3. Life'
      BY <1>1, <1>2, <1>3, <2>1 DEF Life, Early, Late
    <2>. QED
      BY <1>1, <1>9, <2>1, <2>3, CauseStays
  <1>13. CASE MainStopsConsumers
    <2>1. /\ at["main"] = "joinServer" /\ NoCall /\ UNCHANGED <<server, ended, killed>>
          /\ Goto("main", "join") /\ server = "ended"
      BY <1>13 DEF MainStopsConsumers, ends
    <2>3. Life'
      BY <1>1, <1>2, <1>3, <2>1 DEF Life, Early, Late
    <2>. QED
      BY <1>1, <1>9, <2>1, <2>3, CauseStays
  <1>14. CASE MainExits
    <2>1. /\ at["main"] = "join" /\ NoCall /\ UNCHANGED <<server, killed>>
          /\ Goto("main", "down") /\ ended' = "exit" /\ \A l \in Loops : at[l] = "ended"
      BY <1>14 DEF MainExits
    <2>2. CInv'
      BY <1>1, <1>2, <2>1, NoCallCalls
    <2>3. Resting'
      <3>1. ~ InCall("main") /\ ~ InCall("alert")
        BY <1>4, <2>1, ThreadSets DEF InCall
      <3>. QED
        BY <1>2, <1>3, <2>1, <3>1, IdleStays, ThreadSets DEF Resting, InCall
    <2>4. Life'
      BY <1>1, <1>2, <1>3, <2>1 DEF Life, Early, Late
    <2>. QED
      BY <2>1, <2>2, <2>3, <2>4, CauseStays
  <1>. QED
    BY <1>5, <1>6, <1>7, <1>8, <1>10, <1>11, <1>12, <1>13, <1>14 DEF MainStep

LEMMA EnvironmentCauses ==
    ASSUME NInv, Environment
    PROVE  CInv' /\ Resting' /\ Life' /\ AbortHasCause'
  <1>1. UNCHANGED <<scope, at, call, url, out, busy, server, killed, ended, faults>>
    BY Zenon DEF Environment, Publish, Update, Signal, handle, ends
  <1>2. CInv'
    BY <1>1, NoCallCalls, FaultSteps DEF NInv, NoCall
  <1>. QED
    BY <1>1, <1>2 DEF NInv, Resting, InCall, Life, Early, Late, AbortHasCause, mode

LEMMA RestartCauses ==
    ASSUME NInv, Restart
    PROVE  CInv' /\ Resting' /\ Life' /\ AbortHasCause'
  <1>1. /\ at' = Unspawned /\ call' = NoCalls /\ busy' = FALSE /\ server' = "none"
        /\ ended' = "no" /\ faults' = faults
    BY Zenon DEF Restart
  <1>2. (call = NoCalls /\ busy = FALSE /\ faults \in Nat => CInv)'
    BY FreshCalls, PTL
  <1>3. CInv'
    BY <1>1, <1>2, FaultSteps DEF NInv
  <1>4. Resting'
    BY <1>1 DEF Resting, NoCalls
  <1>5. Life'
    BY <1>1, FreshInv, ThreadSets DEF Life, Early, Late, Unspawned
  <1>. QED
    BY <1>1, <1>3, <1>4, <1>5, CauseStays

LEMMA NInit == Init => NInv
  <1>. SUFFICES ASSUME Init PROVE NInv
    OBVIOUS
  <1>1. CInv
    BY FreshCalls DEF Init
  <1>2. Resting
    BY DEF Init, Resting, NoCalls
  <1>3. Life
    BY FreshInv, ThreadSets DEF Init, Life, Early, Late, Unspawned
  <1>. QED
    BY <1>1, <1>2, <1>3, UInit DEF NInv, Init, AbortHasCause

LEMMA NNext ==
    ASSUME NInv, [Next]_vars
    PROVE  NInv'
  <1>1. UInv'
    BY UNext DEF NInv
  <1>2. CASE UNCHANGED vars
    <2>1. UNCHANGED <<scope, at, call, url, out, busy, server, killed, ended, faults>>
      BY <1>2, Zenon DEF vars, handle, ends
    <2>2. CInv'
      BY <2>1, NoCallCalls, FaultSteps DEF NInv, NoCall
    <2>. QED
      BY <1>1, <2>1, <2>2 DEF NInv, Resting, InCall, Life, Early, Late, AbortHasCause, mode
  <1>3. CASE Next
    <2>1. CInv' /\ Resting' /\ Life' /\ AbortHasCause'
      BY <1>3, CallCauses, LoopCauses, PollCauses, ServerCauses, MainCauses, EnvironmentCauses,
         RestartCauses DEF Next
    <2>. QED
      BY <1>1, <2>1 DEF NInv
  <1>. QED
    BY <1>2, <1>3

\* main dies with its threads unjoined only if the call about the webhook met an
\* alert on the handle or failed; in poll mode it must have failed, in this
\* process or before (main.cpp:178, 206-208).
THEOREM AbortsHaveCause == Spec => []AbortHasCause
  <1>1. NInv => AbortHasCause
    BY DEF NInv
  <1>. QED
    BY <1>1, NInit, NNext, PTL DEF Spec

-----------------------------------------------------------------------------
(* What a consumer has in hand and what it owes.                           *)

Rising(s) == \A i, j \in DOMAIN s : i < j => s[i] < s[j]

\* A batch is in hand while its entries are worked on, in order, and they are
\* not acknowledged.
HandOf(l) ==
    /\ pending[l] \subseteq 1 .. delivered[l]
    /\ Positions(todo[l]) \subseteq pending[l] /\ Rising(todo[l])
    /\ at[l] \notin Busy => todo[l] = <<>>
    /\ groupStart[l] \in {NoGroup} \cup 0 .. Len(stream[l])

\* While nothing failed, what is not in hand and not acknowledged is no object.
OwedOf(l) ==
    faults = 0 /\ ~ killed =>
        \A k \in pending[l] : stream[l][k] = "odd" \/ k \in Positions(todo[l])

HandInv ==
    /\ pending \in [Loops -> SUBSET Nat] /\ groupStart \in [Loops -> Int]
    /\ \A l \in Loops : HandOf(l) /\ OwedOf(l)

\* The rest of a batch.
LEMMA TailPositions ==
    ASSUME NEW s \in Seq(Nat), s # <<>>, Rising(s)
    PROVE  /\ Positions(Tail(s)) = Positions(s) \ {Head(s)} /\ Rising(Tail(s))
           /\ Head(s) \in Positions(s) /\ Head(s) = s[1]
           /\ \A x \in Positions(Tail(s)) : Head(s) < x
  <1>1. /\ DOMAIN Tail(s) = 1 .. Len(s) - 1 /\ DOMAIN s = 1 .. Len(s) /\ Len(s) \in Nat
        /\ \A i \in 1 .. Len(s) - 1 : Tail(s)[i] = s[i + 1] /\ i + 1 \in DOMAIN s
        /\ Head(s) = s[1] /\ 1 \in DOMAIN s
    OBVIOUS
  <1>2. Rising(Tail(s))
    <2>1. ASSUME NEW i \in DOMAIN Tail(s), NEW j \in DOMAIN Tail(s), i < j
          PROVE  Tail(s)[i] < Tail(s)[j]
      <3>1. i + 1 \in DOMAIN s /\ j + 1 \in DOMAIN s /\ i + 1 < j + 1
        BY <1>1, <2>1
      <3>. QED
        BY <1>1, <2>1, <3>1 DEF Rising
    <2>. QED
      BY <2>1 DEF Rising
  <1>3. ASSUME NEW i \in DOMAIN Tail(s)
        PROVE  s[1] < Tail(s)[i] /\ Tail(s)[i] \in Positions(s)
    <2>1. i + 1 \in DOMAIN s /\ 1 < i + 1 /\ Tail(s)[i] = s[i + 1]
      BY <1>1, <1>3
    <2>. QED
      BY <1>1, <2>1 DEF Rising, Positions
  <1>4. ASSUME NEW x \in Positions(s), x # s[1]
        PROVE  x \in Positions(Tail(s))
    <2>1. PICK i \in DOMAIN s : s[i] = x
      BY <1>4 DEF Positions
    <2>2. i - 1 \in DOMAIN Tail(s) /\ Tail(s)[i - 1] = x
      <3>1. i # 1
        BY <1>4, <2>1
      <3>2. i - 1 \in 1 .. Len(s) - 1 /\ (i - 1) + 1 = i
        BY <1>1, <3>1
      <3>. QED
        BY <1>1, <2>1, <3>2
    <2>. QED
      BY <2>2 DEF Positions
  <1>5. \A x \in Positions(Tail(s)) : s[1] < x /\ x \in Positions(s) /\ x # s[1]
    <2>1. s[1] \in Nat
      BY <1>1
    <2>. QED
      BY <1>3, <2>1 DEF Positions
  <1>6. s[1] \in Positions(s)
    BY <1>1 DEF Positions
  <1>. QED
    BY <1>1, <1>2, <1>4, <1>5, <1>6

\* One loop's part changes.
LEMMA HandsSet ==
    ASSUME NInv, HandInv, NEW l \in Loops, stream' = stream, killed' = killed,
           faults' \in Nat, faults <= faults', NEW p \in SUBSET Nat, NEW t, NEW d, NEW g \in Int,
           pending' = [pending EXCEPT ![l] = p], todo' = [todo EXCEPT ![l] = t],
           delivered' = [delivered EXCEPT ![l] = d], groupStart' = [groupStart EXCEPT ![l] = g],
           \A k \in Loops : k # l => at'[k] = at[k],
           p \subseteq 1 .. d, Positions(t) \subseteq p, Rising(t),
           at'[l] \notin Busy => t = <<>>, g \in {NoGroup} \cup 0 .. Len(stream[l]),
           faults' = 0 /\ ~ killed => \A k \in p : stream[l][k] = "odd" \/ k \in Positions(t)
    PROVE  HandInv'
  <1>1. /\ pending \in [Loops -> SUBSET Nat] /\ groupStart \in [Loops -> Int]
        /\ todo \in [Loops -> Seq(Nat)] /\ delivered \in [Loops -> Nat] /\ faults \in Nat
    BY FaultSteps DEF HandInv, NInv, UInv, Typed
  <1>2. pending' \in [Loops -> SUBSET Nat] /\ groupStart' \in [Loops -> Int]
    BY <1>1
  <1>3. pending'[l] = p /\ todo'[l] = t /\ delivered'[l] = d /\ groupStart'[l] = g
    BY <1>1
  <1>4. HandOf(l)' /\ OwedOf(l)'
    BY <1>3 DEF HandOf, OwedOf
  <1>5. ASSUME NEW k \in Loops, k # l
        PROVE  HandOf(k)' /\ OwedOf(k)'
    <2>1. /\ pending'[k] = pending[k] /\ todo'[k] = todo[k] /\ delivered'[k] = delivered[k]
          /\ groupStart'[k] = groupStart[k] /\ at'[k] = at[k] /\ stream'[k] = stream[k]
      BY <1>1, <1>5
    <2>2. HandOf(k) /\ OwedOf(k)
      BY DEF HandInv
    <2>3. faults' = 0 => faults = 0
      BY <1>1
    <2>. QED
      BY <2>1, <2>2, <2>3 DEF HandOf, OwedOf
  <1>. QED
    BY <1>2, <1>4, <1>5 DEF HandInv

LEMMA LoopHands ==
    ASSUME NInv, HandInv, NEW l \in Loops, LoopStep(l)
    PROVE  HandInv'
  <1>1. /\ stream' = stream /\ killed' = killed /\ UInv /\ CInv /\ l \in Threads
        /\ faults \in Nat
    BY FaultSteps, ThreadSets DEF LoopStep, ends, NInv
  <1>2. /\ pending = [pending EXCEPT ![l] = pending[l]] /\ todo = [todo EXCEPT ![l] = todo[l]]
        /\ delivered = [delivered EXCEPT ![l] = delivered[l]]
        /\ groupStart = [groupStart EXCEPT ![l] = groupStart[l]]
        /\ pending[l] \in SUBSET Nat /\ todo[l] \in Seq(Nat) /\ delivered[l] \in Nat
        /\ groupStart[l] \in Int /\ Len(stream[l]) \in Nat /\ delivered[l] <= Len(stream[l])
    BY DEF HandInv, NInv, UInv, Typed
  <1>3. HandOf(l) /\ OwedOf(l)
    BY DEF HandInv
  <1>4. faults' \in Nat /\ faults <= faults' /\ (Fault => faults' > 0) /\ (NoFault => faults' = faults)
    <2>1. NoFault \/ faults' = faults \/ Fault
      BY DEF LoopStep, LoopStarts, LoopReads, LoopEnds, LoopEntry, AlertSent, LoopAcks
    <2>. QED
      BY <1>1, <2>1, FaultSteps DEF NoFault
  <1>5. \A k \in Loops : k # l => at'[k] = at[k]
    <2>1. at' = at \/ \E label : Goto(l, label)
      BY DEF LoopStep, LoopStarts, LoopReads, LoopEnds, LoopEntry, LoopAcks, AlertSent, NextEntry
    <2>. QED
      BY <1>1, <2>1, GotoFacts, ThreadSets
  <1>6. \A label : Goto(l, label) => at'[l] = label
    BY <1>1, GotoFacts
  <1>7. ASSUME todo[l] # <<>>, NextEntry(l)
        PROVE  /\ todo' = [todo EXCEPT ![l] = Tail(todo[l])]
               /\ Positions(Tail(todo[l])) = Positions(todo[l]) \ {Head(todo[l])}
               /\ Rising(Tail(todo[l])) /\ Head(todo[l]) \in Positions(todo[l])
               /\ at'[l] \notin Busy => Tail(todo[l]) = <<>>
    <2>1. at'[l] = (IF Tail(todo[l]) = <<>> THEN "read" ELSE "entry")
      BY <1>6, <1>7 DEF NextEntry
    <2>. QED
      BY <1>2, <1>3, <1>7, <2>1, TailPositions DEF NextEntry, HandOf, Busy
  <1>8. ASSUME UNCHANGED <<pending, todo, delivered, groupStart>>,
               at'[l] \in Busy \/ at[l] \notin Busy
        PROVE  HandInv'
    <2>1. at'[l] \notin Busy => todo[l] = <<>>
      BY <1>3, <1>8 DEF HandOf
    <2>2. faults' = 0 /\ ~ killed => \A k \in pending[l] : stream[l][k] = "odd" \/ k \in Positions(todo[l])
      BY <1>1, <1>3, <1>4 DEF OwedOf
    <2>3. /\ pending[l] \subseteq 1 .. delivered[l] /\ Positions(todo[l]) \subseteq pending[l]
          /\ Rising(todo[l]) /\ groupStart[l] \in {NoGroup} \cup 0 .. Len(stream[l])
      BY <1>3 DEF HandOf
    <2>4. /\ pending' = [pending EXCEPT ![l] = pending[l]] /\ todo' = [todo EXCEPT ![l] = todo[l]]
          /\ delivered' = [delivered EXCEPT ![l] = delivered[l]]
          /\ groupStart' = [groupStart EXCEPT ![l] = groupStart[l]]
      BY <1>2, <1>8
    <2>5. pending[l] \in SUBSET Nat /\ groupStart[l] \in Int
      BY <1>2
    <2>. QED
      BY <1>1, <1>4, <1>5, <2>1, <2>2, <2>3, <2>4, <2>5, HandsSet
  <1>9. CASE LoopStarts(l)
    <2>1. /\ pending' = pending /\ todo' = todo /\ at[l] = "start" /\ at'[l] = "read"
          /\ \/ UNCHANGED <<groupStart, delivered>>
             \/ /\ groupStart' = [groupStart EXCEPT ![l] = Len(stream[l])]
                /\ delivered' = [delivered EXCEPT ![l] = Len(stream[l])]
      BY <1>6, <1>9 DEF LoopStarts, CreateGroup
    <2>2. CASE UNCHANGED <<groupStart, delivered>>
      BY <1>8, <2>1, <2>2 DEF Busy
    <2>3. CASE /\ groupStart' = [groupStart EXCEPT ![l] = Len(stream[l])]
               /\ delivered' = [delivered EXCEPT ![l] = Len(stream[l])]
      <3>. DEFINE n == Len(stream[l])
      <3>1. n \in Int /\ n \in {NoGroup} \cup 0 .. n /\ pending[l] \subseteq 1 .. n
        <4>1. pending[l] \subseteq 1 .. delivered[l]
          BY <1>3 DEF HandOf
        <4>. QED
          BY <1>2, <4>1
      <3>2. at[l] \notin Busy /\ todo[l] = <<>>
        BY <1>3, <2>1 DEF HandOf, Busy
      <3>3. faults' = 0 /\ ~ killed => \A k \in pending[l] : stream[l][k] = "odd" \/ k \in Positions(todo[l])
        BY <1>1, <1>3, <1>4 DEF OwedOf
      <3>4. Positions(todo[l]) \subseteq pending[l] /\ Rising(todo[l])
        BY <1>3 DEF HandOf
      <3>5. pending' = [pending EXCEPT ![l] = pending[l]] /\ todo' = [todo EXCEPT ![l] = todo[l]]
            /\ groupStart' = [groupStart EXCEPT ![l] = n] /\ delivered' = [delivered EXCEPT ![l] = n]
        BY <1>2, <2>1, <2>3
      <3>. HIDE DEF n
      <3>6. n = Len(stream[l])
        BY DEF n
      <3>. QED
        BY <1>1, <1>2, <1>4, <1>5, <3>1, <3>2, <3>3, <3>4, <3>5, <3>6, HandsSet
    <2>. QED
      BY <2>1, <2>2, <2>3
  <1>10. CASE LoopReads(l)
    <2>. DEFINE new == NewPositions(l)
                lag == Len(stream[l]) - delivered[l]
                m == IF lag < MaxRead THEN lag ELSE MaxRead
    <2>1. lag \in Nat /\ lag > 0 /\ m \in Nat /\ m > 0 /\ at[l] = "read"
      BY <1>2, <1>10, ReadAssumption DEF LoopReads
    <2>2. new = [k \in 1 .. m |-> delivered[l] + k]
      BY DEF NewPositions
    <2>. HIDE DEF m, new
    <2>3. DOMAIN new = 1 .. m /\ Len(new) = m /\ \A k \in 1 .. m : new[k] = delivered[l] + k
      BY <2>1, <2>2
    <2>. DEFINE d == delivered[l] + m
                p == pending[l] \cup Positions(new)
    <2>4. d \in Nat /\ delivered[l] <= d
      BY <1>2, <2>1
    <2>5. Rising(new)
      BY <1>2, <2>1, <2>3 DEF Rising
    <2>6. \A x \in Positions(new) : x \in Nat /\ x \in 1 .. d
      BY <1>2, <2>1, <2>3 DEF Positions
    <2>7. p \in SUBSET Nat /\ p \subseteq 1 .. d
      <3>1. pending[l] \subseteq 1 .. delivered[l]
        BY <1>3 DEF HandOf
      <3>. QED
        BY <1>2, <2>4, <2>6, <3>1
    <2>8. /\ delivered' = [delivered EXCEPT ![l] = d] /\ groupStart' = [groupStart EXCEPT ![l] = groupStart[l]]
          /\ pending' = [pending EXCEPT ![l] = p]
          /\ \/ NoFault /\ todo' = [todo EXCEPT ![l] = new] /\ at'[l] = "entry"
             \/ Fault /\ todo' = todo /\ at' = at
      BY <1>2, <1>6, <1>10, <2>3 DEF LoopReads, new
    <2>9. todo[l] = <<>> /\ groupStart[l] \in {NoGroup} \cup 0 .. Len(stream[l])
      BY <1>3, <2>1 DEF HandOf, Busy
    <2>. HIDE DEF p, d
    <2>10. CASE NoFault /\ todo' = [todo EXCEPT ![l] = new] /\ at'[l] = "entry"
      <3>1. at'[l] \in Busy /\ Positions(new) \subseteq p
        BY <2>10 DEF Busy, p
      <3>2. faults' = 0 /\ ~ killed => \A k \in p : stream[l][k] = "odd" \/ k \in Positions(new)
        <4>1. \A k : k \notin Positions(todo[l])
          BY <2>9 DEF Positions
        <4>. QED
          BY <1>3, <1>4, <2>10, <4>1 DEF OwedOf, p
      <3>. QED
        BY <1>1, <1>2, <1>4, <1>5, <2>5, <2>7, <2>8, <2>9, <2>10, <3>1, <3>2, HandsSet
    <2>11. CASE Fault /\ todo' = todo /\ at' = at
      <3>1. Positions(todo[l]) \subseteq p /\ Rising(todo[l]) /\ faults' # 0
        BY <1>3, <1>4, <2>11 DEF HandOf, p
      <3>. QED
        BY <1>1, <1>2, <1>4, <1>5, <2>7, <2>8, <2>9, <2>11, <3>1, HandsSet
    <2>. QED
      BY <2>8, <2>10, <2>11
  <1>11. CASE LoopEnds(l)
    BY <1>8, <1>11 DEF LoopEnds, Busy
  <1>12. ASSUME NextEntry(l), todo[l] # <<>>, UNCHANGED <<delivered, groupStart>>,
                NEW p \in SUBSET pending[l], pending' = [pending EXCEPT ![l] = p],
                pending[l] \ {Head(todo[l])} \subseteq p,
                faults' = 0 /\ ~ killed => Head(todo[l]) \notin p \/ Kind(l) = "odd"
         PROVE  HandInv'
    <2>. DEFINE t == Tail(todo[l])
    <2>1. /\ todo' = [todo EXCEPT ![l] = t] /\ Positions(t) = Positions(todo[l]) \ {Head(todo[l])}
          /\ Rising(t)
          /\ at'[l] \notin Busy => t = <<>>
      BY <1>7, <1>12
    <2>2. p \in SUBSET Nat /\ p \subseteq 1 .. delivered[l] /\ Positions(t) \subseteq p
          /\ groupStart[l] \in {NoGroup} \cup 0 .. Len(stream[l])
      BY <1>2, <1>3, <1>12, <2>1 DEF HandOf
    <2>3. ASSUME faults' = 0, ~ killed, NEW k \in p
          PROVE  stream[l][k] = "odd" \/ k \in Positions(t)
      <3>1. stream[l][k] = "odd" \/ k \in Positions(todo[l])
        BY <1>1, <1>3, <1>4, <1>12, <2>3 DEF OwedOf
      <3>2. k = Head(todo[l]) => stream[l][k] = "odd"
        BY <1>12, <2>3 DEF Kind
      <3>. QED
        BY <2>1, <3>1, <3>2
    <2>4. /\ delivered' = [delivered EXCEPT ![l] = delivered[l]]
          /\ groupStart' = [groupStart EXCEPT ![l] = groupStart[l]] /\ groupStart[l] \in Int
          /\ pending' = [pending EXCEPT ![l] = p]
      BY <1>2, <1>12
    <2>. HIDE DEF t
    <2>. QED
      BY <1>1, <1>4, <1>5, <2>1, <2>2, <2>3, <2>4, HandsSet
  <1>13. CASE LoopEntry(l)
    <2>1. /\ UNCHANGED <<delivered, groupStart, pending>> /\ at[l] = "entry" /\ todo[l] # <<>>
      BY <1>1, <1>13 DEF LoopEntry, UInv, Typed
    <2>2. CASE Kind(l) = "odd" /\ NextEntry(l)
      BY <1>2, <1>12, <2>1, <2>2
    <2>3. CASE todo' = todo /\ (Goto(l, "send") \/ Goto(l, "ack"))
      BY <1>6, <1>8, <2>1, <2>3 DEF Busy
    <2>. QED
      BY <1>13, <2>2, <2>3 DEF LoopEntry
  <1>14. CASE l = "alert" /\ AlertSent
    <2>1. /\ UNCHANGED <<delivered, groupStart, pending, faults>> /\ at[l] = "send" /\ todo[l] # <<>>
          /\ call["alert"].step = "done"
      BY <1>1, <1>14 DEF AlertSent, UInv, Typed
    <2>2. CASE Result("alert") = "odd" /\ NextEntry(l)
      <3>1. Len(call["alert"].got) = 1 /\ call["alert"].got[1].m = "odd"
        BY <2>2 DEF Result
      <3>2. 1 \in DOMAIN call["alert"].got
        BY <1>1, <3>1, CallTypes, ThreadSets
      <3>3. faults > 0
        BY <1>1, <3>1, <3>2, ThreadSets DEF CInv, OddHasCause
      <3>4. pending' = [pending EXCEPT ![l] = pending[l]] /\ faults' # 0
        BY <1>1, <1>2, <2>1, <3>3
      <3>5. pending[l] \in SUBSET pending[l] /\ pending[l] \ {Head(todo[l])} \subseteq pending[l]
        OBVIOUS
      <3>. QED
        BY <1>12, <2>1, <2>2, <3>4, <3>5
    <2>3. CASE todo' = todo /\ Goto(l, "ack")
      BY <1>6, <1>8, <2>1, <2>3 DEF Busy
    <2>. QED
      BY <1>14, <2>2, <2>3 DEF AlertSent
  <1>15. CASE LoopAcks(l)
    <2>. DEFINE q == pending[l] \ {Head(todo[l])}
    <2>1. /\ UNCHANGED <<delivered, groupStart>> /\ at[l] = "ack" /\ todo[l] # <<>> /\ NextEntry(l)
          /\ pending' = [pending EXCEPT ![l] = q] \/ (Fault /\ pending' = pending)
      BY <1>1, <1>15 DEF LoopAcks, UInv, Typed
    <2>2. CASE pending' = [pending EXCEPT ![l] = q]
      BY <1>12, <2>1, <2>2
    <2>3. CASE Fault /\ pending' = pending
      <3>1. pending' = [pending EXCEPT ![l] = pending[l]] /\ faults' # 0
        BY <1>2, <1>4, <2>3
      <3>2. pending[l] \in SUBSET pending[l] /\ pending[l] \ {Head(todo[l])} \subseteq pending[l]
        OBVIOUS
      <3>. QED
        BY <1>12, <2>1, <3>1, <3>2
    <2>. QED
      BY <2>1, <2>2, <2>3
  <1>. QED
    BY <1>9, <1>10, <1>11, <1>13, <1>14, <1>15 DEF LoopStep

\* The consumers' part is left alone, while a stream may grow.
LEMMA HandsStay ==
    ASSUME NInv, HandInv, UNCHANGED <<pending, todo, delivered, groupStart>>,
           faults' \in Nat, faults <= faults', killed => killed',
           \A l \in Loops : at'[l] = at[l] \/ (at[l] \notin Busy /\ at'[l] \notin Busy),
           \A l \in Loops :
               /\ Len(stream'[l]) \in Nat /\ Len(stream[l]) <= Len(stream'[l])
               /\ \A k \in 1 .. Len(stream[l]) : stream'[l][k] = stream[l][k]
    PROVE  HandInv'
  <1>1. ASSUME NEW l \in Loops
        PROVE  HandOf(l)' /\ OwedOf(l)'
    <2>1. /\ HandOf(l) /\ OwedOf(l) /\ delivered[l] \in Nat /\ Len(stream[l]) \in Nat
          /\ delivered[l] <= Len(stream[l]) /\ faults \in Nat
      BY FaultSteps DEF HandInv, NInv, UInv, Typed
    <2>2. HandOf(l)'
      <3>1. groupStart'[l] \in {NoGroup} \cup 0 .. Len(stream'[l])
        <4>1. groupStart[l] \in {NoGroup} \cup 0 .. Len(stream[l])
          BY <2>1 DEF HandOf
        <4>2. 0 .. Len(stream[l]) \subseteq 0 .. Len(stream'[l])
          BY <2>1
        <4>. QED
          BY <4>1, <4>2
      <3>. QED
        BY <2>1, <3>1 DEF HandOf
    <2>3. OwedOf(l)'
      <3>1. ASSUME faults' = 0, ~ killed', NEW k \in pending[l]
            PROVE  stream'[l][k] = "odd" \/ k \in Positions(todo[l])
        <4>1. faults = 0 /\ ~ killed
          BY <2>1, <3>1
        <4>2. k \in 1 .. delivered[l]
          BY <2>1, <3>1 DEF HandOf
        <4>3. k \in 1 .. Len(stream[l])
          BY <2>1, <4>2
        <4>. QED
          BY <2>1, <3>1, <4>1, <4>3 DEF OwedOf
      <3>. QED
        BY <3>1 DEF OwedOf
    <2>. QED
      BY <2>2, <2>3
  <1>. QED
    BY <1>1 DEF HandInv

LEMMA SameStream ==
    ASSUME NInv, stream' = stream
    PROVE  \A l \in Loops :
               /\ Len(stream'[l]) \in Nat /\ Len(stream[l]) <= Len(stream'[l])
               /\ \A k \in 1 .. Len(stream[l]) : stream'[l][k] = stream[l][k]
  BY DEF NInv, UInv, Typed

\* A new process has nothing in hand; unless one was killed or died, the last
\* one had nothing either.
LEMMA RestartHands ==
    ASSUME NInv, HandInv, Restart
    PROVE  HandInv'
  <1>1. /\ UNCHANGED <<stream, pending, delivered, groupStart, faults>>
        /\ at' = Unspawned /\ todo' = NoBatches /\ (killed => killed')
        /\ ended = "no" => killed'
    <2>1. /\ UNCHANGED <<stream, pending, delivered, groupStart, faults>>
          /\ at' = Unspawned /\ todo' = NoBatches
      BY Zenon DEF Restart, redis
    <2>2. (ended # "no" /\ killed' = killed) \/ (ended = "no" /\ killed' = TRUE)
      BY DEF Restart
    <2>. QED
      BY <2>1, <2>2
  <1>2. ASSUME NEW l \in Loops
        PROVE  HandOf(l)' /\ OwedOf(l)'
    <2>1. todo'[l] = <<>> /\ HandOf(l) /\ OwedOf(l)
      BY <1>1 DEF NoBatches, HandInv
    <2>2. Positions(todo'[l]) = {} /\ Rising(todo'[l])
      BY <2>1 DEF Positions, Rising
    <2>3. HandOf(l)'
      BY <1>1, <2>1, <2>2 DEF HandOf
    <2>4. ASSUME ~ killed'
          PROVE  Positions(todo[l]) = {}
      <3>1. ended = "exit"
        BY <1>1, <2>4 DEF NInv, Life
      <3>2. at[l] = "ended"
        BY <3>1 DEF NInv, Life
      <3>3. todo[l] = <<>>
        BY <2>1, <3>2 DEF HandOf, Busy
      <3>. QED
        BY <3>3 DEF Positions
    <2>5. OwedOf(l)'
      BY <1>1, <2>1, <2>4 DEF OwedOf
    <2>. QED
      BY <2>3, <2>5
  <1>. QED
    BY <1>1, <1>2 DEF HandInv

LEMMA HandNext ==
    ASSUME NInv, HandInv, [Next]_vars
    PROVE  HandInv'
  <1>0. /\ faults \in Nat /\ UInv /\ at = [t \in Threads |-> at[t]]
        /\ (NoFault \/ faults' = faults \/ Fault => faults' \in Nat /\ faults <= faults')
    BY FaultSteps DEF NInv, UInv, Typed, Threaded
  <1>1. CASE UNCHANGED vars
    <2>1. UNCHANGED <<stream, pending, todo, delivered, groupStart, faults, killed, at>>
      BY <1>1, Zenon DEF vars, redis, ends
    <2>. QED
      BY <1>0, <2>1, HandsStay, SameStream
  <1>2. ASSUME NEW c \in Callers, CallStep(c)
        PROVE  HandInv'
    <2>1. UNCHANGED <<stream, pending, todo, delivered, groupStart, killed, at>>
      BY <1>2, Zenon DEF CallStep, redis, ends
    <2>2. faults' = faults \/ Fault
      BY <1>2 DEF CallStep, Perform, Answer, NoFault
    <2>. QED
      BY <1>0, <2>1, <2>2, HandsStay, SameStream
  <1>3. CASE PollStep
    <2>1. UNCHANGED <<stream, pending, todo, delivered, groupStart, killed>>
      BY <1>3, Zenon DEF PollStep, redis, ends
    <2>2. faults' = faults \/ Fault
      BY <1>3 DEF PollStep, PollAsks, PollEnds, PollAnswered, PollUpdate, PollNoticed, NoFault
    <2>3. \E label : Goto("poll", label)
      BY <1>3 DEF PollStep, PollAsks, PollEnds, PollAnswered, PollUpdate, PollNoticed, Advance, GiveUp
    <2>4. \A l \in Loops : at'[l] = at[l]
      BY <1>0, <2>3, GotoFacts, ThreadSets
    <2>. QED
      BY <1>0, <2>1, <2>2, <2>4, HandsStay, SameStream
  <1>4. CASE ServerStep
    <2>1. UNCHANGED <<stream, pending, todo, delivered, groupStart, killed>>
      BY <1>4, Zenon DEF ServerStep, redis, ends
    <2>2. faults' = faults \/ Fault
      BY <1>4 DEF ServerStep, ServerListens, ServerEnds, HttpRefuses, HttpRefused, HttpPublishes, NoFault
    <2>3. at' = at \/ \E label : Goto("http", label)
      BY <1>4 DEF ServerStep, ServerListens, ServerEnds, HttpRefuses, HttpRefused, HttpPublishes
    <2>4. \A l \in Loops : at'[l] = at[l]
      BY <1>0, <2>3, GotoFacts, ThreadSets
    <2>. QED
      BY <1>0, <2>1, <2>2, <2>4, HandsStay, SameStream
  <1>5. CASE MainStep
    <2>1. UNCHANGED <<stream, pending, todo, delivered, groupStart, faults>> /\ (killed => killed')
      <3>1. UNCHANGED <<stream, pending, todo, delivered, groupStart, faults>>
        BY <1>5, Zenon DEF MainStep, redis
      <3>2. killed' = killed \/ killed'
        BY <1>5 DEF MainStep, MainSpawns, MainHooks, MainAborts, MainServes, MainStops,
           MainJoinsPoller, MainStopsServer, MainStopsConsumers, MainExits, ends
      <3>. QED
        BY <3>1, <3>2
    <2>2. \A l \in Loops : at'[l] = at[l] \/ (at[l] \notin Busy /\ at'[l] \notin Busy)
      <3>1. CASE MainSpawns
        <4>1. \A l \in Loops : at[l] = "off"
          BY <3>1 DEF MainSpawns, NInv, Life
        <4>2. at'["alert"] = "start" /\ at'["reply"] = "start"
          BY <1>0, <3>1, ThreadSets DEF MainSpawns
        <4>. QED
          BY <4>1, <4>2, ThreadSets DEF Busy
      <3>2. CASE MainServes
        BY <1>0, <3>2, ThreadSets DEF MainServes
      <3>3. CASE \E label : Goto("main", label)
        BY <1>0, <3>3, GotoFacts, ThreadSets
      <3>. QED
        BY <1>5, <3>1, <3>2, <3>3 DEF MainStep, MainHooks, MainAborts, MainStops,
           MainJoinsPoller, MainStopsServer, MainStopsConsumers, MainExits
    <2>. QED
      BY <1>0, <2>1, <2>2, HandsStay, SameStream
  <1>6. CASE Environment
    <2>1. UNCHANGED <<pending, todo, delivered, groupStart, faults, killed, at>>
      BY <1>6, Zenon DEF Environment, Publish, Update, Signal, redis, ends
    <2>2. CASE stream' = stream
      BY <1>0, <2>1, <2>2, HandsStay, SameStream
    <2>3. ASSUME NEW l \in Loops, Publish(l)
          PROVE  HandInv'
      <3>1. stream \in [Loops -> Seq(Kinds)]
        BY <1>0 DEF UInv, Typed
      <3>2. PICK e : stream' = [stream EXCEPT ![l] = Append(stream[l], e)]
        BY <2>3 DEF Publish
      <3>3. ASSUME NEW k \in Loops
            PROVE  /\ Len(stream'[k]) \in Nat /\ Len(stream[k]) <= Len(stream'[k])
                   /\ \A i \in 1 .. Len(stream[k]) : stream'[k][i] = stream[k][i]
        BY <3>1, <3>2
      <3>. QED
        BY <1>0, <2>1, <3>3, HandsStay
    <2>. QED
      BY <1>6, <2>2, <2>3 DEF Environment, Update, Signal, redis
  <1>. QED
    BY <1>1, <1>2, <1>3, <1>4, <1>5, <1>6, LoopHands, RestartHands DEF Next

LEMMA HandInit == Init => HandInv
  <1>. SUFFICES ASSUME Init PROVE HandInv
    OBVIOUS
  <1>1. \A l \in Loops : pending[l] = {} /\ todo[l] = <<>> /\ groupStart[l] = NoGroup
    BY DEF Init, NoBatches
  <1>2. pending \in [Loops -> SUBSET Nat] /\ groupStart \in [Loops -> Int]
    BY DEF Init, NoGroup
  <1>3. Positions(<<>>) = {} /\ Rising(<<>>)
    BY DEF Positions, Rising
  <1>. QED
    BY <1>1, <1>2, <1>3 DEF HandInv, HandOf, OwedOf

\* A process that exits has joined all its threads, no call is under way, and
\* while nothing failed and no process died it owes the groups nothing but what
\* is no object (main.cpp:199-230).
THEOREM EndsClean == Spec => []CleanEnd
  <1>1. NInv /\ HandInv => CleanEnd
    <2>. SUFFICES ASSUME NInv, HandInv, ended = "exit" PROVE CleanEnd
      BY DEF CleanEnd
    <2>1. /\ at["main"] = "down" /\ (\A l \in Loops : at[l] = "ended")
          /\ at["poll"] \in {"off", "ended"} /\ server = "ended" /\ at["http"] = "idle"
      BY DEF NInv, Life, Late
    <2>2. ASSUME NEW c \in Callers
          PROVE  ~ Active(c)
      <3>1. call[c] = Idle
        BY <2>1, ThreadSets DEF NInv, Resting, InCall
      <3>. QED
        BY <3>1, IdleStep DEF Active
    <2>3. ASSUME faults = 0, ~ killed, NEW l \in Loops, NEW k \in pending[l]
          PROVE  stream[l][k] = "odd"
      <3>1. todo[l] = <<>>
        BY <2>1 DEF HandInv, HandOf, Busy
      <3>. QED
        BY <2>3, <3>1 DEF HandInv, OwedOf, Positions
    <2>. QED
      BY <2>1, <2>2, <2>3 DEF CleanEnd
  <1>. QED
    BY <1>1, NInit, NNext, HandInit, HandNext, PTL DEF Spec

-----------------------------------------------------------------------------
(* What becomes of an alert.                                               *)

Sends(k) == [m |-> "alert", n |-> k]
Mine(k)  == call["alert"].step # "idle" /\ call["alert"].req.n = k

\* The consumer's call is about the entry at hand, an alert it has tried.
HeadCalled ==
    /\ at["alert"] = "send" /\ call["alert"].step # "idle" =>
          call["alert"].req = Sends(Head(Batch))
    /\ at["alert"] = "send" => stream["alert"][Head(Batch)] = "plain"
    /\ at["alert"] \in {"send", "ack"} /\ stream["alert"][Head(Batch)] = "plain" =>
          Head(Batch) \in Positions(tried)

\* Only what was tried is on a wire or arrived.
TriedOnly ==
    /\ \A c \in Callers : call[c].wire.m = "alert" => call[c].wire.n \in Positions(tried)
    /\ url.m = "alert" => url.n \in Positions(tried)
    /\ Positions(received) \subseteq Positions(tried) /\ received \in Seq(Nat)

AtMost(k) == \A i, j \in DOMAIN received : received[i] = k /\ received[j] = k => i = j

\* No call but its own carries the alert k, which arrives with that call's
\* answer: before it is acknowledged.
OwnOf(k) ==
    /\ \A c \in Callers : ~ (c = "alert" /\ Mine(k)) =>
          /\ call[c].step = "perform" => url # Sends(k)
          /\ call[c].step = "wait" => call[c].wire # Sends(k)
    /\ AtMost(k)
    /\ Mine(k) /\ Active("alert") => k \notin Positions(received)
    /\ Mine(k) /\ call["alert"].step = "done" => k \in Positions(received)
    /\ at["alert"] = "ack" /\ Head(Batch) = k => k \in Positions(received)
    /\ k \notin pending["alert"] => k \in Positions(received)
Owns == \A k \in Positions(tried) : k \notin Troubled => OwnOf(k)

\* An alert that was handed out and not tried is not acknowledged.
Untried ==
    \A k \in 1 .. Last_ :
        stream["alert"][k] = "plain" /\ Handed("alert", k) /\ k \notin Positions(tried) =>
            k \in pending["alert"]

AlertInv == HeadCalled /\ TriedOnly /\ Owns /\ Untried

GInv == NInv /\ HandInv /\ AInv /\ AlertInv

LEMMA HeadFacts ==
    ASSUME GInv
    PROVE  /\ Batch \in Seq(Nat) /\ Last_ \in Nat /\ Len(stream["alert"]) \in Nat
           /\ Last_ <= Len(stream["alert"]) /\ Rising(Batch)
           /\ Positions(Batch) \subseteq pending["alert"]
           /\ pending["alert"] \subseteq 1 .. Last_ /\ 1 .. Last_ \subseteq 1 .. Len(stream["alert"])
           /\ tried \in Seq(Nat) /\ received \in Seq(Nat)
           /\ at["alert"] \in Busy =>
                 /\ Batch # <<>> /\ Head(Batch) = Batch[1] /\ Head(Batch) \in Positions(Batch)
                 /\ Head(Batch) \in pending["alert"] /\ Head(Batch) \in 1 .. Last_
                 /\ Head(Batch) \in Nat
  <1>1. /\ Batch \in Seq(Nat) /\ Last_ \in Nat /\ Len(stream["alert"]) \in Nat
        /\ Last_ <= Len(stream["alert"]) /\ (at["alert"] \in Busy => Batch # <<>>)
    BY AlertTypes DEF GInv, NInv
  <1>2. HandOf("alert")
    BY ThreadSets DEF GInv, HandInv
  <1>3. /\ Positions(Batch) \subseteq pending["alert"] /\ Rising(Batch)
        /\ pending["alert"] \subseteq 1 .. Last_
    BY <1>2 DEF HandOf, Batch, Last_
  <1>4. 1 .. Last_ \subseteq 1 .. Len(stream["alert"])
    BY <1>1
  <1>5. tried \in Seq(Nat) /\ received \in Seq(Nat)
    BY DEF GInv, AInv, AlertInv, TriedOnly
  <1>6. ASSUME at["alert"] \in Busy
        PROVE  /\ Batch # <<>> /\ Head(Batch) = Batch[1] /\ Head(Batch) \in Positions(Batch)
               /\ Head(Batch) \in Nat
    <2>1. Batch # <<>>
      BY <1>1, <1>6
    <2>2. 1 \in DOMAIN Batch /\ Head(Batch) = Batch[1] /\ Batch[1] \in Nat
      BY <1>1, <2>1
    <2>. QED
      BY <2>1, <2>2 DEF Positions
  <1>7. at["alert"] \in Busy => Head(Batch) \in pending["alert"] /\ Head(Batch) \in 1 .. Last_
    BY <1>3, <1>6
  <1>. QED
    BY <1>1, <1>3, <1>4, <1>5, <1>6, <1>7

\* The alert consumer does not move, or is gone, and no request of it is made.
LEMMA AlertQuiet ==
    ASSUME GInv, UNCHANGED <<tried, received>>,
           UNCHANGED <<pending["alert"], delivered["alert"], groupStart["alert"]>>,
           \A k \in 1 .. Len(stream["alert"]) : stream'["alert"][k] = stream["alert"][k],
           \/ at'["alert"] = at["alert"] /\ Batch' = Batch
           \/ at'["alert"] \notin Busy,
           \/ call'["alert"] = Idle
           \/ /\ call'["alert"].step = call["alert"].step
              /\ call'["alert"].req = call["alert"].req,
           Troubled \subseteq Troubled',
           \A c \in Callers : call'[c].wire = call[c].wire \/ call'[c].wire = NoRequest,
           \A c \in Callers : call'[c].step = "wait" =>
               call[c].step = "wait" /\ call'[c].wire = call[c].wire,
           \/ url'.m # "alert"
           \/ /\ url' = url
              /\ \A c \in Callers : call'[c].step = "perform" => call[c].step = "perform"
    PROVE  AlertInv'
  <1>1. /\ Last_ \in Nat /\ 1 .. Last_ \subseteq 1 .. Len(stream["alert"]) /\ Last_' = Last_
        /\ at["alert"] \in Busy => Head(Batch) \in 1 .. Len(stream["alert"])
    BY HeadFacts DEF Last_
  <1>2. HeadCalled'
    BY <1>1, IdleStep DEF GInv, AlertInv, HeadCalled, Busy
  <1>3. TriedOnly'
    BY DEF GInv, AlertInv, TriedOnly, NoRequest
  <1>4. ASSUME NEW k \in Positions(tried), k \notin Troubled'
        PROVE  OwnOf(k)'
    <2>1. OwnOf(k)
      BY <1>4 DEF GInv, AlertInv, Owns
    <2>2. \/ Mine(k)' <=> Mine(k)
          \/ ~ Mine(k)' /\ call'["alert"].step = "idle"
      BY IdleStep DEF Mine
    <2>3. ASSUME NEW c \in Callers, ~ (c = "alert" /\ Mine(k)')
          PROVE  /\ call'[c].step = "perform" => url' # Sends(k)
                 /\ call'[c].step = "wait" => call'[c].wire # Sends(k)
      <3>1. CASE c = "alert" /\ call'["alert"].step = "idle"
        BY <3>1
      <3>2. CASE ~ (c = "alert" /\ Mine(k))
        BY <2>1, <3>2 DEF OwnOf, Sends
      <3>. QED
        BY <2>2, <2>3, <3>1, <3>2
    <2>4. AtMost(k)' /\ Positions(received)' = Positions(received)
      BY <2>1 DEF OwnOf, AtMost
    <2>5. (Mine(k)' /\ Active("alert")' => k \notin Positions(received)')
          /\ (Mine(k)' /\ call'["alert"].step = "done" => k \in Positions(received)')
      <3>1. CASE call'["alert"] = Idle
        BY <3>1, IdleStep DEF Mine
      <3>2. CASE call'["alert"].step = call["alert"].step /\ call'["alert"].req = call["alert"].req
        BY <2>1, <2>4, <3>2 DEF OwnOf, Mine, Active
      <3>. QED
        BY <3>1, <3>2
    <2>6. at'["alert"] = "ack" /\ Head(Batch') = k => k \in Positions(received)'
      BY <2>1, <2>4 DEF OwnOf, Busy
    <2>7. k \notin pending'["alert"] => k \in Positions(received)'
      BY <2>1, <2>4 DEF OwnOf
    <2>. QED
      BY <2>3, <2>4, <2>5, <2>6, <2>7 DEF OwnOf
  <1>5. Owns'
    BY <1>4 DEF Owns
  <1>6. Untried'
    BY <1>1 DEF GInv, AlertInv, Untried, Handed, Last_
  <1>. QED
    BY <1>2, <1>3, <1>5, <1>6 DEF AlertInv

\* The running call of the consumer is out of trouble, if its alert is.
LEMMA MineClean ==
    ASSUME GInv, NEW k, k \notin Troubled, Mine(k)
    PROVE  /\ ~ call["alert"].troubled /\ at["alert"] = "send" /\ at["alert"] \in Busy
           /\ call["alert"].req = Sends(k) /\ k = Head(Batch)
  <1>1. call["alert"].req.n = k /\ call["alert"].step # "idle"
    BY DEF Mine
  <1>2. ~ call["alert"].troubled
    BY <1>1 DEF Troubled
  <1>3. at["alert"] = "send"
    BY <1>1, IdleStep, ThreadSets DEF GInv, NInv, Resting, InCall
  <1>4. call["alert"].req = Sends(Head(Batch))
    BY <1>1, <1>3 DEF GInv, AlertInv, HeadCalled
  <1>. QED
    BY <1>1, <1>2, <1>3, <1>4 DEF Sends, Busy

\* A call goes out, or an answer comes in.
LEMMA AlertCalls ==
    ASSUME GInv, NEW c \in Callers, CallStep(c), CInv'
    PROVE  AlertInv'
  <1>1. /\ UNCHANGED <<tried, troubled, pending, delivered, groupStart, stream, at, todo>>
        /\ Batch' = Batch /\ Last_' = Last_ /\ url' = url
        /\ Perform(c) \/ Answer(c)
    <2>1. /\ UNCHANGED <<tried, troubled, pending, delivered, groupStart, stream, at, todo>>
          /\ Perform(c) \/ Answer(c)
      BY Zenon DEF CallStep, redis
    <2>2. url' = url
      BY <2>1 DEF Perform, Answer
    <2>. QED
      BY <2>1, <2>2 DEF Batch, Last_
  <1>2. /\ UInv /\ "alert" \in Callers /\ received \in Seq(Nat) /\ tried \in Seq(Nat)
        /\ call[c].step # "idle" /\ call'[c].step # "idle" /\ call'[c].req = call[c].req
        /\ \A d \in Callers : d # c => 
              /\ call'[d].step = call[d].step /\ call'[d].req = call[d].req
              /\ call'[d].wire = call[d].wire /\ call'[d].troubled = call[d].troubled
        /\ call'[c].wire \in {call[c].wire, url}
        /\ call[c].troubled => call'[c].troubled
        /\ call'[c].step = "wait" => call[c].step = "perform" /\ call'[c].wire = url
        /\ call'[c].step # "perform"
    <2>1. UInv /\ "alert" \in Callers /\ received \in Seq(Nat) /\ tried \in Seq(Nat)
      BY HeadFacts, ThreadSets DEF GInv, NInv
    <2>2. CASE Perform(c)
      <3>1. busy \/ ~ busy
        OBVIOUS
      <3>. QED
        BY <2>1, <2>2, <3>1, PerformFacts
    <2>3. CASE Answer(c)
      BY <2>1, <2>3, AnswerFacts
    <2>. QED
      BY <1>1, <2>2, <2>3
  <1>3. \A d \in Callers : call'[d].req = call[d].req /\ (call'[d].step = "idle" <=> call[d].step = "idle")
    BY <1>2
  <1>4. (\A k : Mine(k)' <=> Mine(k)) /\ Troubled \subseteq Troubled'
    BY <1>1, <1>2, <1>3 DEF Mine, Troubled
  <1>5. \/ received' = received
        \/ /\ Answer(c) /\ call[c].wire.m = "alert" /\ call[c].wire.n \in Nat
           /\ received' = Append(received, call[c].wire.n)
    <2>1. CASE Perform(c)
      BY <2>1 DEF Perform, telegram
    <2>2. CASE Answer(c)
      <3>1. call[c].wire \in Wires
        BY <1>2, CallTypes DEF Calls
      <3>2. call[c].wire.n \in Nat
        BY <3>1 DEF Wires
      <3>3. TakesEffect(call[c].wire) \/ NoEffect
        BY <1>2, <2>2, AnswerFacts
      <3>. QED
        BY <2>2, <3>2, <3>3 DEF TakesEffect, NoEffect
    <2>. QED
      BY <1>1, <2>1, <2>2
  <1>6. \A k : k \in Positions(received)' =>
           k \in Positions(received) \/ (call[c].wire.m = "alert" /\ call[c].wire.n = k)
    <2>1. CASE received' = received
      BY <2>1 DEF Positions
    <2>2. CASE received' = Append(received, call[c].wire.n) /\ call[c].wire.n \in Nat /\ call[c].wire.m = "alert"
      <3>1. \A j \in DOMAIN received' : received'[j] = call[c].wire.n
                                        \/ (j \in DOMAIN received /\ received'[j] = received[j])
        BY <1>2, <2>2
      <3>. QED
        BY <2>2, <3>1 DEF Positions
    <2>. QED
      BY <1>5, <2>1, <2>2
  <1>7. HeadCalled'
    BY <1>1, <1>2, <1>3 DEF GInv, AlertInv, HeadCalled
  <1>8. TriedOnly'
    <2>0. \A n \in Nat : Append(received, n) \in Seq(Nat)
      BY <1>2
    <2>1. received' \in Seq(Nat)
      BY <1>2, <1>5, <2>0
    <2>2. \A d \in Callers : call'[d].wire.m = "alert" => call'[d].wire.n \in Positions(tried)
      BY <1>2 DEF GInv, AlertInv, TriedOnly
    <2>3. Positions(received)' \subseteq Positions(tried)
      BY <1>6 DEF GInv, AlertInv, TriedOnly
    <2>. QED
      BY <1>1, <2>1, <2>2, <2>3 DEF GInv, AlertInv, TriedOnly
  <1>9. ASSUME NEW k \in Positions(tried), k \notin Troubled'
        PROVE  OwnOf(k)'
    <2>1. OwnOf(k) /\ k \notin Troubled
      BY <1>4, <1>9 DEF GInv, AlertInv, Owns
    <2>2. ASSUME NEW d \in Callers, ~ (d = "alert" /\ Mine(k)')
          PROVE  /\ call'[d].step = "perform" => url' # Sends(k)
                 /\ call'[d].step = "wait" => call'[d].wire # Sends(k)
      <3>1. CASE d = c
        BY <1>1, <1>2, <1>4, <2>1, <2>2, <3>1 DEF OwnOf
      <3>2. CASE d # c
        BY <1>1, <1>2, <1>4, <2>1, <2>2, <3>2 DEF OwnOf
      <3>. QED
        BY <3>1, <3>2
    <2>3. CASE c = "alert" /\ Mine(k) /\ Answer(c)
      <3>1. /\ ~ call["alert"].troubled /\ at["alert"] = "send" /\ call["alert"].req = Sends(k)
        BY <2>1, <2>3, MineClean
      <3>2. ~ call'["alert"].troubled
        BY <1>1, <1>4, <1>9, <2>3 DEF Troubled, Mine
      <3>3. call["alert"].step = "wait" /\ call'["alert"].step = "done"
            /\ TakesEffect(call["alert"].wire)
        BY <1>2, <2>3, <3>2, AnswerFacts
      <3>4. call["alert"].wire = Sends(k)
        BY <1>2, <3>1, <3>3 DEF GInv, NInv, CInv, Clean
      <3>5. received' = Append(received, k) /\ k \in Nat
        BY <1>5, <3>3, <3>4 DEF TakesEffect, Sends
      <3>6. k \notin Positions(received)
        BY <1>2, <2>1, <2>3, <3>3 DEF OwnOf, Active
      <3>7. AtMost(k)' /\ k \in Positions(received)'
        <4>1. /\ DOMAIN received' = 1 .. Len(received) + 1 /\ Len(received) \in Nat
              /\ DOMAIN received = 1 .. Len(received)
              /\ received'[Len(received) + 1] = k
              /\ \A j \in 1 .. Len(received) : received'[j] = received[j]
          BY <1>2, <3>5
        <4>2. \A j \in DOMAIN received' : received'[j] = k => j = Len(received) + 1
          <5>1. \A j \in 1 .. Len(received) : received[j] # k
            BY <3>6, <4>1 DEF Positions
          <5>. QED
            BY <4>1, <5>1
        <4>. QED
          BY <4>1, <4>2 DEF AtMost, Positions
      <3>8. ~ Active("alert")'
        BY <3>3 DEF Active
      <3>9. at'["alert"] # "ack"
        BY <1>1, <3>1
      <3>. QED
        BY <2>2, <3>7, <3>8, <3>9 DEF OwnOf
    <2>4. CASE ~ (c = "alert" /\ Mine(k) /\ Answer(c))
      <3>1. received' = received \/ (Answer(c) /\ received' = Append(received, call[c].wire.n) /\ call[c].wire.n # k
                                       /\ call[c].wire.n \in Nat)
        <4>1. CASE Answer(c) /\ call[c].wire.m = "alert" /\ received' = Append(received, call[c].wire.n)
                   /\ call[c].wire.n \in Nat
          <5>1. call[c].step = "wait"
            BY <1>2, <4>1, AnswerFacts
          <5>2. call[c].wire # Sends(k)
            BY <2>1, <2>4, <4>1, <5>1 DEF OwnOf
          <5>3. call[c].wire \in Wires
            BY <1>2, CallTypes DEF Calls
          <5>4. call[c].wire = [m |-> call[c].wire.m, n |-> call[c].wire.n]
            BY <5>3 DEF Wires
          <5>. QED
            BY <4>1, <5>2, <5>4 DEF Sends
        <4>. QED
          BY <1>5, <4>1
      <3>2. AtMost(k)' /\ (k \in Positions(received)' <=> k \in Positions(received))
        <4>1. CASE received' = received
          BY <2>1, <4>1 DEF OwnOf, AtMost, Positions
        <4>2. CASE \E n \in Nat : n # k /\ received' = Append(received, n)
          <5>1. PICK n \in Nat : n # k /\ received' = Append(received, n)
            BY <4>2
          <5>2. /\ DOMAIN received' = 1 .. Len(received) + 1 /\ Len(received) \in Nat
                /\ DOMAIN received = 1 .. Len(received)
                /\ received'[Len(received) + 1] = n
                /\ \A j \in 1 .. Len(received) : received'[j] = received[j]
                /\ DOMAIN received \subseteq DOMAIN received'
                /\ \A j \in DOMAIN received' : j \in DOMAIN received \/ j = Len(received) + 1
            BY <1>2, <5>1
          <5>3. \A j \in DOMAIN received' : received'[j] = k => j \in DOMAIN received /\ received[j] = k
            BY <5>1, <5>2
          <5>4. AtMost(k)'
            BY <2>1, <5>3 DEF OwnOf, AtMost
          <5>5. k \in Positions(received)' <=> k \in Positions(received)
            BY <5>2, <5>3 DEF Positions
          <5>. QED
            BY <5>4, <5>5
        <4>. QED
          BY <3>1, <4>1, <4>2
      <3>3. Mine(k)' /\ Active("alert")' => k \notin Positions(received)'
        <4>1. Active("alert")' => Active("alert")
          BY <1>2 DEF Active
        <4>. QED
          BY <1>4, <2>1, <3>2, <4>1 DEF OwnOf
      <3>4. Mine(k)' /\ call'["alert"].step = "done" => k \in Positions(received)'
        <4>. SUFFICES ASSUME Mine(k), call'["alert"].step = "done"
                      PROVE  k \in Positions(received)
          BY <1>4, <3>2
        <4>1. CASE c # "alert"
          BY <1>2, <2>1, <4>1 DEF OwnOf
        <4>2. CASE c = "alert"
          <5>1. Perform(c)
            BY <1>1, <2>4, <4>2
          <5>2. ~ call'["alert"].troubled
            BY <1>1, <1>4, <1>9 DEF Troubled, Mine
          <5>3. call'["alert"].bad = TRUE
            <6>1. busy \/ ~ busy
              OBVIOUS
            <6>. QED
              BY <1>2, <4>2, <5>1, <6>1, PerformFacts
          <5>. QED
            BY <1>2, <5>2, <5>3 DEF CInv, Clean
        <4>. QED
          BY <4>1, <4>2
      <3>. QED
        BY <1>1, <2>1, <2>2, <3>2, <3>3, <3>4 DEF OwnOf
    <2>. QED
      BY <2>3, <2>4
  <1>10. Untried'
    BY <1>1 DEF GInv, AlertInv, Untried, Handed
  <1>. QED
    BY <1>1, <1>7, <1>8, <1>9, <1>10 DEF AlertInv, Owns

\* The consumer has no call any more: what it did is accounted for.
LEMMA AlertEases ==
    ASSUME GInv, UNCHANGED <<tried, received, stream, url>>, call'["alert"] = Idle,
           \A c \in Callers : c # "alert" => call'[c] = call[c],
           Troubled \subseteq Troubled', at'["alert"] # "send",
           at'["alert"] = "ack" =>
               /\ stream["alert"][Head(Batch')] = "plain" => Head(Batch') \in Positions(tried)
               /\ \/ Head(Batch') \notin Positions(tried) \ Troubled'
                  \/ Head(Batch') \in Positions(received),
           \A k \in Positions(tried) \ Troubled' :
               k \in pending'["alert"] \/ k \in Positions(received)
    PROVE  HeadCalled' /\ TriedOnly' /\ Owns'
  <1>1. HeadCalled'
    BY DEF HeadCalled
  <1>2. TriedOnly'
    BY IdleTyped DEF GInv, AlertInv, TriedOnly
  <1>3. ASSUME NEW k \in Positions(tried), k \notin Troubled'
        PROVE  OwnOf(k)'
    <2>1. OwnOf(k)
      BY <1>3 DEF GInv, AlertInv, Owns
    <2>2. call'["alert"].step = "idle" /\ ~ Mine(k)'
      BY IdleStep DEF Mine
    <2>3. ASSUME NEW c \in Callers
          PROVE  /\ call'[c].step = "perform" => url' # Sends(k)
                 /\ call'[c].step = "wait" => call'[c].wire # Sends(k)
      BY <2>1, <2>2 DEF OwnOf
    <2>4. AtMost(k)'
      BY <2>1 DEF OwnOf, AtMost
    <2>5. at'["alert"] = "ack" /\ Head(Batch') = k => k \in Positions(received)'
      BY <1>3
    <2>6. k \notin pending'["alert"] => k \in Positions(received)'
      BY <1>3
    <2>. QED
      BY <2>2, <2>3, <2>4, <2>5, <2>6 DEF OwnOf
  <1>. QED
    BY <1>1, <1>2, <1>3 DEF Owns

\* The consumer sends an alert that it did not try: no call is for it yet.
LEMMA AlertSends ==
    ASSUME GInv, at["alert"] = "entry", Kind("alert") = "plain",
           Begin("alert", "alert", Head(Batch)), at'["alert"] = "send",
           tried' = Append(tried, Head(Batch)),
           UNCHANGED <<received, stream, pending, Batch, troubled>>
    PROVE  HeadCalled' /\ TriedOnly' /\ Owns'
  <1>. DEFINE h == Head(Batch)
  <1>1. /\ h \in Nat /\ h = Batch[1] /\ h \in pending["alert"] /\ tried \in Seq(Nat)
        /\ UInv /\ "alert" \in Callers /\ "alert" \in Methods
    BY HeadFacts, ThreadSets DEF GInv, NInv, Busy
  <1>2. h \notin Positions(tried)
    <2>1. \A j \in DOMAIN tried : tried[j] < h /\ tried[j] \in Nat
      BY <1>1 DEF GInv, AInv
    <2>. QED
      BY <1>1, <2>1 DEF Positions
  <1>3. Positions(tried)' = Positions(tried) \cup {h}
    <2>1. /\ DOMAIN tried = 1 .. Len(tried) /\ Len(tried) \in Nat
          /\ DOMAIN tried' = 1 .. Len(tried) + 1 /\ tried'[Len(tried) + 1] = h
          /\ \A j \in 1 .. Len(tried) : tried'[j] = tried[j]
      BY <1>1
    <2>2. \A j \in DOMAIN tried' : j \in DOMAIN tried \/ j = Len(tried) + 1
      BY <2>1
    <2>3. DOMAIN tried \subseteq DOMAIN tried' /\ Len(tried) + 1 \in DOMAIN tried'
      BY <2>1
    <2>. QED
      BY <2>1, <2>2, <2>3 DEF Positions
  <1>4. /\ url' = Sends(h)
        /\ call'["alert"].step = "perform" /\ call'["alert"].req = Sends(h)
        /\ call'["alert"].wire = NoRequest
        /\ call'["alert"].troubled = \E e \in Callers : Active(e)
        /\ \A d \in Callers : d # "alert" =>
              /\ call'[d].step = call[d].step /\ call'[d].wire = call[d].wire
              /\ call'[d].req = call[d].req
    BY <1>1, BeginFacts DEF Sends
  <1>5. call["alert"] = Idle /\ ~ Active("alert")
    BY <1>1, IdleStep DEF GInv, NInv, Resting, InCall, Active
  <1>6. Troubled = troubled /\ (h \notin Troubled' => \A e \in Callers : ~ Active(e))
        /\ troubled \subseteq Troubled'
    BY <1>4, <1>5, IdleStep DEF Troubled, Sends
  <1>7. HeadCalled'
    <2>1. h \in Positions(tried)' /\ stream["alert"][h] = "plain" /\ Head(Batch)' = h
      BY <1>3 DEF Kind, Batch
    <2>. QED
      BY <1>4, <2>1 DEF HeadCalled
  <1>8. TriedOnly'
    <2>1. url'.n = h
      BY <1>4 DEF Sends
    <2>2. NoRequest.m # "alert"
      BY DEF NoRequest
    <2>. QED
      BY <1>3, <1>4, <2>1, <2>2 DEF GInv, AlertInv, TriedOnly
  <1>9. ASSUME NEW k \in Positions(tried)', k \notin Troubled'
        PROVE  OwnOf(k)'
    <2>1. Mine(k)' <=> k = h
      BY <1>4 DEF Mine, Sends
    <2>2. \A d \in Callers : call'[d].step = "wait" => d # "alert" /\ call[d].step = "wait"
      BY <1>4
    <2>3. CASE k = h
      <3>1. \A e \in Callers : ~ Active(e)
        BY <1>6, <1>9, <2>3
      <3>2. \A e \in Callers : e # "alert" => call'[e].step # "perform" /\ call'[e].step # "wait"
        BY <1>4, <3>1 DEF Active
      <3>3. h \notin Positions(received) /\ Positions(received)' = Positions(received)
        BY <1>2 DEF GInv, AlertInv, TriedOnly, Positions
      <3>4. AtMost(h)'
        BY <3>3 DEF AtMost, Positions
      <3>. QED
        BY <1>1, <1>4, <2>1, <2>3, <3>2, <3>3, <3>4 DEF OwnOf
    <2>4. CASE k # h
      <3>1. k \in Positions(tried) /\ OwnOf(k) /\ k \notin Troubled
        BY <1>3, <1>6, <1>9, <2>4 DEF GInv, AlertInv, Owns
      <3>2. ~ Mine(k)' /\ url' # Sends(k)
        BY <1>4, <2>1, <2>4 DEF Sends
      <3>3. \A d \in Callers : call'[d].step = "wait" => call'[d].wire # Sends(k)
        BY <1>4, <1>5, <2>2, <3>1 DEF OwnOf
      <3>4. AtMost(k)'
        BY <3>1 DEF OwnOf, AtMost
      <3>5. k \notin pending'["alert"] => k \in Positions(received)'
        BY <3>1 DEF OwnOf
      <3>. QED
        BY <3>2, <3>3, <3>4, <3>5 DEF OwnOf
    <2>. QED
      BY <2>3, <2>4
  <1>. QED
    BY <1>7, <1>8, <1>9 DEF Owns

\* What is not in trouble when the consumer has no call.
LEMMA NoTrouble == call["alert"] = Idle => Troubled = troubled
  BY IdleStep DEF Troubled

\* Each step of the consumer accounts for its alerts.
LEMMA AlertMoves ==
    ASSUME GInv, LoopStep("alert")
    PROVE  AlertInv'
  <1>1. /\ UNCHANGED <<stream, received>> /\ "alert" \in Threads /\ "alert" \in Callers
        /\ "alert" \in Loops /\ UInv
        /\ Batch \in Seq(Nat) /\ Last_ \in Nat /\ Len(stream["alert"]) \in Nat
        /\ \A k \in Positions(tried) \ Troubled :
              k \in pending["alert"] \/ k \in Positions(received)
        /\ Untried
    <2>1. UNCHANGED <<stream, received>>
      BY Zenon DEF LoopStep, telegram
    <2>2. \A k \in Positions(tried) \ Troubled :
              k \in pending["alert"] \/ k \in Positions(received)
      BY DEF GInv, AlertInv, Owns, OwnOf
    <2>. QED
      BY <2>1, <2>2, HeadFacts, ThreadSets DEF GInv, NInv, AlertInv
  <1>2. ASSUME NEW label, Goto("alert", label)
        PROVE  at'["alert"] = label
    BY <1>1, <1>2, GotoFacts
  <1>3. at["alert"] # "send" => call["alert"] = Idle /\ Troubled = troubled
    BY <1>1, NoTrouble DEF GInv, NInv, Resting, InCall
  <1>4. ASSUME at["alert"] # "send", NoCall, troubled' = troubled
        PROVE  /\ url' = url /\ call'["alert"] = Idle /\ Troubled' = Troubled
               /\ \A c \in Callers : c # "alert" => call'[c] = call[c]
    <2>1. call' = call /\ url' = url
      BY <1>4 DEF NoCall
    <2>. QED
      BY <1>3, <1>4, <2>1 DEF Troubled
  \* Positions are acknowledged or handed out, at most.
  <1>5. ASSUME pending'["alert"] = pending["alert"], UNCHANGED <<tried, groupStart>>,
               Last_' = Last_
        PROVE  Untried'
    BY <1>1, <1>5 DEF Untried, Handed, Last_
  <1>6. ASSUME NextEntry("alert")
        PROVE  at'["alert"] # "send" /\ at'["alert"] # "ack"
    <2>1. at'["alert"] = IF Tail(Batch) = <<>> THEN "read" ELSE "entry"
      BY <1>2, <1>6 DEF NextEntry, Batch
    <2>. QED
      BY <2>1
  <1>7. CASE LoopStarts("alert")
    <2>1. /\ at["alert"] = "start" /\ at'["alert"] = "read" /\ NoCall
          /\ UNCHANGED <<pending, todo, tried, troubled>>
          /\ CreateGroup("alert") \/ UNCHANGED <<groupStart, delivered>>
      BY <1>2, <1>7 DEF LoopStarts
    <2>2. HeadCalled' /\ TriedOnly' /\ Owns'
      BY <1>1, <1>4, <2>1, AlertEases
    <2>3. CASE UNCHANGED <<groupStart, delivered>>
      BY <1>5, <2>1, <2>2, <2>3 DEF Last_, AlertInv
    <2>4. CASE CreateGroup("alert") /\ groupStart["alert"] = NoGroup
      <3>1. delivered \in [Loops -> Nat] /\ groupStart \in [Loops -> Int]
        BY DEF GInv, HandInv, NInv, UInv, Typed
      <3>2. groupStart'["alert"] = Len(stream["alert"]) /\ delivered'["alert"] = Len(stream["alert"])
        BY <1>1, <2>4, <3>1 DEF CreateGroup
      <3>3. \A k \in 1 .. Last_' : ~ Handed("alert", k)'
        BY <1>1, <3>2 DEF Handed, Last_
      <3>. QED
        BY <2>2, <3>3 DEF AlertInv, Untried
    <2>. QED
      BY <2>1, <2>3, <2>4 DEF CreateGroup
  <1>8. CASE LoopReads("alert")
    <2>. DEFINE new == NewPositions("alert")
                lag == Len(stream["alert"]) - Last_
                m == IF lag < MaxRead THEN lag ELSE MaxRead
    <2>1. lag \in Nat /\ lag > 0 /\ m \in Nat /\ m > 0
      BY <1>1, <1>8, ReadAssumption DEF LoopReads, Last_
    <2>2. new = [k \in 1 .. m |-> Last_ + k]
      BY DEF NewPositions, Last_
    <2>. HIDE DEF m, new
    <2>3. DOMAIN new = 1 .. m /\ Len(new) = m /\ \A k \in 1 .. m : new[k] = Last_ + k
      BY <2>1, <2>2
    <2>4. pending \in [Loops -> SUBSET Nat] /\ delivered \in [Loops -> Nat]
      BY DEF GInv, HandInv, NInv, UInv, Typed
    <2>5. /\ Last_' = Last_ + m /\ UNCHANGED <<tried, groupStart, troubled>> /\ NoCall
          /\ pending'["alert"] = pending["alert"] \cup Positions(new)
          /\ at["alert"] = "read" /\ at'["alert"] \in {"entry", "read"}
      BY <1>1, <1>2, <1>8, <2>3, <2>4 DEF LoopReads, Last_, new
    <2>6. HeadCalled' /\ TriedOnly' /\ Owns'
      BY <1>1, <1>4, <2>5, AlertEases
    <2>7. ASSUME NEW k \in 1 .. Last_', stream["alert"][k] = "plain", Handed("alert", k)',
                 k \notin Positions(tried)
          PROVE  k \in pending'["alert"]
      <3>1. CASE k <= Last_
        <4>1. k \in 1 .. Last_ /\ Handed("alert", k)
          BY <1>1, <2>1, <2>5, <2>7, <3>1 DEF Handed, Last_
        <4>. QED
          BY <1>1, <2>5, <2>7, <4>1 DEF Untried
      <3>2. CASE ~ (k <= Last_)
        <4>1. k - Last_ \in 1 .. m /\ new[k - Last_] = k
          <5>1. k - Last_ \in 1 .. m /\ Last_ + (k - Last_) = k
            BY <1>1, <2>1, <2>5, <3>2
          <5>. QED
            BY <2>3, <5>1
        <4>. QED
          BY <2>3, <2>5, <4>1 DEF Positions
      <3>. QED
        BY <3>1, <3>2
    <2>8. Untried'
      BY <1>1, <2>5, <2>7 DEF Untried
    <2>. QED
      BY <2>6, <2>8 DEF AlertInv
  <1>9. CASE LoopEnds("alert")
    <2>1. /\ at["alert"] = "read" /\ at'["alert"] = "ended" /\ NoCall
          /\ UNCHANGED <<groupStart, delivered, pending, tried, troubled>>
      BY <1>2, <1>9 DEF LoopEnds
    <2>. QED
      BY <1>1, <1>4, <1>5, <2>1, AlertEases DEF AlertInv, Last_
  <1>10. CASE LoopEntry("alert")
    <2>1. at["alert"] = "entry" /\ UNCHANGED <<groupStart, delivered, pending, troubled>>
      BY <1>10 DEF LoopEntry
    <2>2. CASE NextEntry("alert") /\ NoCall /\ UNCHANGED tried
      BY <1>1, <1>4, <1>5, <1>6, <2>1, <2>2, AlertEases DEF AlertInv, Last_
    <2>3. CASE /\ Kind("alert") = "plain" /\ Begin("alert", "alert", Head(todo["alert"]))
               /\ Goto("alert", "send")
               /\ tried' = Append(tried, Head(todo["alert"])) /\ UNCHANGED todo
      <3>1. HeadCalled' /\ TriedOnly' /\ Owns'
        BY <1>1, <1>2, <2>1, <2>3, AlertSends DEF Batch
      <3>2. Positions(tried) \subseteq Positions(tried)'
        <4>1. tried \in Seq(Nat) /\ Head(Batch) \in Nat
          BY <2>1, HeadFacts DEF Busy
        <4>2. \A j \in DOMAIN tried : j \in DOMAIN tried' /\ tried'[j] = tried[j]
          BY <2>3, <4>1 DEF Batch
        <4>. QED
          BY <4>2 DEF Positions
      <3>3. Untried'
        BY <1>1, <2>1, <3>2 DEF Untried, Handed, Last_
      <3>. QED
        BY <3>1, <3>3 DEF AlertInv
    <2>4. CASE /\ Kind("alert") # "plain" /\ Goto("alert", "ack") /\ NoCall
               /\ UNCHANGED <<todo, tried>>
      <3>1. Head(Batch') = Head(Batch) /\ stream["alert"][Head(Batch)] # "plain"
            /\ at'["alert"] = "ack"
        BY <1>2, <2>4 DEF Batch, Kind
      <3>2. Head(Batch) \notin Positions(tried)
        <4>1. \A j \in DOMAIN tried : tried[j] < Batch[1] /\ tried[j] \in Nat
          BY <2>1 DEF GInv, AInv
        <4>2. Head(Batch) = Batch[1] /\ Head(Batch) \in Nat
          BY <2>1, HeadFacts DEF Busy
        <4>. QED
          BY <4>1, <4>2 DEF Positions
      <3>. QED
        BY <1>1, <1>4, <1>5, <2>1, <2>4, <3>1, <3>2, AlertEases DEF AlertInv, Last_
    <2>. QED
      BY <1>10, <2>1, <2>2, <2>3, <2>4 DEF LoopEntry
  <1>11. CASE AlertSent
    <2>1. /\ at["alert"] = "send" /\ call["alert"].step = "done" /\ troubled' = Troubled
          /\ Return("alert") /\ UNCHANGED <<groupStart, delivered, pending, tried>>
          /\ NextEntry("alert") \/ (Goto("alert", "ack") /\ UNCHANGED todo)
      BY <1>11 DEF AlertSent
    <2>2. /\ url' = url /\ call'["alert"] = Idle
          /\ \A c \in Callers : c # "alert" => call'[c] = call[c]
      BY <1>1, <2>1, IdleStays DEF Return
    <2>3. Troubled' = Troubled
      BY <2>1, <2>2, IdleStep DEF Troubled
    <2>4. ASSUME at'["alert"] = "ack"
          PROVE  /\ stream["alert"][Head(Batch')] = "plain" => Head(Batch') \in Positions(tried)
                 /\ \/ Head(Batch') \notin Positions(tried) \ Troubled'
                    \/ Head(Batch') \in Positions(received)
      <3>1. Batch' = Batch
        BY <1>6, <2>1, <2>4 DEF Batch
      <3>2. call["alert"].req = Sends(Head(Batch))
        BY <2>1 DEF GInv, AlertInv, HeadCalled
      <3>3. Mine(Head(Batch))
        BY <2>1, <3>2 DEF Mine, Sends
      <3>4. Head(Batch) \in Positions(tried) /\ Head(Batch) \notin Troubled => OwnOf(Head(Batch))
        BY DEF GInv, AlertInv, Owns
      <3>5. stream["alert"][Head(Batch)] = "plain" => Head(Batch) \in Positions(tried)
        BY <2>1 DEF GInv, AlertInv, HeadCalled
      <3>. QED
        BY <2>1, <2>3, <3>1, <3>3, <3>4, <3>5 DEF OwnOf
    <2>5. at'["alert"] # "send"
      BY <1>2, <1>6, <2>1
    <2>. QED
      BY <1>1, <1>5, <2>1, <2>2, <2>3, <2>4, <2>5, AlertEases DEF AlertInv, Last_
  <1>12. CASE LoopAcks("alert")
    <2>. DEFINE h == Head(Batch)
    <2>1. /\ at["alert"] = "ack" /\ NoCall /\ NextEntry("alert")
          /\ UNCHANGED <<groupStart, delivered, tried, troubled>>
          /\ \/ pending' = pending
             \/ pending' = [pending EXCEPT !["alert"] = pending["alert"] \ {h}]
      BY <1>12, Zenon DEF LoopAcks, Batch
    <2>2. pending \in [Loops -> SUBSET Nat]
      BY DEF GInv, HandInv
    <2>3. \A k \in pending["alert"] : k \in pending'["alert"] \/ k = h
      BY <1>1, <2>1, <2>2
    <2>4. /\ stream["alert"][h] = "plain" => h \in Positions(tried)
          /\ h \in Positions(tried) /\ h \notin Troubled => h \in Positions(received)
      BY <2>1 DEF GInv, AlertInv, HeadCalled, Owns, OwnOf
    <2>5. HeadCalled' /\ TriedOnly' /\ Owns'
      BY <1>1, <1>4, <1>6, <2>1, <2>3, <2>4, AlertEases
    <2>6. Untried'
      BY <1>1, <2>1, <2>3, <2>4 DEF Untried, Handed, Last_
    <2>. QED
      BY <2>5, <2>6 DEF AlertInv
  <1>. QED
    BY <1>7, <1>8, <1>9, <1>10, <1>11, <1>12 DEF LoopStep

\* What another thread's call, or none, does to the consumer's.
LEMMA OtherCalls ==
    ASSUME UInv, troubled' = troubled, NEW b \in Callers, b # "alert",
           \/ NoCall
           \/ Return(b)
           \/ \E m \in Methods \ {"alert"}, n \in Nat : Begin(b, m, n)
    PROVE  /\ call'["alert"].step = call["alert"].step
           /\ call'["alert"].req = call["alert"].req
           /\ Troubled \subseteq Troubled'
           /\ \A c \in Callers : call'[c].wire = call[c].wire \/ call'[c].wire = NoRequest
           /\ \A c \in Callers : call'[c].step = "wait" =>
                 call[c].step = "wait" /\ call'[c].wire = call[c].wire
           /\ \/ url'.m # "alert"
              \/ /\ url' = url
                 /\ \A c \in Callers : call'[c].step = "perform" => call[c].step = "perform"
  <1>1. "alert" \in Callers
    BY ThreadSets
  <1>2. CASE NoCall
    BY <1>2 DEF NoCall, Troubled
  <1>3. CASE Return(b)
    <2>1. /\ call'[b] = Idle /\ \A d \in Callers : d # b => call'[d] = call[d]
          /\ url' = url
      BY <1>3, IdleStays DEF Return
    <2>2. Idle.step = "idle" /\ Idle.wire = NoRequest
      BY DEF Idle
    <2>. QED
      BY <1>1, <2>1, <2>2 DEF Troubled
  <1>4. CASE \E m \in Methods \ {"alert"}, n \in Nat : Begin(b, m, n)
    <2>1. PICK m \in Methods \ {"alert"}, n \in Nat : Begin(b, m, n)
      BY <1>4
    <2>2. /\ url' = [m |-> m, n |-> n]
          /\ call'[b].step = "perform" /\ call'[b].wire = NoRequest
          /\ \A d \in Callers : d # b =>
                /\ call'[d].step = call[d].step /\ call'[d].req = call[d].req
                /\ call'[d].wire = call[d].wire
                /\ call'[d].troubled = (call[d].troubled \/ Active(d))
      BY <2>1, BeginFacts
    <2>3. url'.m # "alert"
      BY <2>2
    <2>4. Troubled \subseteq Troubled'
      BY <1>1, <2>2 DEF Troubled
    <2>. QED
      BY <1>1, <2>2, <2>3, <2>4
  <1>. QED
    BY <1>2, <1>3, <1>4

LEMMA ReplyMoves ==
    ASSUME GInv, LoopStep("reply")
    PROVE  AlertInv'
  <1>1. /\ UNCHANGED <<stream, received, tried, troubled>> /\ NoCall /\ UInv
        /\ "alert" \in Loops /\ "reply" \in Threads /\ "alert" \in Threads /\ "main" \in Callers
    <2>1. UNCHANGED <<stream, received>>
      BY Zenon DEF LoopStep, telegram
    <2>2. UNCHANGED <<tried, troubled>> /\ NoCall
      BY DEF LoopStep, LoopStarts, LoopReads, LoopEnds, LoopEntry, LoopAcks
    <2>. QED
      BY <2>1, <2>2, ThreadSets DEF GInv, NInv
  <1>2. at' = at \/ \E label : Goto("reply", label)
    BY DEF LoopStep, LoopStarts, LoopReads, LoopEnds, LoopEntry, LoopAcks, NextEntry
  <1>3. at'["alert"] = at["alert"]
    BY <1>1, <1>2, GotoFacts
  <1>4. /\ todo' = todo \/ \E x : todo' = [todo EXCEPT !["reply"] = x]
        /\ delivered' = delivered \/ \E x : delivered' = [delivered EXCEPT !["reply"] = x]
        /\ groupStart' = groupStart \/ \E x : groupStart' = [groupStart EXCEPT !["reply"] = x]
        /\ pending' = pending \/ \E x : pending' = [pending EXCEPT !["reply"] = x]
    BY DEF LoopStep, LoopStarts, LoopReads, LoopEnds, LoopEntry, LoopAcks, CreateGroup, NextEntry
  <1>5. /\ pending \in [Loops -> SUBSET Nat] /\ groupStart \in [Loops -> Int]
        /\ todo \in [Loops -> Seq(Nat)] /\ delivered \in [Loops -> Nat]
    BY <1>1 DEF GInv, HandInv, UInv, Typed
  <1>6. /\ Batch' = Batch /\ pending'["alert"] = pending["alert"]
        /\ delivered'["alert"] = delivered["alert"] /\ groupStart'["alert"] = groupStart["alert"]
    BY <1>1, <1>4, <1>5 DEF Batch
  <1>. QED
    BY <1>1, <1>3, <1>6, OtherCalls, AlertQuiet

\* What another thread does leaves the consumer's part alone.
LEMMA ThreadKeeps ==
    ASSUME GInv, UNCHANGED <<tried, received, troubled, redis, todo>>,
           NEW c \in Callers, c # "alert",
           NoCall \/ Return(c) \/ \E m \in Methods \ {"alert"}, n \in Nat : Begin(c, m, n),
           at'["alert"] = at["alert"] \/ at'["alert"] \notin Busy
    PROVE  AlertInv'
  <1>1. UNCHANGED <<pending, delivered, groupStart, stream>> /\ UInv /\ Batch' = Batch
    BY DEF redis, GInv, NInv, Batch
  <1>. QED
    BY <1>1, OtherCalls, AlertQuiet

LEMMA MethodSets ==
    {"hook", "updates", "notice"} \subseteq Methods \ {"alert"} /\ 0 \in Nat
  BY DEF Methods

LEMMA PollQuiet ==
    ASSUME GInv, PollStep
    PROVE  AlertInv'
  <1>1. UNCHANGED <<tried, received, troubled, redis, todo>>
    <2>1. UNCHANGED <<tried, troubled, redis, todo, telegram>>
      BY Zenon DEF PollStep
    <2>. QED
      BY <2>1 DEF telegram
  <1>2. UInv /\ offset + 1 \in Nat /\ (at["poll"] = "update" => Head(batch) \in Nat)
    BY DEF GInv, NInv, UInv, BatchInv
  <1>3. NoCall \/ Return("poll") \/ \E m \in Methods \ {"alert"}, n \in Nat : Begin("poll", m, n)
    BY <1>2, MethodSets DEF PollStep, PollAsks, PollEnds, PollAnswered, PollUpdate, PollNoticed
  <1>4. \E label : Goto("poll", label)
    BY DEF PollStep, PollAsks, PollEnds, PollAnswered, PollUpdate, PollNoticed, Advance, GiveUp
  <1>5. at'["alert"] = at["alert"]
    BY <1>2, <1>4, GotoFacts, ThreadSets
  <1>. QED
    BY <1>1, <1>3, <1>5, ThreadKeeps, ThreadSets

LEMMA ServerQuiet ==
    ASSUME GInv, ServerStep
    PROVE  AlertInv'
  <1>1. UNCHANGED <<tried, received, troubled, redis, todo>>
    <2>1. UNCHANGED <<tried, troubled, redis, todo, telegram>>
      BY Zenon DEF ServerStep
    <2>. QED
      BY <2>1 DEF telegram
  <1>2. NoCall \/ Return("http") \/ \E m \in Methods \ {"alert"}, n \in Nat : Begin("http", m, n)
    BY MethodSets DEF ServerStep, ServerListens, ServerEnds, HttpRefuses, HttpRefused, HttpPublishes
  <1>3. at' = at \/ \E label : Goto("http", label)
    BY DEF ServerStep, ServerListens, ServerEnds, HttpRefuses, HttpRefused, HttpPublishes
  <1>4. at'["alert"] = at["alert"]
    BY <1>3, GotoFacts, ThreadSets DEF GInv, NInv
  <1>. QED
    BY <1>1, <1>2, <1>4, ThreadKeeps, ThreadSets

LEMMA MainQuiet ==
    ASSUME GInv, MainStep
    PROVE  AlertInv'
  <1>1. UNCHANGED <<tried, received, troubled, redis, todo>>
    <2>1. UNCHANGED <<tried, troubled, redis, todo, telegram>>
      BY Zenon DEF MainStep
    <2>. QED
      BY <2>1 DEF telegram
  <1>2. NoCall \/ Return("main") \/ \E m \in Methods \ {"alert"}, n \in Nat : Begin("main", m, n)
    BY MethodSets DEF MainStep, MainSpawns, MainHooks, MainAborts, MainServes, MainStops,
       MainJoinsPoller, MainStopsServer, MainStopsConsumers, MainExits
  <1>3. at'["alert"] = at["alert"] \/ at'["alert"] \notin Busy
    <2>1. at = [t \in Threads |-> at[t]]
      BY DEF GInv, NInv, UInv, Typed, Threaded
    <2>2. MainSpawns => at'["alert"] = "start"
      BY <2>1, ThreadSets DEF MainSpawns
    <2>3. MainServes => at'["alert"] = at["alert"]
      BY <2>1, ThreadSets DEF MainServes
    <2>4. MainSpawns \/ MainServes \/ \E label : Goto("main", label)
      BY DEF MainStep, MainHooks, MainAborts, MainStops,
         MainJoinsPoller, MainStopsServer, MainStopsConsumers, MainExits
    <2>. QED
      BY <2>2, <2>3, <2>4, GotoFacts, ThreadSets DEF GInv, NInv, Busy
  <1>. QED
    BY <1>1, <1>2, <1>3, ThreadKeeps, ThreadSets

LEMMA EnvironmentQuiet ==
    ASSUME GInv, Environment
    PROVE  AlertInv'
  <1>1. /\ UNCHANGED <<tried, received, troubled, todo, pending, delivered, groupStart, at>>
        /\ NoCall
    BY Zenon DEF Environment, Publish, Update, Signal, redis, telegram, NoCall, handle
  <1>2. stream \in [Loops -> Seq(Kinds)] /\ "alert" \in Loops /\ UInv
    BY ThreadSets DEF GInv, NInv, UInv, Typed
  <1>3. \A k \in 1 .. Len(stream["alert"]) : stream'["alert"][k] = stream["alert"][k]
    <2>1. CASE stream' = stream
      BY <2>1
    <2>2. ASSUME NEW l \in Loops, Publish(l)
          PROVE  \A k \in 1 .. Len(stream["alert"]) : stream'["alert"][k] = stream["alert"][k]
      <3>1. PICK e : stream' = [stream EXCEPT ![l] = Append(stream[l], e)]
        BY <2>2 DEF Publish
      <3>. QED
        BY <1>2, <3>1
    <2>. QED
      BY <2>1, <2>2 DEF Environment, Update, Signal, redis
  <1>4. Batch' = Batch /\ "main" \in Callers
    BY <1>1, ThreadSets DEF Batch
  <1>. QED
    BY <1>1, <1>2, <1>3, <1>4, OtherCalls, AlertQuiet

LEMMA RestartQuiet ==
    ASSUME GInv, Restart
    PROVE  AlertInv'
  <1>1. /\ UNCHANGED <<tried, received, pending, delivered, groupStart, stream>>
        /\ troubled' = Troubled /\ at' = Unspawned /\ call' = NoCalls /\ url' = NoRequest
    BY Zenon DEF Restart, redis, telegram
  <1>2. \A c \in Callers : call'[c] = Idle
    BY <1>1 DEF NoCalls
  <1>3. Idle.step = "idle" /\ Idle.wire = NoRequest /\ NoRequest.m # "alert"
    BY DEF Idle, NoRequest
  <1>4. Troubled \subseteq Troubled'
    BY <1>1 DEF Troubled
  <1>5. at'["alert"] \notin Busy
    BY <1>1, ThreadSets DEF Busy, Unspawned
  <1>. QED
    BY <1>1, <1>2, <1>3, <1>4, <1>5, AlertQuiet, ThreadSets

LEMMA GInit == Init => GInv
  <1>. SUFFICES ASSUME Init PROVE GInv
    OBVIOUS
  <1>1. AInv
    BY DEF Init, AInv, Batch, Last_, Busy, NoBatches, Unspawned, Loops, Threads
  <1>2. /\ at["alert"] = "off" /\ \A c \in Callers : call[c] = Idle
        /\ url = NoRequest /\ tried = <<>> /\ received = <<>>
        /\ groupStart["alert"] = NoGroup
    BY FreshInv, ThreadSets DEF Init, Unspawned, NoCalls
  <1>3. Idle.step = "idle" /\ Idle.wire = NoRequest /\ NoRequest.m # "alert"
    BY DEF Idle, NoRequest
  <1>4. HeadCalled
    BY <1>2 DEF HeadCalled
  <1>5. TriedOnly
    BY <1>2, <1>3 DEF TriedOnly, Positions
  <1>6. Owns
    BY <1>2 DEF Owns, Positions
  <1>7. Untried
    BY <1>2 DEF Untried, Handed
  <1>. QED
    BY <1>1, <1>4, <1>5, <1>6, <1>7, NInit, HandInit DEF GInv, AlertInv

LEMMA GNext ==
    ASSUME GInv, [Next]_vars
    PROVE  GInv'
  <1>1. NInv' /\ HandInv' /\ AInv'
    BY NNext, HandNext, RefinesStep DEF GInv, NInv
  <1>2. CASE UNCHANGED vars
    <2>1. UNCHANGED <<tried, received, troubled, redis, todo, at>> /\ NoCall
      BY <1>2, Zenon DEF vars, telegram, handle, NoCall
    <2>. QED
      BY <1>1, <2>1, ThreadKeeps, ThreadSets DEF GInv
  <1>3. CASE Next
    <2>1. CInv'
      BY <1>1 DEF NInv
    <2>2. AlertInv'
      BY <1>3, <2>1, AlertCalls, AlertMoves, ReplyMoves, PollQuiet, ServerQuiet, MainQuiet,
         EnvironmentQuiet, RestartQuiet, ThreadSets DEF Next
    <2>. QED
      BY <1>1, <2>2 DEF GInv
  <1>. QED
    BY <1>2, <1>3

LEMMA CountOne ==
    ASSUME NEW k, AtMost(k), received \in Seq(Nat)
    PROVE  /\ Times(k) <= 1
           /\ k \in Positions(received) => Times(k) = 1
           /\ k \notin Positions(received) => Times(k) = 0
  <1>. DEFINE S == {j \in DOMAIN received : received[j] = k}
  <1>1. CASE k \notin Positions(received)
    <2>1. S = {}
      BY <1>1 DEF Positions
    <2>2. Cardinality(S) = 0
      BY <2>1, FS_EmptySet
    <2>. QED
      BY <1>1, <2>2 DEF Times
  <1>2. CASE k \in Positions(received)
    <2>1. PICK i \in DOMAIN received : received[i] = k
      BY <1>2 DEF Positions
    <2>2. S = {i}
      BY <2>1 DEF AtMost
    <2>3. Cardinality(S) = 1
      BY <2>2, FS_Singleton
    <2>. QED
      BY <1>2, <2>3 DEF Times
  <1>. QED
    BY <1>1, <1>2

\* An alert to the owner whose call neither failed nor met another call on the
\* handle arrives at most once, and once it is acknowledged it has arrived,
\* although every request goes out with the URL that was set last, and every
\* answer into the string that was set last (main.cpp:109-115,
\* telegram_client.cpp:57-60).
THEOREM AlertsArrive == Spec => []AlertsAccounted
  <1>1. ASSUME GInv PROVE AlertsAccounted
    <2>1. SUFFICES ASSUME NEW k \in DOMAIN stream["alert"], stream["alert"][k] = "plain",
                          k \notin Troubled
                   PROVE  /\ Times(k) <= 1
                          /\ Handed("alert", k) /\ k \notin pending["alert"] => Times(k) = 1
      BY DEF AlertsAccounted
    <2>2. /\ received \in Seq(Nat) /\ Last_ \in Nat /\ Len(stream["alert"]) \in Nat
          /\ UInv /\ Positions(received) \subseteq Positions(tried)
      BY <1>1, HeadFacts DEF GInv, NInv, AlertInv, TriedOnly
    <2>3. CASE k \in Positions(tried)
      <3>1. OwnOf(k)
        BY <1>1, <2>1, <2>3 DEF GInv, AlertInv, Owns
      <3>2. AtMost(k) /\ (k \notin pending["alert"] => k \in Positions(received))
        BY <3>1 DEF OwnOf
      <3>. QED
        BY <2>2, <3>2, CountOne
    <2>4. CASE k \notin Positions(tried)
      <3>1. k \notin Positions(received)
        BY <2>2, <2>4
      <3>2. AtMost(k)
        BY <3>1 DEF AtMost, Positions
      <3>3. Handed("alert", k) => k \in 1 .. Last_
        <4>1. stream["alert"] \in Seq(Kinds)
          BY <2>2, ThreadSets DEF UInv, Typed
        <4>2. k \in 1 .. Len(stream["alert"])
          BY <2>1, <4>1
        <4>. QED
          BY <2>2, <4>2 DEF Handed, Last_
      <3>4. Handed("alert", k) => k \in pending["alert"]
        BY <1>1, <2>1, <2>4, <3>3 DEF GInv, AlertInv, Untried
      <3>. QED
        BY <2>2, <3>1, <3>2, <3>4, CountOne
    <2>. QED
      BY <2>3, <2>4
  <1>. QED
    BY <1>1, GInit, GNext, PTL DEF Spec

-----------------------------------------------------------------------------
(* Types.                                                                  *)

\* The calls k know of no update beyond the n that there are.
Fits(k, n) ==
    \A c \in Callers :
        /\ k[c].wire.m = "updates" => k[c].wire.n <= n + 1
        /\ \A j \in DOMAIN k[c].got : k[c].got[j].to <= n

\* Nor does anything else.
CallsKnow ==
    /\ Fits(call, updates) /\ confirmed <= updates
    /\ url.m = "updates" => url.n <= updates + 1
    /\ \A c \in Callers : call[c].step = "idle" => call[c] = Idle
PollKnows ==
    offset <= updates /\ handled \subseteq 1 .. updates /\ Positions(batch) \subseteq 1 .. updates

\* Alerts in trouble were tried, and those were handed out.
Handled ==
    /\ posts \in Nat /\ requests \in 0 .. posts
    /\ server \in {"none", "spawned", "listening", "stopping", "ended"}
    /\ Positions(tried) \cup troubled \subseteq 1 .. Last_

Known == CallsKnow /\ PollKnows /\ Handled

LEMMA KnownTypes ==
    ASSUME UInv
    PROVE  /\ updates \in Nat /\ confirmed \in Nat /\ offset \in Nat /\ url.n \in Nat
           /\ \A c \in Callers : call[c].wire.n \in Nat /\ call[c].wire \in Wires
           /\ \A c \in Callers : call[c].got \in Seq(Answers)
           /\ \A c \in Callers : \A j \in DOMAIN call[c].got :
                 call[c].got[j].to \in Nat /\ call[c].got[j].from \in Nat
  <1>1. updates \in Nat /\ confirmed \in Nat /\ offset \in Nat /\ url \in Wires
    BY DEF UInv, Typed, BatchInv, HandleInv
  <1>2. \A c \in Callers : call[c].wire \in Wires /\ call[c].got \in Seq(Answers)
    BY CallTypes DEF Calls
  <1>3. \A w \in Wires : w.n \in Nat
    BY DEF Wires
  <1>4. \A a \in Answers : a.to \in Nat /\ a.from \in Nat
    BY DEF Answers
  <1>. QED
    BY <1>1, <1>2, <1>3, <1>4

\* A call begins or returns, or there is none.
LEMMA HandleKnows ==
    ASSUME UInv, CallsKnow, UNCHANGED <<updates, confirmed>>,
           \/ NoCall
           \/ \E c \in Callers : Return(c)
           \/ \E c \in Callers, m \in Methods, n \in Nat :
                 Begin(c, m, n) /\ (m = "updates" => n <= updates + 1)
    PROVE  CallsKnow'
  <1>1. Idle.wire.m # "updates" /\ Idle.got = <<>> /\ Idle.step = "idle"
    BY IdleTyped, IdleStep
  <1>2. CASE NoCall
    BY <1>2 DEF NoCall, CallsKnow
  <1>3. ASSUME NEW c \in Callers, Return(c)
        PROVE  CallsKnow'
    <2>1. /\ call'[c] = Idle /\ \A d \in Callers : d # c => call'[d] = call[d]
          /\ url' = url
      BY <1>3, IdleStays DEF Return
    <2>. QED
      BY <1>1, <2>1 DEF CallsKnow, Fits
  <1>4. ASSUME NEW c \in Callers, NEW m \in Methods, NEW n \in Nat, Begin(c, m, n),
               m = "updates" => n <= updates + 1
        PROVE  CallsKnow'
    <2>1. /\ url' = [m |-> m, n |-> n]
          /\ call'[c].step = "perform" /\ call'[c].got = <<>> /\ call'[c].wire = NoRequest
          /\ \A d \in Callers : d # c =>
                /\ call'[d].step = call[d].step /\ call'[d].got = call[d].got
                /\ call'[d].wire = call[d].wire
                /\ call[d] = Idle => call'[d] = Idle
      BY <1>4, BeginFacts
    <2>2. NoRequest.m # "updates"
      BY DEF NoRequest
    <2>3. Fits(call, updates)'
      BY <2>1, <2>2 DEF CallsKnow, Fits
    <2>4. url'.m = "updates" => url'.n <= updates + 1
      BY <1>4, <2>1
    <2>. QED
      BY <2>1, <2>3, <2>4 DEF CallsKnow
  <1>. QED
    BY <1>2, <1>3, <1>4

\* A request that goes out, or an answer that comes in, knows no more.
LEMMA CallsLearn ==
    ASSUME UInv, CallsKnow, NEW c \in Callers, CallStep(c)
    PROVE  CallsKnow' /\ UNCHANGED updates
  <1>1. (Perform(c) \/ Answer(c)) /\ c \in Callers
    BY DEF CallStep
  <1>2. CASE Perform(c)
    <2>1. /\ url' = url /\ UNCHANGED <<updates, confirmed>>
      BY <1>2 DEF Perform, telegram
    <2>2. /\ \A d \in Callers : d # c => call'[d] = call[d]
          /\ call'[c].got = call[c].got /\ call'[c].wire \in {call[c].wire, url}
          /\ call'[c].step # "idle"
      <3>1. busy \/ ~ busy
        OBVIOUS
      <3>. QED
        BY <1>2, <3>1, PerformFacts
    <2>. QED
      BY <2>1, <2>2 DEF CallsKnow, Fits
  <1>3. CASE Answer(c)
    <2>. DEFINE w == call[c].wire
    <2>1. url' = url /\ updates' = updates
      BY <1>3 DEF Answer
    <2>2. w.n \in Nat /\ (w.m = "updates" => w.n <= updates + 1)
          /\ updates \in Nat /\ confirmed \in Nat /\ confirmed <= updates
      BY KnownTypes DEF CallsKnow, Fits
    <2>3. Confirms(w) \in Nat /\ Confirms(w) <= updates
      BY <2>2 DEF Confirms
    <2>4. confirmed' <= updates
      BY <1>3, <2>2, <2>3, AnswerFacts DEF TakesEffect, NoEffect
    <2>5. AnswerTo(w).to <= updates /\ Odd.to <= updates
      BY <2>2, <2>3 DEF AnswerTo, Odd
    <2>6. \/ \A d \in Callers : call'[d].got = call[d].got
          \/ Landed(AnswerTo(w)) \/ Landed(Odd)
      BY <1>3, AnswerFacts
    <2>7. ASSUME NEW d \in Callers, NEW a, Landed(a), a.to <= updates
          PROVE  \A j \in DOMAIN call'[d].got : call'[d].got[j].to <= updates
      <3>1. CASE call'[d].got = call[d].got
        BY <3>1 DEF CallsKnow, Fits
      <3>2. CASE call'[d].got = Append(call[d].got, a)
        <4>1. \A j \in DOMAIN Append(call[d].got, a) :
                 Append(call[d].got, a)[j] = a
                 \/ (j \in DOMAIN call[d].got /\ Append(call[d].got, a)[j] = call[d].got[j])
          BY KnownTypes
        <4>. QED
          BY <2>7, <3>2, <4>1 DEF CallsKnow, Fits
      <3>. QED
        BY <2>7, <3>1, <3>2 DEF Landed
    <2>8. \A d \in Callers : \A j \in DOMAIN call'[d].got : call'[d].got[j].to <= updates
      BY <2>5, <2>6, <2>7 DEF CallsKnow, Fits
    <2>9. \A d \in Callers : call'[d].wire = call[d].wire
          /\ (call'[d].step = "idle" => call'[d] = Idle)
      BY <1>3, AnswerFacts DEF CallsKnow
    <2>. QED
      BY <2>1, <2>4, <2>8, <2>9 DEF CallsKnow, Fits
  <1>. QED
    BY <1>1, <1>2, <1>3 DEF Perform, telegram

\* The poll thread works on updates there are.
LEMMA PollLearns ==
    ASSUME NInv, CallsKnow, PollKnows, PollStep
    PROVE  CallsKnow' /\ PollKnows'
  <1>1. /\ UNCHANGED <<updates, confirmed>> /\ UInv
        /\ updates \in Nat /\ offset \in Nat /\ "poll" \in Callers
    <2>1. UNCHANGED telegram
      BY Zenon DEF PollStep
    <2>. QED
      BY <2>1, KnownTypes, ThreadSets DEF telegram, NInv
  <1>2. ASSUME at["poll"] \in {"update", "notice"}
        PROVE  /\ batch \in Seq(Nat) /\ batch # <<>> /\ Head(batch) \in Nat
               /\ Head(batch) \in 1 .. updates
               /\ Positions(Tail(batch)) \subseteq Positions(batch)
    <2>1. batch \in Seq(Nat) /\ batch # <<>>
      BY <1>1, <1>2 DEF UInv, BatchInv
    <2>2. Head(batch) = batch[1] /\ 1 \in DOMAIN batch
      BY <2>1
    <2>3. \A j \in DOMAIN Tail(batch) : j + 1 \in DOMAIN batch /\ Tail(batch)[j] = batch[j + 1]
      BY <2>1
    <2>. QED
      BY <2>1, <2>2, <2>3 DEF PollKnows, Positions
  <1>3. Positions(<<>>) = {}
    BY DEF Positions
  <1>4. UNCHANGED poller => PollKnows'
    BY <1>1 DEF poller, PollKnows
  <1>5. GiveUp => PollKnows'
    BY <1>1, <1>3 DEF GiveUp, PollKnows
  <1>6. ASSUME at["poll"] \in {"update", "notice"}, Advance
        PROVE  PollKnows'
    <2>1. Head(batch) \in 1 .. updates /\ Positions(Tail(batch)) \subseteq Positions(batch)
      BY <1>2, <1>6
    <2>2. /\ handled' = handled \cup {Head(batch)} /\ batch' = Tail(batch)
          /\ offset' = offset \/ offset' = Head(batch)
      BY <1>6 DEF Advance
    <2>3. offset' <= updates
      BY <1>1, <2>1, <2>2 DEF PollKnows
    <2>. QED
      BY <1>1, <2>1, <2>2, <2>3 DEF PollKnows
  <1>7. NoCall \/ Return("poll") => CallsKnow'
    BY <1>1, HandleKnows
  <1>8. ASSUME NEW m \in {"updates", "notice"}, NEW n \in Nat, Begin("poll", m, n),
               m = "updates" => n <= updates + 1
        PROVE  CallsKnow'
    BY <1>1, <1>8, HandleKnows, ThreadSets
  <1>9. CASE PollAsks
    <2>1. offset + 1 \in Nat /\ offset + 1 <= updates + 1
      BY <1>1 DEF PollKnows
    <2>. QED
      BY <1>4, <1>8, <1>9, <2>1 DEF PollAsks
  <1>10. CASE PollEnds
    BY <1>4, <1>7, <1>10 DEF PollEnds
  <1>11. CASE PollAnswered
    <2>1. UNCHANGED <<offset, handled>> /\ CallsKnow'
      BY <1>7, <1>11 DEF PollAnswered
    <2>2. Positions(batch') \subseteq 1 .. updates
      <3>1. CASE batch' = <<>>
        BY <1>3, <3>1
      <3>2. CASE Result("poll") = "updates"
        <4>. DEFINE a == call["poll"].got[1]
        <4>1. Len(call["poll"].got) = 1 /\ a.m = "updates"
          BY <3>2 DEF Result
        <4>2. 1 \in DOMAIN call["poll"].got
          BY <1>1, <4>1, KnownTypes
        <4>3. a.from \in Nat /\ a.to \in Nat /\ a.to <= updates /\ a.from > 0
          <5>1. SafeAnswer(a, handled)
            BY <1>1, <4>2 DEF UInv, HandleInv, Carries
          <5>. QED
            BY <1>1, <4>1, <4>2, <5>1, KnownTypes DEF CallsKnow, Fits, SafeAnswer
        <4>4. batch' = [k \in 1 .. a.to - a.from + 1 |-> a.from + k - 1]
          BY <1>11, <3>2 DEF PollAnswered
        <4>. HIDE DEF a
        <4>5. \A k \in 1 .. a.to - a.from + 1 : a.from + k - 1 \in 1 .. updates
          BY <1>1, <4>3
        <4>. QED
          BY <4>4, <4>5 DEF Positions
      <3>. QED
        BY <1>11, <3>1, <3>2 DEF PollAnswered
    <2>. QED
      BY <1>1, <2>1, <2>2 DEF PollKnows
  <1>12. CASE PollUpdate
    <2>1. CASE Begin("poll", "notice", Head(batch)) /\ UNCHANGED poller
      BY <1>2, <1>4, <1>8, <1>12, <2>1 DEF PollUpdate
    <2>2. CASE NoCall /\ (Advance \/ GiveUp)
      BY <1>5, <1>6, <1>7, <1>12, <2>2 DEF PollUpdate
    <2>. QED
      BY <1>12, <2>1, <2>2 DEF PollUpdate
  <1>13. CASE PollNoticed
    BY <1>5, <1>6, <1>7, <1>13 DEF PollNoticed
  <1>. QED
    BY <1>9, <1>10, <1>11, <1>12, <1>13 DEF PollStep

LEMMA CallsOf ==
    ASSUME UInv, CallsKnow, UNCHANGED <<updates, confirmed>>,
           NoCall \/ (\E c \in Callers : Return(c))
           \/ \E c \in Callers, m \in Methods \ {"updates"}, n \in Nat : Begin(c, m, n)
    PROVE  CallsKnow'
  BY HandleKnows

LEMMA OtherMethods == {"hook", "notice", "alert"} \subseteq Methods \ {"updates"} /\ 0 \in Nat
  BY DEF Methods

LEMMA KnownNext ==
    ASSUME GInv, CallsKnow, PollKnows, [Next]_vars
    PROVE  CallsKnow' /\ PollKnows'
  <1>1. UInv /\ NInv /\ (at["alert"] = "entry" => Head(Batch) \in Nat)
    BY HeadFacts DEF GInv, NInv, Busy
  <1>2. ASSUME UNCHANGED <<updates, poller>> PROVE PollKnows'
    BY <1>2 DEF poller, PollKnows
  <1>3. ASSUME UNCHANGED <<telegram, poller>>,
               NoCall \/ (\E c \in Callers : Return(c))
               \/ \E c \in Callers, m \in Methods \ {"updates"}, n \in Nat : Begin(c, m, n)
        PROVE  CallsKnow' /\ PollKnows'
    BY <1>1, <1>2, <1>3, CallsOf DEF telegram
  <1>4. CASE UNCHANGED vars
    <2>1. UNCHANGED <<telegram, poller>> /\ NoCall
      BY <1>4, Zenon DEF vars, handle, NoCall
    <2>. QED
      BY <1>3, <2>1
  <1>5. ASSUME NEW c \in Callers, CallStep(c)
        PROVE  CallsKnow' /\ PollKnows'
    <2>1. UNCHANGED poller
      BY <1>5, Zenon DEF CallStep
    <2>. QED
      BY <1>1, <1>2, <1>5, <2>1, CallsLearn
  <1>6. ASSUME NEW l \in Loops, LoopStep(l)
        PROVE  CallsKnow' /\ PollKnows'
    <2>1. UNCHANGED <<telegram, poller>>
      BY <1>6, Zenon DEF LoopStep
    <2>2. NoCall \/ Return("alert") \/ (at["alert"] = "entry" /\ Begin("alert", "alert", Head(Batch)))
      BY <1>6 DEF LoopStep, LoopStarts, LoopReads, LoopEnds, LoopEntry, LoopAcks, AlertSent, Batch
    <2>. QED
      BY <1>1, <1>3, <2>1, <2>2, OtherMethods, ThreadSets
  <1>7. CASE PollStep
    BY <1>1, <1>7, PollLearns
  <1>8. CASE ServerStep
    <2>1. UNCHANGED <<telegram, poller>>
      BY <1>8, Zenon DEF ServerStep
    <2>2. NoCall \/ Return("http") \/ Begin("http", "notice", 0)
      BY <1>8 DEF ServerStep, ServerListens, ServerEnds, HttpRefuses, HttpRefused, HttpPublishes
    <2>. QED
      BY <1>3, <2>1, <2>2, OtherMethods, ThreadSets
  <1>9. CASE MainStep
    <2>1. UNCHANGED <<telegram, poller>>
      BY <1>9, Zenon DEF MainStep
    <2>2. NoCall \/ Return("main") \/ Begin("main", "hook", 0)
      BY <1>9 DEF MainStep, MainSpawns, MainHooks, MainAborts, MainServes, MainStops,
         MainJoinsPoller, MainStopsServer, MainStopsConsumers, MainExits
    <2>. QED
      BY <1>3, <2>1, <2>2, OtherMethods, ThreadSets
  <1>10. CASE Environment
    <2>1. UNCHANGED <<confirmed, poller>> /\ NoCall
      BY <1>10, Zenon DEF Environment, Publish, Update, Signal, telegram, NoCall, handle
    <2>2. updates' \in Nat /\ updates <= updates' /\ updates \in Nat
      <3>1. updates' = updates \/ updates' = updates + 1
        BY <1>10 DEF Environment, Publish, Update, Signal, telegram
      <3>. QED
        BY <1>1, <3>1, KnownTypes
    <2>3. CallsKnow'
      <3>1. UNCHANGED <<call, url, confirmed>>
        BY <2>1 DEF NoCall
      <3>2. /\ confirmed <= updates' /\ (url.m = "updates" => url.n <= updates' + 1)
        BY <1>1, <2>2, KnownTypes DEF CallsKnow
      <3>3. Fits(call, updates')
        BY <1>1, <2>2, KnownTypes DEF CallsKnow, Fits
      <3>. QED
        BY <3>1, <3>2, <3>3 DEF CallsKnow, Fits
    <2>4. PollKnows'
      <3>1. 1 .. updates \subseteq 1 .. updates' /\ offset <= updates'
        BY <1>1, <2>2, KnownTypes DEF PollKnows
      <3>. QED
        BY <2>1, <3>1 DEF PollKnows, poller
    <2>. QED
      BY <2>3, <2>4
  <1>11. CASE Restart
    <2>1. /\ call' = NoCalls /\ url' = NoRequest /\ UNCHANGED <<telegram, handled>>
          /\ batch' = <<>> /\ offset' = 0
      BY <1>11, Zenon DEF Restart
    <2>2. /\ NoRequest.m # "updates" /\ Idle.wire.m # "updates" /\ Idle.got = <<>>
          /\ \A c \in Callers : call'[c] = Idle
      BY <2>1, IdleTyped DEF NoRequest, NoCalls
    <2>3. CallsKnow'
      BY <2>1, <2>2 DEF telegram, CallsKnow, Fits
    <2>4. Positions(<<>>) = {}
      BY DEF Positions
    <2>. QED
      BY <1>1, <2>1, <2>3, <2>4, KnownTypes DEF telegram, PollKnows
  <1>. QED
    BY <1>4, <1>5, <1>6, <1>7, <1>8, <1>9, <1>10, <1>11 DEF Next

\* The consumer's step tries what it has in hand.
LEMMA TriedHandled ==
    ASSUME GInv, CallsKnow, Handled, LoopStep("alert")
    PROVE  (Positions(tried) \cup troubled)' \subseteq 1 .. Last_'
  <1>1. /\ UInv /\ "alert" \in Loops /\ Last_ \in Nat /\ tried \in Seq(Nat)
        /\ "alert" \in Callers
    BY HeadFacts, ThreadSets DEF GInv, NInv
  <1>2. Last_' \in Nat /\ Last_ <= Last_'
    <2>1. AInv' /\ [Log!Next]_(Log!vars) /\ UInv'
      BY <1>1, ConsumerRefines, UNext DEF GInv, Next
    <2>2. Last_ <= Last_'
      <3>1. CASE UNCHANGED Log!vars
        BY <1>1, <3>1 DEF Log!vars, Last_
      <3>2. CASE Log!Next
        <4>1. Len(stream["alert"]) \in Nat
          BY HeadFacts
        <4>. QED
          BY <1>1, <3>2, <4>1 DEF Log!Next, Log!Publish, Log!Hand, Log!Act, Last_
      <3>. QED
        BY <2>1, <3>1, <3>2
    <2>3. Last_' \in Nat
      BY <1>1, <2>1 DEF UInv, Typed, Last_
    <2>. QED
      BY <2>2, <2>3
  <1>3. 1 .. Last_ \subseteq 1 .. Last_'
    BY <1>1, <1>2
  <1>4. tried' = tried \/ (at["alert"] = "entry" /\ tried' = Append(tried, Head(Batch)))
    BY DEF LoopStep, LoopStarts, LoopReads, LoopEnds, LoopEntry, LoopAcks, AlertSent, Batch
  <1>5. Positions(tried)' \subseteq 1 .. Last_
    <2>1. CASE tried' = tried
      BY <2>1 DEF Handled, Positions
    <2>2. CASE at["alert"] = "entry" /\ tried' = Append(tried, Head(Batch))
      <3>1. Head(Batch) \in 1 .. Last_ /\ Head(Batch) \in Nat
        BY <2>2, HeadFacts DEF Busy
      <3>2. \A j \in DOMAIN tried' : tried'[j] = Head(Batch)
                                   \/ (j \in DOMAIN tried /\ tried'[j] = tried[j])
        BY <1>1, <2>2, <3>1
      <3>. QED
        BY <3>1, <3>2 DEF Handled, Positions
    <2>. QED
      BY <1>4, <2>1, <2>2
  <1>6. troubled' = troubled \/ (at["alert"] = "send" /\ troubled' = Troubled /\ call["alert"].step = "done")
    BY DEF LoopStep, LoopStarts, LoopReads, LoopEnds, LoopEntry, LoopAcks, AlertSent
  <1>7. troubled' \subseteq 1 .. Last_
    <2>1. CASE at["alert"] = "send" /\ troubled' = Troubled /\ call["alert"].step = "done"
      <3>1. call["alert"].req = Sends(Head(Batch)) /\ Head(Batch) \in 1 .. Last_
        BY <2>1, HeadFacts DEF GInv, AlertInv, HeadCalled, Busy
      <3>. QED
        BY <2>1, <3>1 DEF Handled, Troubled, Sends
    <2>. QED
      BY <1>6, <2>1 DEF Handled
  <1>. QED
    BY <1>3, <1>5, <1>7

LEMMA HandledStays ==
    ASSUME Handled, UNCHANGED <<tried, Last_>>, troubled' \subseteq 1 .. Last_,
           UNCHANGED <<posts, requests, server>>
    PROVE  Handled'
  BY DEF Handled, Positions

LEMMA HandledNext ==
    ASSUME GInv, CallsKnow, Handled, [Next]_vars
    PROVE  Handled'
  <1>1. /\ UInv /\ "alert" \in Loops /\ Last_ \in Nat /\ troubled \subseteq 1 .. Last_
        /\ "alert" \in Callers /\ posts \in Nat /\ requests \in 0 .. posts
        /\ delivered \in [Loops -> Nat]
    BY HeadFacts, ThreadSets DEF GInv, NInv, Handled, UInv, Typed
  <1>2. CASE UNCHANGED vars
    <2>1. UNCHANGED <<tried, delivered, troubled, posts, requests, server>>
      BY <1>2, Zenon DEF vars, redis
    <2>. QED
      BY <1>1, <2>1, HandledStays DEF Last_
  <1>3. ASSUME NEW c \in Callers, CallStep(c)
        PROVE  Handled'
    <2>1. UNCHANGED <<tried, delivered, troubled, posts, requests, server>>
      BY <1>3, Zenon DEF CallStep, redis
    <2>. QED
      BY <1>1, <2>1, HandledStays DEF Last_
  <1>4. CASE LoopStep("alert")
    <2>1. UNCHANGED <<posts, requests, server>>
      BY <1>4, Zenon DEF LoopStep
    <2>2. (Positions(tried) \cup troubled)' \subseteq 1 .. Last_'
      BY <1>4, TriedHandled
    <2>. QED
      BY <2>1, <2>2 DEF Handled
  <1>5. CASE LoopStep("reply")
    <2>1. UNCHANGED <<posts, requests, server>>
      BY <1>5, Zenon DEF LoopStep
    <2>2. UNCHANGED <<tried, troubled>>
          /\ (delivered' = delivered \/ \E x : delivered' = [delivered EXCEPT !["reply"] = x])
      BY <1>5 DEF LoopStep, LoopStarts, LoopReads, LoopEnds, LoopEntry, LoopAcks, CreateGroup
    <2>3. Last_' = Last_
      BY <1>1, <2>2 DEF Last_
    <2>. QED
      BY <1>1, <2>1, <2>2, <2>3, HandledStays
  <1>6. CASE PollStep
    <2>1. UNCHANGED <<tried, delivered, troubled, posts, requests, server>>
      <3>1. UNCHANGED <<tried, delivered, troubled, requests, server>>
        BY <1>6, Zenon DEF PollStep, redis
      <3>2. posts' = posts
        BY <1>6, Zenon DEF PollStep
      <3>. QED
        BY <3>1, <3>2
    <2>. QED
      BY <1>1, <2>1, HandledStays DEF Last_
  <1>7. CASE ServerStep
    <2>1. UNCHANGED <<tried, delivered, troubled>>
      BY <1>7, Zenon DEF ServerStep, redis
    <2>2. \/ UNCHANGED <<posts, requests>>
          \/ posts' = posts + 1 /\ requests' \in {requests, requests + 1}
      BY <1>7 DEF ServerStep, ServerListens, ServerEnds, HttpRefuses, HttpRefused, HttpPublishes
    <2>3. posts' \in Nat /\ requests' \in 0 .. posts'
      BY <1>1, <2>2
    <2>4. server' = server \/ server' \in {"listening", "ended"}
      BY <1>7 DEF ServerStep, ServerListens, ServerEnds, HttpRefuses, HttpRefused, HttpPublishes
    <2>. QED
      BY <1>1, <2>1, <2>3, <2>4 DEF Handled, Last_, Positions
  <1>8. CASE MainStep
    <2>1. UNCHANGED <<tried, delivered, troubled, posts, requests>>
      BY <1>8, Zenon DEF MainStep, redis
    <2>2. server' = server \/ server' \in {"spawned", "stopping"}
      BY <1>8 DEF MainStep, MainSpawns, MainHooks, MainAborts, MainServes, MainStops,
         MainJoinsPoller, MainStopsServer, MainStopsConsumers, MainExits
    <2>. QED
      BY <1>1, <2>1, <2>2 DEF Handled, Last_, Positions
  <1>9. CASE Environment
    <2>1. UNCHANGED <<tried, delivered, troubled, posts, requests, server>>
      BY <1>9, Zenon DEF Environment, Publish, Update, Signal, redis
    <2>. QED
      BY <1>1, <2>1, HandledStays DEF Last_
  <1>10. CASE Restart
    <2>1. UNCHANGED <<tried, delivered, posts, requests>> /\ server' = "none" /\ troubled' = Troubled
      BY <1>10, Zenon DEF Restart, redis
    <2>2. call["alert"].troubled => call["alert"].req.n \in 1 .. Last_
      <3>. SUFFICES ASSUME call["alert"].troubled PROVE call["alert"].req.n \in 1 .. Last_
        OBVIOUS
      <3>1. call["alert"].step # "idle" /\ call["alert"] # Idle
        BY <1>1, IdleStep DEF CallsKnow
      <3>2. at["alert"] = "send"
        BY <1>1, <3>1 DEF GInv, NInv, Resting, InCall
      <3>3. call["alert"].req = Sends(Head(Batch)) /\ Head(Batch) \in 1 .. Last_
        BY <3>1, <3>2, HeadFacts DEF GInv, AlertInv, HeadCalled, Busy
      <3>. QED
        BY <3>3 DEF Sends
    <2>3. troubled' \subseteq 1 .. Last_
      BY <1>1, <2>1, <2>2 DEF Troubled
    <2>. QED
      BY <1>1, <2>1, <2>3 DEF Handled, Last_, Positions
  <1>. QED
    BY <1>2, <1>3, <1>4, <1>5, <1>6, <1>7, <1>8, <1>9, <1>10, ThreadSets DEF Next

LEMMA KnownInit == Init => Known
  <1>. SUFFICES ASSUME Init PROVE Known
    OBVIOUS
  <1>1. \A c \in Callers : call[c] = Idle
    BY DEF Init, NoCalls
  <1>2. CallsKnow
    BY <1>1, IdleTyped DEF Init, CallsKnow, Fits, NoRequest
  <1>3. PollKnows /\ Handled
    BY DEF Init, PollKnows, Handled, Positions
  <1>. QED
    BY <1>2, <1>3 DEF Known

\* Every variable has its type, and the handle performs one call at a time,
\* whatever the threads do to it (telegram_client.cpp:24-97).
THEOREM TypeCorrect == Spec => []TypeOK
  <1>1. ASSUME GInv, Known PROVE TypeOK
    <2>1. UInv /\ HandInv /\ CInv /\ NInv
      BY <1>1 DEF GInv, NInv
    <2>2. ASSUME NEW l \in Loops
          PROVE  /\ stream[l] \in Seq(Kinds)
                 /\ groupStart[l] \in {NoGroup} \cup 0 .. Len(stream[l])
                 /\ delivered[l] \in 0 .. Len(stream[l])
                 /\ pending[l] \subseteq 1 .. delivered[l]
                 /\ Positions(todo[l]) \subseteq pending[l]
      <3>1. HandOf(l)
        BY <2>1 DEF HandInv
      <3>2. stream[l] \in Seq(Kinds) /\ delivered[l] \in Nat /\ delivered[l] <= Len(stream[l])
        BY <2>1 DEF UInv, Typed
      <3>. QED
        BY <3>1, <3>2 DEF HandOf
    <2>3. scope \in Scopes /\ updates \in Nat /\ confirmed \in 0 .. updates
          /\ offset \in 0 .. updates /\ handled \subseteq 1 .. updates
      BY <1>1, <2>1, KnownTypes DEF UInv, Typed, Known, CallsKnow, PollKnows
    <2>4. /\ requests \in 0 .. posts
          /\ server \in {"none", "spawned", "listening", "stopping", "ended"}
          /\ Positions(received) \cup Positions(tried) \cup troubled \subseteq 1 .. delivered["alert"]
      BY <1>1 DEF Known, Handled, GInv, AlertInv, TriedOnly, Last_
    <2>5. ended \in {"no", "exit", "abort"}
      BY <2>1 DEF NInv, Life
    <2>6. Cardinality({c \in Callers : call[c].step = "wait"}) = IF busy THEN 1 ELSE 0
      <3>. DEFINE W == {c \in Callers : call[c].step = "wait"}
      <3>1. CASE busy
        <4>1. PICK c \in Callers : Waits(c)
          BY <2>1, <3>1 DEF CInv, OneWaits
        <4>2. W = {c}
          BY <2>1, <4>1 DEF CInv, OneWaits, Waits
        <4>3. Cardinality(W) = 1
          BY <4>2, FS_Singleton
        <4>. QED
          BY <3>1, <4>3
      <3>2. CASE ~ busy
        <4>1. W = {}
          BY <2>1, <3>2 DEF CInv, OneWaits, Waits
        <4>2. Cardinality(W) = 0
          BY <4>1, FS_EmptySet
        <4>. QED
          BY <3>2, <4>2
      <3>. QED
        BY <3>1, <3>2
    <2>7. \A c \in Callers : Len(call[c].got) <= Cardinality(Callers)
      <3>1. IsFiniteSet({"main"}) /\ Cardinality({"main"}) = 1
        BY FS_Singleton
      <3>2. /\ IsFiniteSet({"main"} \cup {"alert"})
            /\ Cardinality({"main"} \cup {"alert"}) = 2
        BY <3>1, FS_AddElement
      <3>3. /\ IsFiniteSet({"main"} \cup {"alert"} \cup {"poll"})
            /\ Cardinality({"main"} \cup {"alert"} \cup {"poll"}) = 3
        BY <3>2, FS_AddElement
      <3>4. Cardinality({"main"} \cup {"alert"} \cup {"poll"} \cup {"http"}) = 4
        BY <3>3, FS_AddElement
      <3>5. {"main"} \cup {"alert"} \cup {"poll"} \cup {"http"} = Callers
        BY DEF Callers
      <3>6. \A c \in Callers : Len(call[c].got) \in Nat /\ Len(call[c].got) <= 2
        BY <2>1, CallTypes DEF CInv, TwoAtMost
      <3>7. Cardinality(Callers) = 4
        BY <3>4, <3>5
      <3>8. \A n \in Nat : n <= 2 => n <= 4
        OBVIOUS
      <3>. QED
        BY <3>6, <3>7, <3>8, Zenon
    <2>. QED
      BY <2>2, <2>3, <2>4, <2>5, <2>6, <2>7 DEF TypeOK
  <1>2. GInv /\ Known /\ [Next]_vars => Known'
    BY KnownNext, HandledNext DEF Known
  <1>. QED
    BY <1>1, <1>2, GInit, GNext, KnownInit, PTL DEF Spec
=============================================================================

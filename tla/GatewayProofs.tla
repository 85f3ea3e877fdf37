---------------------------- MODULE GatewayProofs ----------------------------
(***************************************************************************)
(* Proofs about the gateway's threads, for any scopes and batch sizes.     *)
(*                                                                         *)
(* Why no update is lost although the threads mix up each other's requests *)
(* and answers: a request for updates that is on its way was written by a  *)
(* poll thread that had handled everything below its offset, whichever     *)
(* call carries it, and an answer starts at most one above what is         *)
(* handled, whichever string it lands in.                                  *)
(***************************************************************************)
EXTENDS Gateway, TLAPS

Methods == {"none", "hook", "updates", "notice", "alert"}
Wires   == [m : Methods, n : Nat]
Answers == [m : {"updates", "other", "odd"}, from : Nat, to : Nat]
Calls   == [step : {"idle", "perform", "wait", "done"}, req : Wires, wire : Wires,
            got : Seq(Answers), bad : BOOLEAN, troubled : BOOLEAN]

\* The updates up to n are in h, the handled ones.
Below(n, h) == \A k \in 1 .. n : k \in h

\* A request, and an answer, leave nothing out that is not in h.
SafeWire(w, h)   == w.m = "updates" => w.n > 0 /\ Below(w.n - 1, h)
SafeAnswer(a, h) == a.m = "updates" => a.from > 0 /\ Below(a.from - 1, h)

\* So do the calls k.
Carries(k, h) ==
    /\ k \in [Callers -> Calls]
    /\ \A c \in Callers : SafeWire(k[c].wire, h)
    /\ \A c \in Callers : \A j \in DOMAIN k[c].got : SafeAnswer(k[c].got[j], h)

HandleInv ==
    /\ Carries(call, handled) /\ out \in Callers
    /\ url \in Wires /\ SafeWire(url, handled)

\* The batch is the gapless run of updates right above something handled.
BatchInv ==
    /\ batch \in Seq(Nat) /\ offset \in Nat
    /\ \A k \in DOMAIN batch : batch[k] = batch[1] + k - 1
    /\ batch # <<>> => batch[1] > 0 /\ Below(batch[1] - 1, handled)
    /\ at["poll"] \in {"update", "notice"} => batch # <<>>
    /\ Below(offset, handled)

Threaded == at = [t \in Threads |-> at[t]]
Typed ==
    /\ scope \in Scopes /\ Threaded /\ updates \in Nat /\ confirmed \in Nat
    /\ stream \in [Loops -> Seq(Kinds)] /\ delivered \in [Loops -> Nat]
    /\ todo \in [Loops -> Seq(Nat)]
    /\ \A l \in Loops : delivered[l] <= Len(stream[l])
    /\ \A l \in Loops : at[l] \in {"entry", "send", "ack"} => todo[l] # <<>>

UInv == HandleInv /\ BatchInv /\ Typed /\ Below(confirmed, handled)

-----------------------------------------------------------------------------
(* Calls.                                                                  *)

\* What was handled stays so.
LEMMA CarriesMore ==
    ASSUME NEW k, NEW h, NEW g, h \subseteq g
    PROVE  /\ \A n : Below(n, h) => Below(n, g)
           /\ \A w : SafeWire(w, h) => SafeWire(w, g)
           /\ Carries(k, h) => Carries(k, g)
  <1>1. \A n : Below(n, h) => Below(n, g)
    BY DEF Below
  <1>2. /\ \A w : SafeWire(w, h) => SafeWire(w, g)
        /\ \A a : SafeAnswer(a, h) => SafeAnswer(a, g)
    BY <1>1 DEF SafeWire, SafeAnswer
  <1>. QED
    BY <1>1, <1>2 DEF Carries

\* A thread without a call.
LEMMA IdleTyped ==
    NoRequest \in Wires /\ Idle \in Calls /\ Idle.wire.m = "none" /\ Idle.got = <<>>
  <1>1. NoRequest \in Wires /\ NoRequest.m = "none"
    BY DEF NoRequest, Wires, Methods
  <1>2. <<>> \in Seq(Answers)
    BY SMT
  <1>3. Idle \in Calls
    BY <1>1, <1>2, Zenon DEF Idle, Calls
  <1>. QED
    BY <1>1, <1>3, Zenon DEF Idle

\* One call changes, and carries what is safe.
LEMMA CarriesSet ==
    ASSUME NEW k, NEW h, Carries(k, h), NEW c \in Callers, NEW q \in Calls,
           SafeWire(q.wire, h), \A j \in DOMAIN q.got : SafeAnswer(q.got[j], h)
    PROVE  Carries([k EXCEPT ![c] = q], h)
  BY DEF Carries

\* Setting fields other than the wire and the answers.
LEMMA SetStep ==
    ASSUME NEW k, NEW h, Carries(k, h), NEW c \in Callers,
           NEW s \in {"idle", "perform", "wait", "done"}
    PROVE  Carries([k EXCEPT ![c].step = s], h)
  <1>. DEFINE q == [k[c] EXCEPT !.step = s]
  <1>1. q \in Calls /\ q.wire = k[c].wire /\ q.got = k[c].got
    BY DEF Carries, Calls
  <1>2. SafeWire(q.wire, h) /\ \A j \in DOMAIN q.got : SafeAnswer(q.got[j], h)
    BY <1>1 DEF Carries
  <1>3. [k EXCEPT ![c].step = s] = [k EXCEPT ![c] = q]
    OBVIOUS
  <1>. QED
    BY <1>1, <1>2, <1>3, CarriesSet

LEMMA SetBad ==
    ASSUME NEW k, NEW h, Carries(k, h), NEW c \in Callers
    PROVE  Carries([k EXCEPT ![c].bad = TRUE], h)
  <1>. DEFINE q == [k[c] EXCEPT !.bad = TRUE]
  <1>1. q \in Calls /\ q.wire = k[c].wire /\ q.got = k[c].got
    BY DEF Carries, Calls
  <1>2. SafeWire(q.wire, h) /\ \A j \in DOMAIN q.got : SafeAnswer(q.got[j], h)
    BY <1>1 DEF Carries
  <1>3. [k EXCEPT ![c].bad = TRUE] = [k EXCEPT ![c] = q]
    OBVIOUS
  <1>. QED
    BY <1>1, <1>2, <1>3, CarriesSet

LEMMA SetTroubled ==
    ASSUME NEW k, NEW h, Carries(k, h), NEW c \in Callers
    PROVE  Carries([k EXCEPT ![c].troubled = TRUE], h)
  <1>. DEFINE q == [k[c] EXCEPT !.troubled = TRUE]
  <1>1. q \in Calls /\ q.wire = k[c].wire /\ q.got = k[c].got
    BY DEF Carries, Calls
  <1>2. SafeWire(q.wire, h) /\ \A j \in DOMAIN q.got : SafeAnswer(q.got[j], h)
    BY <1>1 DEF Carries
  <1>3. [k EXCEPT ![c].troubled = TRUE] = [k EXCEPT ![c] = q]
    OBVIOUS
  <1>. QED
    BY <1>1, <1>2, <1>3, CarriesSet

\* The request goes out.
LEMMA SetWire ==
    ASSUME NEW k, NEW h, Carries(k, h), NEW c \in Callers, NEW w \in Wires, SafeWire(w, h)
    PROVE  Carries([k EXCEPT ![c].wire = w], h)
  <1>. DEFINE q == [k[c] EXCEPT !.wire = w]
  <1>1. q \in Calls /\ q.wire = w /\ q.got = k[c].got
    BY DEF Carries, Calls
  <1>2. \A j \in DOMAIN q.got : SafeAnswer(q.got[j], h)
    BY <1>1 DEF Carries
  <1>3. [k EXCEPT ![c].wire = w] = [k EXCEPT ![c] = q]
    OBVIOUS
  <1>. QED
    BY <1>1, <1>2, <1>3, CarriesSet

\* An answer comes in.
LEMMA SetGot ==
    ASSUME NEW k, NEW h, Carries(k, h), NEW c \in Callers,
           NEW a \in Answers, SafeAnswer(a, h)
    PROVE  Carries([k EXCEPT ![c].got = Append(@, a)], h)
  <1>. DEFINE q == [k[c] EXCEPT !.got = Append(@, a)]
  <1>0. k[c] \in Calls /\ k[c].got \in Seq(Answers)
    BY DEF Carries, Calls
  <1>1. q \in Calls /\ q.wire = k[c].wire /\ q.got = Append(k[c].got, a)
    <2>1. ASSUME NEW r \in Calls, NEW g \in Seq(Answers)
          PROVE  LET p == [r EXCEPT !.got = g] IN p \in Calls /\ p.wire = r.wire /\ p.got = g
      BY DEF Calls
    <2>2. Append(k[c].got, a) \in Seq(Answers)
      BY <1>0
    <2>. QED
      BY <1>0, <2>1, <2>2, Zenon
  <1>2. SafeWire(q.wire, h)
    BY <1>1 DEF Carries
  <1>3. ASSUME NEW j \in DOMAIN q.got
        PROVE  SafeAnswer(q.got[j], h)
    <2>1. \A i \in DOMAIN k[c].got : SafeAnswer(k[c].got[i], h)
      BY DEF Carries
    <2>2. q.got[j] = a \/ (j \in DOMAIN k[c].got /\ q.got[j] = k[c].got[j])
      BY <1>0, <1>1, <1>3
    <2>. QED
      BY <2>1, <2>2
  <1>4. [k EXCEPT ![c].got = Append(@, a)] = [k EXCEPT ![c] = q]
    OBVIOUS
  <1>. QED
    BY <1>1, <1>2, <1>3, <1>4, CarriesSet

\* Setting a call's flag "troubled" to any truth value.
LEMMA MarkTroubled ==
    ASSUME NEW r \in Calls, NEW b \in BOOLEAN
    PROVE  LET q == [r EXCEPT !.troubled = b]
           IN  q \in Calls /\ q.wire = r.wire /\ q.got = r.got
  BY DEF Calls

LEMMA MarkRequest ==
    ASSUME NEW r \in Calls, NEW w \in Wires
    PROVE  LET q == [r EXCEPT !.step = "perform", !.req = w]
           IN  q \in Calls /\ q.wire = r.wire /\ q.got = r.got
  BY DEF Calls

-----------------------------------------------------------------------------
(* The handle under the steps of make_request.                             *)

\* A call begins with a request that leaves nothing out.
LEMMA BeginKeeps ==
    ASSUME HandleInv, handled' = handled, out' = out,
           NEW c \in Callers, NEW m \in Methods, NEW n \in Nat, Begin(c, m, n),
           m = "updates" => n > 0 /\ Below(n - 1, handled)
    PROVE  HandleInv'
  <1>. DEFINE w == [m |-> m, n |-> n]
  <1>1. w \in Wires /\ url' = w /\ w.m = m /\ w.n = n
    BY DEF Begin, Wires
  <1>2. /\ DOMAIN call' = Callers
        /\ \A d \in Callers : d # c => call'[d] = Overlapped(d)
        /\ call'[c] = [[Idle EXCEPT !.step = "perform", !.req = w]
                          EXCEPT !.troubled = \E e \in Callers : Active(e)]
        /\ call' = [d \in Callers |-> call'[d]]
    BY Zenon DEF Begin
  <1>3. ASSUME NEW d \in Callers, d # c
        PROVE  call'[d] \in Calls /\ call'[d].wire = call[d].wire /\ call'[d].got = call[d].got
    <2>1. call[d] \in Calls
      BY DEF HandleInv, Carries
    <2>. DEFINE b == call[d].troubled \/ Active(d)
    <2>2. call'[d] = [call[d] EXCEPT !.troubled = @ \/ Active(d)]
      BY <1>2, <1>3, Zenon DEF Overlapped
    <2>3. call'[d] = [call[d] EXCEPT !.troubled = b] /\ b \in BOOLEAN
      BY <2>2, Zenon
    <2>. HIDE DEF b
    <2>. QED
      BY <2>1, <2>3, MarkTroubled
  <1>4. call'[c] \in Calls /\ call'[c].wire = Idle.wire /\ call'[c].got = <<>>
    <2>. DEFINE r == [Idle EXCEPT !.step = "perform", !.req = w]
                b == \E e \in Callers : Active(e)
    <2>1. r \in Calls /\ r.wire = Idle.wire /\ r.got = <<>>
      BY <1>1, IdleTyped, MarkRequest, Zenon
    <2>2. call'[c] = [r EXCEPT !.troubled = b] /\ b \in BOOLEAN
      BY <1>2, Zenon
    <2>. HIDE DEF r, b
    <2>. QED
      BY <2>1, <2>2, MarkTroubled
  <1>5. SafeWire(url, handled)'
    BY <1>1 DEF SafeWire
  <1>6. Carries(call, handled)'
    <2>1. \A d \in Callers : call'[d] \in Calls
      BY <1>3, <1>4
    <2>2. \A d \in Callers : SafeWire(call'[d].wire, handled)
      BY <1>3, <1>4, IdleTyped DEF HandleInv, Carries, SafeWire
    <2>3. ASSUME NEW d \in Callers, NEW j \in DOMAIN call'[d].got
          PROVE  SafeAnswer(call'[d].got[j], handled)
      <3>1. d # c /\ call'[d].got = call[d].got
        BY <1>3, <1>4, <2>3
      <3>. QED
        BY <2>3, <3>1 DEF HandleInv, Carries
    <2>4. call' \in [Callers -> Calls]
      BY <1>2, <2>1
    <2>. QED
      BY <2>2, <2>3, <2>4 DEF Carries
  <1>. QED
    BY <1>1, <1>5, <1>6 DEF HandleInv

\* The handle is left alone, or a call returns, while more may get handled.
LEMMA HandleStays ==
    ASSUME HandleInv, handled \subseteq handled', out' = out,
           NoCall \/ \E c \in Callers : Return(c)
    PROVE  HandleInv'
  <1>1. Carries(call', handled) /\ url' = url
    <2>1. CASE NoCall
      BY <2>1 DEF NoCall, HandleInv
    <2>2. CASE \E c \in Callers : Return(c)
      <3>1. PICK c \in Callers : call' = [call EXCEPT ![c] = Idle] /\ url' = url
        BY <2>2 DEF Return
      <3>2. SafeWire(Idle.wire, handled) /\ \A j \in DOMAIN Idle.got : SafeAnswer(Idle.got[j], handled)
        BY IdleTyped DEF SafeWire
      <3>. QED
        BY <3>1, <3>2, IdleTyped, CarriesSet DEF HandleInv
    <2>. QED
      BY <2>1, <2>2
  <1>2. Carries(call', handled') /\ SafeWire(url, handled')
    BY <1>1, CarriesMore DEF HandleInv
  <1>. QED
    BY <1>1, <1>2 DEF HandleInv

\* The URL that was set last goes out, or the call fails at once.
LEMMA PerformKeeps ==
    ASSUME HandleInv, handled' = handled, NEW c \in Callers, Perform(c)
    PROVE  HandleInv'
  <1>. DEFINE failed == [[call EXCEPT ![c].step = "done"] EXCEPT ![c].bad = TRUE]
              sent   == [[call EXCEPT ![c].step = "wait"] EXCEPT ![c].wire = url]
  <1>1. (call' = failed \/ call' = sent) /\ out' = c /\ url' = url
    BY Zenon DEF Perform
  <1>2. /\ Carries([call EXCEPT ![c].step = "done"], handled)
        /\ Carries([call EXCEPT ![c].step = "wait"], handled)
    BY SetStep DEF HandleInv
  <1>3. Carries(failed, handled) /\ Carries(sent, handled)
    BY <1>2, SetBad, SetWire DEF HandleInv
  <1>. HIDE DEF failed, sent
  <1>. QED
    BY <1>1, <1>3 DEF HandleInv

\* What a request confirms is handled, and so is all below the answer.
LEMMA ConfirmsSafe ==
    ASSUME confirmed \in Nat, updates \in Nat, Below(confirmed, handled),
           NEW w \in Wires, SafeWire(w, handled)
    PROVE  /\ Confirms(w) \in Nat /\ Below(Confirms(w), handled)
           /\ AnswerTo(w) \in Answers /\ SafeAnswer(AnswerTo(w), handled)
  <1>1. w.n \in Nat
    BY DEF Wires
  <1>2. Confirms(w) \in Nat /\ Below(Confirms(w), handled)
    BY <1>1 DEF Confirms, SafeWire
  <1>. DEFINE a == AnswerTo(w)
  <1>3. /\ a.m \in {"updates", "other"} /\ a.from = Confirms(w) + 1
        /\ a.to \in {updates, Confirms(w)} /\ a \in Answers
    BY <1>2 DEF AnswerTo, Answers
  <1>4. SafeAnswer(a, handled)
    <2>1. a.from > 0 /\ a.from - 1 = Confirms(w)
      BY <1>2, <1>3
    <2>. QED
      BY <1>2, <2>1 DEF SafeAnswer
  <1>. QED
    BY <1>2, <1>3, <1>4

\* An answer lands in the string of some call, and confirms what its request
\* says.
LEMMA AnswerKeeps ==
    ASSUME HandleInv, handled' = handled, confirmed \in Nat, updates \in Nat,
           Below(confirmed, handled), NEW c \in Callers, Answer(c)
    PROVE  HandleInv' /\ confirmed' \in Nat /\ Below(confirmed', handled)
  <1>. DEFINE w == call[c].wire
              Written(k, a) == IF Active(out) THEN [k EXCEPT ![out].got = Append(@, a)] ELSE k
              Done(k)    == [k EXCEPT ![c].step = "done"]
              Failed(k)  == [Done(k) EXCEPT ![c].troubled = TRUE]
              bad        == [call EXCEPT ![c].bad = TRUE]
  <1>1. w \in Wires /\ SafeWire(w, handled) /\ Carries(call, handled) /\ out \in Callers
    BY DEF HandleInv, Carries, Calls
  <1>2. AnswerTo(w) \in Answers /\ SafeAnswer(AnswerTo(w), handled)
    BY <1>1, ConfirmsSafe
  <1>3. Odd \in Answers /\ SafeAnswer(Odd, handled)
    BY DEF Odd, Answers, SafeAnswer
  <1>4. /\ Carries(Written(call, AnswerTo(w)), handled)
        /\ Carries(Written(call, Odd), handled) /\ Carries(bad, handled)
    BY <1>1, <1>2, <1>3, SetGot, SetBad
  <1>5. \A k : Carries(k, handled) => Carries(Done(k), handled) /\ Carries(Failed(k), handled)
    <2>1. ASSUME NEW k, Carries(k, handled) PROVE Carries(Done(k), handled)
      BY <2>1, SetStep
    <2>2. ASSUME NEW k, Carries(k, handled) PROVE Carries(Failed(k), handled)
      BY <2>2, <2>1, SetTroubled
    <2>. QED
      BY <2>1, <2>2
  <1>6. /\ \/ call' = Done(Written(call, AnswerTo(w)))
           \/ call' = Failed(bad) \/ call' = Failed(Written(call, Odd))
        /\ out' = out /\ url' = url
        /\ confirmed' \in {confirmed, Confirms(w)}
    BY Zenon DEF Answer, TakesEffect, NoEffect
  <1>. HIDE DEF Written, Done, Failed, bad
  <1>7. Carries(call', handled)
    BY <1>4, <1>5, <1>6
  <1>8. confirmed' \in Nat /\ Below(confirmed', handled)
    BY <1>1, <1>6, ConfirmsSafe
  <1>. QED
    BY <1>6, <1>7, <1>8 DEF HandleInv

-----------------------------------------------------------------------------
(* The steps of the threads.                                               *)

\* The batch's part holds after a step that leaves the poll thread where it is,
\* or puts it where it needs no batch.
LEMMA BatchStays ==
    ASSUME BatchInv, UNCHANGED poller,
           at'["poll"] = at["poll"] \/ at'["poll"] \notin {"update", "notice"}
    PROVE  BatchInv'
  BY DEF BatchInv, poller, Below

LEMMA CallKeeps ==
    ASSUME UInv, NEW c \in Callers, CallStep(c)
    PROVE  UInv'
  <1>1. /\ UNCHANGED <<scope, at, todo, stream, delivered, updates>> /\ UNCHANGED poller
        /\ handled' = handled
    BY Zenon DEF CallStep, Perform, Answer, redis, telegram, poller
  <1>2. HandleInv' /\ confirmed' \in Nat /\ Below(confirmed', handled)
    <2>1. CASE Perform(c)
      <3>1. confirmed' = confirmed
        BY <2>1 DEF Perform, telegram
      <3>. QED
        BY <1>1, <2>1, <3>1, PerformKeeps DEF UInv, Typed
    <2>2. CASE Answer(c)
      BY <1>1, <2>2, AnswerKeeps DEF UInv, Typed
    <2>. QED
      BY <2>1, <2>2 DEF CallStep
  <1>3. BatchInv'
    BY <1>1, BatchStays DEF UInv
  <1>. QED
    BY <1>1, <1>2, <1>3 DEF UInv, Typed, Threaded

\* The consumers' steps call Telegram for alerts only.
LEMMA LoopKeeps ==
    ASSUME UInv, NEW l \in Loops, LoopStep(l)
    PROVE  UInv'
  <1>1. /\ UNCHANGED <<scope, stream, updates, confirmed>> /\ UNCHANGED poller
        /\ handled' = handled /\ out' = out
    BY Zenon DEF LoopStep, telegram, poller
  <1>2. \A k \in Loops : k \in Threads /\ k # "poll"
    BY DEF Loops, Threads
  <1>c. at = [t \in Threads |-> at[t]]
    BY Zenon DEF UInv, Typed, Threaded
  <1>3. /\ delivered \in [Loops -> Nat] /\ todo \in [Loops -> Seq(Nat)]
        /\ stream[l] \in Seq(Kinds) /\ Len(stream[l]) \in Nat /\ delivered[l] <= Len(stream[l])
        /\ \A k \in Loops : delivered[k] <= Len(stream[k])
        /\ \A k \in Loops : at[k] \in {"entry", "send", "ack"} => todo[k] # <<>>
    BY DEF UInv, Typed
  <1>. DEFINE Loops2 ==
          /\ delivered' \in [Loops -> Nat] /\ todo' \in [Loops -> Seq(Nat)] /\ at' = [t \in Threads |-> at'[t]]
          /\ \A k \in Loops : delivered'[k] <= Len(stream[k])
          /\ \A k \in Loops : at'[k] \in {"entry", "send", "ack"} => todo'[k] # <<>>
          /\ at'["poll"] = at["poll"]
  <1>a. ASSUME NEW label, NEW s \in Seq(Nat), NEW d \in Nat, d <= Len(stream[l]),
               at' = [at EXCEPT ![l] = label], todo' = [todo EXCEPT ![l] = s],
               delivered' = [delivered EXCEPT ![l] = d],
               label \in {"entry", "send", "ack"} => s # <<>>
        PROVE  Loops2
    <2>1. delivered' \in [Loops -> Nat] /\ \A k \in Loops : delivered'[k] <= Len(stream[k])
      BY <1>3, <1>a
    <2>2. todo' \in [Loops -> Seq(Nat)]
      BY <1>3, <1>a
    <2>3. at' = [t \in Threads |-> at'[t]] /\ at'["poll"] = at["poll"]
      BY <1>2, <1>c, <1>a
    <2>4. ASSUME NEW k \in Loops, at'[k] \in {"entry", "send", "ack"}
          PROVE  todo'[k] # <<>>
      <3>1. CASE k = l
        BY <1>2, <1>3, <1>c, <1>a, <2>4, <3>1
      <3>2. CASE k # l
        <4>1. at'[k] = at[k] /\ todo'[k] = todo[k]
          BY <1>2, <1>3, <1>c, <1>a, <3>2
        <4>. QED
          BY <1>3, <2>4, <4>1
      <3>. QED
        BY <3>1, <3>2
    <2>. QED
      BY <2>1, <2>2, <2>3, <2>4
  <1>b. /\ todo = [todo EXCEPT ![l] = todo[l]] /\ todo[l] \in Seq(Nat)
        /\ delivered = [delivered EXCEPT ![l] = delivered[l]] /\ delivered[l] \in Nat
    BY <1>3
  <1>. HIDE DEF Loops2
  <1>4. ASSUME NEW label, Goto(l, label), UNCHANGED <<delivered, todo>>,
               label \in {"entry", "send", "ack"} => todo[l] # <<>>
        PROVE  Loops2
    BY <1>3, <1>a, <1>b, <1>4 DEF Goto
  <1>5. ASSUME NextEntry(l), at[l] \in {"entry", "send", "ack"}, UNCHANGED delivered
        PROVE  Loops2
    <2>1. Tail(todo[l]) \in Seq(Nat)
      BY <1>3, <1>5, <1>b
    <2>2. /\ todo' = [todo EXCEPT ![l] = Tail(todo[l])]
          /\ \/ Tail(todo[l]) = <<>> /\ at' = [at EXCEPT ![l] = "read"]
             \/ Tail(todo[l]) # <<>> /\ at' = [at EXCEPT ![l] = "entry"]
      BY <1>5 DEF NextEntry, Goto
    <2>. QED
      BY <1>3, <1>5, <1>a, <1>b, <2>1, <2>2
  <1>6. ASSUME HandleInv', Loops2
        PROVE  UInv'
    <2>1. BatchInv'
      BY <1>1, <1>6, BatchStays DEF UInv, Loops2
    <2>2. Typed'
      BY <1>1, <1>6 DEF UInv, Typed, Threaded, Loops2
    <2>. QED
      BY <1>1, <1>6, <2>1, <2>2 DEF UInv
  <1>7. ASSUME NoCall PROVE HandleInv'
    BY <1>1, <1>7, HandleStays DEF UInv
  <1>8. CASE LoopStarts(l)
    <2>1. delivered' = delivered \/ delivered' = [delivered EXCEPT ![l] = Len(stream[l])]
      BY <1>8 DEF LoopStarts, CreateGroup
    <2>2. todo' = todo /\ at' = [at EXCEPT ![l] = "read"] /\ NoCall
      BY <1>8 DEF LoopStarts, Goto
    <2>3. CASE delivered' = delivered
      BY <1>3, <1>6, <1>7, <1>a, <1>b, <2>2, <2>3
    <2>4. CASE delivered' = [delivered EXCEPT ![l] = Len(stream[l])]
      <3>. DEFINE d == Len(stream[l])
      <3>1. d \in Nat /\ d <= Len(stream[l]) /\ delivered' = [delivered EXCEPT ![l] = d]
        BY <1>3, <2>4
      <3>. HIDE DEF d
      <3>. QED
        BY <1>6, <1>7, <1>a, <1>b, <2>2, <3>1
    <2>. QED
      BY <2>1, <2>3, <2>4
  <1>9. CASE LoopReads(l)
    <2>. DEFINE n == Len(NewPositions(l))
                lag == Len(stream[l]) - delivered[l]
                m == IF lag < MaxRead THEN lag ELSE MaxRead
    <2>1. lag \in Nat /\ lag > 0 /\ m \in Nat /\ m > 0 /\ delivered[l] + m <= Len(stream[l])
      BY <1>3, <1>9, <1>b, ReadAssumption DEF LoopReads
    <2>2. NewPositions(l) = [k \in 1 .. m |-> delivered[l] + k]
      BY DEF NewPositions
    <2>. HIDE DEF m
    <2>3. NewPositions(l) \in Seq(Nat) /\ NewPositions(l) # <<>> /\ n = m
      <3>1. \A k \in 1 .. m : delivered[l] + k \in Nat
        BY <1>b, <2>1
      <3>2. NewPositions(l) \in Seq(Nat)
        BY <2>1, <2>2, <3>1
      <3>3. n = m
        BY <2>1, <2>2
      <3>. QED
        BY <2>1, <3>2, <3>3
    <2>4. /\ delivered' = [delivered EXCEPT ![l] = delivered[l] + m] /\ NoCall
          /\ \/ todo' = [todo EXCEPT ![l] = NewPositions(l)] /\ at' = [at EXCEPT ![l] = "entry"]
             \/ todo' = todo /\ at' = [at EXCEPT ![l] = "read"]
      <3>1. at[l] = "read" => at = [at EXCEPT ![l] = "read"]
        BY <1>2, <1>c
      <3>. QED
        BY <1>9, <2>3, <3>1 DEF LoopReads, Goto
    <2>5. delivered[l] + m \in Nat
      BY <1>b, <2>1
    <2>6. Loops2
      BY <1>a, <1>b, <2>1, <2>3, <2>4, <2>5
    <2>. QED
      BY <1>6, <1>7, <2>4, <2>6
  <1>10. CASE LoopEnds(l)
    BY <1>4, <1>6, <1>7, <1>10 DEF LoopEnds
  <1>11. CASE LoopEntry(l)
    <2>1. todo[l] # <<>> /\ delivered' = delivered /\ at[l] = "entry"
      BY <1>3, <1>11 DEF LoopEntry
    <2>2. CASE NextEntry(l) /\ NoCall
      BY <1>5, <1>6, <1>7, <2>1, <2>2
    <2>3. CASE Goto(l, "ack") /\ NoCall /\ todo' = todo
      BY <1>4, <1>6, <1>7, <2>1, <2>3
    <2>4. CASE Begin("alert", "alert", Head(todo[l])) /\ Goto(l, "send") /\ todo' = todo
      <3>1. Head(todo[l]) \in Nat /\ "alert" \in Callers /\ "alert" \in Methods
        BY <1>3, <2>1 DEF Callers, Methods
      <3>2. HandleInv'
        BY <1>1, <2>4, <3>1, BeginKeeps DEF UInv
      <3>. QED
        BY <1>4, <1>6, <2>1, <2>4, <3>2
    <2>. QED
      BY <1>11, <2>2, <2>3, <2>4 DEF LoopEntry
  <1>12. CASE l = "alert" /\ AlertSent
    <2>1. at[l] = "send" /\ delivered' = delivered /\ todo[l] # <<>> /\ Return("alert")
      BY <1>3, <1>12 DEF AlertSent
    <2>2. HandleInv'
      BY <1>1, <2>1, HandleStays DEF UInv, Callers
    <2>3. CASE NextEntry(l)
      BY <1>5, <1>6, <2>1, <2>2, <2>3
    <2>4. CASE Goto(l, "ack") /\ todo' = todo
      BY <1>4, <1>6, <2>1, <2>2, <2>4
    <2>. QED
      BY <1>12, <2>3, <2>4 DEF AlertSent
  <1>13. CASE LoopAcks(l)
    BY <1>3, <1>5, <1>6, <1>7, <1>13 DEF LoopAcks
  <1>. QED
    BY <1>8, <1>9, <1>10, <1>11, <1>12, <1>13 DEF LoopStep

\* Types hold after a step that leaves the consumers' batches alone.
LEMMA TypedStays ==
    ASSUME Typed, UNCHANGED <<scope, stream, delivered, todo>>, Threaded',
           updates' \in Nat, confirmed' \in Nat,
           \A l \in Loops : at'[l] = at[l] \/ at'[l] \notin {"entry", "send", "ack"}
    PROVE  Typed'
  BY DEF Typed

LEMMA GotoElsewhere ==
    ASSUME Typed, NEW t \in Threads, t \notin Loops, NEW label, Goto(t, label)
    PROVE  Threaded' /\ (\A l \in Loops : at'[l] = at[l]) /\ at'[t] = label
           /\ (t # "poll" => at'["poll"] = at["poll"])
  <1>1. at = [u \in Threads |-> at[u]] /\ at' = [at EXCEPT ![t] = label]
    BY DEF Typed, Threaded, Goto
  <1>2. \A l \in Loops : l \in Threads
    BY DEF Threads
  <1>3. "poll" \in Threads
    BY DEF Threads, Callers
  <1>. QED
    BY <1>1, <1>2, <1>3 DEF Threaded

\* An update is done: what was the head of the batch is handled.
LEMMA AdvanceKeeps ==
    ASSUME BatchInv, Typed, batch # <<>>, Advance
    PROVE  BatchInv' /\ handled \subseteq handled'
  <1>. DEFINE b == Head(batch)
  <1>1. /\ batch \in Seq(Nat) /\ offset \in Nat /\ b \in Nat /\ b = batch[1] /\ b > 0
        /\ Below(b - 1, handled) /\ Below(offset, handled)
        /\ \A k \in DOMAIN batch : batch[k] = b + k - 1
    BY DEF BatchInv
  <1>2. /\ handled' = handled \cup {b} /\ batch' = Tail(batch)
        /\ offset' \in {b, offset}
        /\ Goto("poll", IF Tail(batch) = <<>> THEN "ask" ELSE "update")
    BY DEF Advance
  <1>. HIDE DEF b
  <1>3. Below(b, handled') /\ Below(offset, handled')
    BY <1>1, <1>2 DEF Below
  <1>4. /\ batch' \in Seq(Nat) /\ Len(batch') = Len(batch) - 1
        /\ DOMAIN batch' = 1 .. Len(batch') /\ Len(batch') \in Nat
        /\ \A k \in DOMAIN batch' : k + 1 \in DOMAIN batch /\ batch'[k] = batch[k + 1]
    BY <1>1, <1>2
  <1>5. ASSUME NEW k \in DOMAIN batch'
        PROVE  k \in Nat /\ k > 0 /\ batch'[k] = b + k
    <2>1. k \in Nat /\ k > 0
      BY <1>4, <1>5
    <2>2. k + 1 \in DOMAIN batch /\ batch'[k] = batch[k + 1]
      BY <1>4, <1>5
    <2>3. batch[k + 1] = b + (k + 1) - 1
      BY <1>1, <2>2
    <2>. QED
      BY <1>1, <2>1, <2>2, <2>3
  <1>6. batch' # <<>> => batch'[1] = b + 1
    BY <1>4, <1>5
  <1>7. \A k \in DOMAIN batch' : batch'[k] = batch'[1] + k - 1
    <2>1. ASSUME NEW k \in DOMAIN batch'
          PROVE  batch'[k] = batch'[1] + k - 1
      <3>1. batch' # <<>> /\ k \in Nat /\ batch'[k] = b + k
        BY <1>4, <1>5, <2>1
      <3>. QED
        BY <1>1, <1>6, <3>1
    <2>. QED
      BY <2>1
  <1>8. ASSUME batch' # <<>>
        PROVE  batch'[1] > 0 /\ Below(batch'[1] - 1, handled')
    <2>1. b \in Nat /\ b + 1 > 0 /\ (b + 1) - 1 = b
      BY <1>1
    <2>2. batch'[1] = b + 1
      BY <1>6, <1>8
    <2>. QED
      BY <1>3, <2>1, <2>2
  <1>9. at'["poll"] = (IF Tail(batch) = <<>> THEN "ask" ELSE "update")
    BY <1>2, GotoElsewhere DEF Threads, Callers, Loops
  <1>. QED
    BY <1>1, <1>2, <1>3, <1>4, <1>7, <1>8, <1>9 DEF BatchInv

\* The batch taken from an answer is above what is handled.
LEMMA BatchTaken ==
    ASSUME NEW a \in Answers, a.m = "updates", SafeAnswer(a, handled),
           batch' = [k \in 1 .. a.to - a.from + 1 |-> a.from + k - 1]
    PROVE  /\ batch' \in Seq(Nat)
           /\ \A k \in DOMAIN batch' : batch'[k] = batch'[1] + k - 1
           /\ batch' # <<>> => batch'[1] > 0 /\ Below(batch'[1] - 1, handled)
  <1>1. a.from \in Nat /\ a.to \in Nat /\ a.from > 0 /\ Below(a.from - 1, handled)
    BY DEF Answers, SafeAnswer
  <1>2. PICK f \in Nat : f = a.from /\ f > 0
    BY <1>1
  <1>. DEFINE n == IF a.to < f THEN 0 ELSE a.to - f + 1
              s == [k \in 1 .. n |-> f + k - 1]
  <1>3. n \in Nat /\ 1 .. n = 1 .. a.to - f + 1
    BY <1>1, <1>2
  <1>4. batch' = s
    BY <1>2, <1>3
  <1>. HIDE DEF n
  <1>5. \A k \in 1 .. n : f + k - 1 \in Nat
    BY <1>2, <1>3
  <1>6. s \in Seq(Nat) /\ DOMAIN s = 1 .. n
    BY <1>3, <1>5
  <1>7. n > 0 => s[1] = f
    BY <1>2, <1>3
  <1>8. \A k \in 1 .. n : n > 0 /\ s[k] = f + k - 1
    BY <1>2, <1>3
  <1>9. s # <<>> => n > 0
    BY <1>3, <1>6
  <1>. HIDE DEF s
  <1>. QED
    BY <1>1, <1>2, <1>4, <1>6, <1>7, <1>8, <1>9

LEMMA PollKeeps ==
    ASSUME UInv, PollStep
    PROVE  UInv'
  <1>1. /\ UNCHANGED <<scope, stream, delivered, todo, updates, confirmed>> /\ out' = out
        /\ HandleInv /\ BatchInv /\ Typed /\ Below(confirmed, handled)
        /\ updates \in Nat /\ confirmed \in Nat
    BY Zenon DEF PollStep, redis, telegram, UInv, Typed
  <1>2. "poll" \in Threads /\ "poll" \notin Loops /\ "poll" \in Callers
        /\ "updates" \in Methods /\ "notice" \in Methods
    BY DEF Threads, Callers, Loops, Methods
  <1>3. ASSUME HandleInv', BatchInv', handled \subseteq handled', NEW label, Goto("poll", label)
        PROVE  UInv'
    <2>1. Typed'
      BY <1>1, <1>2, <1>3, TypedStays, GotoElsewhere
    <2>2. Below(confirmed', handled')
      BY <1>1, <1>3, CarriesMore
    <2>. QED
      BY <1>1, <1>3, <2>1, <2>2 DEF UInv
  <1>4. ASSUME UNCHANGED poller, NEW label, Goto("poll", label), label \notin {"update", "notice"}
        PROVE  BatchInv'
    BY <1>1, <1>2, <1>4, BatchStays, GotoElsewhere
  <1>5. ASSUME GiveUp
        PROVE  BatchInv' /\ handled' = handled /\ Goto("poll", "ask")
    <2>1. batch' = <<>> /\ at'["poll"] = "ask" /\ UNCHANGED <<offset, handled>>
      BY <1>1, <1>2, <1>5, GotoElsewhere DEF GiveUp
    <2>. QED
      BY <1>1, <1>5, <2>1 DEF GiveUp, BatchInv
  <1>6. ASSUME Advance, batch # <<>>, NoCall \/ \E c \in Callers : Return(c)
        PROVE  UInv'
    <2>1. BatchInv' /\ handled \subseteq handled'
      BY <1>1, <1>6, AdvanceKeeps
    <2>2. HandleInv'
      BY <1>1, <1>6, <2>1, HandleStays
    <2>. QED
      BY <1>3, <1>6, <2>1, <2>2 DEF Advance
  <1>7. ASSUME GiveUp, NoCall \/ \E c \in Callers : Return(c)
        PROVE  UInv'
    BY <1>1, <1>3, <1>5, <1>7, HandleStays
  <1>8. CASE PollAsks
    <2>1. offset + 1 \in Nat /\ offset + 1 > 0 /\ Below((offset + 1) - 1, handled)
      BY <1>1 DEF BatchInv
    <2>2. /\ Begin("poll", "updates", offset + 1) /\ Goto("poll", "asked")
          /\ UNCHANGED poller /\ handled' = handled
      BY <1>8 DEF PollAsks, poller
    <2>3. HandleInv'
      BY <1>1, <1>2, <2>1, <2>2, BeginKeeps
    <2>. QED
      BY <1>3, <1>4, <2>2, <2>3
  <1>9. CASE PollEnds
    <2>1. NoCall /\ Goto("poll", "ended") /\ UNCHANGED poller /\ handled' = handled
      BY <1>9 DEF PollEnds, poller
    <2>. QED
      BY <1>1, <1>3, <1>4, <2>1, HandleStays
  <1>10. CASE PollAnswered
    <2>1. handled' = handled /\ offset' = offset /\ Return("poll")
          /\ Goto("poll", IF batch' = <<>> THEN "ask" ELSE "update")
      BY <1>10 DEF PollAnswered
    <2>2. HandleInv'
      BY <1>1, <1>2, <2>1, HandleStays
    <2>3. /\ batch' \in Seq(Nat)
          /\ \A k \in DOMAIN batch' : batch'[k] = batch'[1] + k - 1
          /\ batch' # <<>> => batch'[1] > 0 /\ Below(batch'[1] - 1, handled)
      <3>1. CASE Result("poll") = "updates"
        <4>. DEFINE a == call["poll"].got[1]
        <4>1. Len(call["poll"].got) = 1 /\ a.m = "updates"
          BY <3>1 DEF Result
        <4>2. call["poll"].got \in Seq(Answers)
          BY <1>1, <1>2 DEF HandleInv, Carries, Calls
        <4>3. 1 \in DOMAIN call["poll"].got /\ a \in Answers
          BY <4>1, <4>2
        <4>4. SafeAnswer(a, handled)
          BY <1>1, <1>2, <4>3 DEF HandleInv, Carries
        <4>5. batch' = [k \in 1 .. a.to - a.from + 1 |-> a.from + k - 1]
          BY <1>10, <3>1 DEF PollAnswered
        <4>. HIDE DEF a
        <4>. QED
          BY <4>1, <4>3, <4>4, <4>5, BatchTaken
      <3>2. CASE Result("poll") # "updates"
        BY <1>10, <3>2 DEF PollAnswered
      <3>. QED
        BY <3>1, <3>2
    <2>4. at'["poll"] = (IF batch' = <<>> THEN "ask" ELSE "update")
      BY <1>1, <1>2, <2>1, GotoElsewhere
    <2>5. BatchInv'
      BY <1>1, <2>1, <2>3, <2>4 DEF BatchInv
    <2>. QED
      BY <1>3, <2>1, <2>2, <2>5
  <1>11. CASE PollUpdate
    <2>1. at["poll"] = "update" /\ batch # <<>>
      BY <1>1, <1>11 DEF PollUpdate, BatchInv
    <2>2. CASE Begin("poll", "notice", Head(batch)) /\ Goto("poll", "notice") /\ UNCHANGED poller
      <3>1. Head(batch) \in Nat /\ handled' = handled
        BY <1>1, <2>1, <2>2 DEF BatchInv, poller
      <3>2. HandleInv'
        BY <1>1, <1>2, <2>2, <3>1, BeginKeeps
      <3>3. at'["poll"] = "notice"
        BY <1>1, <1>2, <2>2, GotoElsewhere
      <3>4. BatchInv'
        BY <1>1, <2>1, <2>2, <3>3 DEF BatchInv, poller
      <3>. QED
        BY <1>3, <2>2, <3>1, <3>2, <3>4
    <2>3. CASE NoCall /\ Advance
      BY <1>6, <2>1, <2>3
    <2>4. CASE NoCall /\ GiveUp
      BY <1>7, <2>4
    <2>. QED
      BY <1>11, <2>2, <2>3, <2>4 DEF PollUpdate
  <1>12. CASE PollNoticed
    <2>1. at["poll"] = "notice" /\ batch # <<>> /\ Return("poll") /\ (GiveUp \/ Advance)
      BY <1>1, <1>12 DEF PollNoticed, BatchInv
    <2>. QED
      BY <1>2, <1>6, <1>7, <2>1
  <1>. QED
    BY <1>8, <1>9, <1>10, <1>11, <1>12 DEF PollStep

\* The HTTP server and main call Telegram for messages and the webhook only.
LEMMA OthersKeep ==
    ASSUME UInv, UNCHANGED <<scope, stream, delivered, todo, updates, confirmed, out, batch, offset, handled>>,
           Threaded', \A l \in Loops : at'[l] = at[l] \/ at'[l] \notin {"entry", "send", "ack"},
           at'["poll"] = at["poll"] \/ at'["poll"] \notin {"update", "notice"},
           \/ NoCall \/ \E c \in Callers : Return(c)
           \/ \E c \in Callers : \E m \in {"notice", "hook"} : Begin(c, m, 0)
    PROVE  UInv'
  <1>1. HandleInv'
    <2>1. CASE NoCall \/ \E c \in Callers : Return(c)
      BY <2>1, HandleStays DEF UInv
    <2>2. CASE \E c \in Callers : \E m \in {"notice", "hook"} : Begin(c, m, 0)
      BY <2>2, BeginKeeps DEF UInv, Methods
    <2>. QED
      BY <2>1, <2>2
  <1>2. BatchInv'
    BY BatchStays DEF UInv, poller
  <1>3. Typed'
    BY TypedStays DEF UInv, Typed
  <1>. QED
    BY <1>1, <1>2, <1>3 DEF UInv

LEMMA ServerKeeps ==
    ASSUME UInv, ServerStep
    PROVE  UInv'
  <1>1. UNCHANGED <<scope, stream, delivered, todo, updates, confirmed, out, batch, offset, handled>>
    BY Zenon DEF ServerStep, redis, telegram, poller
  <1>2. at' = at \/ \E label : Goto("http", label)
    BY DEF ServerStep, ServerListens, ServerEnds, HttpRefuses, HttpRefused, HttpPublishes
  <1>3. Threaded' /\ (\A l \in Loops : at'[l] = at[l]) /\ at'["poll"] = at["poll"]
    BY <1>2, GotoElsewhere DEF UInv, Typed, Threaded, Threads, Callers, Loops
  <1>4. NoCall \/ Return("http") \/ Begin("http", "notice", 0)
    BY DEF ServerStep, ServerListens, ServerEnds, HttpRefuses, HttpRefused, HttpPublishes
  <1>. QED
    BY <1>1, <1>3, <1>4, OthersKeep DEF Callers

LEMMA MainKeeps ==
    ASSUME UInv, MainStep
    PROVE  UInv'
  <1>1. UNCHANGED <<scope, stream, delivered, todo, updates, confirmed, out, batch, offset, handled>>
    BY Zenon DEF MainStep, redis, telegram, poller
  <1>2. NoCall \/ Return("main") \/ Begin("main", "hook", 0)
    BY DEF MainStep, MainSpawns, MainHooks, MainAborts, MainServes, MainStops, MainJoinsPoller,
           MainStopsServer, MainStopsConsumers, MainExits
  <1>3. /\ Threaded' /\ \A l \in Loops : at'[l] = at[l] \/ at'[l] \notin {"entry", "send", "ack"}
        /\ at'["poll"] = at["poll"] \/ at'["poll"] \notin {"update", "notice"}
    <2>0. Typed /\ at = [t \in Threads |-> at[t]] /\ "main" \in Threads /\ "main" \notin Loops
          /\ "poll" \in Threads
      BY DEF UInv, Typed, Threaded, Threads, Callers, Loops
    <2>1. CASE MainSpawns
      <3>1. at' = [at EXCEPT !["reply"] = "start", !["alert"] = "start", !["main"] = "hook"]
        BY <2>1 DEF MainSpawns
      <3>. QED
        BY <2>0, <3>1 DEF Threaded, Threads, Callers, Loops
    <2>2. CASE MainServes
      <3>1. PICK label \in {"ask", at["poll"]} :
              at' = [at EXCEPT !["main"] = "serve", !["poll"] = label]
        BY <2>2 DEF MainServes
      <3>. QED
        BY <2>0, <3>1 DEF Threaded, Threads, Callers, Loops
    <2>3. CASE \E label : Goto("main", label)
      BY <2>0, <2>3, GotoElsewhere
    <2>. QED
      BY <2>1, <2>2, <2>3 DEF MainStep, MainHooks, MainAborts, MainStops, MainJoinsPoller,
           MainStopsServer, MainStopsConsumers, MainExits
  <1>. QED
    BY <1>1, <1>2, <1>3, OthersKeep DEF Callers

\* What the environment does to the streams and to Telegram.
LEMMA EnvironmentKeeps ==
    ASSUME UInv, Environment
    PROVE  UInv'
  <1>1. /\ UNCHANGED <<scope, delivered, todo, confirmed, out, batch, offset, handled, call, url, at>>
        /\ HandleInv /\ BatchInv /\ Typed
    BY Zenon DEF Environment, Publish, Update, Signal, redis, telegram, handle, poller, UInv
  <1>2. HandleInv' /\ BatchInv'
    BY <1>1, HandleStays, BatchStays DEF NoCall, poller
  <1>3. updates' \in Nat
    BY <1>1 DEF Environment, Publish, Update, Signal, telegram, Typed
  <1>4. stream' \in [Loops -> Seq(Kinds)] /\ \A l \in Loops : delivered[l] <= Len(stream'[l])
    <2>1. CASE stream' = stream
      BY <1>1, <2>1 DEF Typed
    <2>2. ASSUME NEW l \in Loops, Publish(l)
          PROVE  stream' \in [Loops -> Seq(Kinds)] /\ \A k \in Loops : delivered[k] <= Len(stream'[k])
      <3>. DEFINE e == scope.script[l][Len(stream[l]) + 1]
      <3>1. stream[l] \in Seq(Kinds) /\ stream' = [stream EXCEPT ![l] = Append(stream[l], e)]
        BY <1>1, <2>2 DEF Publish, Typed
      <3>2. e \in Kinds
        <4>1. scope \in Scopes /\ scope.script[l] \in Seq(Kinds)
          BY <1>1, ScopesAssumption DEF Typed
        <4>2. Len(stream[l]) + 1 \in 1 .. Len(scope.script[l])
          BY <2>2, <3>1, <4>1 DEF Publish
        <4>. QED
          BY <4>1, <4>2
      <3>. HIDE DEF e
      <3>3. Append(stream[l], e) \in Seq(Kinds) /\ Len(Append(stream[l], e)) = Len(stream[l]) + 1
        BY <3>1, <3>2
      <3>4. stream' \in [Loops -> Seq(Kinds)]
        BY <1>1, <3>1, <3>3 DEF Typed
      <3>5. ASSUME NEW k \in Loops
            PROVE  delivered[k] <= Len(stream'[k])
        <4>1. delivered[k] \in Nat /\ delivered[k] <= Len(stream[k]) /\ Len(stream[k]) \in Nat
          BY <1>1 DEF Typed
        <4>2. Len(stream'[k]) \in {Len(stream[k]), Len(stream[k]) + 1}
          BY <1>1, <3>1, <3>3 DEF Typed
        <4>. QED
          BY <4>1, <4>2
      <3>. QED
        BY <3>4, <3>5
    <2>. QED
      BY <2>1, <2>2 DEF Environment, Update, Signal, redis
  <1>5. Typed'
    BY <1>1, <1>3, <1>4 DEF Typed, Threaded
  <1>. QED
    BY <1>1, <1>2, <1>5 DEF UInv

\* A new process has nothing in hand: its first request asks for all that is
\* not confirmed.
LEMMA FreshInv ==
    /\ Carries(NoCalls, {}) /\ NoRequest \in Wires /\ SafeWire(NoRequest, {})
    /\ Unspawned["poll"] = "off" /\ Unspawned = [t \in Threads |-> Unspawned[t]]
    /\ \A l \in Loops : Unspawned[l] = "off"
    /\ NoBatches \in [Loops -> Seq(Nat)]
  <1>1. NoRequest \in Wires /\ SafeWire(NoRequest, {})
    BY IdleTyped DEF NoRequest, SafeWire
  <1>2. SafeWire(Idle.wire, {}) /\ \A j \in DOMAIN Idle.got : SafeAnswer(Idle.got[j], {})
    BY IdleTyped DEF SafeWire
  <1>3. Carries(NoCalls, {})
    BY <1>2, IdleTyped DEF NoCalls, Carries
  <1>4. /\ Unspawned["poll"] = "off" /\ Unspawned = [t \in Threads |-> Unspawned[t]]
        /\ \A l \in Loops : Unspawned[l] = "off"
    BY DEF Unspawned, Threads, Callers, Loops
  <1>5. NoBatches \in [Loops -> Seq(Nat)]
    BY DEF NoBatches
  <1>. QED
    BY <1>1, <1>3, <1>4, <1>5

LEMMA RestartKeeps ==
    ASSUME UInv, Restart
    PROVE  UInv'
  <1>1. /\ UNCHANGED <<scope, stream, delivered, updates, confirmed, handled>>
        /\ at' = Unspawned /\ call' = NoCalls /\ url' = NoRequest /\ out' = "main"
        /\ todo' = NoBatches /\ batch' = <<>> /\ offset' = 0
    BY Zenon DEF Restart, redis, telegram
  <1>2. HandleInv'
    BY <1>1, FreshInv, CarriesMore DEF HandleInv, Callers
  <1>3. BatchInv'
    BY <1>1, FreshInv DEF BatchInv, Below
  <1>4. Typed'
    BY <1>1, FreshInv DEF UInv, Typed, Threaded
  <1>. QED
    BY <1>1, <1>2, <1>3, <1>4 DEF UInv

LEMMA UInit == Init => UInv
  <1>. SUFFICES ASSUME Init PROVE UInv
    OBVIOUS
  <1>1. HandleInv
    BY FreshInv DEF Init, HandleInv, Callers
  <1>2. BatchInv
    BY FreshInv DEF Init, BatchInv, Below
  <1>3. stream \in [Loops -> Seq(Kinds)] /\ delivered \in [Loops -> Nat]
        /\ \A l \in Loops : delivered[l] <= Len(stream[l])
    BY DEF Init
  <1>4. Typed
    BY <1>3, FreshInv DEF Init, Typed, Threaded
  <1>. QED
    BY <1>1, <1>2, <1>4 DEF Init, UInv, Below

LEMMA UNext ==
    ASSUME UInv, [Next]_vars
    PROVE  UInv'
  <1>1. CASE UNCHANGED vars
    BY <1>1 DEF vars, redis, telegram, handle, poller, UInv, HandleInv, BatchInv, Typed, Threaded
  <1>. QED
    BY <1>1, CallKeeps, LoopKeeps, PollKeeps, ServerKeeps, MainKeeps, EnvironmentKeeps,
       RestartKeeps DEF Next

\* Telegram forgets no update that was not handled, for any number of updates,
\* of clients and of failures, and although main, the alert thread, the poll
\* thread and the HTTP server use one handle without a lock.
THEOREM NoUpdateLost == Spec => []UpdatesSurvive
  <1>1. UInv => UpdatesSurvive
    BY DEF UInv, UpdatesSurvive, Below
  <1>. QED
    BY <1>1, UInit, UNext, PTL DEF Spec

-----------------------------------------------------------------------------
(* The alert consumer implements AtMostOnce.                               *)

Batch == todo["alert"]
Last_ == delivered["alert"]
Busy  == {"entry", "send", "ack"}

\* Positions in hand rise and were handed out; what was tried lies below the
\* entry in hand, or is that entry from the call on.
AInv ==
    /\ tried \in Seq(Nat) /\ \A j \in DOMAIN tried : tried[j] <= Last_
    /\ \A i \in DOMAIN Batch : Batch[i] <= Last_
    /\ \A i, j \in DOMAIN Batch : i < j => Batch[i] < Batch[j]
    /\ at["alert"] \in Busy => \A j \in DOMAIN tried : tried[j] <= Batch[1]
    /\ at["alert"] = "entry" => \A j \in DOMAIN tried : tried[j] < Batch[1]

LEMMA AlertTypes ==
    ASSUME UInv
    PROVE  /\ Batch \in Seq(Nat) /\ Last_ \in Nat /\ Len(stream["alert"]) \in Nat
           /\ Last_ <= Len(stream["alert"])
           /\ at["alert"] \in Busy => Batch # <<>>
  BY DEF UInv, Typed, Loops, Batch, Last_, Busy

\* A step that leaves alone what the alert consumer has.
LEMMA AlertIdle ==
    ASSUME AInv, tried' = tried, Batch' = Batch, Last_' = Last_,
           at'["alert"] = at["alert"] \/ at'["alert"] \notin Busy
           \/ (at["alert"] \in Busy /\ at'["alert"] # "entry")
    PROVE  AInv'
  BY DEF AInv, Busy

\* Positions are handed out or let go.
LEMMA HandStep ==
    ASSUME UInv, tried' = tried, stream'["alert"] = stream["alert"],
           Last_' \in Nat, Last_ <= Last_', Last_' <= Len(stream["alert"]),
           \A x \in Positions(Batch') : x \in Positions(Batch) \/ (x \in Nat /\ Last_ < x /\ x <= Last_')
    PROVE  Log!Next
  <1>1. Last_' \in Last_ .. Len(stream["alert"])
    BY AlertTypes
  <1>2. Positions(Batch') \subseteq Positions(Batch) \cup (Last_ + 1 .. Last_')
    BY AlertTypes
  <1>3. Log!Hand
    BY <1>1, <1>2 DEF Log!Hand, Batch, Last_
  <1>. QED
    BY <1>3 DEF Log!Next

\* The loop goes on to the next entry.
LEMMA NextRefines ==
    ASSUME UInv, AInv, UNCHANGED <<stream, delivered, tried>>, at["alert"] \in Busy,
           NextEntry("alert")
    PROVE  AInv' /\ Log!Next
  <1>1. Batch \in Seq(Nat) /\ Batch # <<>> /\ "alert" \in Loops /\ "alert" \in Threads
    BY AlertTypes DEF Loops, Threads
  <1>2. Batch' = Tail(Batch) /\ Last_' = Last_
    BY <1>1 DEF NextEntry, Batch, Last_, UInv, Typed
  <1>3. at'["alert"] = (IF Tail(Batch) = <<>> THEN "read" ELSE "entry")
    BY <1>1 DEF NextEntry, Goto, Batch, UInv, Typed, Threaded
  <1>4. /\ Batch' \in Seq(Nat) /\ DOMAIN Batch' = 1 .. Len(Batch) - 1
        /\ \A i \in DOMAIN Batch' : i + 1 \in DOMAIN Batch /\ Batch'[i] = Batch[i + 1]
    BY <1>1, <1>2
  <1>5. \A x \in Positions(Batch') : x \in Positions(Batch)
    BY <1>4 DEF Positions
  <1>6. Log!Next
    BY <1>2, <1>5, AlertTypes, HandStep
  <1>7. \A i \in DOMAIN Batch' : Batch'[i] <= Last_'
    BY <1>2, <1>4 DEF AInv
  <1>8. ASSUME NEW i \in DOMAIN Batch', NEW j \in DOMAIN Batch', i < j
        PROVE  Batch'[i] < Batch'[j]
    <2>1. i + 1 \in DOMAIN Batch /\ j + 1 \in DOMAIN Batch /\ i + 1 < j + 1
      BY <1>1, <1>4, <1>8
    <2>. QED
      BY <1>4, <1>8, <2>1 DEF AInv
  <1>9. ASSUME at'["alert"] \in Busy, NEW k \in DOMAIN tried
        PROVE  tried[k] < Batch'[1]
    <2>1. 1 \in DOMAIN Batch'
      BY <1>1, <1>2, <1>3, <1>9 DEF Busy
    <2>2. Batch[1] < Batch[2] /\ Batch'[1] = Batch[2] /\ 1 \in DOMAIN Batch /\ 2 \in DOMAIN Batch
      <3>1. 1 \in DOMAIN Batch /\ 1 + 1 \in DOMAIN Batch /\ Batch'[1] = Batch[1 + 1]
        BY <1>1, <1>4, <2>1
      <3>2. 1 < 2 /\ 1 + 1 = 2
        OBVIOUS
      <3>. QED
        BY <3>1, <3>2 DEF AInv
    <2>3. tried[k] <= Batch[1] /\ tried[k] \in Nat /\ Batch[1] \in Nat /\ Batch[2] \in Nat
      BY <1>1, <2>2 DEF AInv
    <2>. QED
      BY <2>2, <2>3
  <1>10. ASSUME at'["alert"] \in Busy, NEW k \in DOMAIN tried
         PROVE  tried[k] <= Batch'[1]
    <2>1. Batch'[1] \in Nat
      <3>1. 1 \in DOMAIN Batch'
        BY <1>1, <1>2, <1>3, <1>10 DEF Busy
      <3>. QED
        BY <1>4, <3>1
    <2>2. tried[k] \in Nat
      BY <1>10 DEF AInv
    <2>. QED
      BY <1>9, <1>10, <2>1, <2>2
  <1>11. "entry" \in Busy
    BY DEF Busy
  <1>. QED
    BY <1>2, <1>6, <1>7, <1>8, <1>9, <1>10, <1>11 DEF AInv

\* A step of the alert consumer hands out, tries or lets go.
LEMMA ConsumerRefines ==
    ASSUME UInv, AInv, LoopStep("alert")
    PROVE  AInv' /\ [Log!Next]_(Log!vars)
  <1>1. /\ Batch \in Seq(Nat) /\ Last_ \in Nat /\ Len(stream["alert"]) \in Nat
        /\ Last_ <= Len(stream["alert"]) /\ (at["alert"] \in Busy => Batch # <<>>)
        /\ "alert" \in Loops /\ "alert" \in Threads /\ stream' = stream
        /\ todo \in [Loops -> Seq(Nat)] /\ delivered \in [Loops -> Nat]
        /\ at = [t \in Threads |-> at[t]]
    BY AlertTypes DEF Loops, Threads, LoopStep, UInv, Typed, Threaded
  <1>2. ASSUME NEW label, Goto("alert", label)
        PROVE  at'["alert"] = label
    BY <1>1, <1>2 DEF Goto
  <1>3. ASSUME tried' = tried, todo' = todo, delivered' = delivered
        PROVE  UNCHANGED Log!vars
    BY <1>1, <1>3 DEF Log!vars
  <1>4. CASE LoopStarts("alert")
    <2>1. /\ tried' = tried /\ Batch' = Batch /\ Last_' \in {Last_, Len(stream["alert"])}
          /\ at'["alert"] = "read"
      BY <1>1, <1>2, <1>4 DEF LoopStarts, CreateGroup, Batch, Last_
    <2>2. Last_' \in Nat /\ Last_ <= Last_' /\ Last_' <= Len(stream["alert"])
      BY <1>1, <2>1
    <2>3. Log!Next
      BY <1>1, <2>1, <2>2, HandStep
    <2>4. /\ \A j \in DOMAIN tried : tried[j] <= Last_'
          /\ \A i \in DOMAIN Batch : Batch[i] <= Last_'
      BY <1>1, <2>2 DEF AInv
    <2>. QED
      BY <2>1, <2>3, <2>4 DEF AInv, Busy
  <1>5. CASE LoopReads("alert")
    <2>. DEFINE new == NewPositions("alert")
                lag == Len(stream["alert"]) - Last_
                m == IF lag < MaxRead THEN lag ELSE MaxRead
    <2>1. lag \in Nat /\ lag > 0 /\ m \in Nat /\ m > 0 /\ Last_ + m <= Len(stream["alert"])
      BY <1>1, <1>5, ReadAssumption DEF LoopReads, Last_
    <2>2. new = [k \in 1 .. m |-> Last_ + k]
      BY DEF NewPositions, Last_
    <2>. HIDE DEF m, new
    <2>3. /\ DOMAIN new = 1 .. m /\ Len(new) = m
          /\ \A k \in 1 .. m : new[k] = Last_ + k
      BY <2>1, <2>2
    <2>4. /\ Last_' = Last_ + m /\ tried' = tried
          /\ \/ Batch' = new /\ at'["alert"] = "entry"
             \/ Batch' = Batch /\ at'["alert"] = "read"
      BY <1>1, <1>2, <1>5, <2>3 DEF LoopReads, Batch, Last_, new
    <2>5. Last_' \in Nat /\ Last_ <= Last_' /\ Last_' <= Len(stream["alert"])
      BY <1>1, <2>1, <2>4
    <2>6. ASSUME NEW j \in DOMAIN tried
          PROVE  tried[j] \in Nat /\ tried[j] <= Last_ /\ tried[j] <= Last_'
      <3>1. tried[j] \in Nat /\ tried[j] <= Last_
        BY <2>6 DEF AInv
      <3>. QED
        BY <1>1, <2>5, <3>1
    <2>7. CASE Batch' = new /\ at'["alert"] = "entry"
      <3>1. \A x \in Positions(new) : x \in Nat /\ Last_ < x /\ x <= Last_'
        BY <1>1, <2>1, <2>3, <2>4 DEF Positions
      <3>2. Log!Next
        BY <1>1, <2>4, <2>5, <2>7, <3>1, HandStep
      <3>3. \A i \in DOMAIN new : new[i] <= Last_'
        BY <1>1, <2>1, <2>3, <2>4
      <3>4. \A i, j \in DOMAIN new : i < j => new[i] < new[j]
        BY <1>1, <2>1, <2>3
      <3>5. new[1] = Last_ + 1
        BY <2>1, <2>3
      <3>6. \A j \in DOMAIN tried : tried[j] < new[1] /\ tried[j] <= new[1]
        BY <1>1, <2>6, <3>5
      <3>. QED
        BY <2>4, <2>6, <2>7, <3>2, <3>3, <3>4, <3>6 DEF AInv
    <2>8. CASE Batch' = Batch /\ at'["alert"] = "read"
      <3>1. Log!Next
        BY <1>1, <2>4, <2>5, <2>8, HandStep
      <3>2. \A i \in DOMAIN Batch : Batch[i] <= Last_'
        BY <1>1, <2>5 DEF AInv
      <3>. QED
        BY <2>4, <2>6, <2>8, <3>1, <3>2 DEF AInv, Busy
    <2>. QED
      BY <2>4, <2>7, <2>8
  <1>6. CASE LoopEnds("alert")
    <2>1. /\ tried' = tried /\ todo' = todo /\ delivered' = delivered /\ at'["alert"] = "ended"
      BY <1>2, <1>6 DEF LoopEnds
    <2>. QED
      BY <1>3, <2>1, AlertIdle DEF Batch, Last_, Busy
  <1>7. CASE LoopEntry("alert")
    <2>1. at["alert"] = "entry" /\ delivered' = delivered /\ "entry" \in Busy
      BY <1>7 DEF LoopEntry, Busy
    <2>2. CASE NextEntry("alert") /\ tried' = tried
      BY <1>1, <2>1, <2>2, NextRefines
    <2>3. CASE Goto("alert", "ack") /\ todo' = todo /\ tried' = tried
      <3>1. at'["alert"] = "ack"
        BY <1>2, <2>3
      <3>. QED
        BY <1>3, <2>1, <2>3, <3>1, AlertIdle DEF Batch, Last_
    <2>4. CASE Goto("alert", "send") /\ todo' = todo /\ tried' = Append(tried, Head(todo["alert"]))
      <3>. DEFINE k == Batch[1]
      <3>1. /\ k \in Nat /\ 1 \in DOMAIN Batch /\ k <= Last_ /\ Head(todo["alert"]) = k
            /\ k \in Positions(Batch)
        BY <1>1, <2>1 DEF AInv, Batch, Positions
      <3>2. tried \in Seq(Nat) /\ \A j \in DOMAIN tried : tried[j] < k
        BY <2>1 DEF AInv
      <3>3. Log!Act(k)
        BY <1>1, <2>1, <2>4, <3>1, <3>2 DEF Log!Act, Batch
      <3>4. Log!Next
        BY <3>1, <3>3 DEF Log!Next, Batch
      <3>5. /\ tried' \in Seq(Nat) /\ at'["alert"] = "send" /\ Batch' = Batch /\ Last_' = Last_
            /\ \A j \in DOMAIN tried' : tried'[j] = k \/ (j \in DOMAIN tried /\ tried'[j] = tried[j])
        BY <1>2, <2>1, <2>4, <3>1, <3>2 DEF Batch, Last_
      <3>6. ASSUME NEW j \in DOMAIN tried'
            PROVE  tried'[j] <= k /\ tried'[j] <= Last_
        <4>1. CASE tried'[j] = k
          BY <3>1, <4>1
        <4>2. CASE j \in DOMAIN tried /\ tried'[j] = tried[j]
          BY <1>1, <3>1, <3>2, <4>2
        <4>. QED
          BY <3>5, <4>1, <4>2
      <3>. QED
        BY <3>4, <3>5, <3>6 DEF AInv
    <2>. QED
      BY <1>7, <2>2, <2>3, <2>4 DEF LoopEntry
  <1>8. CASE AlertSent
    <2>1. /\ at["alert"] = "send" /\ delivered' = delivered /\ tried' = tried
          /\ "send" \in Busy
      BY <1>8 DEF AlertSent, Busy
    <2>2. CASE NextEntry("alert")
      BY <1>1, <2>1, <2>2, NextRefines
    <2>3. CASE Goto("alert", "ack") /\ todo' = todo
      <3>1. at'["alert"] = "ack"
        BY <1>2, <2>3
      <3>. QED
        BY <1>3, <2>1, <2>3, <3>1, AlertIdle DEF Batch, Last_
    <2>. QED
      BY <1>8, <2>2, <2>3 DEF AlertSent
  <1>9. CASE LoopAcks("alert")
    <2>1. /\ at["alert"] = "ack" /\ delivered' = delivered /\ tried' = tried
          /\ "ack" \in Busy /\ NextEntry("alert")
      BY <1>9 DEF LoopAcks, Busy
    <2>. QED
      BY <1>1, <2>1, NextRefines
  <1>. QED
    BY <1>4, <1>5, <1>6, <1>7, <1>8, <1>9 DEF LoopStep

\* A step of another thread leaves the consumer's part alone.
LEMMA OthersRefine ==
    ASSUME AInv, tried' = tried, Batch' = Batch, Last_' = Last_,
           stream'["alert"] = stream["alert"],
           at'["alert"] = at["alert"] \/ at'["alert"] \notin Busy
    PROVE  AInv' /\ [Log!Next]_(Log!vars)
  <1>1. AInv'
    BY AlertIdle DEF Last_
  <1>2. UNCHANGED Log!vars
    BY DEF Log!vars, Batch, Last_
  <1>. QED
    BY <1>1, <1>2

LEMMA ReplyRefines ==
    ASSUME UInv, AInv, LoopStep("reply")
    PROVE  AInv' /\ [Log!Next]_(Log!vars)
  <1>1. /\ Threaded /\ todo \in [Loops -> Seq(Nat)] /\ delivered \in [Loops -> Nat]
        /\ "reply" # "alert" /\ "alert" \in Loops
    BY DEF UInv, Typed, Loops
  <1>2. stream' = stream /\ tried' = tried
    BY DEF LoopStep, LoopStarts, LoopReads, LoopEnds, LoopEntry, LoopAcks
  <1>3. at' = at \/ \E label : Goto("reply", label)
    BY DEF LoopStep, LoopStarts, LoopReads, LoopEnds, LoopEntry, LoopAcks, NextEntry
  <1>4. at'["alert"] = at["alert"]
    BY <1>1, <1>3 DEF Goto, Threaded, Threads
  <1>5. todo' = todo \/ \E b : todo' = [todo EXCEPT !["reply"] = b]
    BY DEF LoopStep, LoopStarts, LoopReads, LoopEnds, LoopEntry, LoopAcks, NextEntry
  <1>6. delivered' = delivered \/ \E d : delivered' = [delivered EXCEPT !["reply"] = d]
    BY DEF LoopStep, LoopStarts, LoopReads, LoopEnds, LoopEntry, LoopAcks, CreateGroup
  <1>7. Batch' = Batch /\ Last_' = Last_
    BY <1>1, <1>5, <1>6 DEF Batch, Last_
  <1>. QED
    BY <1>2, <1>4, <1>7, OthersRefine

\* A publication, and what else happens outside the process.
LEMMA EnvironmentRefines ==
    ASSUME UInv, AInv, Environment
    PROVE  AInv' /\ [Log!Next]_(Log!vars)
  <1>1. tried' = tried /\ todo' = todo /\ delivered' = delivered /\ at' = at
    BY Zenon DEF Environment, Publish, Update, Signal, redis
  <1>2. AInv'
    BY <1>1, AlertIdle DEF Batch, Last_
  <1>3. CASE stream'["alert"] = stream["alert"]
    BY <1>1, <1>3, OthersRefine DEF Batch, Last_
  <1>4. CASE Publish("alert")
    <2>1. Len(stream'["alert"]) = Len(stream["alert"]) + 1
      BY <1>4 DEF Publish, UInv, Typed, Loops
    <2>2. Log!Publish
      BY <1>1, <2>1 DEF Log!Publish
    <2>. QED
      BY <1>2, <2>2 DEF Log!Next
  <1>5. Publish("reply") \/ Update \/ Signal => stream'["alert"] = stream["alert"]
    BY DEF Publish, Update, Signal, redis, UInv, Typed, Loops
  <1>. QED
    BY <1>3, <1>4, <1>5 DEF Environment, Loops

\* A restart lets go of the batch.
LEMMA RestartRefines ==
    ASSUME UInv, AInv, Restart
    PROVE  AInv' /\ [Log!Next]_(Log!vars)
  <1>1. /\ tried' = tried /\ delivered' = delivered /\ stream' = stream
        /\ at' = Unspawned /\ todo' = NoBatches
    BY Zenon DEF Restart, redis
  <1>2. at'["alert"] = "off" /\ Batch' = <<>>
    BY <1>1, FreshInv DEF Batch, NoBatches, Loops
  <1>3. Log!Next
    BY <1>1, <1>2, AlertTypes, HandStep DEF Positions, Last_
  <1>. QED
    BY <1>1, <1>2, <1>3 DEF AInv, Busy, Last_

\* main spawns the consumer, and otherwise leaves it alone.
LEMMA MainRefines ==
    ASSUME UInv, AInv, MainStep
    PROVE  AInv' /\ [Log!Next]_(Log!vars)
  <1>1. tried' = tried /\ todo' = todo /\ delivered' = delivered /\ stream' = stream
    BY Zenon DEF MainStep, redis
  <1>2. at = [t \in Threads |-> at[t]]
    BY DEF UInv, Typed, Threaded
  <1>3. at'["alert"] \in {at["alert"], "start"}
    BY <1>2 DEF MainStep, MainSpawns, MainHooks, MainAborts, MainServes, MainStops,
           MainJoinsPoller, MainStopsServer, MainStopsConsumers, MainExits, Goto, Threads, Loops,
           Callers
  <1>. QED
    BY <1>1, <1>3, OthersRefine DEF Batch, Last_, Busy

LEMMA RefinesStep ==
    ASSUME UInv, AInv, [Next]_vars
    PROVE  AInv' /\ [Log!Next]_(Log!vars)
  <1>1. CASE UNCHANGED vars
    BY <1>1, OthersRefine DEF vars, redis, Batch, Last_
  <1>2. ASSUME NEW c \in Callers, CallStep(c)
        PROVE  AInv' /\ [Log!Next]_(Log!vars)
    BY <1>2, OthersRefine DEF CallStep, redis, Batch, Last_
  <1>3. CASE PollStep
    <2>1. at'["alert"] = at["alert"]
      BY <1>3 DEF PollStep, PollAsks, PollEnds, PollAnswered, PollUpdate, PollNoticed, Advance,
           GiveUp, Goto, UInv, Typed, Threaded, Threads, Loops, Callers
    <2>. QED
      BY <1>3, <2>1, OthersRefine DEF PollStep, redis, Batch, Last_
  <1>4. CASE ServerStep
    <2>1. at'["alert"] = at["alert"]
      BY <1>4 DEF ServerStep, ServerListens, ServerEnds, HttpRefuses, HttpRefused, HttpPublishes,
           Goto, UInv, Typed, Threaded, Threads, Loops, Callers
    <2>. QED
      BY <1>4, <2>1, OthersRefine DEF ServerStep, redis, Batch, Last_
  <1>. QED
    BY <1>1, <1>2, <1>3, <1>4, MainRefines, EnvironmentRefines, RestartRefines, ConsumerRefines,
       ReplyRefines DEF Next, Loops

\* Whatever is published, fails or is restarted, the consumer tries to send an
\* alert once at most, in the order of the stream, and only while it has it in
\* hand: it implements AtMostOnce.
THEOREM AlertsRefine == Spec => AlertsAtMostOnce
  <1>1. Init => AInv /\ Log!Init
    BY DEF Init, AInv, Log!Init, Batch, Last_, Busy, Positions, NoBatches, Unspawned, Loops,
       Threads
  <1>. QED
    BY <1>1, UInit, UNext, RefinesStep, PTL DEF Spec, AlertsAtMostOnce, Log!Spec
=============================================================================

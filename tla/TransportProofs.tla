---------------------------- MODULE TransportProofs ---------------------------
(***************************************************************************)
(* What holds of Transport for every number of requests and attempts and   *)
(* every size of the history.                                              *)
(***************************************************************************)
EXTENDS Transport, SequenceTheorems, TLAPS

-----------------------------------------------------------------------------
\* A request that has not ended was not carried out but where no answer told of it,
\* and may be tried again; one that ended well was carried out.
Going(r) == pc[r] \in {"ready", "sent", "asleep"}

RequestOK(r) ==
  /\ executed[r] + late[r] <= (IF Going(r) THEN 0 ELSE 1) + unsettled[r]
  /\ pc[r] \in {"ready", "asleep"} => attempt[r] < MaxAttempts
  /\ pc[r] \notin {"ready", "asleep"} => attempt[r] >= 1
  /\ pc[r] = "ok" => executed[r] >= 1

IInv == TypeOK /\ \A r \in Requests : RequestOK(r)

-----------------------------------------------------------------------------
\* What the invariant says of the numbers of a request.
LEMMA Numbers ==
  ASSUME IInv, NEW r \in Requests
  PROVE  /\ executed[r] \in Nat /\ late[r] \in Nat /\ unsettled[r] \in Nat
         /\ attempt[r] \in Nat /\ attempt[r] <= MaxAttempts
         /\ executed[r] + late[r] <= 1 + unsettled[r]
         /\ Going(r) => executed[r] + late[r] <= unsettled[r]
<1>1. /\ executed[r] \in Nat /\ late[r] \in Nat /\ unsettled[r] \in Nat
      /\ attempt[r] \in 0 .. MaxAttempts /\ MaxAttempts \in Nat
  BY TransportAssumption DEF IInv, TypeOK
<1>2. executed[r] + late[r] <= (IF Going(r) THEN 0 ELSE 1) + unsettled[r]
  BY DEF IInv, RequestOK
<1>. QED
  BY <1>1, <1>2

\* What the client makes of the answers a server gives (transport.py _process):
\* nothing but an answer that is fine in both layers is taken for data, and only a
\* rate limit, a server error or no answer at all is worth another attempt.
LEMMA Outcomes ==
  /\ \A api \in {0, 200} : Outcome(200, api) = "ok"
  /\ \A code \in {400, 401, 403, 404, 429, 500} :
       Outcome(code, 0) # "ok" /\ Outcome(200, code) # "ok"
  /\ Outcome(200, -1) = "response"
<1>1. \A code \in {400, 401, 403, 404, 429, 500} : Kind(code) # "ok"
  BY DEF Kind
<1>. QED
  BY <1>1 DEF Outcome

\* Capping a history of records leaves one, and no more than the limit.
LEMMA CappedType ==
  ASSUME NEW h \in Seq(Record)
  PROVE  Capped(h) \in Seq(Record)
<1>1. CASE Len(h) > HistoryLimit
  <2>1. /\ Len(h) \in Nat /\ HistoryLimit \in Nat
        /\ \A i \in Len(h) - HistoryLimit + 1 .. Len(h) : h[i] \in Record
    BY TransportAssumption, LenProperties, ElementOfSeq, <1>1
  <2>. QED
    BY <1>1, <2>1, SubSeqProperties DEF Capped
<1>2. CASE ~ (Len(h) > HistoryLimit)
  BY <1>2 DEF Capped
<1>. QED
  BY <1>1, <1>2

\* A call that ends is recorded.
LEMMA FinishType ==
  ASSUME TypeOK, NEW r \in Requests, NEW ok \in BOOLEAN, NEW attempts \in 1 .. MaxAttempts,
         Finish(r, ok, attempts)
  PROVE  /\ pc' = [pc EXCEPT ![r] = IF ok THEN "ok" ELSE "error"]
         /\ history' \in Seq(Record) /\ finished' \in Seq(Record)
<1> DEFINE e == [request |-> r, attempts |-> attempts, ok |-> ok]
<1>1. e \in Record
  BY DEF Record
<1>2. history \in Seq(Record) /\ finished \in Seq(Record)
  BY DEF TypeOK
<1>3. Append(history, e) \in Seq(Record) /\ Append(finished, e) \in Seq(Record)
  BY <1>1, <1>2, AppendProperties
<1>4. /\ pc' = [pc EXCEPT ![r] = IF ok THEN "ok" ELSE "error"]
      /\ history' = Capped(Append(history, e)) /\ finished' = Append(finished, e)
  BY DEF Finish
<1>. QED
  BY <1>3, <1>4, CappedType

\* What an iteration makes of a request that was sent.
LEMMA HandleType ==
  ASSUME IInv, NEW r \in Requests, NEW outcome, Handle(r, outcome), pc[r] = "sent"
  PROVE  /\ history' \in Seq(Record) /\ finished' \in Seq(Record)
         /\ \/ outcome = "ok" /\ pc' = [pc EXCEPT ![r] = "ok"]
            \/ Retried(r, outcome) /\ pc' = [pc EXCEPT ![r] = "asleep"]
            \/ pc' = [pc EXCEPT ![r] = "error"]
<1>1. attempt[r] \in 1 .. MaxAttempts
  <2>1. attempt[r] >= 1
    BY DEF IInv, RequestOK
  <2>. QED
    BY <2>1, Numbers, TransportAssumption
<1>2. CASE outcome = "ok" /\ Finish(r, TRUE, attempt[r])
  BY <1>1, <1>2, FinishType DEF IInv
<1>3. CASE Retried(r, outcome) /\ pc' = [pc EXCEPT ![r] = "asleep"]
           /\ UNCHANGED <<history, finished>>
  BY <1>3 DEF IInv, TypeOK
<1>4. CASE Finish(r, FALSE, attempt[r])
  BY <1>1, <1>4, FinishType DEF IInv
<1>. QED
  BY <1>2, <1>3, <1>4 DEF Handle

\* The iteration of a request that was sent, given what became of it on the server:
\* that it ends is all there is to show of one that ran; that nothing ran but where
\* no answer told of it is to be shown of one that may be tried again.
LEMMA HandleStep ==
  ASSUME IInv, NEW r \in Requests, NEW outcome, Handle(r, outcome), pc[r] = "sent",
         attempt' = attempt,
         executed' \in [Requests -> Nat], late' \in [Requests -> Nat],
         unsettled' \in [Requests -> Nat],
         \A q \in Requests \ {r} :
           executed'[q] = executed[q] /\ late'[q] = late[q] /\ unsettled'[q] = unsettled[q],
         executed'[r] + late'[r] <= 1 + unsettled'[r],
         outcome = "ok" => executed'[r] >= 1,
         Retried(r, outcome) => executed'[r] + late'[r] <= unsettled'[r]
  PROVE  IInv'
<1> USE TransportAssumption DEF IInv
<1>1. /\ history' \in Seq(Record) /\ finished' \in Seq(Record)
      /\ \/ outcome = "ok" /\ pc' = [pc EXCEPT ![r] = "ok"]
         \/ Retried(r, outcome) /\ pc' = [pc EXCEPT ![r] = "asleep"]
         \/ pc' = [pc EXCEPT ![r] = "error"]
  BY HandleType
<1>2. TypeOK'
  BY <1>1 DEF TypeOK
<1>3. ASSUME NEW q \in Requests, q # r PROVE RequestOK(q)'
  BY <1>1, <1>3 DEF RequestOK, Going, TypeOK
<1>4. RequestOK(r)'
  <2>. attempt[r] \in Nat /\ attempt[r] >= 1
    BY Numbers DEF RequestOK
  <2>1. CASE outcome = "ok" /\ pc' = [pc EXCEPT ![r] = "ok"]
    BY <2>1 DEF RequestOK, Going, TypeOK
  <2>2. CASE Retried(r, outcome) /\ pc' = [pc EXCEPT ![r] = "asleep"]
    BY <2>2 DEF RequestOK, Going, TypeOK, Retried
  <2>3. CASE pc' = [pc EXCEPT ![r] = "error"]
    BY <2>3 DEF RequestOK, Going, TypeOK
  <2>. QED
    BY <1>1, <2>1, <2>2, <2>3
<1>. QED
  BY <1>2, <1>3, <1>4

\* An attempt whose answer does not tell what became of it, and is no success.
LEMMA OpenStep ==
  ASSUME IInv, NEW r \in Requests, NEW outcome, outcome # "ok", Handle(r, outcome),
         pc[r] = "sent", LeftOpen(r), attempt' = attempt
  PROVE  IInv'
<1>1. executed[r] + late[r] <= unsettled[r]
  BY Numbers DEF Going
<1>2. CASE UNCHANGED server
  BY <1>1, <1>2, Numbers, HandleStep DEF IInv, TypeOK, server
<1>3. CASE /\ executed' = [executed EXCEPT ![r] = @ + 1]
           /\ unsettled' = [unsettled EXCEPT ![r] = @ + 1]
           /\ UNCHANGED late
  <2>1. /\ executed' \in [Requests -> Nat] /\ late' \in [Requests -> Nat]
        /\ unsettled' \in [Requests -> Nat]
        /\ \A q \in Requests \ {r} : /\ executed'[q] = executed[q] /\ late'[q] = late[q]
                                     /\ unsettled'[q] = unsettled[q]
        /\ executed'[r] + late'[r] <= unsettled'[r]
        /\ executed'[r] + late'[r] <= 1 + unsettled'[r]
    BY <1>1, <1>3, Numbers DEF IInv, TypeOK
  <2>. QED
    BY <2>1, HandleStep
<1>4. CASE /\ late' = [late EXCEPT ![r] = @ + 1]
           /\ unsettled' = [unsettled EXCEPT ![r] = @ + 1]
           /\ UNCHANGED executed
  <2>1. /\ executed' \in [Requests -> Nat] /\ late' \in [Requests -> Nat]
        /\ unsettled' \in [Requests -> Nat]
        /\ \A q \in Requests \ {r} : /\ executed'[q] = executed[q] /\ late'[q] = late[q]
                                     /\ unsettled'[q] = unsettled[q]
        /\ executed'[r] + late'[r] <= unsettled'[r]
        /\ executed'[r] + late'[r] <= 1 + unsettled'[r]
    BY <1>1, <1>4, Numbers DEF IInv, TypeOK
  <2>. QED
    BY <2>1, HandleStep
<1>. QED
  BY <1>2, <1>3, <1>4 DEF LeftOpen

\* No request has begun, so nothing was tried or carried out.
LEMMA InitIInv == Init => IInv
<1> SUFFICES ASSUME Init PROVE IInv
  OBVIOUS
<1> USE TransportAssumption DEF Init
<1>1. TypeOK
  BY EmptySeq DEF TypeOK
<1>2. ASSUME NEW r \in Requests PROVE RequestOK(r)
  <2>1. /\ executed[r] = 0 /\ late[r] = 0 /\ unsettled[r] = 0 /\ attempt[r] = 0
        /\ pc[r] = "ready"
    OBVIOUS
  <2>. QED
    BY <2>1 DEF RequestOK, Going
<1>. QED
  BY <1>1, <1>2 DEF IInv

\* A new request, or another attempt.
LEMMA SendStep ==
  ASSUME IInv, NEW r \in Requests, Send(r)
  PROVE  IInv'
<1> USE TransportAssumption DEF IInv
<1>1. /\ attempt[r] \in 0 .. MaxAttempts /\ attempt[r] < MaxAttempts
      /\ attempt' = [attempt EXCEPT ![r] = @ + 1]
      /\ UNCHANGED <<executed, late, unsettled>>
      /\ Going(r)
  BY DEF Send, Due, TypeOK, RequestOK, Going, server
<1>2. attempt[r] + 1 \in 1 .. MaxAttempts
  BY <1>1
<1>3. /\ history' \in Seq(Record) /\ finished' \in Seq(Record)
      /\ pc' = [pc EXCEPT ![r] = "sent"] \/ pc' = [pc EXCEPT ![r] = "error"]
  BY <1>2, FinishType DEF Send, TypeOK
<1>4. TypeOK'
  <2>1. attempt' \in [Requests -> 0 .. MaxAttempts]
    BY <1>1, <1>2 DEF TypeOK
  <2>. QED
    BY <1>1, <1>3, <2>1 DEF TypeOK
<1>5. ASSUME NEW q \in Requests PROVE RequestOK(q)'
  <2>1. CASE q = r
    BY <1>1, <1>3, <2>1 DEF RequestOK, Going, TypeOK
  <2>2. CASE q # r
    BY <1>1, <1>3, <2>2 DEF RequestOK, Going, TypeOK
  <2>. QED
    BY <2>1, <2>2
<1>. QED
  BY <1>4, <1>5

\* The invariant is inductive: what the server does is said of each action, what the
\* client makes of it is HandleStep.
LEMMA StepIInv == IInv /\ [Next]_vars => IInv'
<1> SUFFICES ASSUME IInv, [Next]_vars PROVE IInv'
  OBVIOUS
<1> USE TransportAssumption
<1>1. CASE UNCHANGED vars
  BY <1>1 DEF IInv, TypeOK, RequestOK, Going, vars, server
<1>2. ASSUME NEW r \in Requests, Send(r) PROVE IInv'
  BY <1>2, SendStep
<1>3. ASSUME NEW r \in Requests, Succeed(r) PROVE IInv'
  <2>1. /\ pc[r] = "sent" /\ Handle(r, "ok") /\ UNCHANGED <<attempt, late, unsettled>>
        /\ executed' = [executed EXCEPT ![r] = @ + 1]
    BY <1>3, Outcomes DEF Succeed
  <2>2. ~ Retried(r, "ok")
    BY DEF Retried
  <2>3. executed[r] + late[r] <= unsettled[r]
    BY <2>1, Numbers DEF Going
  <2>4. /\ executed' \in [Requests -> Nat] /\ late' \in [Requests -> Nat]
        /\ unsettled' \in [Requests -> Nat]
        /\ \A q \in Requests \ {r} :
             executed'[q] = executed[q] /\ late'[q] = late[q] /\ unsettled'[q] = unsettled[q]
        /\ executed'[r] + late'[r] <= 1 + unsettled'[r] /\ executed'[r] >= 1
    BY <2>1, <2>3, Numbers DEF IInv, TypeOK
  <2>. QED
    BY <2>1, <2>2, <2>4, HandleStep
<1>4. ASSUME NEW r \in Requests, Refuse(r) PROVE IInv'
  <2>1. /\ pc[r] = "sent" /\ UNCHANGED <<attempt, executed, late, unsettled>>
        /\ \E outcome : outcome # "ok" /\ Handle(r, outcome)
    BY <1>4, Outcomes DEF Refuse, server
  <2>2. executed[r] + late[r] <= unsettled[r]
    BY <2>1, Numbers DEF Going
  <2>3. PICK outcome : outcome # "ok" /\ Handle(r, outcome)
    BY <2>1
  <2>. QED
    BY <2>1, <2>2, <2>3, Numbers, HandleStep DEF IInv, TypeOK
<1>5. ASSUME NEW r \in Requests, Garble(r) PROVE IInv'
  <2>1. /\ pc[r] = "sent" /\ Handle(r, "response") /\ UNCHANGED <<attempt, late, unsettled>>
        /\ executed' \in {executed, [executed EXCEPT ![r] = @ + 1]}
    BY <1>5, Outcomes DEF Garble
  <2>2. ~ Retried(r, "response")
    BY DEF Retried
  <2>3. executed[r] + late[r] <= unsettled[r]
    BY <2>1, Numbers DEF Going
  <2>4. /\ executed' \in [Requests -> Nat] /\ late' \in [Requests -> Nat]
        /\ unsettled' \in [Requests -> Nat]
        /\ \A q \in Requests \ {r} :
             executed'[q] = executed[q] /\ late'[q] = late[q] /\ unsettled'[q] = unsettled[q]
        /\ executed'[r] + late'[r] <= 1 + unsettled'[r]
    <3>1. CASE UNCHANGED executed
      BY <2>1, <2>3, <3>1, Numbers DEF IInv, TypeOK
    <3>2. CASE executed' = [executed EXCEPT ![r] = @ + 1]
      BY <2>1, <2>3, <3>2, Numbers DEF IInv, TypeOK
    <3>. QED
      BY <2>1, <3>1, <3>2
  <2>. QED
    BY <2>1, <2>2, <2>4, HandleStep
<1>6. ASSUME NEW r \in Requests, Break(r) PROVE IInv'
  BY <1>6, Outcomes, OpenStep DEF Break
<1>7. ASSUME NEW r \in Requests, Lose(r) PROVE IInv'
  BY <1>7, OpenStep DEF Lose
<1>8. ASSUME NEW r \in Requests, Deliver(r) PROVE IInv'
  <2>1. TypeOK'
    BY <1>8 DEF Deliver, IInv, TypeOK
  <2>2. ASSUME NEW q \in Requests PROVE RequestOK(q)'
    BY <1>8 DEF Deliver, IInv, TypeOK, RequestOK, Going
  <2>. QED
    BY <2>1, <2>2 DEF IInv
<1>. QED
  BY <1>1, <1>2, <1>3, <1>4, <1>5, <1>6, <1>7, <1>8 DEF Next

\* Hence it holds in every state of every behaviour.
LEMMA Invariance == Spec => []IInv
BY InitIInv, StepIInv, PTL DEF Spec

-----------------------------------------------------------------------------
(* The history.                                                            *)

\* h is the latest part of f.
Latest(h, f) ==
  /\ Len(h) = IF Len(f) < HistoryLimit THEN Len(f) ELSE HistoryLimit
  /\ \A i \in 1 .. Len(h) : h[i] = f[Len(f) - Len(h) + i]

\* Each call that ended is recorded, and once.
Recorded ==
  /\ \A r \in Requests :
       pc[r] \in {"ok", "error"} <=> \E i \in 1 .. Len(finished) : finished[i].request = r
  /\ \A i, j \in 1 .. Len(finished) : finished[i].request = finished[j].request => i = j

\* A record more in both, the oldest one going if there are too many (_record).
LEMMA LatestStep ==
  ASSUME NEW h \in Seq(Record), NEW f \in Seq(Record), NEW e \in Record, Latest(h, f)
  PROVE  Latest(Capped(Append(h, e)), Append(f, e))
<1> DEFINE g == Append(h, e)
           k == Append(f, e)
<1>1. /\ g \in Seq(Record) /\ Len(g) = Len(h) + 1 /\ g[Len(h) + 1] = e
      /\ \A i \in 1 .. Len(h) : g[i] = h[i]
      /\ Len(k) = Len(f) + 1 /\ k[Len(f) + 1] = e
      /\ \A i \in 1 .. Len(f) : k[i] = f[i]
  BY AppendProperties
<1>2. Len(h) \in Nat /\ Len(f) \in Nat /\ HistoryLimit \in Nat
  BY LenProperties, TransportAssumption
<1>3. Len(h) <= Len(f) /\ (Len(h) < HistoryLimit => Len(h) = Len(f)) /\ Len(h) <= HistoryLimit
  BY <1>2 DEF Latest
<1>. HIDE DEF g, k
<1>4. \A i \in 1 .. Len(g) : g[i] = k[Len(k) - Len(g) + i]
  <2> SUFFICES ASSUME NEW i \in 1 .. Len(g) PROVE g[i] = k[Len(k) - Len(g) + i]
    OBVIOUS
  <2>1. CASE i = Len(h) + 1
    <3>1. Len(k) - Len(g) + i = Len(f) + 1
      BY <1>1, <1>2, <2>1
    <3>. QED
      BY <1>1, <2>1, <3>1
  <2>2. CASE i \in 1 .. Len(h)
    <3>1. /\ Len(k) - Len(g) + i = Len(f) - Len(h) + i
          /\ Len(f) - Len(h) + i \in 1 .. Len(f)
      BY <1>1, <1>2, <1>3, <2>2
    <3>2. h[i] = f[Len(f) - Len(h) + i]
      BY <2>2 DEF Latest
    <3>. QED
      BY <1>1, <2>2, <3>1, <3>2
  <2>3. i = Len(h) + 1 \/ i \in 1 .. Len(h)
    <3>1. i \in Nat /\ 1 <= i /\ i <= Len(h) + 1
      BY <1>1, <1>2
    <3>. QED
      BY <1>2, <3>1
  <2>. QED
    BY <2>1, <2>2, <2>3
<1>5. /\ Len(Capped(g)) = IF Len(k) < HistoryLimit THEN Len(k) ELSE HistoryLimit
      /\ \A i \in 1 .. Len(Capped(g)) : Capped(g)[i] = k[Len(k) - Len(Capped(g)) + i]
  <2>1. CASE ~ (Len(g) > HistoryLimit)
    <3>1. Capped(g) = g
      BY <2>1 DEF Capped
    <3>2. Len(g) = IF Len(k) < HistoryLimit THEN Len(k) ELSE HistoryLimit
      BY <1>1, <1>2, <1>3, <2>1
    <3>. QED
      BY <1>4, <3>1, <3>2
  <2>2. CASE Len(g) > HistoryLimit
    <3>1. /\ Len(g) = HistoryLimit + 1 /\ Len(k) > HistoryLimit
          /\ Len(g) \in Nat /\ Len(k) \in Nat
      BY <1>1, <1>2, <1>3, <2>2
    <3>2. Capped(g) = SubSeq(g, 2, Len(g))
      BY <1>2, <2>2, <3>1 DEF Capped
    <3>3. /\ Len(Capped(g)) = HistoryLimit
          /\ \A i \in 1 .. HistoryLimit : Capped(g)[i] = g[2 + i - 1]
      <4>1. \A i \in 2 .. Len(g) : g[i] \in Record
        BY <1>1, <1>2, ElementOfSeq
      <4>. QED
        BY <1>1, <1>2, <3>1, <3>2, <4>1, SubSeqProperties
    <3>4. ASSUME NEW i \in 1 .. HistoryLimit
          PROVE  Capped(g)[i] = k[Len(k) - HistoryLimit + i]
      <4>1. /\ 2 + i - 1 = i + 1 /\ i + 1 \in 1 .. Len(g)
            /\ Len(k) - Len(g) + (i + 1) = Len(k) - HistoryLimit + i
        BY <1>2, <3>1
      <4>. QED
        BY <1>4, <3>3, <4>1
    <3>5. Len(Capped(g)) = IF Len(k) < HistoryLimit THEN Len(k) ELSE HistoryLimit
      BY <1>2, <3>1, <3>3
    <3>. QED
      BY <3>3, <3>4, <3>5
  <2>. QED
    BY <2>1, <2>2
<1>6. Latest(Capped(g), k)
  BY <1>5 DEF Latest
<1>. QED
  BY <1>6 DEF g, k

\* A call that ends is recorded, in the history too.
LEMMA FinishRecords ==
  ASSUME TypeOK, Latest(history, finished), Recorded,
         NEW r \in Requests, pc[r] \notin {"ok", "error"},
         NEW ok \in BOOLEAN, NEW attempts \in 1 .. MaxAttempts, Finish(r, ok, attempts)
  PROVE  Latest(history', finished') /\ Recorded'
<1> DEFINE e == [request |-> r, attempts |-> attempts, ok |-> ok]
<1>1. e \in Record /\ history \in Seq(Record) /\ finished \in Seq(Record)
  BY DEF Record, TypeOK
<1>2. /\ pc' = [pc EXCEPT ![r] = IF ok THEN "ok" ELSE "error"]
      /\ history' = Capped(Append(history, e)) /\ finished' = Append(finished, e)
  BY DEF Finish
<1>3. Latest(history', finished')
  BY <1>1, <1>2, LatestStep
<1>4. /\ Len(finished) \in Nat /\ Len(finished') = Len(finished) + 1
      /\ finished'[Len(finished) + 1] = e
      /\ \A i \in 1 .. Len(finished) : finished'[i] = finished[i]
  BY <1>1, <1>2, AppendProperties, LenProperties
<1>5. /\ pc'[r] \in {"ok", "error"}
      /\ \A q \in Requests : q # r => pc'[q] = pc[q]
  BY <1>2 DEF TypeOK
<1>6. \A i \in 1 .. Len(finished) : finished[i].request # r
  BY DEF Recorded
<1>7. ASSUME NEW q \in Requests
      PROVE  pc'[q] \in {"ok", "error"} <=>
               \E i \in 1 .. Len(finished') : finished'[i].request = q
  <2>1. CASE q = r
    BY <1>4, <1>5, <2>1
  <2>2. CASE q # r
    BY <1>4, <1>5, <2>2 DEF Recorded
  <2>. QED
    BY <2>1, <2>2
<1>8. ASSUME NEW i \in 1 .. Len(finished'), NEW j \in 1 .. Len(finished'),
             finished'[i].request = finished'[j].request
      PROVE  i = j
  BY <1>4, <1>6, <1>8 DEF Recorded
<1>. QED
  BY <1>3, <1>7, <1>8 DEF Recorded

\* The iteration of a request leaves the history alone or ends the call.
LEMMA HandleRecords ==
  ASSUME IInv, Latest(history, finished), Recorded,
         NEW r \in Requests, NEW outcome, pc[r] = "sent", Handle(r, outcome)
  PROVE  Latest(history', finished') /\ Recorded'
<1>1. attempt[r] \in 1 .. MaxAttempts
  <2>1. attempt[r] >= 1
    BY DEF IInv, RequestOK
  <2>. QED
    BY <2>1, Numbers, TransportAssumption
<1>2. CASE Finish(r, TRUE, attempt[r])
  BY <1>1, <1>2, FinishRecords DEF IInv
<1>3. CASE Finish(r, FALSE, attempt[r])
  BY <1>1, <1>3, FinishRecords DEF IInv
<1>4. CASE pc' = [pc EXCEPT ![r] = "asleep"] /\ UNCHANGED <<history, finished>>
  BY <1>4 DEF Recorded, IInv, TypeOK
<1>. QED
  BY <1>2, <1>3, <1>4 DEF Handle

\* Every step leaves the history alone or adds the record of the one call that ends.
LEMMA StepRecords ==
  ASSUME IInv, Latest(history, finished), Recorded, [Next]_vars
  PROVE  Latest(history', finished') /\ Recorded'
<1>1. CASE UNCHANGED <<pc, history, finished>>
  BY <1>1 DEF Recorded
<1>2. ASSUME NEW r \in Requests, Send(r) PROVE Latest(history', finished') /\ Recorded'
  <2>1. CASE pc' = [pc EXCEPT ![r] = "sent"] /\ UNCHANGED <<history, finished>>
    BY <1>2, <2>1 DEF Send, Due, Recorded, IInv, TypeOK
  <2>2. CASE Finish(r, FALSE, attempt[r] + 1)
    <3>1. attempt[r] + 1 \in 1 .. MaxAttempts /\ pc[r] \notin {"ok", "error"}
      BY <1>2, Numbers, TransportAssumption DEF IInv, RequestOK, Send, Due
    <3>. QED
      BY <2>2, <3>1, FinishRecords DEF IInv
  <2>. QED
    BY <1>2, <2>1, <2>2 DEF Send
<1>3. ASSUME NEW r \in Requests, Succeed(r) \/ Refuse(r) \/ Garble(r) \/ Break(r) \/ Lose(r)
      PROVE  Latest(history', finished') /\ Recorded'
  <2>1. pc[r] = "sent" /\ \E outcome : Handle(r, outcome)
    BY <1>3 DEF Succeed, Refuse, Garble, Break, Lose
  <2>. QED
    BY <2>1, HandleRecords
<1>4. ASSUME NEW r \in Requests, Deliver(r) PROVE UNCHANGED <<pc, history, finished>>
  BY <1>4 DEF Deliver
<1>. QED
  BY <1>1, <1>2, <1>3, <1>4 DEF Next, vars

-----------------------------------------------------------------------------
\* No request is ever tried more than max_attempts times, whatever the number of
\* calls and the answers they get (transport.py request, _retry_delay).
THEOREM TypeCorrect == Spec => []TypeOK
<1>1. IInv => TypeOK
  BY DEF IInv
<1>. QED
  BY <1>1, Invariance, PTL

\* Data is only returned for a request the server carried out, in whichever layer
\* refusals are reported (transport.py _process, _map_status).
THEOREM SuccessesAreReal == Spec => []SuccessIsReal
<1>1. IInv => SuccessIsReal
  BY DEF IInv, RequestOK, SuccessIsReal
<1>. QED
  BY <1>1, Invariance, PTL

\* A request is only carried out again where the client could not know of the first
\* time, its answer being lost or a server error: no answer that settles a request is
\* followed by another attempt (transport.py request, _process, _retry_delay).
THEOREM RepeatedOnlyWhenNothingTold == Spec => []RepeatedOnlyWhenUnsettled
<1>1. IInv => RepeatedOnlyWhenUnsettled
  BY Numbers DEF RepeatedOnlyWhenUnsettled
<1>. QED
  BY <1>1, Invariance, PTL

\* The history is the latest part of all there was to record, in the order the
\* calls ended, and every call that ended was recorded once, for any number of
\* calls at once and any limit (transport.py _record).
THEOREM HistoryStaysLatest == Spec => []HistoryIsLatest
<1>1. Init => Latest(history, finished) /\ Recorded
  <2> SUFFICES ASSUME Init PROVE Latest(history, finished) /\ Recorded
    OBVIOUS
  <2>1. history = <<>> /\ finished = <<>> /\ Len(<<>>) = 0
    BY DEF Init
  <2>2. \A r \in Requests : pc[r] = "ready"
    BY DEF Init
  <2>. QED
    BY <2>1, <2>2, TransportAssumption DEF Latest, Recorded
<1>2. IInv /\ Latest(history, finished) /\ Recorded /\ [Next]_vars
        => (Latest(history, finished) /\ Recorded)'
  BY StepRecords
<1>3. Latest(history, finished) /\ Recorded => HistoryIsLatest
  BY DEF Latest, Recorded, HistoryIsLatest
<1>. QED
  BY <1>1, <1>2, <1>3, Invariance, PTL DEF Spec

-----------------------------------------------------------------------------
(* How much a request may still do.                                        *)

\* The steps it has left, counting a wait and an attempt as two.
Left(r) ==
  CASE pc[r] \in {"ok", "error"} -> 0
    [] pc[r] \in {"ready", "asleep"} -> 2 * (MaxAttempts - attempt[r])
    [] OTHER -> 2 * (MaxAttempts - attempt[r]) + 1

\* A step of r takes one of those, a step of another request none.
Counts(r) ==
  /\ Left(r) \in 0 .. 2 * MaxAttempts
  /\ Left(r)' <= Left(r)
  /\ pc'[r] # pc[r] => Left(r)' < Left(r)

\* What was carried out of a request, or still may be, are its attempts but for one
\* that is not decided yet.
Carried(r) == executed[r] + late[r] + (IF pc[r] = "sent" THEN 1 ELSE 0) <= attempt[r]

\* What the steps of a request do to it, and that they leave every other one alone.
LEMMA Steps ==
  ASSUME IInv, [Next]_vars, NEW r \in Requests
  PROVE  \/ /\ pc[r] \in {"ready", "asleep"} /\ pc'[r] \in {"sent", "error"}
            /\ attempt'[r] = attempt[r] + 1 /\ attempt[r] < MaxAttempts
            /\ executed'[r] + late'[r] = executed[r] + late[r]
         \/ /\ pc[r] = "sent" /\ pc'[r] \in {"asleep", "ok", "error"}
            /\ attempt'[r] = attempt[r]
            /\ pc'[r] = "asleep" => attempt[r] < MaxAttempts
            /\ executed'[r] + late'[r] <= executed[r] + late[r] + 1
         \/ /\ pc'[r] = pc[r] /\ attempt'[r] = attempt[r]
            /\ executed'[r] + late'[r] = executed[r] + late[r]
<1> USE DEF IInv, TypeOK
<1>1. CASE UNCHANGED vars
  BY <1>1 DEF vars, server
<1>2. ASSUME NEW q \in Requests, Send(q)
      PROVE  /\ pc[q] \in {"ready", "asleep"} /\ attempt' = [attempt EXCEPT ![q] = @ + 1]
             /\ \/ pc' = [pc EXCEPT ![q] = "sent"]
                \/ pc' = [pc EXCEPT ![q] = "error"]
             /\ UNCHANGED <<executed, late>> /\ attempt[q] < MaxAttempts
  BY <1>2 DEF Send, Due, Finish, server, RequestOK
<1>3. ASSUME NEW q \in Requests, Succeed(q) \/ Refuse(q) \/ Garble(q) \/ Break(q) \/ Lose(q)
      PROVE  /\ pc[q] = "sent" /\ UNCHANGED attempt
             /\ \/ pc' = [pc EXCEPT ![q] = "ok"] \/ pc' = [pc EXCEPT ![q] = "error"]
                \/ pc' = [pc EXCEPT ![q] = "asleep"] /\ attempt[q] < MaxAttempts
             /\ \/ UNCHANGED <<executed, late>>
                \/ executed' = [executed EXCEPT ![q] = @ + 1] /\ UNCHANGED late
                \/ late' = [late EXCEPT ![q] = @ + 1] /\ UNCHANGED executed
  <2>1. pc[q] = "sent" /\ UNCHANGED attempt /\ \E outcome : Handle(q, outcome)
    BY <1>3 DEF Succeed, Refuse, Garble, Break, Lose
  <2>2. \/ pc' = [pc EXCEPT ![q] = "ok"] \/ pc' = [pc EXCEPT ![q] = "error"]
        \/ pc' = [pc EXCEPT ![q] = "asleep"] /\ attempt[q] < MaxAttempts
    BY <2>1 DEF Handle, Finish, Retried
  <2>3. \/ UNCHANGED <<executed, late>>
        \/ executed' = [executed EXCEPT ![q] = @ + 1] /\ UNCHANGED late
        \/ late' = [late EXCEPT ![q] = @ + 1] /\ UNCHANGED executed
    BY <1>3 DEF Succeed, Refuse, Garble, Break, Lose, LeftOpen, server
  <2>. QED
    BY <2>1, <2>2, <2>3
<1>4. ASSUME NEW q \in Requests, Deliver(q)
      PROVE  /\ UNCHANGED <<pc, attempt>>
             /\ executed' = [executed EXCEPT ![q] = @ + 1]
             /\ late' = [late EXCEPT ![q] = @ - 1]
  BY <1>4 DEF Deliver
<1>5. \A q \in Requests : executed[q] \in Nat /\ late[q] \in Nat
  OBVIOUS
<1>. QED
  BY <1>1, <1>2, <1>3, <1>4, <1>5 DEF Next

\* An attempt that was sent, a wait before one more or an end: each step of a request
\* takes one of those it has left, whatever the other requests do, so that it can
\* take no more than twice max_attempts (transport.py request, _retry_delay).
THEOREM EveryStepCounts == Spec => [][\A r \in Requests : Counts(r)]_vars
<1>1. ASSUME IInv, [Next]_vars, NEW r \in Requests PROVE Counts(r)
  <2>1. /\ attempt[r] \in Nat /\ MaxAttempts \in Nat /\ attempt[r] <= MaxAttempts
        /\ pc[r] \in {"ready", "sent", "asleep", "ok", "error"}
        /\ pc[r] = "sent" => attempt[r] >= 1
    BY <1>1, Numbers, TransportAssumption DEF IInv, TypeOK, RequestOK
  <2>. QED
    BY <1>1, <2>1, Steps DEF Left, Counts
<1>2. IInv /\ [Next]_vars => [\A r \in Requests : Counts(r)]_vars
  BY <1>1
<1>. QED
  BY <1>2, Invariance, PTL DEF Spec

\* A write is carried out no more often than it was tried, those copies counted that
\* may still arrive: max_attempts bounds what one call does to the device, however
\* many answers are lost (transport.py request).
THEOREM CarriedOutAtMostAsTried ==
  Spec => [](\A r \in Requests : executed[r] + late[r] <= attempt[r])
<1> DEFINE AllCarried == \A r \in Requests : Carried(r)
<1>1. Init => AllCarried
  <2> SUFFICES ASSUME Init, NEW r \in Requests PROVE Carried(r)
    OBVIOUS
  <2>1. executed[r] = 0 /\ late[r] = 0 /\ attempt[r] = 0 /\ pc[r] = "ready"
    BY DEF Init
  <2>. QED
    BY <2>1 DEF Carried
<1>2. IInv /\ AllCarried /\ [Next]_vars => AllCarried'
  <2> SUFFICES ASSUME IInv, AllCarried, [Next]_vars, NEW r \in Requests PROVE Carried(r)'
    OBVIOUS
  <2>1. executed[r] \in Nat /\ late[r] \in Nat /\ attempt[r] \in Nat
    BY Numbers
  <2>2. executed'[r] \in Nat /\ late'[r] \in Nat
    BY StepIInv DEF IInv, TypeOK
  <2>. QED
    BY <2>1, <2>2, Steps DEF Carried
<1>3. IInv /\ AllCarried => \A r \in Requests : executed[r] + late[r] <= attempt[r]
  <2> SUFFICES ASSUME IInv, AllCarried, NEW r \in Requests
               PROVE  executed[r] + late[r] <= attempt[r]
    OBVIOUS
  <2>1. /\ executed[r] \in Nat /\ late[r] \in Nat /\ attempt[r] \in Nat
        /\ Carried(r)
    BY Numbers
  <2>. QED
    BY <2>1 DEF Carried
<1>. QED
  BY <1>1, <1>2, <1>3, Invariance, PTL DEF Spec
=============================================================================

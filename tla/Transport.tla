------------------------------- MODULE Transport ------------------------------
(***************************************************************************)
(* AsyncTransport.request (transport.py): one call of the cloud API, sent  *)
(* again after a rate limit, a server error or a failed connection, with   *)
(* the call history all requests of a client share, against a server that  *)
(* reports refusals in either of two layers and a network that loses or    *)
(* delays what it carries.                                                 *)
(*                                                                         *)
(* Backoff delays only separate attempts; how long they are is left out,   *)
(* and so is what a record keeps for display.                              *)
(***************************************************************************)
EXTENDS Integers, Sequences

CONSTANTS
  Requests,      \* calls of AsyncTransport.request
  NoToken,       \* those that need a token while the client has none
  MaxAttempts,   \* config.max_attempts
  HistoryLimit   \* config.history_limit

ASSUME TransportAssumption ==
  /\ NoToken \subseteq Requests
  /\ MaxAttempts \in Nat \ {0}
  /\ HistoryLimit \in Nat

VARIABLES
  pc,        \* pc[r]: "ready", "sent", "asleep" before a retry, "ok" or "error"
  attempt,   \* attempt[r]: times it was tried
  history,   \* config.history
  executed,  \* server: times r was carried out
  late,      \* network: copies of r still on their way, whose sender timed out
  unsettled, \* history: copies of r that were or may be carried out, unknown to the client
  finished   \* history: every record made, in order

server == <<executed, late, unsettled>>
vars == <<pc, attempt, history, server, finished>>

Record == [request : Requests, attempts : 1 .. MaxAttempts, ok : BOOLEAN]

Init ==
  /\ pc = [r \in Requests |-> "ready"]
  /\ attempt = [r \in Requests |-> 0]
  /\ history = <<>>
  /\ executed = [r \in Requests |-> 0]
  /\ late = [r \in Requests |-> 0]
  /\ unsettled = [r \in Requests |-> 0]
  /\ finished = <<>>

-----------------------------------------------------------------------------
(* What the client makes of an answer.                                     *)

\* An answer: the HTTP status, and the status its JSON envelope repeats (0 when
\* it has none, or is a bare list, -1 when the body is no JSON at all).
Kind(code) ==
  CASE code = 401 \/ code = 403 -> "auth"
    [] code = 404 -> "notfound"
    [] code = 429 -> "rate"
    [] code >= 500 -> "server"
    [] OTHER -> "api"

\* _process and _map_status.  Mutant: the envelope is not looked at.
Outcome_HttpOnly(http, api) ==
  IF http >= 400 THEN Kind(http) ELSE IF api = -1 THEN "response" ELSE "ok"

Outcome(http, api) ==
  CASE http >= 400 -> Kind(http)
    [] http < 400 /\ api = -1 -> "response"
    [] http < 400 /\ api \in {0, 200} -> "ok"
    [] OTHER -> Kind(api)

\* _retry_delay.  Mutants: one attempt too many; every error is retried.
Retried_OneMore(r, outcome) ==
  attempt[r] <= MaxAttempts /\ outcome \in {"rate", "server", "connection"}
Retried_All(r, outcome) == attempt[r] < MaxAttempts

Retried(r, outcome) ==
  attempt[r] < MaxAttempts /\ outcome \in {"rate", "server", "connection"}

\* _record: the oldest records go.  Mutant: the newest goes.
Capped_Newest(h) ==
  IF Len(h) > HistoryLimit THEN SubSeq(h, 1, HistoryLimit) ELSE h

Capped(h) ==
  IF Len(h) > HistoryLimit THEN SubSeq(h, Len(h) - HistoryLimit + 1, Len(h)) ELSE h

Finish(r, ok, attempts) ==
  LET record == [request |-> r, attempts |-> attempts, ok |-> ok] IN
  /\ pc' = [pc EXCEPT ![r] = IF ok THEN "ok" ELSE "error"]
  /\ history' = Capped(Append(history, record))
  /\ finished' = Append(finished, record)

\* The rest of an iteration, once there is an outcome.
Handle(r, outcome) ==
  \/ outcome = "ok" /\ Finish(r, TRUE, attempt[r])
  \/ /\ outcome # "ok" /\ Retried(r, outcome)
     /\ pc' = [pc EXCEPT ![r] = "asleep"]
     /\ UNCHANGED <<history, finished>>
  \/ outcome # "ok" /\ ~ Retried(r, outcome) /\ Finish(r, FALSE, attempt[r])

-----------------------------------------------------------------------------
\* A request is new, or slept before its next attempt.  Mutant: it sleeps on.
Due_Once(r) == pc[r] = "ready"

Due(r) == pc[r] \in {"ready", "asleep"}

\* An iteration begins: the request is sent, unless it needs a token there is not.
Send(r) ==
  /\ Due(r)
  /\ attempt' = [attempt EXCEPT ![r] = @ + 1]
  /\ \/ /\ r \notin NoToken
        /\ pc' = [pc EXCEPT ![r] = "sent"]
        /\ UNCHANGED <<history, finished>>
     \/ r \in NoToken /\ Finish(r, FALSE, attempt[r] + 1)
  /\ UNCHANGED server

\* The server carries the request out and says so.
Succeed(r) ==
  /\ pc[r] = "sent"
  /\ executed' = [executed EXCEPT ![r] = @ + 1]
  /\ \E api \in {0, 200} : Handle(r, Outcome(200, api))
  /\ UNCHANGED <<attempt, late, unsettled>>

\* The server refuses, and does nothing: in the HTTP status (EU) or in the envelope
\* (US, JP).
Refuse(r) ==
  /\ pc[r] = "sent"
  /\ \E code \in {400, 401, 403, 404, 429} :
       Handle(r, Outcome(code, 0)) \/ Handle(r, Outcome(200, code))
  /\ UNCHANGED <<attempt, server>>

\* Something on the way answers with a body that is no JSON, be the request
\* carried out or not.
Garble(r) ==
  /\ pc[r] = "sent"
  /\ Handle(r, Outcome(200, -1))
  /\ executed' \in {executed, [executed EXCEPT ![r] = @ + 1]}
  /\ UNCHANGED <<attempt, late, unsettled>>

\* What may have become of a request whose answer does not tell: nothing, all of it,
\* or it is still to be delivered.
LeftOpen(r) ==
  \/ UNCHANGED server
  \/ /\ executed' = [executed EXCEPT ![r] = @ + 1]
     /\ unsettled' = [unsettled EXCEPT ![r] = @ + 1]
     /\ UNCHANGED late
  \/ /\ late' = [late EXCEPT ![r] = @ + 1]
     /\ unsettled' = [unsettled EXCEPT ![r] = @ + 1]
     /\ UNCHANGED executed

\* The server, or a gateway before it, breaks: a 5xx in either layer.
Break(r) ==
  /\ pc[r] = "sent"
  /\ Handle(r, Outcome(500, 0)) \/ Handle(r, Outcome(200, 500))
  /\ LeftOpen(r)
  /\ UNCHANGED attempt

\* httpx gives up: the request was not delivered, or its answer was not, or it is
\* still to be delivered.
Lose(r) ==
  /\ pc[r] = "sent"
  /\ Handle(r, "connection")
  /\ LeftOpen(r)
  /\ UNCHANGED attempt

\* A copy whose sender has long given up is carried out.
Deliver(r) ==
  /\ late[r] > 0
  /\ late' = [late EXCEPT ![r] = @ - 1]
  /\ executed' = [executed EXCEPT ![r] = @ + 1]
  /\ UNCHANGED <<pc, attempt, history, unsettled, finished>>

Next ==
  \E r \in Requests :
    Send(r) \/ Succeed(r) \/ Refuse(r) \/ Garble(r) \/ Break(r) \/ Lose(r)
    \/ Deliver(r)

Spec == Init /\ [][Next]_vars

\* The event loop resumes a request, and httpx ends an attempt, if only by its timeout.
FairSpec ==
  Spec /\ \A r \in Requests :
    /\ WF_vars(Send(r))
    /\ WF_vars(Succeed(r) \/ Refuse(r) \/ Garble(r) \/ Break(r) \/ Lose(r))

-----------------------------------------------------------------------------
\* Types; a request is never tried more than max_attempts times.
TypeOK ==
  /\ pc \in [Requests -> {"ready", "sent", "asleep", "ok", "error"}]
  /\ attempt \in [Requests -> 0 .. MaxAttempts]
  /\ history \in Seq(Record) /\ finished \in Seq(Record)
  /\ executed \in [Requests -> Nat]
  /\ late \in [Requests -> Nat]
  /\ unsettled \in [Requests -> Nat]

\* Data is only returned for a request the server carried out, whichever layer it
\* reports in: an expired token is never an empty success.
SuccessIsReal == \A r \in Requests : pc[r] = "ok" => executed[r] >= 1

\* A write is carried out, or still may be, more than once only if the client could
\* not know of the first: no answer, or a server error, told it nothing.  An answer
\* that settles a request is never followed by another attempt.
RepeatedOnlyWhenUnsettled ==
  \A r \in Requests : executed[r] + late[r] <= 1 + unsettled[r]

\* The history is the latest part of all there was to record, in the order the
\* calls ended, however many run at once; every call that ended is in the whole once.
HistoryIsLatest ==
  /\ Len(history) = IF Len(finished) < HistoryLimit THEN Len(finished) ELSE HistoryLimit
  /\ \A i \in 1 .. Len(history) :
       history[i] = finished[Len(finished) - Len(history) + i]
  /\ \A r \in Requests :
       pc[r] \in {"ok", "error"} <=> \E i \in 1 .. Len(finished) : finished[i].request = r
  /\ \A i, j \in 1 .. Len(finished) : finished[i].request = finished[j].request => i = j

\* Every call ends.
RequestEnds == \A r \in Requests : <>(pc[r] \in {"ok", "error"})
=============================================================================

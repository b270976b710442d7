--------------------------- MODULE EnrollmentProofs ---------------------------
(***************************************************************************)
(* What holds of Enrollment for any number of systems, users and attempts, *)
(* with tokens of other accounts pasted or not.                            *)
(***************************************************************************)
EXTENDS Enrollment, TLAPS

Places == {"form", "captcha", "verify", "login", "account", "device", "check"}
States ==
  {"absent", "setup", "starting", "loaded", "retry", "auth_failed", "unloading", "failed_unload"}
FlowType ==
  [kind : {"closed", "token", "credentials", "reauth"}, at : Places,
   attempt : 0 .. Attempts, token : Tokens \cup {None}, error : Errors]
EntryType ==
  [state : States,
   token : Tokens \cup {None}, polling : BOOLEAN, next : {"none", "reload", "remove"}]
Whats == {"lost", "refused", "denied", "rejected"}

-----------------------------------------------------------------------------
(* Types.                                                                  *)

\* Credentials denied in a status cost an attempt, as a puzzle not solved does.
LEMMA DeniedIsAnAttempt == \A f : Failed(f, "denied") <=> Again(f)
BY DEF Failed

LEMMA ClosedTyped ==
  /\ Closed \in FlowType /\ Absent \in EntryType
  /\ \A kind \in {"token", "credentials", "reauth"} : [Closed EXCEPT !.kind = kind] \in FlowType
BY EnrollmentAssumption DEF Closed, Absent, FlowType, EntryType, Errors, Places, States

\* A flow or an entry some parts of which are replaced.
LEMMA FlowParts ==
  ASSUME NEW x \in FlowType, NEW at \in Places, NEW attempt \in 0 .. Attempts,
         NEW token \in Tokens \cup {None}, NEW error \in Errors
  PROVE  /\ [x EXCEPT !.at = at] \in FlowType
         /\ [x EXCEPT !.at = at, !.token = token] \in FlowType
         /\ [x EXCEPT !.at = at, !.attempt = attempt] \in FlowType
         /\ [x EXCEPT !.at = at, !.error = error, !.token = token, !.attempt = attempt] \in FlowType
         /\ [x EXCEPT !.at = at, !.token = token, !.error = error, !.attempt = attempt] \in FlowType
<1>1. \A y \in FlowType :
        /\ [y EXCEPT !.at = at] \in FlowType /\ [y EXCEPT !.token = token] \in FlowType
        /\ [y EXCEPT !.error = error] \in FlowType /\ [y EXCEPT !.attempt = attempt] \in FlowType
  BY DEF FlowType
<1>2. [[[[x EXCEPT !.at = at] EXCEPT !.error = error] EXCEPT !.token = token]
         EXCEPT !.attempt = attempt] \in FlowType
  BY <1>1
<1>3. [[[[x EXCEPT !.at = at] EXCEPT !.token = token] EXCEPT !.error = error]
         EXCEPT !.attempt = attempt] \in FlowType
  BY <1>1
<1>4. /\ [x EXCEPT !.at = at, !.error = error, !.token = token, !.attempt = attempt] \in FlowType
      /\ [x EXCEPT !.at = at, !.token = token, !.error = error, !.attempt = attempt] \in FlowType
  BY <1>2, <1>3
<1>5. /\ [x EXCEPT !.at = at] \in FlowType
      /\ [x EXCEPT !.at = at, !.token = token] \in FlowType
      /\ [x EXCEPT !.at = at, !.attempt = attempt] \in FlowType
  BY DEF FlowType
<1>. QED
  BY <1>4, <1>5

LEMMA EntryParts ==
  ASSUME NEW x \in EntryType, NEW state \in States, NEW token \in Tokens \cup {None},
         NEW polling \in BOOLEAN, NEW next \in {"none", "reload", "remove"}
  PROVE  /\ [x EXCEPT !.state = state] \in EntryType
         /\ [x EXCEPT !.state = state, !.polling = polling] \in EntryType
         /\ [x EXCEPT !.state = state, !.next = next] \in EntryType
         /\ [x EXCEPT !.state = state, !.next = next, !.polling = polling] \in EntryType
         /\ [x EXCEPT !.token = token, !.next = next] \in EntryType
<1>1. \A y \in EntryType :
        /\ [y EXCEPT !.state = state] \in EntryType /\ [y EXCEPT !.token = token] \in EntryType
        /\ [y EXCEPT !.polling = polling] \in EntryType /\ [y EXCEPT !.next = next] \in EntryType
  BY DEF EntryType
<1>2. [[[x EXCEPT !.state = state] EXCEPT !.next = next] EXCEPT !.polling = polling] \in EntryType
  BY <1>1
<1>3. [x EXCEPT !.state = state, !.next = next, !.polling = polling] \in EntryType
  BY <1>2
<1>4. /\ [x EXCEPT !.state = state] \in EntryType
      /\ [x EXCEPT !.state = state, !.polling = polling] \in EntryType
      /\ [x EXCEPT !.state = state, !.next = next] \in EntryType
      /\ [x EXCEPT !.token = token, !.next = next] \in EntryType
  BY DEF EntryType
<1>. QED
  BY <1>3, <1>4

\* A failed attempt leads to the next, or to the form; so does any failed request.
LEMMA FlowKept ==
  ASSUME flow \in [Flows -> FlowType], NEW f \in Flows
  PROVE  /\ \A error \in Errors : Show(f, error) => flow' \in [Flows -> FlowType]
         /\ Again(f) => flow' \in [Flows -> FlowType]
         /\ SignInFails(f) => flow' \in [Flows -> FlowType]
         /\ TokenFails(f) => flow' \in [Flows -> FlowType]
<1>1. ASSUME NEW error \in Errors, Show(f, error) PROVE flow' \in [Flows -> FlowType]
  <2> DEFINE r == [flow[f] EXCEPT !.at = "form", !.error = error, !.token = None, !.attempt = 0]
  <2>1. "form" \in Places /\ 0 \in 0 .. Attempts /\ None \in Tokens \cup {None}
    BY EnrollmentAssumption DEF Places
  <2>2. r \in FlowType
    BY <2>1, FlowParts
  <2>3. flow' = [flow EXCEPT ![f] = r]
    BY <1>1 DEF Show
  <2> HIDE DEF r
  <2>. QED
    BY <2>2, <2>3
<1>2. ASSUME Again(f) PROVE flow' \in [Flows -> FlowType]
  <2>1. CASE flow[f].attempt < Attempts
    <3> DEFINE r == [flow[f] EXCEPT !.at = "captcha", !.attempt = @ + 1]
    <3>1. flow[f].attempt + 1 \in 0 .. Attempts /\ "captcha" \in Places
      BY <2>1, EnrollmentAssumption DEF FlowType, Places
    <3>2. r \in FlowType
      BY <3>1 DEF FlowType
    <3>3. flow' = [flow EXCEPT ![f] = r]
      BY <1>2, <2>1 DEF Again
    <3> HIDE DEF r
    <3>. QED
      BY <3>2, <3>3
  <2>2. CASE ~ (flow[f].attempt < Attempts)
    BY <1>1, <1>2, <2>2 DEF Again, Errors
  <2>. QED
    BY <2>1, <2>2
<1>3. ASSUME SignInFails(f) PROVE flow' \in [Flows -> FlowType]
  BY <1>1, <1>2, <1>3 DEF SignInFails, Failed, Errors
<1>4. ASSUME TokenFails(f) PROVE flow' \in [Flows -> FlowType]
  BY <1>1, <1>4 DEF TokenFails, Errors
<1>. QED
  BY <1>1, <1>2, <1>3, <1>4

LEMMA MetKept ==
  ASSUME met \in [Flows -> SUBSET Whats], NEW f \in Flows
  PROVE  /\ \A what \in Whats : Meet(f, what) => met' \in [Flows -> SUBSET Whats]
         /\ SignInFails(f) => met' \in [Flows -> SUBSET Whats]
         /\ TokenFails(f) => met' \in [Flows -> SUBSET Whats]
BY DEF SignInFails, TokenFails, Meet, Whats

LEMMA InitTyped == Init => TypeOK
<1> SUFFICES ASSUME Init PROVE TypeOK
  OBVIOUS
<1>1. flow \in [Flows -> FlowType] /\ entry \in [Systems -> EntryType]
  BY ClosedTyped DEF Init
<1>. QED
  BY <1>1 DEF Init, TypeOK, FlowType, EntryType, Places, States

LEMMA NextTyped ==
  ASSUME TypeOK, [Next]_vars
  PROVE  TypeOK'
<1> DEFINE Typed == /\ flow \in [Flows -> FlowType] /\ entry \in [Systems -> EntryType]
                    /\ services \in BOOLEAN /\ submits \in Nat /\ events \in Nat
                    /\ met \in [Flows -> SUBSET Whats]
<1>0. Typed
  BY DEF TypeOK, FlowType, EntryType, Whats, Places, States
<1> SUFFICES Typed'
  BY DEF TypeOK, FlowType, EntryType, Whats, Places, States
<1>a. Users \subseteq Flows /\ Systems \subseteq Flows
  BY DEF Flows
<1>b. ASSUME NEW f \in Flows, NEW at \in {"captcha", "account", "check"},
             NEW token \in Tokens \cup {None}, Send(f, at, token)
      PROVE  flow' \in [Flows -> FlowType] /\ met' \in [Flows -> SUBSET Whats]
  <2> DEFINE first == IF at = "captcha" THEN 1 ELSE 0
             r == [flow[f] EXCEPT !.at = at, !.token = token, !.error = "none", !.attempt = first]
  <2>1. first \in 0 .. Attempts /\ "none" \in Errors /\ at \in Places
    BY EnrollmentAssumption DEF Errors, Places
  <2>2. r \in FlowType
    <3> HIDE DEF first
    <3>. QED
      BY <1>0, <2>1, FlowParts
  <2>3. flow' = [flow EXCEPT ![f] = r]
    BY <1>b DEF Send
  <2>4. met' = [met EXCEPT ![f] = {}]
    BY <1>b DEF Send
  <2> HIDE DEF r
  <2>. QED
    BY <1>0, <2>2, <2>3, <2>4
<1>1. ASSUME NEW u \in Users, Open(u) \/ Leave(u) PROVE Typed'
  BY <1>0, <1>1, <1>a, ClosedTyped DEF Open, Leave
<1>2. ASSUME NEW u \in Users, Submit(u) PROVE Typed'
  <2>1. flow' \in [Flows -> FlowType] /\ met' \in [Flows -> SUBSET Whats]
    <3>1. CASE Send(u, "captcha", None)
      BY <1>a, <1>b, <3>1
    <3>2. CASE \E token \in Tokens : Send(u, "account", token)
      BY <1>a, <1>b, <3>2
    <3>. QED
      BY <1>2, <3>1, <3>2 DEF Submit
  <2>2. submits' \in Nat
    BY <1>0, <1>2 DEF Submit
  <2>3. UNCHANGED <<entry, services, events>>
    BY <1>2 DEF Submit, Send
  <2>. QED
    BY <1>0, <2>1, <2>2, <2>3
<1>3. ASSUME NEW f \in Users, Captcha(f) \/ Verify(f) \/ Login(f) PROVE Typed'
  <2>1. f \in Flows
    BY <1>a
  <2>2. flow' \in [Flows -> FlowType]
    <3>1. CASE \E at \in {"verify", "login"} : flow' = [flow EXCEPT ![f].at = at]
      BY <1>0, <2>1, <3>1 DEF FlowType, Places
    <3>2. CASE \E s \in Systems :
                 flow' = [flow EXCEPT ![f].at = "account", ![f].token = [owner |-> s, fresh |-> TRUE]]
      <4>1. PICK s \in Systems :
              flow' = [flow EXCEPT ![f].at = "account", ![f].token = [owner |-> s, fresh |-> TRUE]]
        BY <3>2
      <4> DEFINE r == [flow[f] EXCEPT !.at = "account", !.token = [owner |-> s, fresh |-> TRUE]]
      <4>2. r \in FlowType
        BY <1>0, <2>1 DEF FlowType, Tokens, Places
      <4>3. flow' = [flow EXCEPT ![f] = r]
        BY <4>1
      <4> HIDE DEF r
      <4>. QED
        BY <1>0, <4>2, <4>3
    <3>3. CASE Show(f, "invalid_auth") \/ Again(f) \/ SignInFails(f)
      BY <1>0, <2>1, <3>3, FlowKept DEF Errors
    <3>. QED
      BY <1>3, <3>1, <3>2, <3>3, DeniedIsAnAttempt DEF Captcha, Verify, Login
  <2>3. met' \in [Flows -> SUBSET Whats]
    BY <1>0, <1>3, <2>1, MetKept DEF Captcha, Verify, Login, Whats
  <2>. QED
    BY <1>0, <1>3, <2>2, <2>3 DEF Captcha, Verify, Login
<1>4. ASSUME NEW f \in Users, Account(f) PROVE Typed'
  <2>1. f \in Flows
    BY <1>a
  <2>2. flow' \in [Flows -> FlowType]
    <3>1. CASE flow' = [flow EXCEPT ![f].at = "device"]
      BY <1>0, <2>1, <3>1 DEF FlowType, Places
    <3>2. CASE Show(f, "no_device") \/ TokenFails(f)
      BY <1>0, <2>1, <3>2, FlowKept DEF Errors
    <3>. QED
      BY <1>4, <3>1, <3>2 DEF Account
  <2>. QED
    BY <1>0, <1>4, <2>1, <2>2, MetKept DEF Account
<1>5. ASSUME NEW f \in Users, Device(f) PROVE Typed'
  <2>1. f \in Flows
    BY <1>a
  <2>2. CASE TokenFails(f) /\ UNCHANGED entry
    BY <1>0, <1>5, <2>1, <2>2, FlowKept, MetKept DEF Device
  <2>3. CASE flow' = [flow EXCEPT ![f] = Closed] /\ UNCHANGED met
    <3>1. [Absent EXCEPT !.state = "setup", !.token = flow[f].token] \in EntryType
      BY <1>0, <2>1 DEF Absent, EntryType, FlowType, States
    <3>2. entry' \in [Systems -> EntryType]
      BY <1>0, <1>5, <3>1 DEF Device
    <3>. QED
      BY <1>0, <1>5, <2>3, <3>2, ClosedTyped DEF Device
  <2>. QED
    BY <1>5, <2>2, <2>3 DEF Device
<1>6. ASSUME NEW s \in Systems, \E token \in Tokens : Paste(s, token) PROVE Typed'
  BY <1>0, <1>6, <1>a, <1>b DEF Paste, Send
<1>7. ASSUME NEW s \in Systems, Check(s) PROVE Typed'
  <2>1. s \in Flows
    BY <1>a
  <2>2. CASE TokenFails(s) /\ UNCHANGED entry
    BY <1>0, <1>7, <2>1, <2>2, FlowKept, MetKept DEF Check
  <2>3. CASE flow' = [flow EXCEPT ![s] = Closed] /\ entry' = Renewed(s, flow[s].token) /\ UNCHANGED met
    <3>1. flow[s].token \in Tokens \cup {None}
      BY <1>0, <2>1 DEF FlowType
    <3>2. entry' \in [Systems -> EntryType]
      <4> DEFINE next == IF State(s) = "failed_unload" \/ entry[s].next = "remove"
                         THEN entry[s].next ELSE "reload"
                 r == [entry[s] EXCEPT !.token = flow[s].token, !.next = next]
      <4>1. next \in {"none", "reload", "remove"}
        BY <1>0 DEF EntryType
      <4>2. r \in EntryType
        <5> HIDE DEF next
        <5>. QED
          BY <1>0, <3>1, <4>1 DEF EntryType
      <4>3. entry' = [entry EXCEPT ![s] = r]
        BY <2>3 DEF Renewed
      <4> HIDE DEF r
      <4>. QED
        BY <1>0, <4>2, <4>3
    <3>. QED
      BY <1>0, <1>7, <2>3, <3>2, ClosedTyped DEF Check
  <2>. QED
    BY <1>7, <2>2, <2>3 DEF Check
<1>8. ASSUME NEW s \in Systems, FirstRefresh(s) \/ PollRefused(s) PROVE Typed'
  <2>1. Prompted(s) \in [Flows -> FlowType]
    BY <1>0, ClosedTyped DEF Prompted
  <2>2. entry' \in [Systems -> EntryType]
    <3>1. CASE \E state \in {"starting", "retry", "auth_failed"} : entry' = [entry EXCEPT ![s].state = state]
      BY <1>0, <3>1 DEF EntryType, States
    <3>2. CASE entry' = [entry EXCEPT ![s].polling = FALSE]
      BY <1>0, <3>2 DEF EntryType
    <3>. QED
      BY <1>8, <3>1, <3>2 DEF FirstRefresh, PollRefused
  <2>. QED
    BY <1>0, <1>8, <2>1, <2>2 DEF FirstRefresh, PollRefused
<1>9. ASSUME NEW s \in Systems, Start(s) \/ Retry(s) PROVE Typed'
  <2>1. CASE \E state \in {"setup", "retry"} : entry' = [entry EXCEPT ![s].state = state]
    <3>1. entry' \in [Systems -> EntryType]
      BY <1>0, <2>1 DEF EntryType, States
    <3>. QED
      BY <1>0, <1>9, <3>1 DEF Start, Retry
  <2>2. CASE entry' = [entry EXCEPT ![s].state = "loaded", ![s].polling = TRUE]
    <3>1. entry' \in [Systems -> EntryType]
      <4> DEFINE r == [entry[s] EXCEPT !.state = "loaded", !.polling = TRUE]
      <4>1. r \in EntryType
        BY <1>0 DEF EntryType, States
      <4>2. entry' = [entry EXCEPT ![s] = r]
        BY <2>2
      <4> HIDE DEF r
      <4>. QED
        BY <1>0, <4>1, <4>2
    <3>. QED
      BY <1>0, <1>9, <3>1 DEF Start, Retry
  <2>. QED
    BY <1>9, <2>1, <2>2 DEF Start, Retry
<1>10. ASSUME NEW s \in Systems, Expire(s) PROVE Typed'
  <2>1. \A u \in Systems : entry[u].token # None => [entry[u] EXCEPT !.token.fresh = FALSE] \in EntryType
    BY <1>0 DEF EntryType, Tokens
  <2>2. \A f \in Flows : flow[f].token # None => [flow[f] EXCEPT !.token.fresh = FALSE] \in FlowType
    BY <1>0 DEF FlowType, Tokens
  <2>. QED
    BY <1>0, <1>10, <2>1, <2>2 DEF Expire
<1>11. ASSUME NEW s \in Systems, NEW next \in {"reload", "remove"}, Order(s, next) PROVE Typed'
  BY <1>0, <1>11 DEF Order, EntryType
<1>12. ASSUME NEW s \in Systems, Proceeds(s)
       PROVE  flow' \in [Flows -> FlowType] /\ entry' \in [Systems -> EntryType]
  <2>1. CASE entry[s].next = "reload"
    <3>1. entry' \in [Systems -> EntryType]
      <4> DEFINE r == [entry[s] EXCEPT !.state = "setup", !.next = "none", !.polling = FALSE]
      <4>1. r \in EntryType
        <5>1. "setup" \in States
          BY DEF States
        <5>. QED
          BY <1>0, <5>1, EntryParts
      <4>2. entry' = [entry EXCEPT ![s] = r]
        BY <1>12, <2>1 DEF Proceeds
      <4> HIDE DEF r
      <4>. QED
        BY <1>0, <4>1, <4>2
    <3>. QED
      BY <1>0, <1>12, <2>1, <3>1 DEF Proceeds
  <2>2. CASE entry[s].next # "reload"
    BY <1>0, <1>12, <2>2, ClosedTyped DEF Proceeds
  <2>. QED
    BY <2>1, <2>2
<1>13. ASSUME NEW s \in Systems, Proceed(s) PROVE Typed'
  <2>1. CASE entry' = [entry EXCEPT ![s].state = "unloading", ![s].polling = FALSE] /\ UNCHANGED flow
    <3>1. entry' \in [Systems -> EntryType]
      <4> DEFINE r == [entry[s] EXCEPT !.state = "unloading", !.polling = FALSE]
      <4>1. r \in EntryType
        BY <1>0 DEF EntryType, States
      <4>2. entry' = [entry EXCEPT ![s] = r]
        BY <2>1
      <4> HIDE DEF r
      <4>. QED
        BY <1>0, <4>1, <4>2
    <3>. QED
      BY <1>0, <1>13, <2>1, <3>1 DEF Proceed
  <2>2. CASE Proceeds(s)
    BY <1>0, <1>12, <1>13, <2>2 DEF Proceed
  <2>. QED
    BY <1>13, <2>1, <2>2 DEF Proceed
<1>14. ASSUME NEW s \in Systems, Unload(s) PROVE Typed'
  <2>1. CASE /\ entry' = [entry EXCEPT ![s].state = "failed_unload", ![s].next = "none"]
             /\ UNCHANGED <<flow, services>>
    <3>1. entry' \in [Systems -> EntryType]
      <4> DEFINE r == [entry[s] EXCEPT !.state = "failed_unload", !.next = "none"]
      <4>1. r \in EntryType
        BY <1>0 DEF EntryType, States
      <4>2. entry' = [entry EXCEPT ![s] = r]
        BY <2>1
      <4> HIDE DEF r
      <4>. QED
        BY <1>0, <4>1, <4>2
    <3>. QED
      BY <1>0, <1>14, <2>1, <3>1 DEF Unload
  <2>2. CASE Proceeds(s) /\ services' = Kept(s)
    <3>1. services' \in BOOLEAN
      BY <2>2 DEF Kept
    <3>. QED
      BY <1>0, <1>12, <1>14, <2>2, <3>1 DEF Unload
  <2>. QED
    BY <1>14, <2>1, <2>2 DEF Unload
<1>15. CASE UNCHANGED vars
  BY <1>0, <1>15 DEF vars
<1>. QED
  BY <1>1, <1>2, <1>3, <1>4, <1>5, <1>6, <1>7, <1>8, <1>9, <1>10, <1>11, <1>13, <1>14, <1>15
  DEF Next, SignIn

\* Types; no sign-in takes more attempts than it may.
THEOREM TypeCorrect == Spec => []TypeOK
BY InitTyped, NextTyped, PTL DEF Spec

-----------------------------------------------------------------------------
(* Services.                                                               *)

LEMMA ServicesInit == Init => ServicesFollowEntries
BY DEF Init, ServicesFollowEntries, State, Absent

LEMMA ServicesNext ==
  ASSUME TypeOK, ServicesFollowEntries, [Next]_vars
  PROVE  ServicesFollowEntries'
<1>1. entry \in [Systems -> EntryType]
  BY DEF TypeOK, EntryType, States
<1> DEFINE Serving == {"loaded", "unloading", "failed_unload"}
\* Most steps neither load an entry nor end one that is loaded.
<1>2. ASSUME services' = services,
             \A s \in Systems :
               /\ entry'[s].state = "loaded" => entry[s].state = "loaded"
               /\ entry[s].state \in Serving => entry'[s].state \in Serving
      PROVE  ServicesFollowEntries'
  <2>1. (\E s \in Systems : entry'[s].state = "loaded") => services'
    <3> SUFFICES ASSUME NEW s \in Systems, entry'[s].state = "loaded" PROVE services'
      OBVIOUS
    <3>1. entry[s].state = "loaded"
      BY <1>2
    <3>2. services /\ services' = services
      BY <1>2, <3>1 DEF ServicesFollowEntries, State
    <3>. QED
      BY <3>2
  <2>2. services' => \E s \in Systems : entry'[s].state \in Serving
    <3>1. services => \E s \in Systems : entry[s].state \in Serving
      BY DEF ServicesFollowEntries, State
    <3>. QED
      BY <1>2, <3>1
  <2>. QED
    BY <2>1, <2>2 DEF ServicesFollowEntries, State
<1>3. ASSUME UNCHANGED <<entry, services>> PROVE ServicesFollowEntries'
  BY <1>3 DEF ServicesFollowEntries, State
<1>4. ASSUME NEW u \in Users, Open(u) \/ Leave(u) \/ Submit(u) \/ Captcha(u) \/ Verify(u) \/ Login(u) \/ Account(u)
      PROVE  ServicesFollowEntries'
  BY <1>3, <1>4 DEF Open, Leave, Submit, Send, Captcha, Verify, Login, Account
<1>5. ASSUME NEW u \in Users, Device(u) PROVE ServicesFollowEntries'
  <2>1. services' = services
    BY <1>5 DEF Device
  <2>2. CASE UNCHANGED entry
    BY <1>3, <2>1, <2>2
  <2>3. CASE entry' # entry
    <3>1. PICK s : /\ State(s) = "absent"
                   /\ entry' = [entry EXCEPT ![s] = [Absent EXCEPT !.state = "setup",
                                                                  !.token = flow[u].token]]
      BY <1>5, <2>3 DEF Device
    <3>2. [Absent EXCEPT !.state = "setup", !.token = flow[u].token].state = "setup"
      BY DEF Absent
    <3>3. \A v \in Systems : entry'[v] = entry[v] \/ (entry[v].state = "absent" /\ entry'[v].state = "setup")
      BY <1>1, <3>1, <3>2 DEF State
    <3>. QED
      BY <1>2, <2>1, <3>3
  <2>. QED
    BY <2>2, <2>3
<1>6. ASSUME NEW s \in Systems, \E token \in Tokens : Paste(s, token) PROVE ServicesFollowEntries'
  BY <1>3, <1>6 DEF Paste, Send
<1>7. ASSUME NEW s \in Systems, Check(s) PROVE ServicesFollowEntries'
  <2>1. \A v \in Systems : Renewed(s, flow[s].token)[v].state = entry[v].state
    BY <1>1 DEF Renewed, EntryType
  <2>. QED
    BY <1>2, <1>3, <1>7, <2>1 DEF Check
<1>8. ASSUME NEW s \in Systems, FirstRefresh(s) \/ PollRefused(s) \/ Retry(s) PROVE ServicesFollowEntries'
  <2>1. \A v \in Systems :
          \/ entry'[v].state = entry[v].state
          \/ entry[v].state \in {"setup", "retry"} /\ entry'[v].state \notin Serving
    BY <1>1, <1>8 DEF FirstRefresh, PollRefused, Retry, State, EntryType
  <2>2. services' = services
    BY <1>8 DEF FirstRefresh, PollRefused, Retry
  <2>. QED
    BY <1>2, <2>1, <2>2
<1>9. ASSUME NEW s \in Systems, Start(s) PROVE ServicesFollowEntries'
  <2>1. CASE entry' = [entry EXCEPT ![s].state = "retry"] /\ UNCHANGED services
    BY <1>1, <1>2, <1>9, <2>1 DEF Start, State, EntryType
  <2>2. CASE entry' = [entry EXCEPT ![s].state = "loaded", ![s].polling = TRUE] /\ services' = TRUE
    <3>1. entry'[s].state = "loaded"
      BY <1>1, <2>2 DEF EntryType
    <3>. QED
      BY <2>2, <3>1 DEF ServicesFollowEntries, State
  <2>. QED
    BY <1>9, <2>1, <2>2 DEF Start
<1>10. ASSUME NEW s \in Systems, Expire(s) \/ \E next \in {"reload", "remove"} : Order(s, next)
       PROVE  ServicesFollowEntries'
  <2>1. \A v \in Systems : entry'[v].state = entry[v].state
    BY <1>1, <1>10 DEF Expire, Order, EntryType
  <2>. QED
    BY <1>2, <1>10, <2>1 DEF Expire, Order
\* Of an entry that is unloaded, whatever comes after.
<1>11. ASSUME NEW s \in Systems, Proceeds(s)
       PROVE  entry'[s].state \in {"setup", "absent"} /\ \A v \in Systems \ {s} : entry'[v] = entry[v]
  <2>1. CASE entry' = [entry EXCEPT ![s].state = "setup", ![s].next = "none", ![s].polling = FALSE]
    BY <1>1, <2>1 DEF EntryType
  <2>2. CASE entry' = [entry EXCEPT ![s] = Absent]
    BY <1>1, <2>2 DEF Absent
  <2>. QED
    BY <1>11, <2>1, <2>2 DEF Proceeds
<1>12. ASSUME NEW s \in Systems, Proceed(s) PROVE ServicesFollowEntries'
  <2>1. CASE State(s) = "loaded" /\ entry' = [entry EXCEPT ![s].state = "unloading", ![s].polling = FALSE]
    <3>1. entry'[s].state = "unloading" /\ \A v \in Systems \ {s} : entry'[v] = entry[v]
      BY <1>1, <2>1 DEF EntryType
    <3>. QED
      BY <1>2, <1>12, <3>1 DEF Proceed
  <2>2. CASE State(s) \in {"retry", "auth_failed"} /\ Proceeds(s)
    BY <1>2, <1>11, <1>12, <2>2 DEF Proceed, State
  <2>. QED
    BY <1>12, <2>1, <2>2 DEF Proceed
<1>13. ASSUME NEW s \in Systems, Unload(s) PROVE ServicesFollowEntries'
  <2>1. CASE Proceeds(s) /\ services' = Kept(s)
    BY <1>11, <2>1 DEF Kept, ServicesFollowEntries, State
  <2>2. CASE /\ entry' = [entry EXCEPT ![s].state = "failed_unload", ![s].next = "none"]
             /\ UNCHANGED services
    <3>1. entry'[s].state = "failed_unload" /\ \A v \in Systems \ {s} : entry'[v] = entry[v]
      BY <1>1, <2>2 DEF EntryType
    <3>. QED
      BY <1>2, <2>2, <3>1
  <2>. QED
    BY <1>13, <2>1, <2>2 DEF Unload
<1>14. CASE UNCHANGED vars
  BY <1>3, <1>14 DEF vars
<1>. QED
  BY <1>4, <1>5, <1>6, <1>7, <1>8, <1>9, <1>10, <1>12, <1>13, <1>14 DEF Next, SignIn

\* Services are there as long as an entry is loaded, and gone with the last one.
THEOREM ServicesThere == Spec => []ServicesFollowEntries
BY InitTyped, NextTyped, ServicesInit, ServicesNext, PTL DEF Spec

-----------------------------------------------------------------------------
(* Whose flow a step moves.                                                *)

Elsewhere(f) == \A g \in Flows \ {f} : flow'[g] = flow[g] /\ met'[g] = met[g]

LEMMA Moves ==
  ASSUME TypeOK, NEW f \in Flows
  PROVE  /\ \A error : Show(f, error) => \A g \in Flows \ {f} : flow'[g] = flow[g]
         /\ Again(f) => \A g \in Flows \ {f} : flow'[g] = flow[g]
         /\ \A what : Meet(f, what) => \A g \in Flows \ {f} : met'[g] = met[g]
         /\ SignInFails(f) => Elsewhere(f)
         /\ TokenFails(f) => Elsewhere(f)
         /\ \A at, token : Send(f, at, token) => Elsewhere(f)
<1>1. \A error : Show(f, error) => \A g \in Flows \ {f} : flow'[g] = flow[g]
  BY DEF TypeOK, Show
<1>2. Again(f) => \A g \in Flows \ {f} : flow'[g] = flow[g]
  BY <1>1 DEF TypeOK, Again
<1>3. \A what : Meet(f, what) => \A g \in Flows \ {f} : met'[g] = met[g]
  BY DEF TypeOK, Meet
<1>4. SignInFails(f) => Elsewhere(f)
  BY <1>1, <1>2, <1>3 DEF SignInFails, Failed, Elsewhere
<1>5. TokenFails(f) => Elsewhere(f)
  BY <1>1, <1>3 DEF TokenFails, Elsewhere
<1>6. \A at, token : Send(f, at, token) => Elsewhere(f)
  BY DEF TypeOK, Send, Elsewhere
<1>. QED
  BY <1>1, <1>2, <1>3, <1>4, <1>5, <1>6

LEMMA UserMoves ==
  ASSUME TypeOK, NEW u \in Users, Open(u) \/ Leave(u) \/ Submit(u) \/ SignIn(u)
  PROVE  Elsewhere(u)
<1>1. u \in Flows
  BY DEF Flows
<1>2. CASE Open(u) \/ Leave(u)
  BY <1>1, <1>2 DEF TypeOK, Open, Leave, Elsewhere
<1>3. CASE Submit(u)
  BY <1>1, <1>3, Moves DEF Submit
<1>4. CASE Captcha(u)
  BY <1>1, <1>4, Moves DEF TypeOK, Captcha, Elsewhere
<1>5. CASE Verify(u)
  BY <1>1, <1>5, Moves DEF TypeOK, Verify, Elsewhere
<1>6. CASE Login(u)
  BY <1>1, <1>6, Moves, DeniedIsAnAttempt DEF TypeOK, Login, Elsewhere
<1>7. CASE Account(u)
  BY <1>1, <1>7, Moves DEF TypeOK, Account, Elsewhere
<1>8. CASE Device(u)
  BY <1>1, <1>8, Moves DEF TypeOK, Device, Elsewhere
<1>. QED
  BY <1>2, <1>3, <1>4, <1>5, <1>6, <1>7, <1>8 DEF SignIn

LEMMA SystemMoves ==
  ASSUME TypeOK, NEW s \in Systems,
         \/ \E token \in Tokens : Paste(s, token)
         \/ Check(s) \/ FirstRefresh(s) \/ Start(s) \/ Retry(s) \/ PollRefused(s)
         \/ Proceed(s) \/ Unload(s) \/ \E next \in {"reload", "remove"} : Order(s, next)
  PROVE  Elsewhere(s)
<1>1. s \in Flows
  BY DEF Flows
<1>2. CASE \E token \in Tokens : Paste(s, token)
  BY <1>1, <1>2, Moves DEF Paste
<1>3. CASE Check(s)
  BY <1>1, <1>3, Moves DEF TypeOK, Check, Elsewhere
<1>4. CASE FirstRefresh(s) \/ PollRefused(s)
  BY <1>1, <1>4 DEF TypeOK, FirstRefresh, PollRefused, Prompted, Elsewhere
<1>5. CASE Start(s) \/ Retry(s) \/ \E next \in {"reload", "remove"} : Order(s, next)
  BY <1>5 DEF Start, Retry, Order, Elsewhere
<1>6. CASE Proceed(s) \/ Unload(s)
  <2>1. UNCHANGED met
    BY <1>6 DEF Proceed, Unload
  <2>2. UNCHANGED flow \/ flow' = [flow EXCEPT ![s] = Closed]
    BY <1>6 DEF Proceed, Unload, Proceeds
  <2>. QED
    BY <2>1, <2>2 DEF TypeOK, Elsewhere
<1>. QED
  BY <1>2, <1>3, <1>4, <1>5, <1>6

-----------------------------------------------------------------------------
(* Re-authentication.                                                      *)

\* The flow of a system is its reauth form.
KindsOK == \A s \in Systems : flow[s].kind \in {"closed", "reauth"}

\* An entry that is to be asked for.
Dead(s) == State(s) = "auth_failed" \/ (State(s) = "loaded" /\ ~ entry[s].polling)

ReauthInv == KindsOK /\ ReauthPending

LEMMA ReauthNext ==
  ASSUME TypeOK, ReauthInv, [Next]_vars
  PROVE  ReauthInv'
<1>1. entry \in [Systems -> EntryType] /\ flow \in [Flows -> FlowType] /\ Systems \subseteq Flows
  BY DEF TypeOK, EntryType, FlowType, States, Places, Flows
<1> DEFINE Asked(s) == flow[s].kind \in {"closed", "reauth"}
                         /\ (Dead(s) => flow[s].kind = "reauth" \/ entry[s].next # "none")
<1>2. \A s \in Systems : Asked(s)
  BY DEF ReauthInv, KindsOK, ReauthPending, Dead
<1> SUFFICES ASSUME NEW s \in Systems PROVE Asked(s)'
  BY DEF ReauthInv, KindsOK, ReauthPending, Dead
<1>3. ASSUME flow'[s] = flow[s], entry'[s] = entry[s] PROVE Asked(s)'
  BY <1>2, <1>3 DEF Dead, State
<1>4. ASSUME NEW u \in Users, Open(u) \/ Leave(u) \/ Submit(u) \/ SignIn(u) PROVE Asked(s)'
  <2>1. flow'[s] = flow[s]
    BY <1>1, <1>4, UserMoves, EnrollmentAssumption DEF Elsewhere
  <2>2. CASE UNCHANGED entry
    BY <1>3, <2>1, <2>2
  <2>3. CASE entry' # entry
    <3>1. Device(u)
      BY <1>4, <2>3 DEF Open, Leave, Submit, Send, SignIn, Captcha, Verify, Login, Account
    <3>2. PICK v : /\ State(v) = "absent"
                   /\ entry' = [entry EXCEPT ![v] = [Absent EXCEPT !.state = "setup",
                                                                  !.token = flow[u].token]]
      BY <2>3, <3>1 DEF Device
    <3>3. [Absent EXCEPT !.state = "setup", !.token = flow[u].token].state = "setup"
      BY DEF Absent
    <3>4. entry'[s] = entry[s] \/ entry'[s].state = "setup"
      BY <1>1, <3>2, <3>3
    <3>. QED
      BY <1>2, <1>3, <2>1, <3>4 DEF Dead, State
  <2>. QED
    BY <2>2, <2>3
<1>5. ASSUME NEW v \in Systems, v # s,
             \/ \E token \in Tokens : Paste(v, token)
             \/ Check(v) \/ FirstRefresh(v) \/ Start(v) \/ Retry(v) \/ PollRefused(v)
             \/ Proceed(v) \/ Unload(v) \/ \E next \in {"reload", "remove"} : Order(v, next)
      PROVE  Asked(s)'
  <2>1. flow'[s] = flow[s]
    BY <1>1, <1>5, SystemMoves DEF Elsewhere
  <2>2. entry'[s] = entry[s]
    BY <1>1, <1>5
    DEF Paste, Send, Check, Renewed, FirstRefresh, Start, Retry, PollRefused, Proceed, Unload, Proceeds, Order
  <2>. QED
    BY <1>3, <2>1, <2>2
<1>6. CASE \E token \in Tokens : Paste(s, token)
  <2>1. PICK token \in Tokens : flow[s].kind = "reauth" /\ Send(s, "check", token)
    BY <1>6 DEF Paste
  <2>2. flow'[s].kind = flow[s].kind /\ UNCHANGED entry
    BY <1>1, <2>1 DEF Send, FlowType
  <2>. QED
    BY <1>2, <2>1, <2>2 DEF Dead, State
<1>7. CASE Check(s)
  <2>1. CASE TokenFails(s) /\ UNCHANGED entry
    <3>1. flow'[s].kind = flow[s].kind
      BY <1>1, <2>1 DEF TokenFails, Show, FlowType
    <3>. QED
      BY <1>2, <2>1, <3>1 DEF Dead, State
  <2>2. CASE flow' = [flow EXCEPT ![s] = Closed] /\ entry' = Renewed(s, flow[s].token)
    <3>1. flow'[s].kind = "closed"
      BY <1>1, <2>2 DEF Closed
    <3>2. /\ entry'[s].state = entry[s].state
          /\ entry'[s].next = IF State(s) = "failed_unload" \/ entry[s].next = "remove"
                              THEN entry[s].next ELSE "reload"
      BY <1>1, <2>2 DEF Renewed, EntryType
    <3>. QED
      BY <3>1, <3>2 DEF Dead, State
  <2>. QED
    BY <1>7, <2>1, <2>2 DEF Check
\* Whoever is told that a token is refused asks for another.
<1>8. ASSUME flow' = Prompted(s) PROVE flow'[s].kind = "reauth"
  <2>1. CASE flow[s].kind = "closed"
    BY <1>1, <1>8, <2>1 DEF Prompted, Closed
  <2>2. CASE flow[s].kind # "closed"
    BY <1>2, <1>8, <2>2 DEF Prompted
  <2>. QED
    BY <2>1, <2>2
<1>9. CASE FirstRefresh(s)
  <2>1. CASE flow' = Prompted(s)
    BY <1>8, <2>1
  <2>2. CASE \E state \in {"starting", "retry"} : entry' = [entry EXCEPT ![s].state = state] /\ UNCHANGED flow
    <3>1. entry'[s].state \in {"starting", "retry"}
      BY <1>1, <2>2 DEF EntryType
    <3>. QED
      BY <1>2, <2>2, <3>1 DEF Dead, State
  <2>. QED
    BY <1>9, <2>1, <2>2 DEF FirstRefresh
<1>10. CASE PollRefused(s)
  BY <1>8, <1>10 DEF PollRefused
<1>11. CASE Start(s)
  <2>1. CASE entry' = [entry EXCEPT ![s].state = "loaded", ![s].polling = TRUE]
    <3>1. entry'[s].state = "loaded" /\ entry'[s].polling = TRUE
      BY <1>1, <2>1 DEF EntryType
    <3>. QED
      BY <1>2, <1>11, <3>1 DEF Start, Dead, State
  <2>2. CASE entry' = [entry EXCEPT ![s].state = "retry"]
    <3>1. entry'[s].state = "retry"
      BY <1>1, <2>2 DEF EntryType
    <3>. QED
      BY <1>2, <1>11, <3>1 DEF Start, Dead, State
  <2>. QED
    BY <1>11, <2>1, <2>2 DEF Start
<1>12. CASE Retry(s)
  <2>1. entry'[s].state = "setup"
    BY <1>1, <1>12 DEF Retry, EntryType
  <2>. QED
    BY <1>2, <1>12, <2>1 DEF Retry, Dead, State
<1>13. CASE \E next \in {"reload", "remove"} : Order(s, next)
  <2>1. entry'[s].next # "none"
    BY <1>1, <1>13 DEF Order, EntryType
  <2>. QED
    BY <1>2, <1>13, <2>1 DEF Order
<1>14. ASSUME Proceeds(s) PROVE Asked(s)'
  <2>1. entry'[s].state \in {"setup", "absent"}
    <3>1. CASE entry' = [entry EXCEPT ![s].state = "setup", ![s].next = "none", ![s].polling = FALSE]
      BY <1>1, <3>1 DEF EntryType
    <3>2. CASE entry' = [entry EXCEPT ![s] = Absent]
      BY <1>1, <3>2 DEF Absent
    <3>. QED
      BY <1>14, <3>1, <3>2 DEF Proceeds
  <2>2. flow'[s].kind \in {"closed", "reauth"}
    BY <1>1, <1>2, <1>14 DEF Proceeds, Closed
  <2>. QED
    BY <2>1, <2>2 DEF Dead, State
<1>15. CASE Proceed(s)
  <2>1. CASE entry' = [entry EXCEPT ![s].state = "unloading", ![s].polling = FALSE] /\ UNCHANGED flow
    <3>1. entry'[s].state = "unloading"
      BY <1>1, <2>1 DEF EntryType
    <3>. QED
      BY <1>2, <2>1, <3>1 DEF Dead, State
  <2>. QED
    BY <1>14, <1>15, <2>1 DEF Proceed
<1>16. CASE Unload(s)
  <2>1. CASE entry' = [entry EXCEPT ![s].state = "failed_unload", ![s].next = "none"] /\ UNCHANGED flow
    <3>1. entry'[s].state = "failed_unload"
      BY <1>1, <2>1 DEF EntryType
    <3>. QED
      BY <1>2, <2>1, <3>1 DEF Dead, State
  <2>. QED
    BY <1>14, <1>16, <2>1 DEF Unload
<1>17. CASE \E v \in Systems : Expire(v)
  <2>1. /\ flow'[s].kind = flow[s].kind /\ entry'[s].state = entry[s].state
        /\ entry'[s].polling = entry[s].polling /\ entry'[s].next = entry[s].next
    BY <1>1, <1>17 DEF Expire, FlowType, EntryType
  <2>. QED
    BY <1>2, <2>1 DEF Dead, State
<1>18. CASE UNCHANGED vars
  BY <1>3, <1>18 DEF vars
<1>. QED
  BY <1>4, <1>5, <1>6, <1>7, <1>9, <1>10, <1>11, <1>12, <1>13, <1>15, <1>16, <1>17, <1>18 DEF Next

\* An entry that gave up on its token has its user asked for another, or an order.
THEOREM ReauthAlwaysPending == Spec => []ReauthPending
<1>1. Init => ReauthInv
  BY DEF Init, ReauthInv, KindsOK, ReauthPending, State, Closed, Absent, Flows
<1>2. ReauthInv => ReauthPending
  BY DEF ReauthInv
<1>. QED
  BY <1>1, <1>2, InitTyped, NextTyped, ReauthNext, PTL DEF Spec

-----------------------------------------------------------------------------
(* What a form tells.                                                      *)

Why(f) ==
  /\ flow[f].error = "captcha_failed" => met[f] \cap {"lost", "rejected"} = {}
  /\ flow[f].error = "cannot_connect" =>
       met[f] \cap {"lost", "refused"} # {} /\ "rejected" \notin met[f]
  /\ flow[f].error = "invalid_auth" => "rejected" \in met[f]

\* As long as requests are made nothing worse than a refusal was met, of whatever kind.
Tells(f) == Why(f) /\ (flow[f].at # "form" => flow[f].error = "none" /\ met[f] \subseteq {"refused", "denied"})

LEMMA TellsKept ==
  ASSUME TypeOK, NEW f \in Flows, Tells(f)
  PROVE  /\ flow'[f].error = flow[f].error /\ met' = met /\ (flow[f].at = "form" => flow'[f].at = "form")
              => Tells(f)'
         /\ flow'[f].error = "none" /\ flow'[f].at = "form" => Tells(f)'
BY DEF Tells, Why

\* The end of an attempt, or of the sign-in.
LEMMA TellsSignIn ==
  ASSUME TypeOK, NEW f \in Flows, Tells(f), flow[f].at # "form",
         \/ Again(f) /\ UNCHANGED met
         \/ SignInFails(f)
         \/ TokenFails(f)
         \/ Show(f, "invalid_auth") /\ Meet(f, "rejected")
         \/ Again(f) /\ Meet(f, "denied")
         \/ Show(f, "no_device") /\ UNCHANGED met
  PROVE  Tells(f)'
<1>1. flow[f].error = "none" /\ met[f] \subseteq {"refused", "denied"}
  BY DEF Tells
<1>2. \A error : Show(f, error) => flow'[f].error = error /\ flow'[f].at = "form"
  BY DEF TypeOK, Show
<1>3. Again(f) => \/ flow'[f].error = "none" /\ flow'[f].at = "captcha"
                  \/ flow'[f].error = "captcha_failed" /\ flow'[f].at = "form"
  BY <1>1, <1>2 DEF TypeOK, Again
<1>4. \A what : Meet(f, what) => met'[f] = met[f] \cup {what}
  BY DEF TypeOK, Meet
<1>5. CASE Again(f) /\ UNCHANGED met
  BY <1>1, <1>3, <1>5 DEF Tells, Why
<1>6. CASE SignInFails(f)
  <2>1. CASE Failed(f, "lost") /\ Meet(f, "lost")
    BY <1>1, <1>2, <1>4, <2>1 DEF Failed, Tells, Why
  <2>2. CASE Failed(f, "refused") /\ Meet(f, "refused")
    BY <1>1, <1>3, <1>4, <2>2 DEF Failed, Tells, Why
  <2>. QED
    BY <1>6, <2>1, <2>2 DEF SignInFails
<1>7. CASE Show(f, "invalid_auth") /\ Meet(f, "rejected")
  BY <1>2, <1>4, <1>7 DEF Tells, Why
<1>8. CASE TokenFails(f)
  BY <1>1, <1>2, <1>4, <1>7, <1>8 DEF TokenFails, Tells, Why
<1>9. CASE Show(f, "no_device") /\ UNCHANGED met
  BY <1>2, <1>9 DEF Tells, Why
<1>10. CASE Again(f) /\ Meet(f, "denied")
  BY <1>1, <1>3, <1>4, <1>10 DEF Tells, Why
<1>. QED
  BY <1>5, <1>6, <1>7, <1>8, <1>9, <1>10

LEMMA TellsNext ==
  ASSUME TypeOK, NEW u \in Users, Tells(u), [Next]_vars
  PROVE  Tells(u)'
<1>1. u \in Flows /\ Users \subseteq Flows /\ Systems \subseteq Flows /\ u \notin Systems
  BY EnrollmentAssumption DEF Flows
<1>2. ASSUME flow'[u] = flow[u], met'[u] = met[u] PROVE Tells(u)'
  BY <1>2 DEF Tells, Why
<1>3. ASSUME NEW v \in Users, v # u, Open(v) \/ Leave(v) \/ Submit(v) \/ SignIn(v) PROVE Tells(u)'
  BY <1>1, <1>2, <1>3, UserMoves DEF Elsewhere
<1>4. ASSUME NEW s \in Systems,
             \/ \E token \in Tokens : Paste(s, token)
             \/ Check(s) \/ FirstRefresh(s) \/ Start(s) \/ Retry(s) \/ PollRefused(s)
             \/ Proceed(s) \/ Unload(s) \/ \E next \in {"reload", "remove"} : Order(s, next)
      PROVE  Tells(u)'
  BY <1>1, <1>2, <1>4, SystemMoves DEF Elsewhere
<1>5. CASE Open(u) \/ Leave(u)
  <2>1. flow'[u].error = "none" /\ flow'[u].at = "form"
    BY <1>1, <1>5 DEF TypeOK, Open, Leave, Closed
  <2>. QED
    BY <1>1, <2>1, TellsKept
<1>6. CASE Submit(u)
  <2>1. PICK at, token : Send(u, at, token)
    BY <1>6 DEF Submit
  <2>2. flow'[u].error = "none"
    <3> DEFINE r == [flow[u] EXCEPT !.at = at, !.token = token, !.error = "none",
                                    !.attempt = IF at = "captcha" THEN 1 ELSE 0]
    <3>1. flow' = [flow EXCEPT ![u] = r]
      BY <2>1 DEF Send
    <3>2. r.error = "none"
      BY <1>1 DEF TypeOK
    <3>. QED
      BY <1>1, <3>1, <3>2 DEF TypeOK
  <2>3. met'[u] = {}
    BY <1>1, <2>1 DEF TypeOK, Send
  <2>. QED
    BY <2>2, <2>3 DEF Tells, Why
\* A request that is answered leads to the next.
<1>7. ASSUME NEW at, flow' = [flow EXCEPT ![u].at = at], UNCHANGED met, flow[u].at # "form" PROVE Tells(u)'
  <2>1. flow'[u].error = flow[u].error
    BY <1>1, <1>7 DEF TypeOK
  <2>. QED
    BY <1>1, <1>7, <2>1, TellsKept
<1>8. CASE Captcha(u) \/ Verify(u)
  BY <1>1, <1>7, <1>8, TellsSignIn DEF Captcha, Verify
<1>9. CASE Login(u)
  <2>1. CASE /\ \E s \in Systems :
                  flow' = [flow EXCEPT ![u].at = "account", ![u].token = [owner |-> s, fresh |-> TRUE]]
             /\ UNCHANGED met
    <3>1. flow'[u].error = flow[u].error
      BY <1>1, <2>1 DEF TypeOK
    <3>. QED
      BY <1>1, <1>9, <2>1, <3>1, TellsKept DEF Login
  <2>. QED
    BY <1>1, <1>9, <2>1, TellsSignIn, DeniedIsAnAttempt DEF Login
<1>10. CASE Account(u)
  BY <1>1, <1>7, <1>10, TellsSignIn DEF Account
<1>11. CASE Device(u)
  <2>1. CASE flow' = [flow EXCEPT ![u] = Closed]
    <3>1. flow'[u].error = "none" /\ flow'[u].at = "form"
      BY <1>1, <2>1 DEF TypeOK, Closed
    <3>. QED
      BY <1>1, <3>1, TellsKept
  <2>. QED
    BY <1>1, <1>11, <2>1, TellsSignIn DEF Device
<1>12. CASE \E s \in Systems : Expire(s)
  <2>1. flow'[u].error = flow[u].error /\ flow'[u].at = flow[u].at /\ met' = met
    BY <1>1, <1>12 DEF TypeOK, Expire
  <2>. QED
    BY <1>1, <2>1, TellsKept
<1>13. CASE UNCHANGED vars
  BY <1>2, <1>13 DEF vars
<1>. QED
  BY <1>3, <1>4, <1>5, <1>6, <1>8, <1>9, <1>10, <1>11, <1>12, <1>13 DEF Next, SignIn

\* A form that is shown again tells why, whatever the requests before it met: a lost
\* connection or credentials the login's own answer rejects are never put down to the
\* puzzle, and only credentials or a token that were rejected are called wrong
\* (auth.py async_login, config_flow.py).  Of credentials denied in a status it says
\* nothing: those end as a failed puzzle.
THEOREM ErrorsTellWhy == Spec => []ErrorTellsWhy
<1> DEFINE AllTell == \A u \in Users : Tells(u)
<1>1. Init => AllTell
  BY DEF Init, Tells, Why, Closed, Flows
<1>2. TypeOK /\ AllTell /\ [Next]_vars => AllTell'
  BY TellsNext
<1>3. AllTell => ErrorTellsWhy
  BY DEF Tells, Why, ErrorTellsWhy
<1> HIDE DEF AllTell
<1>. QED
  BY <1>1, <1>2, <1>3, InitTyped, NextTyped, PTL DEF Spec

-----------------------------------------------------------------------------
(* How long a sign-in may take.                                            *)

\* The requests a form has before it, at most: three of each attempt, and two for
\* the account and its device.
Left(f) ==
  LET attempts == 3 * (Attempts - flow[f].attempt) IN
  CASE flow[f].at = "captcha" -> attempts + 5
    [] flow[f].at = "verify" -> attempts + 4
    [] flow[f].at = "login" -> attempts + 3
    [] flow[f].at = "account" -> 2
    [] flow[f].at \in {"device", "check"} -> 1
    [] OTHER -> 0

\* Requests are those of an open form, and those of a sign-in of one of its attempts.
Counted(f) ==
  /\ flow[f].kind = "closed" => flow[f].at = "form"
  /\ flow[f].at \in {"captcha", "verify", "login"} => flow[f].attempt >= 1

LEMMA LeftIs ==
  ASSUME TypeOK, NEW f \in Flows
  PROVE  /\ Left(f) \in Nat /\ (flow[f].at # "form" => Left(f) >= 1)
         /\ flow[f].at \in {"captcha", "verify", "login"} => Left(f) >= 3
         /\ Counted(f) => Left(f) <= 3 * Attempts + 2
<1>1. /\ flow[f].attempt \in 0 .. Attempts /\ Attempts \in Nat \ {0}
      /\ flow[f].at \in Places
  BY EnrollmentAssumption DEF TypeOK, Places
<1>. QED
  BY <1>1 DEF Left, Counted, Places

\* A request of u that ends takes one of them.
LEMMA SignInShortens ==
  ASSUME TypeOK, TypeOK', NEW u \in Users, Counted(u), SignIn(u)
  PROVE  flow[u].at # "form" /\ Left(u)' < Left(u) /\ Counted(u)'
<1>1. u \in Flows
  BY DEF Flows
<1>2. /\ flow[u].attempt \in 0 .. Attempts /\ Attempts \in Nat \ {0}
      /\ flow[u].at \in {"captcha", "verify", "login", "account", "device"}
  BY <1>1, EnrollmentAssumption DEF TypeOK, SignIn, Captcha, Verify, Login, Account, Device
<1>3. /\ Left(u) \in Nat /\ Left(u) >= 1
      /\ flow[u].at \in {"captcha", "verify", "login"} => Left(u) >= 3
  BY <1>1, <1>2, LeftIs
<1>4. ASSUME flow'[u].at = "form" PROVE Left(u)' < Left(u) /\ Counted(u)'
  BY <1>3, <1>4 DEF Left, Counted
<1>5. \A error : Show(u, error) => flow'[u].at = "form"
  BY <1>1 DEF TypeOK, Show
<1>6. ASSUME Again(u), flow[u].at \in {"captcha", "verify", "login"}
      PROVE  Left(u)' < Left(u) /\ Counted(u)'
  <2>1. CASE flow[u].attempt < Attempts
    <3>1. /\ flow'[u].at = "captcha" /\ flow'[u].attempt = flow[u].attempt + 1
          /\ flow'[u].kind = flow[u].kind
      BY <1>1, <1>6, <2>1 DEF TypeOK, Again
    <3>2. Left(u)' = 3 * (Attempts - (flow[u].attempt + 1)) + 5
      BY <3>1 DEF Left
    <3>3. Left(u) >= 3 * (Attempts - flow[u].attempt) + 3
      BY <1>2, <1>6 DEF Left
    <3>4. Left(u)' < Left(u)
      BY <1>2, <1>3, <3>2, <3>3
    <3>5. flow[u].kind # "closed" /\ flow[u].attempt + 1 >= 1
      BY <1>2 DEF Counted
    <3>. QED
      BY <3>1, <3>4, <3>5 DEF Counted
  <2>2. CASE ~ (flow[u].attempt < Attempts)
    BY <1>4, <1>5, <1>6, <2>2 DEF Again
  <2>. QED
    BY <2>1, <2>2
<1>7. ASSUME SignInFails(u), flow[u].at \in {"captcha", "verify", "login"}
      PROVE  Left(u)' < Left(u) /\ Counted(u)'
  BY <1>4, <1>5, <1>6, <1>7 DEF SignInFails, Failed
\* The request that comes after this one.
<1>8. ASSUME NEW at, flow' = [flow EXCEPT ![u].at = at]
      PROVE  /\ flow'[u].at = at /\ flow'[u].attempt = flow[u].attempt
             /\ flow'[u].kind = flow[u].kind /\ flow[u].kind # "closed"
  BY <1>1, <1>2, <1>8 DEF TypeOK, Counted
<1>9. CASE Captcha(u)
  <2>1. CASE flow' = [flow EXCEPT ![u].at = "verify"]
    <3>1. /\ flow'[u].at = "verify" /\ flow'[u].attempt = flow[u].attempt
          /\ flow'[u].kind = flow[u].kind /\ flow[u].kind # "closed"
      BY <1>8, <2>1
    <3>2. /\ Left(u) = 3 * (Attempts - flow[u].attempt) + 5
          /\ Left(u)' = 3 * (Attempts - flow[u].attempt) + 4
      BY <1>9, <3>1 DEF Captcha, Left
    <3>. QED
      BY <1>2, <1>9, <3>1, <3>2 DEF Captcha, Counted
  <2>. QED
    BY <1>2, <1>7, <1>9, <2>1 DEF Captcha
<1>10. CASE Verify(u)
  <2>1. CASE flow' = [flow EXCEPT ![u].at = "login"]
    <3>1. /\ flow'[u].at = "login" /\ flow'[u].attempt = flow[u].attempt
          /\ flow'[u].kind = flow[u].kind /\ flow[u].kind # "closed"
      BY <1>8, <2>1
    <3>2. /\ Left(u) = 3 * (Attempts - flow[u].attempt) + 4
          /\ Left(u)' = 3 * (Attempts - flow[u].attempt) + 3
      BY <1>10, <3>1 DEF Verify, Left
    <3>. QED
      BY <1>2, <1>10, <3>1, <3>2 DEF Verify, Counted
  <2>. QED
    BY <1>2, <1>6, <1>7, <1>10, <2>1 DEF Verify
<1>11. CASE Login(u)
  <2>1. CASE \E s \in Systems :
               flow' = [flow EXCEPT ![u].at = "account", ![u].token = [owner |-> s, fresh |-> TRUE]]
    <3>1. flow'[u].at = "account" /\ flow'[u].kind = flow[u].kind /\ flow[u].kind # "closed"
      BY <1>1, <1>2, <2>1 DEF TypeOK, Counted
    <3>2. Left(u)' = 2
      BY <3>1 DEF Left
    <3>. QED
      BY <1>2, <1>3, <1>11, <3>1, <3>2 DEF Login, Counted
  <2>. QED
    BY <1>2, <1>4, <1>5, <1>6, <1>7, <1>11, <2>1, DeniedIsAnAttempt DEF Login
<1>12. CASE Account(u)
  <2>1. CASE flow' = [flow EXCEPT ![u].at = "device"]
    <3>1. flow'[u].at = "device" /\ flow'[u].kind = flow[u].kind /\ flow[u].kind # "closed"
      BY <1>8, <2>1
    <3>2. Left(u) = 2 /\ Left(u)' = 1
      BY <1>12, <3>1 DEF Account, Left
    <3>. QED
      BY <1>2, <3>1, <3>2 DEF Counted
  <2>. QED
    BY <1>2, <1>4, <1>5, <1>12, <2>1 DEF Account, TokenFails
<1>13. CASE Device(u)
  <2>1. flow' = [flow EXCEPT ![u] = Closed] => flow'[u].at = "form"
    BY <1>1 DEF TypeOK, Closed
  <2>. QED
    BY <1>2, <1>4, <1>5, <1>13, <2>1 DEF Device, TokenFails
<1>. QED
  BY <1>2, <1>9, <1>10, <1>11, <1>12, <1>13 DEF SignIn

\* Nothing else changes what a form has before it, but to send it in.
LEMMA OthersLeaveIt ==
  ASSUME TypeOK, NEW u \in Users, Counted(u), [Next]_vars, ~ SignIn(u)
  PROVE  \/ /\ flow'[u].at = flow[u].at /\ flow'[u].attempt = flow[u].attempt
            /\ flow'[u].kind = flow[u].kind
         \/ flow[u].at = "form" /\ flow'[u].at = "form"
         \/ /\ flow[u].at = "form" /\ flow'[u].kind # "closed"
            /\ flow'[u].at \in {"captcha", "account"}
            /\ flow'[u].at = "captcha" => flow'[u].attempt = 1
<1>1. u \in Flows /\ Users \subseteq Flows /\ Systems \subseteq Flows /\ u \notin Systems
  BY EnrollmentAssumption DEF Flows
<1>2. ASSUME NEW v \in Users, v # u, Open(v) \/ Leave(v) \/ Submit(v) \/ SignIn(v)
      PROVE  flow'[u] = flow[u]
  BY <1>1, <1>2, UserMoves DEF Elsewhere
<1>3. ASSUME NEW s \in Systems,
             \/ \E token \in Tokens : Paste(s, token)
             \/ Check(s) \/ FirstRefresh(s) \/ Start(s) \/ Retry(s) \/ PollRefused(s)
             \/ Proceed(s) \/ Unload(s) \/ \E next \in {"reload", "remove"} : Order(s, next)
      PROVE  flow'[u] = flow[u]
  BY <1>1, <1>3, SystemMoves DEF Elsewhere
<1>4. CASE \E s \in Systems : Expire(s)
  BY <1>1, <1>4 DEF TypeOK, Expire
<1>5. CASE Open(u)
  <2>1. flow'[u].at = "form"
    BY <1>1, <1>5 DEF TypeOK, Open, Closed
  <2>2. flow[u].at = "form"
    BY <1>5 DEF Open, Counted
  <2>. QED
    BY <2>1, <2>2
<1>6. CASE Leave(u)
  BY <1>1, <1>6 DEF TypeOK, Leave, Closed
<1>7. CASE Submit(u)
  <2>1. PICK at, token : at \in {"captcha", "account"} /\ Send(u, at, token)
    BY <1>7 DEF Submit
  <2> DEFINE first == IF at = "captcha" THEN 1 ELSE 0
             r == [flow[u] EXCEPT !.at = at, !.token = token, !.error = "none", !.attempt = first]
  <2>2. flow[u].at = "form" /\ flow' = [flow EXCEPT ![u] = r]
    BY <2>1 DEF Send
  <2>3. r.at = at /\ r.attempt = first /\ r.kind = flow[u].kind /\ flow[u].kind # "closed"
    BY <1>1, <1>7 DEF TypeOK, Submit
  <2> HIDE DEF r
  <2>4. flow'[u] = r
    BY <1>1, <2>2 DEF TypeOK
  <2>. QED
    BY <2>1, <2>2, <2>3, <2>4
<1>8. CASE UNCHANGED vars
  BY <1>8 DEF vars
<1>. QED
  BY <1>2, <1>3, <1>4, <1>5, <1>6, <1>7, <1>8 DEF Next

LEMMA CountedKept ==
  ASSUME TypeOK, TypeOK', NEW u \in Users, Counted(u), [Next]_vars
  PROVE  Counted(u)'
<1>1. CASE SignIn(u)
  BY <1>1, SignInShortens
<1>2. CASE ~ SignIn(u)
  BY <1>2, OthersLeaveIt DEF Counted
<1>. QED
  BY <1>1, <1>2

\* A sign-in is over after at most three requests an attempt and two more, however
\* the puzzles go, which requests fail and what is done to other forms and entries in
\* between.  This is what SignInEnds rests on beside the fairness (auth.py:121-149,
\* config_flow.py:110-134, 175-199).
THEOREM SignInsAreBounded ==
  Spec => [][\A u \in Users :
               /\ Left(u) \in 0 .. 3 * Attempts + 2
               /\ SignIn(u) => Left(u)' < Left(u)
               /\ flow[u].at # "form" => Left(u)' <= Left(u)]_vars
<1> DEFINE Counts == \A u \in Users : Counted(u)
           Shortens(u) == /\ Left(u) \in 0 .. 3 * Attempts + 2
                          /\ SignIn(u) => Left(u)' < Left(u)
                          /\ flow[u].at # "form" => Left(u)' <= Left(u)
<1>1. Init => Counts
  BY DEF Init, Counted, Closed, Flows
<1>2. TypeOK /\ TypeOK' /\ Counts /\ [Next]_vars => Counts'
  BY CountedKept
<1>3. ASSUME TypeOK, TypeOK', Counts, [Next]_vars, NEW u \in Users PROVE Shortens(u)
  <2>1. u \in Flows /\ Attempts \in Nat
    BY EnrollmentAssumption DEF Flows
  <2>2. Left(u) \in Nat /\ Left(u) <= 3 * Attempts + 2 /\ (flow[u].at # "form" => Left(u) >= 1)
    BY <1>3, <2>1, LeftIs
  <2>3. CASE SignIn(u)
    <3>1. Left(u)' < Left(u)
      BY <1>3, <2>3, SignInShortens
    <3>2. Left(u)' \in Nat
      <4>1. flow'[u].attempt \in 0 .. Attempts /\ flow'[u].at \in Places
        BY <1>3, <2>1 DEF TypeOK, Places
      <4>. QED
        BY <2>1, <4>1 DEF Left, Places
    <3>. QED
      BY <2>1, <2>2, <3>1, <3>2
  <2>4. CASE ~ SignIn(u)
    <3>1. flow[u].at # "form" => flow'[u].at = flow[u].at /\ flow'[u].attempt = flow[u].attempt
      BY <1>3, <2>4, OthersLeaveIt
    <3>2. flow[u].at # "form" => Left(u)' = Left(u)
      BY <3>1 DEF Left
    <3>. QED
      BY <2>1, <2>2, <2>4, <3>2
  <2>. QED
    BY <2>3, <2>4
<1>4. TypeOK /\ TypeOK' /\ Counts /\ [Next]_vars => [\A u \in Users : Shortens(u)]_vars
  BY <1>3
<1>. QED
  BY <1>1, <1>2, <1>4, InitTyped, NextTyped, PTL DEF Spec

-----------------------------------------------------------------------------
(* What has recovered stays so.                                            *)

\* A flow that is closed has no request under way.
AtRest(f) == flow[f].kind = "closed" => flow[f].at = "form"

\* An entry that reads with a good token, of which nothing is asked.
Well(s) ==
  /\ State(s) = "loaded" /\ entry[s].polling
  /\ entry[s].token # None /\ entry[s].token.fresh
  /\ entry[s].next = "none" /\ flow[s].kind = "closed"

\* A reauth flow is closed when its requests are over.
LEMMA RestKept ==
  ASSUME TypeOK, NEW s \in Systems, AtRest(s), [Next]_vars
  PROVE  AtRest(s)'
<1>1. s \in Flows /\ s \notin Users /\ Systems \subseteq Flows
  BY EnrollmentAssumption DEF Flows
<1>2. ASSUME flow'[s] = flow[s] \/ flow'[s].at = "form" PROVE AtRest(s)'
  BY <1>2 DEF AtRest
<1>3. ASSUME NEW u \in Users, Open(u) \/ Leave(u) \/ Submit(u) \/ SignIn(u) PROVE AtRest(s)'
  BY <1>1, <1>2, <1>3, UserMoves DEF Elsewhere
<1>4. ASSUME NEW v \in Systems, v # s,
             \/ \E token \in Tokens : Paste(v, token)
             \/ Check(v) \/ FirstRefresh(v) \/ Start(v) \/ Retry(v) \/ PollRefused(v)
             \/ Proceed(v) \/ Unload(v) \/ \E next \in {"reload", "remove"} : Order(v, next)
      PROVE  AtRest(s)'
  BY <1>1, <1>2, <1>4, SystemMoves DEF Elsewhere
<1>5. CASE \E token \in Tokens : Paste(s, token)
  <2>1. PICK token \in Tokens : flow[s].kind = "reauth" /\ Send(s, "check", token)
    BY <1>5 DEF Paste
  <2>2. flow'[s].kind = "reauth"
    BY <1>1, <2>1 DEF Send, TypeOK
  <2>. QED
    BY <2>2 DEF AtRest
<1>6. CASE Check(s)
  BY <1>1, <1>2, <1>6 DEF Check, TokenFails, Show, Closed, TypeOK
<1>7. CASE FirstRefresh(s) \/ PollRefused(s)
  BY <1>1, <1>2, <1>7 DEF FirstRefresh, PollRefused, Prompted, Closed, TypeOK
<1>8. CASE Start(s) \/ Retry(s) \/ \E next \in {"reload", "remove"} : Order(s, next)
  BY <1>2, <1>8 DEF Start, Retry, Order
<1>9. CASE Proceed(s) \/ Unload(s)
  BY <1>1, <1>2, <1>9 DEF Proceed, Unload, Proceeds, Closed, TypeOK
<1>10. CASE \E v \in Systems : Expire(v)
  <2>1. flow'[s].kind = flow[s].kind /\ flow'[s].at = flow[s].at
    BY <1>1, <1>10 DEF Expire, TypeOK
  <2>. QED
    BY <2>1 DEF AtRest
<1>11. CASE UNCHANGED vars
  BY <1>2, <1>11 DEF vars
<1>. QED
  BY <1>3, <1>4, <1>5, <1>6, <1>7, <1>8, <1>9, <1>10, <1>11 DEF Next

LEMMA WellKept ==
  ASSUME TypeOK, NEW s \in Systems, AtRest(s), Well(s), [Next]_vars, UNCHANGED events
  PROVE  Well(s)'
<1>1. s \in Flows /\ s \notin Users /\ Systems \subseteq Flows /\ events \in Nat
  BY EnrollmentAssumption DEF Flows, TypeOK
<1>2. ASSUME flow'[s] = flow[s], entry'[s] = entry[s] PROVE Well(s)'
  BY <1>2 DEF Well, State
<1>3. ASSUME NEW u \in Users, Open(u) \/ Leave(u) \/ Submit(u) \/ SignIn(u) PROVE Well(s)'
  <2>1. flow'[s] = flow[s]
    BY <1>1, <1>3, UserMoves DEF Elsewhere
  <2>2. UNCHANGED entry \/ \E v, e : State(v) = "absent" /\ entry' = [entry EXCEPT ![v] = e]
    BY <1>3 DEF Open, Leave, Submit, Send, SignIn, Captcha, Verify, Login, Account, Device
  <2>3. entry'[s] = entry[s]
    BY <2>2 DEF Well, State, TypeOK
  <2>. QED
    BY <1>2, <2>1, <2>3
<1>4. ASSUME NEW v \in Systems, v # s,
             \/ \E token \in Tokens : Paste(v, token)
             \/ Check(v) \/ FirstRefresh(v) \/ Start(v) \/ Retry(v) \/ PollRefused(v)
             \/ Proceed(v) \/ Unload(v)
      PROVE  Well(s)'
  <2>1. flow'[s] = flow[s]
    BY <1>1, <1>4, SystemMoves DEF Elsewhere
  <2>2. entry'[s] = entry[s]
    BY <1>1, <1>4 DEF TypeOK, Paste, Send, Check, Renewed, FirstRefresh, Start, Retry,
                      PollRefused, Proceed, Unload, Proceeds
  <2>. QED
    BY <1>2, <2>1, <2>2
\* Of its own steps it has none to take.
<1>5. /\ ~ Check(s) /\ ~ \E token \in Tokens : Paste(s, token)
      /\ ~ FirstRefresh(s) /\ ~ Start(s) /\ ~ Retry(s) /\ ~ PollRefused(s)
      /\ ~ Proceed(s) /\ ~ Unload(s)
  BY DEF Well, AtRest, State, Check, Paste, FirstRefresh, Start, Retry, PollRefused, Proceed, Unload
<1>6. \A v \in Systems : ~ Expire(v) /\ \A next \in {"reload", "remove"} : ~ Order(v, next)
  BY <1>1 DEF Expire, Order
<1>7. CASE UNCHANGED vars
  BY <1>2, <1>7 DEF vars
<1>. QED
  BY <1>3, <1>4, <1>5, <1>6, <1>7 DEF Next

\* An entry that reads with a good token goes on doing so until a token expires or
\* the user gives an order: no form of a user, no reauth of another system and no
\* set-up or unload of another entry takes it down (__init__.py:10-33,
\* config_flow.py:136-158, coordinator.py:99-103).  It is the lasting half of
\* ReauthRecovers.
THEOREM RecoveredStays ==
  Spec => [][\A s \in Systems : Well(s) /\ events' = events => Well(s)']_vars
<1> DEFINE Rest == \A s \in Systems : AtRest(s)
           Stays == \A s \in Systems : Well(s) /\ events' = events => Well(s)'
<1>1. Init => Rest
  BY DEF Init, AtRest, Closed, Flows
<1>2. TypeOK /\ Rest /\ [Next]_vars => Rest'
  BY RestKept
<1>3. TypeOK /\ Rest /\ [Next]_vars => [Stays]_vars
  BY WellKept
<1>. QED
  BY <1>1, <1>2, <1>3, InitTyped, NextTyped, PTL DEF Spec
=============================================================================

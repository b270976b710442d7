------------------------------ MODULE Enrollment ------------------------------
(***************************************************************************)
(* How systems get into Home Assistant and stay there: the config flow     *)
(* with its three forms (config_flow.py), the sign-in behind one of them   *)
(* with its puzzle and its attempts (auth.py), the life cycle of the       *)
(* entries it creates (__init__.py), the services all entries share        *)
(* (services.py), and re-authentication when the cloud stops accepting an  *)
(* entry's token.                                                          *)
(*                                                                         *)
(* An account is named after its system, its serial number; a token is the *)
(* account's, fresh until the cloud expires it.  A step is one request, or *)
(* one thing the user or Home Assistant does.                              *)
(***************************************************************************)
EXTENDS Integers, FiniteSets

CONSTANTS
  Systems,     \* each with an account and at most one entry
  Users,       \* config flows a user may have open
  Attempts,    \* attempts of async_login
  MaxSubmits,  \* bound: forms sent in by those flows
  MaxEvents,   \* bound: expired tokens, reloads and removals
  Foreign,     \* may a token of another account be pasted into a reauth form?
  None

ASSUME EnrollmentAssumption ==
  /\ Systems \cap Users = {} /\ None \notin Systems
  /\ Attempts \in Nat \ {0}
  /\ MaxSubmits \in Nat /\ MaxEvents \in Nat
  /\ Foreign \in BOOLEAN

VARIABLES
  flow,      \* the flows of the users, and for each system the one of its reauth
  entry,     \* entry[s]: the config entry of system s
  services,  \* are the integration's services registered?
  submits, events,  \* counted against the bounds
  met        \* history: met[f], what the requests after a form ran into

vars == <<flow, entry, services, submits, events, met>>

Flows == Users \cup Systems
Tokens == [owner : Systems, fresh : BOOLEAN]
Errors == {"none", "invalid_auth", "cannot_connect", "captcha_failed", "no_device"}
Closed == [kind |-> "closed", at |-> "form", attempt |-> 0, token |-> None, error |-> "none"]
Absent == [state |-> "absent", token |-> None, polling |-> FALSE, next |-> "none"]

Init ==
  /\ flow = [f \in Flows |-> Closed]
  /\ entry = [s \in Systems |-> Absent]
  /\ services = FALSE
  /\ submits = 0 /\ events = 0
  /\ met = [f \in Flows |-> {}]

State(s) == entry[s].state
Meet(f, what) == met' = [met EXCEPT ![f] = @ \cup {what}]

-----------------------------------------------------------------------------
(* The forms.                                                              *)

\* async_step_user: a token is pasted, or signed in for where that is possible.
Open(u) ==
  /\ flow[u].kind = "closed"
  /\ \E kind \in {"token", "credentials"} :
       flow' = [flow EXCEPT ![u] = [Closed EXCEPT !.kind = kind]]
  /\ UNCHANGED <<entry, services, submits, events, met>>

Leave(u) ==
  /\ flow[u].kind # "closed" /\ flow[u].at = "form"
  /\ flow' = [flow EXCEPT ![u] = Closed]
  /\ UNCHANGED <<entry, services, submits, events, met>>

\* The form of f goes in: what is awaited next, and with which token.
Send(f, at, token) ==
  /\ flow[f].at = "form"
  /\ flow' = [flow EXCEPT ![f].at = at, ![f].token = token, ![f].error = "none",
                          ![f].attempt = IF at = "captcha" THEN 1 ELSE 0]
  /\ met' = [met EXCEPT ![f] = {}]
  /\ UNCHANGED <<entry, services, events>>

Submit(u) ==
  /\ submits < MaxSubmits
  /\ submits' = submits + 1
  /\ \/ flow[u].kind = "credentials" /\ Send(u, "captcha", None)
     \/ flow[u].kind = "token" /\ \E token \in Tokens : Send(u, "account", token)

\* A new token for the entry of system s.
Paste(s, token) ==
  /\ flow[s].kind = "reauth"
  /\ Foreign \/ token.owner = s
  /\ Send(s, "check", token)
  /\ UNCHANGED submits

\* The form is shown again.
Show(f, error) ==
  flow' = [flow EXCEPT ![f].at = "form", ![f].error = error,
                       ![f].token = None, ![f].attempt = 0]

-----------------------------------------------------------------------------
(* async_login: get a puzzle, have its solution verified, sign in.         *)

\* An attempt failed.  Mutants: one attempt too many; attempts are not counted.
Again_OneMore(f) ==
  IF flow[f].attempt <= Attempts
  THEN flow' = [flow EXCEPT ![f].at = "captcha", ![f].attempt = @ + 1]
  ELSE Show(f, "captcha_failed")
Again_Forever(f) == flow' = [flow EXCEPT ![f].at = "captcha"]

Again(f) ==
  IF flow[f].attempt < Attempts
  THEN flow' = [flow EXCEPT ![f].at = "captcha", ![f].attempt = @ + 1]
  ELSE Show(f, "captcha_failed")

\* A request of the sign-in fails: only a lost connection ends it at once.
\* Mutant: that is caught as the other errors are.
Failed_Alike(f, what) == Again(f)

Failed(f, what) == IF what = "lost" THEN Show(f, "cannot_connect") ELSE Again(f)

SignInFails(f) ==
  \E what \in {"lost", "refused"} : Failed(f, what) /\ Meet(f, what)

\* A challenge that makes no sense counts as a refusal.
Captcha(f) ==
  /\ flow[f].at = "captcha"
  /\ \/ flow' = [flow EXCEPT ![f].at = "verify"] /\ UNCHANGED met
     \/ SignInFails(f)
  /\ UNCHANGED <<entry, services, submits, events>>

Verify(f) ==
  /\ flow[f].at = "verify"
  /\ \/ flow' = [flow EXCEPT ![f].at = "login"] /\ UNCHANGED met
     \/ Again(f) /\ UNCHANGED met
     \/ SignInFails(f)
  /\ UNCHANGED <<entry, services, submits, events>>

\* Credentials are rejected by an answer that is fine but for its token, or denied
\* in a status, which is taken for one more attempt that failed.
Login(f) ==
  /\ flow[f].at = "login"
  /\ \/ /\ \E s \in Systems :
             flow' = [flow EXCEPT ![f].at = "account", ![f].token = [owner |-> s, fresh |-> TRUE]]
        /\ UNCHANGED met
     \/ Show(f, "invalid_auth") /\ Meet(f, "rejected")
     \/ Failed(f, "denied") /\ Meet(f, "denied")
     \/ SignInFails(f)
  /\ UNCHANGED <<entry, services, submits, events>>

-----------------------------------------------------------------------------
(* _validate and async_step_reauth_confirm: is the token any good?         *)

\* A request with the token of f fails: the token is refused, or it is not that.
TokenFails(f) ==
  \/ ~ flow[f].token.fresh /\ Show(f, "invalid_auth") /\ Meet(f, "rejected")
  \/ Show(f, "cannot_connect") /\ \E what \in {"lost", "refused"} : Meet(f, what)

Account(f) ==
  /\ flow[f].at = "account"
  /\ \/ flow[f].token.fresh /\ flow' = [flow EXCEPT ![f].at = "device"] /\ UNCHANGED met
     \/ flow[f].token.fresh /\ Show(f, "no_device") /\ UNCHANGED met
     \/ TokenFails(f)
  /\ UNCHANGED <<entry, services, submits, events>>

\* The last request, and the entry, unless the system has one.
Device(f) ==
  /\ flow[f].at = "device"
  /\ \/ /\ flow[f].token.fresh
        /\ flow' = [flow EXCEPT ![f] = Closed]
        /\ LET s == flow[f].token.owner IN
           entry' = IF State(s) = "absent"
                    THEN [entry EXCEPT ![s] = [Absent EXCEPT !.state = "setup",
                                                             !.token = flow[f].token]]
                    ELSE entry
        /\ UNCHANGED met
     \/ TokenFails(f) /\ UNCHANGED entry
  /\ UNCHANGED <<services, submits, events>>

\* async_update_reload_and_abort.  Mutant: the entry is not reloaded.
Renewed_NoReload(s, token) == [entry EXCEPT ![s].token = token]

Renewed(s, token) ==
  [entry EXCEPT ![s].token = token,
                ![s].next = IF State(s) = "failed_unload" \/ @ = "remove" THEN @ ELSE "reload"]

\* Reauth only asks for the account: any account's.
Check(s) ==
  /\ flow[s].at = "check"
  /\ \/ /\ flow[s].token.fresh
        /\ flow' = [flow EXCEPT ![s] = Closed]
        /\ entry' = Renewed(s, flow[s].token)
        /\ UNCHANGED met
     \/ TokenFails(s) /\ UNCHANGED entry
  /\ UNCHANGED <<services, submits, events>>

-----------------------------------------------------------------------------
(* The life of an entry.                                                   *)

\* ConfigEntryAuthFailed: Home Assistant asks for a new token, unless it does
\* already.  Mutant: the error is taken for any other.
Prompted_Never(s) == flow

Prompted(s) ==
  IF flow[s].kind = "closed" THEN [flow EXCEPT ![s] = [Closed EXCEPT !.kind = "reauth"]]
                             ELSE flow

\* async_setup_entry up to the end of the first refresh.  A token of another
\* account may be refused as such, or for the system it asks for.
FirstRefresh(s) ==
  LET token == entry[s].token IN
  /\ State(s) = "setup"
  /\ \/ /\ token.fresh /\ token.owner = s
        /\ entry' = [entry EXCEPT ![s].state = "starting"]
        /\ UNCHANGED flow
     \/ entry' = [entry EXCEPT ![s].state = "retry"] /\ UNCHANGED flow
     \/ /\ ~ token.fresh \/ token.owner # s
        /\ entry' = [entry EXCEPT ![s].state = "auth_failed"]
        /\ flow' = Prompted(s)
  /\ UNCHANGED <<services, submits, events, met>>

\* async_load, the platforms, the services, and the entry is LOADED.
Start(s) ==
  /\ State(s) = "starting"
  /\ \/ entry' = [entry EXCEPT ![s].state = "loaded", ![s].polling = TRUE] /\ services' = TRUE
     \/ entry' = [entry EXCEPT ![s].state = "retry"] /\ UNCHANGED services
  /\ UNCHANGED <<flow, submits, events, met>>

Retry(s) ==
  /\ State(s) = "retry"
  /\ entry' = [entry EXCEPT ![s].state = "setup"]
  /\ UNCHANGED <<flow, services, submits, events, met>>

\* A refresh is refused the token: it is the last one of the schedule.
PollRefused(s) ==
  /\ State(s) = "loaded" /\ entry[s].polling
  /\ ~ entry[s].token.fresh
  /\ entry' = [entry EXCEPT ![s].polling = FALSE]
  /\ flow' = Prompted(s)
  /\ UNCHANGED <<services, submits, events, met>>

\* The cloud expires the tokens of an account.
Expire(s) ==
  /\ events < MaxEvents
  /\ events' = events + 1
  /\ entry' = [u \in Systems |-> IF entry[u].token # None /\ entry[u].token.owner = s
                                 THEN [entry[u] EXCEPT !.token.fresh = FALSE] ELSE entry[u]]
  /\ flow' = [f \in Flows |-> IF flow[f].token # None /\ flow[f].token.owner = s
                              THEN [flow[f] EXCEPT !.token.fresh = FALSE] ELSE flow[f]]
  /\ UNCHANGED <<services, submits, met>>

\* The user changes the options, reloads the entry or removes it.
Order(s, next) ==
  /\ events < MaxEvents
  /\ events' = events + 1
  /\ State(s) # "absent" /\ entry[s].next # "remove"
  /\ State(s) # "failed_unload"
  /\ entry' = [entry EXCEPT ![s].next = next]
  /\ UNCHANGED <<flow, services, submits, met>>

\* What becomes of an entry that is unloaded, and of its reauth flow.
Proceeds(s) ==
  IF entry[s].next = "reload"
  THEN /\ entry' = [entry EXCEPT ![s].state = "setup", ![s].next = "none", ![s].polling = FALSE]
       /\ UNCHANGED flow
  ELSE entry' = [entry EXCEPT ![s] = Absent] /\ flow' = [flow EXCEPT ![s] = Closed]

\* The order is carried out, once no set-up is under way.
Proceed(s) ==
  /\ entry[s].next # "none"
  /\ \/ /\ State(s) = "loaded"
        /\ entry' = [entry EXCEPT ![s].state = "unloading", ![s].polling = FALSE]
        /\ UNCHANGED flow
     \/ State(s) \in {"retry", "auth_failed"} /\ Proceeds(s)
  /\ UNCHANGED <<services, submits, events, met>>

\* The services stay while another entry is LOADED.  Mutant: they go in any case.
Kept_Never(s) == FALSE

Kept(s) == services /\ \E u \in Systems \ {s} : State(u) = "loaded"

\* async_unload_entry, from the end of the platforms' unloading.
Unload(s) ==
  /\ State(s) = "unloading"
  /\ \/ Proceeds(s) /\ services' = Kept(s)
     \/ /\ entry' = [entry EXCEPT ![s].state = "failed_unload", ![s].next = "none"]
        /\ UNCHANGED <<flow, services>>
  /\ UNCHANGED <<submits, events, met>>

-----------------------------------------------------------------------------
SignIn(u) == Captcha(u) \/ Verify(u) \/ Login(u) \/ Account(u) \/ Device(u)

Next ==
  \/ \E u \in Users : Open(u) \/ Leave(u) \/ Submit(u) \/ SignIn(u)
  \/ \E s \in Systems :
       \/ \E token \in Tokens : Paste(s, token)
       \/ Check(s) \/ FirstRefresh(s) \/ Start(s) \/ Retry(s) \/ PollRefused(s)
       \/ Expire(s) \/ Proceed(s) \/ Unload(s)
       \/ \E next \in {"reload", "remove"} : Order(s, next)

Spec == Init /\ [][Next]_vars

\* Every request ends, one that is made again and again succeeds in the end,
\* Home Assistant polls, retries and carries out what was ordered, and the user
\* answers a reauth form with a token that is good.
FairSpec ==
  /\ Spec
  /\ \A u \in Users : WF_vars(SignIn(u))
  /\ \A s \in Systems :
       /\ SF_vars(Paste(s, [owner |-> s, fresh |-> TRUE]))
       /\ WF_vars(Check(s)) /\ SF_vars(Check(s) /\ flow'[s].kind = "closed")
       /\ WF_vars(FirstRefresh(s)) /\ SF_vars(FirstRefresh(s) /\ entry'[s].state # "retry")
       /\ WF_vars(Start(s)) /\ SF_vars(Start(s) /\ entry'[s].state = "loaded")
       /\ WF_vars(Retry(s)) /\ WF_vars(PollRefused(s))
       /\ WF_vars(Proceed(s)) /\ WF_vars(Unload(s))

-----------------------------------------------------------------------------
\* Types; no sign-in takes more attempts than it may (auth.py:123).
TypeOK ==
  /\ flow \in [Flows ->
       [kind : {"closed", "token", "credentials", "reauth"},
        at : {"form", "captcha", "verify", "login", "account", "device", "check"},
        attempt : 0 .. Attempts, token : Tokens \cup {None}, error : Errors]]
  /\ entry \in [Systems ->
       [state : {"absent", "setup", "starting", "loaded", "retry", "auth_failed",
                 "unloading", "failed_unload"},
        token : Tokens \cup {None}, polling : BOOLEAN, next : {"none", "reload", "remove"}]]
  /\ services \in BOOLEAN
  /\ submits \in Nat /\ events \in Nat
  /\ met \in [Flows -> SUBSET {"lost", "refused", "denied", "rejected"}]

\* Services are there as long as an entry is loaded, and gone with the last one,
\* whatever set-ups and unloads overlap (__init__.py:21, 30-32; services.py:143).
ServicesFollowEntries ==
  /\ (\E s \in Systems : State(s) = "loaded") => services
  /\ services => \E s \in Systems : State(s) \in {"loaded", "unloading", "failed_unload"}

\* An entry that gave up on its token always has its user asked for another, or is
\* about to be reloaded with it: no order of polls, reloads and forms leaves it
\* silently dead (coordinator.py:99-103, config_flow.py:136-158).
ReauthPending ==
  \A s \in Systems :
    State(s) = "auth_failed" \/ (State(s) = "loaded" /\ ~ entry[s].polling)
      => flow[s].kind = "reauth" \/ entry[s].next # "none"

\* A form shown again tells why, as far as the code tells the causes apart: a lost
\* connection, or credentials the login's own answer rejects, are never put down to
\* the puzzle, however many attempts went before; credentials are only called wrong
\* where they, or a token, were; and a broken connection is only reported after an
\* answer that was lost or made no sense.  Credentials denied in a status are outside
\* this promise: they end as a failed puzzle (auth.py:141-149, config_flow.py:119-127,
\* 185-192).
ErrorTellsWhy ==
  \A u \in Users :
    /\ flow[u].error = "captcha_failed" => met[u] \cap {"lost", "rejected"} = {}
    /\ flow[u].error = "cannot_connect" =>
         met[u] \cap {"lost", "refused"} # {} /\ "rejected" \notin met[u]
    /\ flow[u].error = "invalid_auth" => "rejected" \in met[u]

\* A form sent in comes back or is done with, however the puzzles go.
SignInEnds == \A u \in Users : (flow[u].at # "form") ~> (flow[u].at = "form")

\* Once tokens stop expiring, every entry is there again and reads with a token
\* that is good (docs/setup.md:48-49).
ReauthRecovers ==
  \A s \in Systems :
    <>[](\/ State(s) \in {"absent", "failed_unload"}
         \/ State(s) = "loaded" /\ entry[s].polling /\ entry[s].token.fresh)
=============================================================================

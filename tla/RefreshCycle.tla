----------------------------- MODULE RefreshCycle -----------------------------
(***************************************************************************)
(* What the entities see: EpCubeCoordinator._async_update_data with its    *)
(* two cadences and the cache of the slow sections (coordinator.py), over  *)
(* EpCubeAsyncClient.snapshot, which reads all sections concurrently and   *)
(* lets each fail on its own (client.py).  The refresh Home Assistant      *)
(* schedules and the one that ends a write run through the same code and   *)
(* are not kept apart: either may start, read or end amid the other.       *)
(* An entity's state is what it last told Home Assistant, which it does    *)
(* when the coordinator calls its listeners (entity.py, sensor.py).        *)
(*                                                                         *)
(* The device is its version: a section read shows the version at that     *)
(* moment.  Time is a countdown to the next heavy refresh.                 *)
(***************************************************************************)
EXTENDS Integers, FiniteSets

CONSTANTS
  Fast,         \* sections read by every refresh
  Slow,         \* sections read when a heavy refresh is due (_SLOW_SECTIONS)
  Listed,       \* the sections whose content says which entities there are: pv
  Interval,     \* statistics_interval, in ticks
  MaxVersions,  \* bound: changes of the device
  Error,        \* what a section that could not be read leaves in its place
  Unavailable,  \* the state of an entity that is not available
  None

Sections == Fast \cup Slow
Entities == Sections \cup {"override"}  \* one for all that show the same section
Refreshes == {"poll", "write"}  \* the scheduled refresh, the one after a write

ASSUME SectionsAssumption ==
  /\ Fast \cap Slow = {} /\ Listed \subseteq Fast /\ "override" \notin Sections
  /\ {Error, Unavailable, None} \cap Nat = {} /\ Error # None
  /\ Unavailable \notin {Error, None}
ASSUME RefreshAssumption == Interval \in Nat \ {0} /\ MaxVersions \in Nat

VARIABLES
  device,   \* version of what the device has to show
  due,      \* ticks until _last_heavy is statistics_interval ago
  timer,    \* the next scheduled refresh: "set", "none", or "refused" for want of a token
  refresh,  \* refresh[r]: what it awaits, is it heavy, was success TRUE when it began
  got,      \* got[r][s]: what was read of section s, Error, or None
  data,     \* data[s]: the field of coordinator.data
  errors,   \* coordinator.data.errors
  cache,    \* _slow_cache, None where a section has no entry
  success,  \* last_update_success
  active,   \* overrides.active: the version of the device it was set with
  added,    \* the entities Home Assistant has
  state     \* state[e]: of entity e in Home Assistant, None for unknown

entities == <<active, added, state>>
vars == <<device, due, timer, refresh, got, data, errors, cache, success, entities>>

Versions == 0 .. MaxVersions
Idle == [awaits |-> "nothing", heavy |-> FALSE, was |-> FALSE]
Nothing == [s \in Sections |-> None]

\* Before the first refresh.
Init ==
  /\ device = 0
  /\ due = 0
  /\ timer = "set"
  /\ refresh = [r \in Refreshes |-> Idle]
  /\ got = [r \in Refreshes |-> Nothing]
  /\ data = Nothing
  /\ errors = {}
  /\ cache = [s \in Slow |-> None]
  /\ success = FALSE
  /\ active = 0
  /\ added = {}
  /\ state = [e \in Entities |-> None]

-----------------------------------------------------------------------------
(* The entities.                                                           *)

\* available and native_value, given the coordinator's attributes.
Display(e, dat, errs, ok) ==
  IF ~ ok \/ e \in errs \/ (e \in Listed /\ dat[e] = None) THEN Unavailable
  ELSE IF e = "override" THEN active ELSE dat[e]

\* The coordinator calls its listeners, with the attributes it has by then.
\* Mutant: only if these have changed (always_update = False).
Notify_OnChange ==
  state' = [e \in Entities |->
              IF e \notin added THEN None
              ELSE IF <<data, errors, success>>' = <<data, errors, success>> THEN state[e]
              ELSE Display(e, data', errors', success')]

Notify ==
  state' = [e \in Entities |->
              IF e \in added THEN Display(e, data', errors', success') ELSE None]

\* async_setup_entry of the platforms, once there is data: entities for every
\* section, but those of a listed one only if it was read.
Add ==
  /\ added = {} /\ success
  /\ added' = Entities \ {s \in Listed : data[s] = None}
  /\ state' = [e \in Entities |->
                 IF e \in added' THEN Display(e, data, errors, success) ELSE None]
  /\ UNCHANGED <<device, due, timer, refresh, got, data, errors, cache, success, active>>

\* async_start and async_clear: the override changes after the write's refresh has
\* ended, and no listener is called.
Settle ==
  /\ refresh["write"] = Idle
  /\ active' = device /\ active # device
  /\ UNCHANGED <<device, due, timer, refresh, got, data, errors, cache, success, added, state>>

-----------------------------------------------------------------------------
\* heavy_due.
HeavyDue == due = 0

\* Home Assistant begins a refresh: the next scheduled one is put off to its end.
Start(r) ==
  /\ refresh[r] = Idle
  /\ refresh' = [refresh EXCEPT ![r] =
       [awaits |-> "live", heavy |-> HeavyDue, was |-> success]]
  /\ timer' = "none"

\* The scheduled refresh.
Poll ==
  /\ timer = "set"
  /\ Start("poll")
  /\ UNCHANGED <<device, due, got, data, errors, cache, success, entities>>

\* A write changes the device and is followed by its refresh.
Write ==
  /\ device < MaxVersions
  /\ device' = device + 1
  /\ Start("write")
  /\ UNCHANGED <<due, got, data, errors, cache, success, entities>>

\* The device changes by itself.
Change ==
  /\ device < MaxVersions
  /\ device' = device + 1
  /\ UNCHANGED <<due, timer, refresh, got, data, errors, cache, success, entities>>

Tick ==
  /\ due > 0
  /\ due' = due - 1
  /\ UNCHANGED <<device, timer, refresh, got, data, errors, cache, success, entities>>

\* The live read comes first (resolve_device), then all sections at once: what was
\* before no longer matters, the refresh will end well.
Live(r) ==
  /\ refresh[r].awaits = "live"
  /\ refresh' = [refresh EXCEPT ![r].awaits = "sections", ![r].was = FALSE]
  /\ UNCHANGED <<device, due, timer, got, data, errors, cache, success, entities>>

\* The sections a refresh asks for.
Asked(r) == IF refresh[r].heavy THEN Sections ELSE Fast

\* One of its reads is answered, or fails.
Answer(r, s, value) ==
  /\ refresh[r].awaits = "sections"
  /\ s \in Asked(r)
  /\ got[r][s] = None
  /\ got' = [got EXCEPT ![r][s] = value]
  /\ UNCHANGED <<device, due, timer, refresh, data, errors, cache, success, entities>>

Finished(r) ==
  /\ refresh' = [refresh EXCEPT ![r] = Idle]
  /\ got' = [got EXCEPT ![r] = Nothing]

\* The live read fails: data is kept.  Home Assistant tells the entities of it only
\* if refreshes succeeded when this one began.
Unread(r) ==
  /\ refresh[r].awaits = "live"
  /\ Finished(r)
  /\ success' = FALSE
  /\ UNCHANGED <<device, due, data, errors, cache, active, added>>
  /\ IF refresh[r].was THEN Notify ELSE UNCHANGED state

\* UpdateFailed: the next refresh is scheduled all the same.
Fail(r) == Unread(r) /\ timer' = "set"

\* ConfigEntryAuthFailed: a new token is asked for, and no refresh is scheduled,
\* but one may be already.
Refuse(r) == Unread(r) /\ timer' = IF timer = "set" THEN "set" ELSE "refused"

Failed(r) == {s \in Sections : got[r][s] = Error}

\* Mutant: the exception gather returned for a section stands for its value.
Read_Raw(r, s) == got[r][s]

Read(r, s) == IF got[r][s] = Error THEN None ELSE got[r][s]

\* _carry_slow_sections: what this refresh read of the slow sections is cached,
\* and for the others what is cached is shown instead.
\* Mutant: a section that failed is dropped from the cache.
Carried_Dropped(r) ==
  [s \in Slow |-> IF refresh[r].heavy THEN Read(r, s) ELSE cache[s]]

Carried(r) ==
  [s \in Slow |->
     IF refresh[r].heavy /\ s \notin Failed(r) THEN got[r][s] ELSE cache[s]]

\* Mutant: the error of a section shown from the cache stays.
Degraded_Kept(r) == Failed(r)

Degraded(r) == {s \in Failed(r) : s \in Slow => cache[s] = None}

\* All sections asked for are there: the snapshot becomes the coordinator's data.
\* _last_heavy is now, whatever became of the slow sections.
End(r) ==
  /\ refresh[r].awaits = "sections"
  /\ \A s \in Asked(r) : got[r][s] # None
  /\ cache' = Carried(r)
  /\ data' = [s \in Sections |-> IF s \in Slow THEN cache'[s] ELSE Read(r, s)]
  /\ errors' = Degraded(r)
  /\ success' = TRUE
  /\ due' = IF refresh[r].heavy THEN Interval ELSE due
  /\ timer' = "set"
  /\ Finished(r)
  /\ Notify
  /\ UNCHANGED <<device, active, added>>

Next ==
  \/ Poll \/ Write \/ Change \/ Tick \/ Add \/ Settle
  \/ \E r \in Refreshes :
       \/ \E s \in Sections, value \in {device, Error} : Answer(r, s, value)
       \/ Live(r) \/ Fail(r) \/ Refuse(r) \/ End(r)

Spec == Init /\ [][Next]_vars

\* A refresh that is scheduled begins, every request ends, and one that is made
\* again and again is answered in the end.
FairSpec ==
  /\ Spec
  /\ WF_vars(Poll) /\ WF_vars(Tick) /\ SF_vars(Add)
  /\ \A r \in Refreshes :
       /\ SF_vars(Live(r)) /\ WF_vars(End(r))
       /\ \A s \in Sections : SF_vars(Answer(r, s, device))

-----------------------------------------------------------------------------
\* Types; no exception a section read ended with is ever shown as its value.
TypeOK ==
  /\ device \in Versions
  /\ due \in 0 .. Interval
  /\ timer \in {"set", "none", "refused"}
  /\ refresh \in [Refreshes ->
       [awaits : {"nothing", "live", "sections"}, heavy : BOOLEAN, was : BOOLEAN]]
  /\ got \in [Refreshes -> [Sections -> Versions \cup {Error, None}]]
  /\ data \in [Sections -> Versions \cup {None}]
  /\ errors \subseteq Sections
  /\ cache \in [Slow -> Versions \cup {None}]
  /\ success \in BOOLEAN
  /\ active \in Versions
  /\ added \subseteq Entities
  /\ state \in [Entities -> Versions \cup {Unavailable, None}]

\* Once an entity of a slow section has shown it, no refresh that leaves the section
\* out or fails to read it makes it unknown or unavailable: only one that fails as a
\* whole does (coordinator.py:118-124).
NeverBlanked ==
  [][\A s \in Slow \cap added :
       state[s] \in Versions => state'[s] \in Versions \/ ~ success']_vars

\* While refreshes succeed, an entity is unavailable only where there is no value to
\* show, so that a section shown from the cache is never reported missing, and it is
\* so in every case where the snapshot holds an error for its section; and an entity
\* of a section that every refresh reads is never unknown: it shows a value or is
\* unavailable.  A slow section that was never read gets its error only from the
\* refreshes that ask for it, and is unknown after the others (entity.py:28-30,
\* sensor.py:288-292, architecture.md:99-101).
UnavailableIsAbsent ==
  \A e \in added :
    /\ success /\ state[e] = Unavailable => e \in Sections /\ data[e] = None
    /\ success /\ e \in errors => state[e] = Unavailable
    /\ e \in Fast => state[e] # None

\* The two refreshes may land in any order, an older one over a newer one, and an
\* override changes after its refresh: it is repaired.  Once the device no longer
\* changes, every entity there is shows it, or is unavailable, unless the cloud no
\* longer takes the token and refreshes have ended for that reason.
EventuallyCurrent ==
  <>[](\/ timer = "refused"
       \/ /\ Entities \ Listed \subseteq added
          /\ \A s \in added \cap Sections : state[s] \in {device, Unavailable}
          /\ state["override"] \in {active, Unavailable})
=============================================================================

# A specification of EP Cube for Home Assistant

TLA+ modules, model-checking runs and machine-checked proofs for the Home Assistant
integration `custom_components/epcube` and the client library `epcube_api` it embeds.
Line references are to those two trees. `PROJECT.json` maps every definition to its lines
and lists components, runs, mutants, hazards, findings and theorems.

## 1. The system

A config entry stands for one battery system. Its *coordinator* polls the vendor's cloud and
is the only writer of the device's configuration; entities and services go through it. Beside
it lives an *override manager* with one timer and one record in Home Assistant's store.
Everything runs in one event loop: code between two awaits is atomic, everything else
interleaves. There are no threads that matter.

| Part | State | Operations | Hard about it | What makes it correct |
|---|---|---|---|---|
| Override manager (`override.py`) | `active`, one timer, store file | start, clear, load, unload, timer, retry | reads made before a wait for the lock, refused and lost writes, crash between device and store, timer against calls | the user's reserve comes back; an override that is to end does end |
| Locked write (`coordinator.py:130-141`) | a FIFO lock | read mode, write, refresh | overlapping calls, errors anywhere between | settings stay independent, the lock is given up |
| Control entities and services (`number.py`, `select.py`, `switch.py`, `services.py`) | none of their own | change a reserve, the mode, grid charging, the calendar | the cloud resets whatever a payload leaves out; two writes in one call; devices that ignore a write | calls act one after the other, each on one setting |
| Mode configuration on the wire (`models/mode.py`, `models/base.py`, `models/requests.py`) | none | validate an answer, build a complete request, display a setting | the device answers a setting as text, number or flag and takes it as text only; settings it leaves out | what is shown is what is held, what is sent is taken |
| Refresh cycle (`coordinator.py:84-124`, `client.py:134-190`) and the entities it tells (`entity.py`, `sensor.py`) | snapshot, cache of slow sections, time of the last heavy read, the entities' states | poll, refresh after a write, add entities, tell them | concurrent reads that fail one by one, two refreshes that overlap, overrides that change after their refresh | slow data is never blanked, what is unavailable is absent, shown data becomes current |
| Transport (`transport.py`) | shared call history | request with retries | two layers of status, lost answers, late delivery | success means executed, attempts are bounded |
| Battery energy (`battery.py`, `sensor.py:340-369`) | anchor and two totals | update, publish, restore | slow flow, jitter, reloads, crashes | totals conserve energy and never fall |
| Sources of a value (`snapshot.py`, `energy.py`, `live.py`, `device.py`) | the snapshot | choose a source | sections and measurements missing, slots to come, midnight, sign and unit | the value is the plant's, the source named is the one used |
| Config flow, sign-in (`config_flow.py`, `auth.py`) | forms | token, credentials, reauth, options | three requests per attempt, each failing in its way | forms end and tell why |
| Entry life cycle (`__init__.py`, `services.py:141-217`) | entry states, shared services | set-up, unload, reload, remove | several entries, expired tokens, failing set-ups | services follow the entries, a dead token is asked for |

They interact by calls: entities and services call the coordinator's `async_write`; the
override manager does too and is called back by its timer; the client calls the transport
once per section; Home Assistant calls back set-up, unload and the schedule. Shared state is
the device (also changed by others), the store (all managers of an entry, dead ones
included), the lock (all calls of one manager), the snapshot (both refreshes) and the history.

What Home Assistant, asyncio and the cloud do is modelled from how this code uses them and
marked external: an asyncio lock is FIFO; `Store.async_save` calls are serialised, while
`async_remove` waits for none of them; `async_refresh` is not serialised with the scheduled
refresh and never raises; `ConfigEntryAuthFailed` in a refresh starts a reauth flow and ends
the schedule, unless its next refresh is already set; the entities are told of a refresh
that failed only if refreshes succeeded when it began; scheduled refreshes are debounced, so
that one at most is in flight; an entry that is being unloaded is not LOADED; restore-state is
dumped periodically and when an entity is removed. Of the cloud it is assumed that an answer
of 400, 401, 403, 404 or 429, in either layer, means that the request was not carried out; a
server error, a body that is no JSON or no answer at all says nothing of that.

## 2. Modules

| Module | Models |
|---|---|
| `Override` | overrides over the locked write, device, store, timer, reload, restart, crash |
| `OverridePromise` | what overrides promise of the reserve; refined by `Override` |
| `MCOverride` | symmetry for TLC |
| `OverrideProofs`, `OverrideSafety` | theorems about `Override`: any faults and overlaps; one manager |
| `ModePayload` | the mode configuration on the wire: answers, validators, requests, what the device does with one, what controls display |
| `ModeWrites` | extends it: all other writes of the mode configuration: number, select, switch, `set_operating_mode`, `set_tou_schedule` |
| `ModePanel` | the atomic control panel; refined by `ModeWrites` |
| `MCModeWrites` | initial configurations and unreported settings for TLC |
| `ModeWritesProofs` | theorems about `ModeWrites`, its refinement of `ModePanel` included |
| `RefreshCycle`, `RefreshCycleProofs` | the two cadences, sections, cache, overlapping refreshes, the entities; theorems |
| `Transport`, `TransportProofs` | one request with retries, status layers, history, network; theorems |
| `BatteryEnergy`, `BatteryEnergyProofs` | the accumulator and its two sensors; their theorems |
| `Enrollment`, `EnrollmentProofs` | config flow, sign-in, entries, services, re-authentication; theorems |
| `Readings`, `ReadingsProofs`, `MCReadings` | sources of battery and solar power; theorems; power flows for TLC |

Operators with a suffix, such as `Payload_Partial` beside `Payload`, are deliberately wrong
variants ("mutants") that the properties must be able to tell from the code; no
specification uses them.

### How state and actions correspond to the code

**Override.** `active[m]`, `timer[m]` and `queue[m]` are the attributes of a manager and of its
coordinator's lock; there may be several managers, since the one of an abandoned or unloaded
set-up lives on in callbacks and calls in flight. A task is a coroutine: `pc[t]` is the await
it is suspended at (`read`, `write`, `refresh` in `async_write`; `save` and `remove` in the
store) and `call[t]` its arguments and locals, those read before the wait for the lock
included (`override.py:108-117`, `142`). `Start`, `Clear`, `SetReserve` and `SetOther` are
calls; `Fire` is the timer, `Setup` is `async_load`. Time is a countdown: `Tick` shortens
every end at once, those in records, locals and the store included. With `"unreported"` among
the events an answer may leave the reserve out: a start then remembers none, a write of
another setting sends `Fallback` (`Reported`, `Previous`, `Payload`).

**ModePayload.** What is on the wire is not what it means: a mode or switch goes as a code, a
flag as a Boolean, a text as the number its digits spell, and the validators convert one into
the other (`ToKind`, `ToList`: a number other than zero is a flag that is set, a text is one
only if it is `0` or `1`, a flag becomes a code). `Answer` is the device's, in one of three
`Styles` that between them spell every setting in every form, with the settings of `mute` left
out. `Parsed` is `ModeConfig` with its validators (`base.py:10-100`), `Request` is
`from_config`, `WithChange` is `with_changes`, `Displayed` what the entities make of it,
`Meaning` what the device does. `Accepted` and `Applied` are the endpoint: it takes the
declared forms only and resets what is absent. The four lists of days are settings of their
own, each with its default; `calendar` stands for the nine lists of windows, of which
`HasTouSchedule` leaves out those for daylight saving time, as `mode.py:129-139` does.

**ModeWrites.** Same coroutines as in `Override`, without overrides; `conf[t]` is the
configuration a call read last, parsed: payloads are built from the one read before a write,
and the one its refresh read is what it shows. A refresh reads the mode section and ends
later, when the other sections have been read: `Refresh` and `Publish` are the one that ends
a call, `Poll` and `PollEnds` the scheduled one, `polled` what the latter holds in between.
`shown` and `success` are what entities see, `result[t]` how a call ended.

**RefreshCycle.** The device is a version number; a section holds the version it was read
at, so "current" can be said. `due` counts down to the next heavy read. `got` is what
`asyncio.gather` has so far. `state[e]` is what an entity last told Home Assistant: `Notify`
is the coordinator's call of its listeners, which happens at the end of a refresh and at a
failure, if refreshes succeeded when the one that failed began (`refresh[r].was`). `timer` is
the schedule: `Fail` (`UpdateFailed`) sets it again, `Refuse` (`ConfigEntryAuthFailed`) does
not. Entities of the PV strings exist only if the first refresh read them;
the override sensor shows `active`, which changes after the refresh of its write.

**Transport.** `pc`, `attempt` per request; answers are pairs of HTTP status and envelope
status. `executed` and `late` are the server's and the network's side; `unsettled` counts the
copies that were or may be carried out without the client's knowledge: `Break` (a server
error) and `Lose` (no answer) share `LeftOpen`, what may have become of the request.

**BatteryEnergy.** Levels are integers in units of 0.01 kWh, the quantisation of the level; a
difference of exactly the threshold may go either way, as doubles do. `saved` is Home Assistant's restore
state.

**Enrollment.** `flow[f]` is a form and where its requests stand; the reauth flow of a
system is named after it, as Home Assistant keeps at most one. `entry[s]` has the state of
the entry and the order (reload, remove) to be carried out when nothing else is. A
`met` set remembers what a form's requests ran into: credentials that an answer rejects are
"rejected", those refused in a status are "denied" and retried as a failed puzzle
(`auth.py:140-148`). An account owns one system.

**Readings.** `log` is the day's series as it grows; a refresh reads live values, of which one
may be missing or too low (`LiveReads`), fixes the day by the plant's time zone or, when the
live read names none that is known, by the host's date (`Today`, `HostDay`), and later reads
strings and series. An active string that reports no power counts as none (`StringReads`).
The rest are pure functions translated
one by one, `StatusSource` being the label of the command line's `status`.

## 3. Runs and what they show

| Run | Bounds | States | Checked |
|---|---|---|---|
| `serial` | 3 tasks, 3 levels, 2 durations, 4 calls, refusals and empty reads; one call at a time, the timer against each | 10 000 | `BaselineKept`, `ActiveInForce`, refinement of `OverridePromise` |
| `restart` | 3 tasks, 2 levels, 2 other configurations, 2 durations, 4 calls, refusals, a restart between calls | 212 000 | `TypeOK`, `StoreKeepsPromise`, `NoOrphan`, `SettingsIndependent`, `EventuallyReverted` |
| `faults` | 2 overlapping calls, 2 managers, refused and lost requests, reserves not reported, a reload or crash anywhere | 88 000 | `RevertPending`, `OverridesEnd` |
| `modes` | 2 overlapping calls of any kind beside the scheduled refresh, a calendar with an empty list of days or daylight-saving windows alone, 3 styles of answers, all settings reported or all but 2, 5 kinds of fault | 664 000 | `TypeOK`, `PayloadTaken`, `ShownIsHeld`, refinement of `ModePanel`, `ModeOnFloor`, `VerdictIsTrue`, `CallsEnd` |
| `transport` | 3 requests (one without its token), 3 attempts, history of 2 | 14 000 | `TypeOK`, `SuccessIsReal`, `RepeatedOnlyWhenUnsettled`, `HistoryIsLatest`, `RequestEnds` |
| `refresh` | a fast section that lists entities and a slow one, both refreshes, one change of the device, an interval of 1 | 41 000 | `TypeOK`, `UnavailableIsAbsent`, `NeverBlanked`, `EventuallyCurrent` |
| `battery` | 5 levels, threshold 2, 5 samples, 2 restarts | 32 000 | `TypeOK`, `Conserved`, `NothingInvented`, `TotalsIncrease` |
| `enrollment` | 2 systems, 1 user, 2 attempts, 2 forms, 2 events | 47 000 | `TypeOK`, `ServicesFollowEntries`, `ReauthPending`, `ErrorTellsWhy`, `SignInEnds`, `ReauthRecovers` |
| `readings` | 3 power flows, days of 2 slots, 3 slots, a host one slot behind, time zones known or not | 2 807 000 | `TypeOK`, `BatteryIsTrue`, `SolarNotUnderstated`, `SourceIsHonest` |

Why the bounds are enough. Overrides: a chain that loses the baseline needs two starts and an
end, a resurrected one a start, a clear and a restart, both within four calls; overlap shows
all races of two calls, and of each with the timer and a second manager. Modes: two
calls are the smallest set that can interleave, and a call with two writes is one of them;
settings start away from their defaults, so that a reset shows.
Transport: three requests overflow a history of two. Refresh: two refreshes is all there are,
sections of a kind are treated alike, one change is enough for an older answer to land over a
newer one, an interval of 1 has light refreshes between heavy ones. Battery: five levels span
twice the threshold both ways.
Enrollment: one system's unloading against the other's set-up. Readings: three slots
cross a midnight, a host one slot behind is on the wrong side of it. The bounds on
calls, restarts, events and versions are guards named `Max...`, on slots `Hours`; deadlock checking is off
only where bounded systems run out of things to do, and each cfg says so.

### Runs that end in a violation

These state what a document or comment of the repository says and the code does not do.

- `two_starts` (`BaselineKept`): two starts at once. Each takes `self.active` and its previous
  reserve before it waits for the lock (`override.py:117`); the second ends up with no reserve
  to restore, against `override.py:121` and `README.md:43`.
- `stale_expiry` (`NotCutShort`): a timer's revert that waits behind a new start ends the new
  override (`override.py:142`), against `README.md:43`.
- `leaked_timer` (`SettingsIndependent`): a set-up that fails while reverting leaves a manager
  with an armed retry timer and a lock of its own (`override.py:88`); the next set-up's
  manager interleaves with it, against `docs/architecture.md:82-84`.

Behaviours met while modelling that no run is spent on; each is a hazard in `PROJECT.json`:

- `from_config` raises `ValueError` on a mode read with no device id and `async_clear` retries
  `HomeAssistantError` only: with `"empty"` among the events of `faults`, `RevertPending` fails.
- When the refresh after a write fails, the switch judges by the snapshot from before and
  reports as rejected a change the device made. `VerdictIsTrue` leaves such refreshes out.
- With lost answers or crashes an override may be on the device without a record, so
  `NoOrphan` is checked without these; nothing documents otherwise.
- `async_remove` does not wait for a pending `async_save`: a timer may end an override whose
  save is still to come, and the record that this leaves is resumed after a restart. What is
  restored then may be an older choice of the user's, so `EventuallyReverted` promises the
  latest one only for a Home Assistant that was not restarted.
- A start on a device that does not report its reserve remembers none (`override.py:123`), and
  its end restores nothing. Only `faults` has such answers; `OverridesEnd` speaks of the
  override, not of the device.
- A token of another account passes the reauth form; with `Foreign = TRUE` the entry may
  retry for ever and `ReauthRecovers` fails.
- When the series' last point lacks a measurement, the value falls back and the `source`
  attribute still names the series (against `docs/architecture.md:111`). `SourceIsHonest` is
  about whole points.
- An empty list of active days is sent as its default, each of the four on its own
  (`requests.py:105-112`), against `README.md:41`. `ModePanel` allows it; a device of `modes`
  starts with such a list.
- A scheduled refresh that read before a write may end after it: until the next one the
  controls show what was before, and `ShownIsHeld` says just that of it.
- A slow section that was never read is unavailable after a heavy refresh that failed to read
  it and unknown after the light ones that follow, which do not ask for it
  (`coordinator.py:106-124`, against `docs/architecture.md:99-101`). `UnavailableIsAbsent` is
  definite about the sections that every refresh reads.
- A server error after the work was done is retried (`transport.py:218`), so that a write is
  carried out twice although every answer arrived. `RepeatedOnlyWhenUnsettled` allows it, as
  such an answer settles nothing.
- Credentials refused in a status, rather than by an answer without a token, end as
  `captcha_failed` (`auth.py:145`). `ErrorTellsWhy` allows that blame for them alone.
- An active string without a power is counted as none (`models/device.py:199`), and the sum is
  shown over a live read that is right. `SolarNotUnderstated` asks that all active strings
  report.
- With no known time zone in the live read the series asked for is that of the host's date
  (`client.py:43-47`). `BatteryIsTrue` is about that day then.
- Grid charging that the device does not report is shown as off (`mode.py:112`) and sent as
  allowed by a write of any other setting; a reserve it does not report is sent at its
  default. `ModePanel` lets settings in `mute` fall back, and `ModeRunsOnItsFloor` assumes that
  reserves are reported.
- The override sensor is told of a change at the next refresh only (`sensor.py:327`), and PV
  strings not read by the first refresh have no sensors until a reload. `EventuallyCurrent`
  speaks of the entities there are and of the end.
- `cli.py:88` labels battery power measured when the series has no recorded point.
- `set_tou_schedule` with `apply` may enter time-of-use on an empty calendar, which the select
  and `set_operating_mode` refuse. `ModePanel` allows it.

### Fairness

| Run | Assumed | Why |
|---|---|---|
| `faults`, `restart` | a request made again and again succeeds (SF on the successful branch of `Read` and `Write`); refreshes, saves, removals, the clock, timers and set-up retries go on (WF) | a failed restore is retried every five minutes for as long as Home Assistant runs; without success there is nothing the code could do |
| `modes` | a request or refresh ends, well or badly (WF) | httpx has timeouts; success is not assumed |
| `transport` | an attempt ends, the loop wakes a sleeper (WF) | the same |
| `refresh` | a poll that is scheduled begins, reads end (WF), a read made for ever is answered at last (SF) | the coordinator's interval. The live read is SF as it competes with its failure, adding the entities as `success` comes and goes. Nothing is assumed of a schedule that a refused token has ended: `EventuallyCurrent` excepts it |
| `enrollment` | sign-in requests end (WF, no success assumed); a first refresh, a start and a reauth check made for ever get through (SF); Home Assistant retries and carries out orders (WF); a user who is asked again and again pastes a good token (SF) | `SignInEnds` rests on the bounded attempts alone; recovery needs the cloud and the user |

`serial`, `battery`, `readings` and the violations assume none.

## 4. Proofs

Constants are arbitrary, within the assumptions of the modules: any number of tasks,
managers, levels, calls and restarts, any set of events, any integer levels and threshold.
`RecordAssumption` says that `None` is no override's record, as Python's is not.

- `OverrideProofs!TypeCorrect`: `Spec => []TypeOK`. Types alone are not inductive: a step
  uses what `call[t]` holds at its stage and who holds the lock. `TypeInv` adds `TaskOK`
  (what a stage says of the locals), `LockInv` (from the write on a task is at the head of its
  queue) and the data's types.
- `OverrideSafety!SettingsStayIndependent`: `Managers = {m}` implies
  `Spec => SettingsIndependent`, if the device reports its reserve
  (`"unreported" \notin Events`, as in all theorems of `OverrideSafety`; what is not reported is
  sent at a default). The invariant is `Fresh`: the configuration a writer is about
  to send back is what the device holds. It needs `LockInv` (two writers would be two heads of
  one queue), hence one manager; `leaked_timer` shows what two do.
- `OverrideSafety` also proves what `serial` and `restart` check, under what those runs assume:
  one manager, calls that do not overlap each other (`Overlap = FALSE`; the timer's reverts
  overlap whatever they like), any number of tasks, levels, durations and calls.
  - `BaselineIsKept`, `ActiveStaysInForce` and the refinement `PromiseIsKept`, with refusals
    and empty reads (`Events` within `{"reject", "empty"}`). None is inductive. `LineInv` says
    how tasks stand at the lock: a call was made when nothing was in flight, so it is first in
    line and every other in line is a revert; there is one start at the Store at most, and then
    no call at the lock. `SerialInv` adds `Fresh`; `Baseline` (the reserve of the active
    override is the user's, and device and machinery agree but for the one call about to say
    so); `Carries` (what each stage holds of that reserve); and `Behind`: a revert waits behind
    a call only if there is an override to revert. Without it a start after the last revert
    would take its previous reserve from an override no longer there. Restarts are left out,
    of `serial` too: the removal of a reverted override does not wait for the save of one
    started over it, and a restart then resumes the record that the save left (override.py:163,
    a hazard of the list).
  - `StoreHasTheOverride` and `NothingOrphaned`, with restarts as well. `StoreInv` adds to
    `LineInv`: `Stored` (the record that is active is on disk or being saved), `Owned` (an
    override on the device without an active one belongs to a start about to say so, or is
    on disk while Home Assistant is down) and `Keeps` (a clear that removes the record has
    ended the override, and no call starts another before it is done).
- `OverrideProofs!RevertAlwaysPending`: `"empty" \notin Events` implies
  `Spec => []RevertPending`, reloads, crashes and overlapping calls included. A start makes its
  override active before it saves it and arms the timer after; another start may run in
  between. `RevertInv` therefore says of the store's queue that each start waits there once and
  that the last one is the one whose override is active (`SavingOK`, `SaveLast`), and of a
  reverting set-up that its manager is nobody else's (`LoadOK`).
- `OverrideProofs!NobodyIsLeftInLine`, under any faults and overlaps: the line at each lock
  holds the tasks that wait for it or hold it, that at each store those that save, each once.
  `LockInv` says that a writer is first in line; this says that who is first is there, so that
  no error path leaves a lock to a task that has returned.
- `BatteryEnergyProofs`: `TypeCorrect`, `EnergyConserved`, `LagStaysBounded` (of `LagBounded`,
  which follows from a single update and is proved only), `NoEnergyInvented`,
  `RestoredTotalsWereShown`, `TotalsNeverDecrease`, all from one `IInv`: first, last and anchor exist together, what is up shows what it publishes, and
  what was unloaded saved what it showed.

- `TransportProofs`: `TypeCorrect`, `SuccessesAreReal`, `RepeatedOnlyWhenNothingTold` from
  an `IInv` of each request: one that has not ended was carried out, or is on its way, only as
  often as the client was told nothing of it; it can be sent again only below `max_attempts`.
  `HistoryStaysLatest` adds `Latest` (history and record of all calls agree at the end) and
  `Recorded` (a call has ended exactly when it has its one record), for any limit, zero
  included.

- `ModeWritesProofs`: `TypeCorrect`, `PayloadsAreTaken`, `ControlsShowTheDevice`,
  `SwitchTellsTheTruth`, and the refinement `MovesLikeAPanel`. Lemmas on `ModePayload` come
  first: whatever the style, `Parsed` answers mean what the device holds, requests built
  from them are complete, and applying one changes only what it was asked to. `FormForgotten`
  is the one about the validators: what is read depends on what the device holds and leaves
  out, never on the form in which it spells it. The invariant is
  `Typed` (what a scheduled refresh holds included) and `InHand`: a call that has read holds
  the lock, and until it is done with it its configuration is the parsed answer of the device
  as it is now; the second read is what keeps it so after the first
  write of `set_operating_mode`. The refinement also needs `Guarded`: a mode alone is about to
  be written only to a device whose calendar the guard has seen. It assumes nothing
  of the device. `ModeRunsOnItsFloor` adds `Floored` (past the second read the
  reserve is in place) and assumes that reserves are reported.
- `RefreshCycleProofs`: `TypeCorrect`, `UnavailableMeansAbsent`, `SlowNeverBlanked`, for any
  sections and interval. The invariant says that errors are of sections that have no value
  (`ErrorsOK`), that a slow section shown is cached (`CacheOK`), and that while
  refreshes succeed the entities show what the coordinator has (`ShownOK`).
  `UnavailableMeansAbsent` covers slow sections in one direction only, as said above.
- `EnrollmentProofs`: `TypeCorrect`, `ServicesThere`, `ReauthAlwaysPending`, `ErrorsTellWhy`,
  for any systems, users and attempts. `ReauthPending` needs the kinds of the forms
  (`KindsOK`: the reauth form of a system is closed or a reauth); `ErrorTellsWhy` is inductive
  once it is said of the requests in flight as well (`Tells`); credentials denied in a status
  are outside of it.

- `ReadingsProofs`: `TypeCorrect`, `BatteryPowerIsTrue`, `SolarIsNotUnderstated`,
  `SourcesAreHonest`, for any power flows, slots a day and hours, whatever is recorded
  between the reads. The lemma they share, `LatestIsLast`, says what `Latest` finds in a
  day's series: the point of the last slot that has ended, zeros included, or nothing if the day
  has none yet. The invariant remembers of each refresh what it was when it began (`Began`):
  the day is the plant's, or the host's for want of a time zone, the live values are among
  `LiveReads` of the flows then; `Balance` derives battery power from them when they are right. `ReadingsAssumption` says that `None` is
  no reading, as Python's is not.

What liveness rests on beside its fairness is proved where it is an invariant or an action
property:

- A step that ends a wait counts: `TransportProofs!EveryStepCounts` (a request has at
  most twice `max_attempts` steps left), `ModeWritesProofs!TheLineMovesOn` (a call waits
  for at most six steps of requests and refreshes per place in line, and is never overtaken),
  `EnrollmentProofs!SignInsAreBounded` (three requests an attempt and two more). With weak
  fairness of those steps, `RequestEnds`, `CallsEnd` and `SignInEnds` follow.
- Nobody waits for nobody: `ModeWritesProofs!LockIsReleased`,
  `OverrideProofs!NobodyIsLeftInLine`.
- What has been reached lasts: `RefreshCycleProofs!CurrentStays` (current values stay until the
  device changes: a late refresh brings back nothing older, as what it has read so
  far is part of `Settled`), `EnrollmentProofs!RecoveredStays` (a recovered entry stays until
  the next event).
- A bound: `TransportProofs!CarriedOutAtMostAsTried` (no request is carried out, at once or
  late, more often than it was tried).

Only model-checked, as fairness and `ENABLED` are out of the prover's reach:
`OverridesEnd`, `EventuallyReverted`, `CallsEnd`, `RequestEnds`, `EventuallyCurrent`, `SignInEnds`,
`ReauthRecovers`. Every other property of a passing run is a theorem. Those about
`BaselineKept`, `ActiveInForce`, `OverridePromise`, `StoreKeepsPromise` and `NoOrphan` hold
for calls that do not overlap; the violations show what overlapping ones do. No module has a
recursive operator.

## 5. Not modelled

- What the image matching of the captcha finds (a choice), redaction, diagnostics, the
  endpoint registry, build scripts.
- The command line, but for a label `status` gives: it prints what the client returns. Its
  `.env` file is not modelled.
- Parsing of tariff windows, and of the reads other than the mode's and those `Readings`
  needs; of the measurements of a point only solar and battery power.
- Texts on the wire that are not a number (`"true"`, `"20.0"`): a text stands for its digits,
  and a blank one for a setting that is missing.
- Backoff delays; what a call record keeps for display.
- The series section in `RefreshCycle`: it is never cached, `Readings` has it.

## 6. Plan

Done, in this order: `Override` with its promise and proofs, `BatteryEnergy` with its
proofs, `ModeWrites`, `Transport` with its proofs, `RefreshCycle`, `Enrollment`, `Readings`;
then the entities in `RefreshCycle`, the wire in `ModePayload`, the proofs of `ModeWrites`
(refinement included), `RefreshCycle` and `Enrollment`, and of `Override` where calls do not
overlap (refinement included); then the proofs of `Readings`, and of what the liveness
properties rest on; then server errors in `Transport`, the two steps of a refresh in
`ModeWrites`, the schedule in `RefreshCycle`, reserves that are not reported in `Override`
and values that are missing in `Readings`, with their proofs.

Next:

1. The variant behind `OverridesEnd` and `EventuallyReverted`: what a clear and its retries
   have before them, over reloads and crashes.
2. A composition of `RefreshCycle` and `ModeWrites`, for a switch's read-back under an
   overlapping refresh.
3. The command line's file of settings, with an interrupt between truncation and write.

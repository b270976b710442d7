------------------------------ MODULE Override ------------------------------
(***************************************************************************)
(* Timed battery overrides of custom_components/epcube: OverrideManager    *)
(* (override.py) over EpCubeCoordinator.async_write (coordinator.py), with *)
(* the device it writes, Home Assistant's Store file, its one timer, the   *)
(* coroutines in flight, and set-up, unload, reload and crash of the       *)
(* config entry.                                                           *)
(*                                                                         *)
(* A step runs from one await to the next.  Time is a countdown: an end    *)
(* `left' ticks away is due when left = 0, and Tick decrements every copy  *)
(* of it (so the clock itself needs no bound).                             *)
(***************************************************************************)
EXTENDS Integers, Sequences

CONSTANTS
  Tasks,       \* coroutines that may be in flight at once
  Managers,    \* OverrideManager objects alive at once, one per set-up
  Socs,        \* reserve levels of the battery
  Fallback,    \* the one sent in place of a reserve that is not reported
  Others,      \* what the rest of the device configuration may hold
  Durations,   \* durations an override can be asked for, in ticks
  RetryDelay,  \* the five minutes after which a failed restore is retried
  MaxCalls,    \* bound: service and entity calls in a behaviour
  MaxRestarts, \* bound: unloads, restarts and crashes in a behaviour
  Overlap,     \* may a call be issued while an operation is in flight?
  Events,      \* the kinds of event the environment may produce
  None

\* What may go wrong: a request refused ("reject"); a write applied whose answer
\* is lost ("lost"); a mode read answered with no data ("empty") or without the
\* reserve ("unreported"); the entry reloaded ("reload"); Home Assistant restarted
\* between two operations ("restart"), or stopped in the middle of some ("crash").
AllEvents == {"reject", "lost", "empty", "unreported", "reload", "restart", "crash"}

ASSUME ConstantsAssumption ==
  /\ Fallback \in Socs
  /\ Durations \subseteq Nat
  /\ RetryDelay \in Nat
  /\ MaxCalls \in Nat /\ MaxRestarts \in Nat
  /\ Overlap \in BOOLEAN
  /\ Events \subseteq AllEvents
  /\ None \notin Nat \cup Socs \cup Managers \cup Tasks

VARIABLES
  device,      \* the mode configuration stored in the device
  store,       \* the override on disk, or None
  live,        \* the manager of the LOADED entry, or None
  active,      \* active[m]: self.active
  timer,       \* timer[m]: ticks until self._cancel_timer fires, or None
  queue,       \* queue[m]: tasks at the coordinator's lock, its holder first
  saving,      \* saving[m]: tasks in Store.async_save, in order
  pc,          \* pc[t]: the await task t is suspended at
  call,        \* call[t]: its arguments and locals
  calls, restarts,    \* counted against MaxCalls and MaxRestarts
  base,        \* history: the reserve the user chose outside of overrides
  overridden   \* history: the device's reserve is an override's

memory == <<live, active, timer, queue, saving, pc, call>>
bounds == <<calls, restarts>>
history == <<base, overridden>>
vars == <<device, store, memory, bounds, history>>

Ends == Nat \cup {None}
OverrideRecord == [target : Socs, prev : Socs \cup {None}, left : Ends]
Config == [reserve : Socs, other : Others]
Reading == [reserve : Socs \cup {None}, other : Others]
Clears == {"clear", "revert", "load"}
Kinds == Clears \cup {"start", "reserve", "other", "none"}
Call == [kind : Kinds, mgr : Managers \cup {None}, value : Socs \cup Others \cup {None},
         prev : Socs \cup {None}, left : Ends, conf : Reading \cup {None}]
NoCall == [kind |-> "none", mgr |-> None, value |-> None,
           prev |-> None, left |-> None, conf |-> None]

ASSUME RecordAssumption == None \notin OverrideRecord

Init ==
  /\ device \in Config
  /\ store = None
  /\ live = None
  /\ active = [m \in Managers |-> None]
  /\ timer = [m \in Managers |-> None]
  /\ queue = [m \in Managers |-> <<>>]
  /\ saving = [m \in Managers |-> <<>>]
  /\ pc = [t \in Tasks |-> "idle"]
  /\ call = [t \in Tasks |-> NoCall]
  /\ calls = 0 /\ restarts = 0
  /\ base = device.reserve
  /\ overridden = FALSE

-----------------------------------------------------------------------------
(* What the operations share.                                              *)

Idle == \A t \in Tasks : pc[t] = "idle"

\* A service or entity call: refused unless the entry is LOADED.
UserCalls(t) ==
  /\ live # None
  /\ pc[t] = "idle"
  /\ calls < MaxCalls
  /\ Overlap \/ Idle
  /\ calls' = calls + 1
  /\ UNCHANGED restarts

\* async_write called: queue for the lock, whose holder reads the mode first.
EnterWrite(t, m, kind, value, prev, left) ==
  /\ pc' = [pc EXCEPT ![t] = "read"]
  /\ queue' = [queue EXCEPT ![m] = Append(@, t)]
  /\ call' = [call EXCEPT ![t] = [kind |-> kind, mgr |-> m, value |-> value,
                                  prev |-> prev, left |-> left, conf |-> None]]

\* Mutant: async_write without its lock.
HoldsLock_NoLock(t) == TRUE

HoldsLock(t) == LET q == queue[call[t].mgr] IN q # <<>> /\ Head(q) = t
Release(t) == queue' = [queue EXCEPT ![call[t].mgr] = Tail(@)]

Return(t) ==
  /\ pc' = [pc EXCEPT ![t] = "idle"]
  /\ call' = [call EXCEPT ![t] = NoCall]

\* _arm: the one timer of m is disarmed, and armed unless there is no end.
\* Mutant: armed first and then disarmed.
Armed_Swapped(m, left) == [timer EXCEPT ![m] = None]

Armed(m, left) == [timer EXCEPT ![m] = left]

\* async_clear of the override ov of manager m, up to its first await.
BeginClear(t, m, kind, ov) ==
  /\ timer' = [timer EXCEPT ![m] = None]
  /\ \/ /\ ov.prev # None
        /\ EnterWrite(t, m, kind, ov.prev, None, None)
        /\ active' = [active EXCEPT ![m] = ov]
     \/ /\ ov.prev = None
        /\ active' = [active EXCEPT ![m] = None]
        /\ pc' = [pc EXCEPT ![t] = "remove"]
        /\ call' = [call EXCEPT ![t] = [NoCall EXCEPT !.kind = kind, !.mgr = m]]
        /\ UNCHANGED queue

-----------------------------------------------------------------------------
(* Service calls, entity writes, the timer.                                *)

\* force_charge, force_discharge, hold_battery: async_start up to the lock.
Start(t) ==
  /\ UserCalls(t)
  /\ \E soc \in Socs, d \in Durations \cup {None} :
       EnterWrite(t, live, "start", soc,
                  IF active[live] # None THEN active[live].prev ELSE None, d)
  /\ UNCHANGED <<device, store, live, active, timer, saving, history>>

\* clear_override while an override is active (otherwise it returns at once).
Clear(t) ==
  /\ UserCalls(t)
  /\ active[live] # None
  /\ BeginClear(t, live, "clear", active[live])
  /\ UNCHANGED <<device, store, live, saving, history>>

\* A number, select or switch entity writes one setting.
SetReserve(t) ==
  /\ UserCalls(t)
  /\ \E soc \in Socs : EnterWrite(t, live, "reserve", soc, None, None)
  /\ UNCHANGED <<device, store, live, active, timer, saving, history>>

SetOther(t) ==
  /\ UserCalls(t)
  /\ \E v \in Others : EnterWrite(t, live, "other", v, None, None)
  /\ UNCHANGED <<device, store, live, active, timer, saving, history>>

\* The timer of m fires, whether or not m is still the manager of the entry.
Fire(t, m) ==
  /\ timer[m] = 0
  /\ pc[t] = "idle"
  /\ \/ /\ active[m] # None
        /\ BeginClear(t, m, "revert", active[m])
     \/ /\ active[m] = None
        /\ timer' = [timer EXCEPT ![m] = None]
        /\ UNCHANGED <<active, queue, pc, call>>
  /\ UNCHANGED <<device, store, live, saving, bounds, history>>

Elapse(left) == IF left \in Nat \ {0} THEN left - 1 ELSE left
ElapseOf(ov) == IF ov = None THEN None ELSE [ov EXCEPT !.left = Elapse(@)]

Tick ==
  /\ store' = ElapseOf(store)
  /\ active' = [m \in Managers |-> ElapseOf(active[m])]
  /\ timer' = [m \in Managers |-> Elapse(timer[m])]
  /\ call' = [t \in Tasks |-> IF pc[t] = "save" THEN [call[t] EXCEPT !.left = Elapse(@)]
                                                ELSE call[t]]
  /\ UNCHANGED <<device, live, queue, saving, pc, bounds, history>>

-----------------------------------------------------------------------------
(* async_write under the lock: read the mode, write it, refresh.           *)

\* A failed restore is retried.  Mutants: it is not; its time lies in the past.
Retry_Never(c) == timer
Retry_Past(c) == IF c.kind \in Clears THEN Armed(c.mgr, 0 - RetryDelay) ELSE timer

Retry(c) == IF c.kind \in Clears THEN Armed(c.mgr, RetryDelay) ELSE timer

\* HomeAssistantError out of async_write.  A clear arms the retry; when it
\* ran in async_load, set-up fails and the manager is left with that timer.
Fail(t) ==
  /\ Release(t)
  /\ Return(t)
  /\ timer' = Retry(call[t])
  /\ UNCHANGED <<store, live, active, saving, bounds>>

\* The reserve a start remembers, read just before it writes its own, unless
\* it replaces an override.  Mutant: always.
Previous_Always(c, conf) == IF c.kind = "start" THEN conf.reserve ELSE c.prev

Previous(c, conf) ==
  IF c.kind = "start" /\ active[c.mgr] = None THEN conf.reserve ELSE c.prev

\* What the device may answer.
Reported ==
  {device} \cup {conf \in {[device EXCEPT !.reserve = None]} : "unreported" \in Events}

\* The fresh read, and the look at self.active before the write is sent.
Read(t) ==
  /\ pc[t] = "read"
  /\ HoldsLock(t)
  /\ \/ /\ pc' = [pc EXCEPT ![t] = "write"]
        /\ \E conf \in Reported :
             call' = [call EXCEPT ![t].conf = conf, ![t].prev = Previous(call[t], conf)]
        /\ UNCHANGED <<store, live, active, timer, queue, saving, bounds>>
     \/ "reject" \in Events /\ Fail(t)
     \/ \* An empty payload: from_config raises ValueError, which no one handles.
        /\ "empty" \in Events
        /\ Release(t)
        /\ Return(t)
        /\ UNCHANGED <<store, live, active, timer, saving, bounds>>
  /\ UNCHANGED <<device, history>>

\* The complete configuration sent: one setting changed in the one read.
\* Mutant: a partial payload, from which the device resets what is absent.
Payload_Partial(c) ==
  IF c.kind = "other" THEN [reserve |-> Fallback, other |-> c.value]
                      ELSE [c.conf EXCEPT !.reserve = c.value]

Payload(c) ==
  IF c.kind = "other"
  THEN [reserve |-> IF c.conf.reserve = None THEN Fallback ELSE c.conf.reserve, other |-> c.value]
  ELSE [c.conf EXCEPT !.reserve = c.value]

Land(c) ==
  /\ device' = Payload(c)
  /\ overridden' = CASE c.kind = "start" -> TRUE
                     [] c.kind \in Clears -> FALSE
                     [] OTHER -> overridden
  /\ base' = IF c.kind = "reserve" /\ ~overridden THEN c.value ELSE base

Write(t) ==
  /\ pc[t] = "write"
  /\ \/ /\ Land(call[t])
        /\ pc' = [pc EXCEPT ![t] = "refresh"]
        /\ UNCHANGED <<store, live, active, timer, queue, saving, call, bounds>>
     \/ "reject" \in Events /\ Fail(t) /\ UNCHANGED <<device, history>>
     \/ "lost" \in Events /\ Fail(t) /\ Land(call[t])

\* The refresh ends (it never raises), the lock is released, and the caller
\* runs on to its next await.
Refresh(t) ==
  /\ pc[t] = "refresh"
  /\ Release(t)
  /\ LET c == call[t] IN
     \/ /\ c.kind = "start"
        /\ active' = [active EXCEPT ![c.mgr] =
             [target |-> c.value, prev |-> c.prev, left |-> c.left]]
        /\ saving' = [saving EXCEPT ![c.mgr] = Append(@, t)]
        /\ pc' = [pc EXCEPT ![t] = "save"]
        /\ UNCHANGED call
     \/ /\ c.kind \in Clears
        /\ active' = [active EXCEPT ![c.mgr] = None]
        /\ pc' = [pc EXCEPT ![t] = "remove"]
        /\ UNCHANGED <<call, saving>>
     \/ /\ c.kind \in {"reserve", "other"}
        /\ Return(t)
        /\ UNCHANGED <<active, saving>>
  /\ UNCHANGED <<device, store, live, timer, bounds, history>>

\* What as_dict keeps and from_dict gives back.  Mutants: a field is dropped.
Saved_NoPrevious(c) == [target |-> c.value, prev |-> None, left |-> c.left]
Saved_NoEnd(c) == [target |-> c.value, prev |-> c.prev, left |-> None]

Saved(c) == [target |-> c.value, prev |-> c.prev, left |-> c.left]

\* The Store saves one call at a time, then async_start arms the timer.
Save(t) ==
  LET c == call[t] IN
  /\ pc[t] = "save"
  /\ saving[c.mgr] # <<>> /\ Head(saving[c.mgr]) = t
  /\ store' = Saved(c)
  /\ saving' = [saving EXCEPT ![c.mgr] = Tail(@)]
  /\ timer' = Armed(c.mgr, c.left)
  /\ Return(t)
  /\ UNCHANGED <<device, live, active, queue, bounds, history>>

\* Store.async_remove, which does not wait for a save.
Remove(t) ==
  /\ pc[t] = "remove"
  /\ store' = None
  /\ live' = IF call[t].kind = "load" THEN call[t].mgr ELSE live
  /\ Return(t)
  /\ UNCHANGED <<device, active, timer, queue, saving, bounds, history>>

-----------------------------------------------------------------------------
(* The config entry: set-up, unload, restart.                              *)

Unused(m) ==
  /\ m # live
  /\ timer[m] = None
  /\ \A t \in Tasks : call[t].mgr # m

Loading == \E t \in Tasks : call[t].kind = "load"

\* async_setup_entry with a new manager, from the end of Store.async_load.
Setup(t, m) ==
  /\ live = None /\ ~Loading
  /\ Unused(m)
  /\ pc[t] = "idle"
  /\ \/ /\ store = None
        /\ live' = m
        /\ active' = [active EXCEPT ![m] = None]
        /\ UNCHANGED <<timer, queue, pc, call>>
     \/ /\ store # None
        /\ store.left # 0
        /\ live' = m
        /\ active' = [active EXCEPT ![m] = store]
        /\ timer' = Armed(m, store.left)
        /\ UNCHANGED <<queue, pc, call>>
     \/ /\ store # None
        /\ store.left = 0
        /\ BeginClear(t, m, "load", store)
        /\ UNCHANGED live
  /\ UNCHANGED <<device, store, saving, bounds, history>>

\* async_unload_entry: the timer goes, calls in flight go on.
Unload ==
  /\ "reload" \in Events
  /\ restarts < MaxRestarts
  /\ live # None
  /\ live' = None
  /\ timer' = [timer EXCEPT ![live] = None]
  /\ restarts' = restarts + 1
  /\ UNCHANGED <<device, store, active, queue, saving, pc, call, calls, history>>

\* Home Assistant stops: with "restart", between operations only.
Crash ==
  /\ "crash" \in Events \/ ("restart" \in Events /\ Idle)
  /\ restarts < MaxRestarts
  /\ live' = None
  /\ active' = [m \in Managers |-> None]
  /\ timer' = [m \in Managers |-> None]
  /\ queue' = [m \in Managers |-> <<>>]
  /\ saving' = [m \in Managers |-> <<>>]
  /\ pc' = [t \in Tasks |-> "idle"]
  /\ call' = [t \in Tasks |-> NoCall]
  /\ restarts' = restarts + 1
  /\ UNCHANGED <<device, store, calls, history>>

-----------------------------------------------------------------------------
Next ==
  \/ \E t \in Tasks :
       \/ Start(t) \/ Clear(t) \/ SetReserve(t) \/ SetOther(t)
       \/ Read(t) \/ Write(t) \/ Refresh(t) \/ Save(t) \/ Remove(t)
       \/ \E m \in Managers : Fire(t, m) \/ Setup(t, m)
  \/ Tick \/ Unload \/ Crash

Spec == Init /\ [][Next]_vars

\* A request that is made again and again succeeds in the end, a refresh and a
\* disk operation end, time passes, a due timer fires, and set-up is retried.
Fairness ==
  /\ \A t \in Tasks :
       /\ SF_vars(Read(t) /\ pc'[t] = "write")
       /\ SF_vars(Write(t) /\ pc'[t] = "refresh")
       /\ WF_vars(Refresh(t)) /\ WF_vars(Save(t)) /\ WF_vars(Remove(t))
  /\ WF_vars(Tick)
  /\ \A m \in Managers : WF_vars(\E t \in Tasks : Fire(t, m))
  /\ WF_vars(\E t \in Tasks, m \in Managers : Setup(t, m))

FairSpec == Spec /\ Fairness

-----------------------------------------------------------------------------
(* Properties.                                                             *)

\* Types, among them: no countdown ever passes its end, and each task at the lock
\* or at the store carries the arguments it needs there.
TypeOK ==
  /\ device \in Config
  /\ store \in OverrideRecord \cup {None}
  /\ live \in Managers \cup {None}
  /\ active \in [Managers -> OverrideRecord \cup {None}]
  /\ timer \in [Managers -> Ends]
  /\ queue \in [Managers -> Seq(Tasks)]
  /\ saving \in [Managers -> Seq(Tasks)]
  /\ pc \in [Tasks -> {"idle", "read", "write", "refresh", "save", "remove"}]
  /\ call \in [Tasks -> Call]
  /\ calls \in Nat /\ restarts \in Nat
  /\ base \in Socs
  /\ overridden \in BOOLEAN

\* An override's effect never outlives its record: when nothing is in flight and
\* no override is active, the reserve on the device is not an override's.
NoOrphan == Idle /\ live # None /\ active[live] = None => ~overridden

\* The reserve an active override will put back is the one the user had chosen
\* before it, also after re-overriding, and outside of overrides that is the
\* device's reserve (override.py:117-128).
BaselineKept ==
  /\ live # None /\ active[live] # None => active[live].prev = base
  /\ ~overridden => device.reserve = base
  /\ NoOrphan

\* t is a clear that has not finished: it will end the override or arm a retry.
Clearing(t, m) ==
  call[t].mgr = m /\ call[t].kind \in Clears /\ pc[t] \in {"read", "write", "refresh"}

\* An active override that is to end always has something that will end it: the
\* timer, a clear under way, or a start that has yet to arm the timer.  No order
\* of starts, clears, failures and timers orphans it.
RevertPending ==
  live # None /\ active[live] # None /\ active[live].left # None =>
    \/ timer[live] # None
    \/ \E t \in Tasks : Clearing(t, live)
    \/ saving[live] # <<>>

\* Changing one setting never resets another: whoever writes, the settings it was
\* not asked to change stay what they are on the device at that moment.
SettingsIndependent ==
  [][\A t \in Tasks : pc[t] = "write" =>
       IF call[t].kind = "other" THEN device'.reserve = device.reserve
                                 ELSE device'.other = device.other]_vars

\* The override shown as active is the one in force: no revert of an earlier one
\* has undone it on the device, unless a call that did so is just returning.
ActiveInForce ==
  live # None /\ active[live] # None /\ (\A t \in Tasks : pc[t] # "refresh")
    => overridden

\* What a restart will find on disk is the active override.
StoreKeepsPromise ==
  Idle /\ live # None /\ active[live] # None => store = active[live]

\* The timer ends no override before its time.
NotCutShort ==
  [][\A t \in Tasks :
       pc[t] = "refresh" /\ pc'[t] = "remove" /\ call[t].kind = "revert" =>
         LET ov == active[call[t].mgr] IN ov = None \/ ov.left = 0]_vars

\* Once calls and restarts stop, the entry is loaded and no override that is to end
\* stays active, whatever overlapped, was lost or was left by a crash, and however
\* often its end failed.  (What becomes of the device then is EventuallyReverted's.)
OverridesEnd ==
  <>[](live # None /\ (active[live] # None => active[live].left = None))

\* And then the device is given back: unless an override without an end is in force,
\* the last word on its reserve is that of a restore that was carried out, however
\* often restores were refused and Home Assistant restarted; and without a restart it
\* is the reserve the user chose last.  (After one it may be an older choice: a save
\* that ends after the remove of the same override brings it back.)
EventuallyReverted ==
  <>[](/\ live # None
       /\ active[live] # None => active[live].left = None
       /\ active[live] = None => ~ overridden /\ (restarts = 0 => device.reserve = base))

\* Seen from the device, the whole machinery only overrides and restores.
Promise == INSTANCE OverridePromise WITH Reserves <- Socs, reserve <- device.reserve
ImplementsPromise == Promise!Spec
=============================================================================

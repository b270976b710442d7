------------------------------ MODULE ModeWrites ------------------------------
(***************************************************************************)
(* Every way the integration changes the device's mode configuration: the  *)
(* number, select and switch entities and the services set_operating_mode  *)
(* and set_tou_schedule, each a closure run by                             *)
(* EpCubeCoordinator.async_write between a fresh read and a refresh, under *)
(* one lock; and what the entities are shown of it.  What crosses the wire *)
(* is in ModePayload.                                                      *)
(*                                                                         *)
(* A step runs from one await to the next.                                 *)
(***************************************************************************)
EXTENDS ModePayload, Sequences

CONSTANTS
  Tasks,     \* entity and service calls that may be in flight at once
  Initial,   \* bound: the configurations the device may start with
  Mutes,     \* bound: the sets of settings a device may leave out of its answers
  MaxCalls,  \* bound: calls in a behaviour
  Faults     \* what may go wrong

\* A request refused; a write applied whose answer is lost; a write accepted that
\* leaves grid charging as it was; a refresh that fails; one without its mode read.
AllFaults == {"reject", "lost", "ignore", "stale", "modeless"}

Reserves == {"self_reserve", "backup_reserve"}

ASSUME ConfigAssumption == Initial \subseteq Config /\ Mutes \subseteq SUBSET Settings
ASSUME BoundAssumption == MaxCalls \in Nat /\ Faults \subseteq AllFaults

VARIABLES
  device,   \* the mode configuration stored in the device
  mute,     \* the settings it leaves out of its answers
  shown,    \* coordinator.data.mode, None when that section was not read
  polled,   \* the scheduled refresh's mode section, read and yet to be shown, and
            \* what the device held at that time
  success,  \* coordinator.last_update_success
  queue,    \* tasks at _write_lock, its holder first
  pc,       \* pc[t]: the await task t is suspended at
  call,     \* call[t]: what it was asked
  conf,     \* conf[t]: the configuration it read last
  result,   \* result[t]: how its last call ended
  calls     \* counted against MaxCalls

vars == <<device, mute, shown, polled, success, queue, pc, call, conf, result, calls>>

Stages == {"idle", "read", "reserve", "reread", "write", "refresh", "publish"}
Results == {"none", "done", "failed", "rejected"}
Calls ==
  [kind : {"number"}, field : Reserves, soc : Socs]
    \cup [kind : {"switch"}, allowed : BOOLEAN]
    \cup [kind : {"mode"}, mode : Modes, soc : Socs \cup {None}]
    \cup {c \in [kind : {"schedule"}, fill : SUBSET (Lists \ Daylight),
                 clear : SUBSET (Lists \ Daylight), apply : BOOLEAN] : c.fill \cap c.clear = {}}

Init ==
  /\ device \in Initial /\ mute \in Mutes
  /\ shown = Parsed(Answer(device, mute, "text")) /\ success = TRUE /\ polled = None
  /\ queue = <<>>
  /\ pc = [t \in Tasks |-> "idle"]
  /\ call = [t \in Tasks |-> None]
  /\ conf = [t \in Tasks |-> None]
  /\ result = [t \in Tasks |-> "none"]
  /\ calls = 0

-----------------------------------------------------------------------------
\* The reserve set_operating_mode sets is the one of the mode it switches to.
Floor(mode) == IF mode = "backup" THEN "backup_reserve" ELSE "self_reserve"

\* set_tou_schedule: a list not given keeps its windows, an empty one clears them; the
\* lists for daylight saving time cannot be given.
Scheduled(c, config) ==
  WithChange(Request(config, IF c.apply THEN "time_of_use" ELSE None, ~ c.apply),
             "calendar", (config.calendar.val \ c.clear) \cup c.fill)

\* What call c sends at a stage, having read config.
Payload(c, stage, config) ==
  CASE stage = "reserve" -> WithChange(Request(config, None, TRUE), Floor(c.mode), c.soc)
    [] stage # "reserve" /\ c.kind = "mode" -> Request(config, c.mode, FALSE)
    [] c.kind = "number" -> WithChange(Request(config, None, TRUE), c.field, c.soc)
    [] c.kind = "switch" -> WithChange(Request(config, None, TRUE), "grid", c.allowed)
    [] c.kind = "schedule" -> Scheduled(c, config)

\* The guard of the select and of set_operating_mode.  Mutant: there is none.
Refused_Never(c, config) == FALSE

Refused(c, config) ==
  c.kind = "mode" /\ c.mode = "time_of_use" /\ ~ HasTouSchedule(config)

-----------------------------------------------------------------------------
\* An entity is only called while it is available, a service at any time.
Available == success /\ shown # None

Enter(t) ==
  /\ pc[t] = "idle"
  /\ calls < MaxCalls
  /\ calls' = calls + 1
  /\ \E c \in Calls :
       /\ c.kind \in {"number", "switch"} => Available
       /\ call' = [call EXCEPT ![t] = c]
  /\ queue' = Append(queue, t)
  /\ pc' = [pc EXCEPT ![t] = "read"]
  /\ result' = [result EXCEPT ![t] = "none"]
  /\ UNCHANGED <<device, mute, shown, polled, success, conf>>

\* Mutant: async_write without its lock.
HoldsLock_NoLock(t) == TRUE

HoldsLock(t) == queue # <<>> /\ Head(queue) = t

\* Mutant: the lock is not released.
Return_Locked(t, how) ==
  /\ pc' = [pc EXCEPT ![t] = "idle"]
  /\ result' = [result EXCEPT ![t] = how]
  /\ call' = [call EXCEPT ![t] = None]
  /\ conf' = [conf EXCEPT ![t] = None]
  /\ UNCHANGED queue

\* The lock is released and the call returns or raises.
Return(t, how) ==
  /\ pc' = [pc EXCEPT ![t] = "idle"]
  /\ result' = [result EXCEPT ![t] = how]
  /\ call' = [call EXCEPT ![t] = None]
  /\ conf' = [conf EXCEPT ![t] = None]
  /\ queue' = Tail(queue)

\* The stage after a read or a write.  Mutants: no second read before the mode;
\* the reserve is written even if none was asked for.
Following_NoReread(t) ==
  CASE pc[t] = "read" -> IF call[t].kind = "mode" /\ call[t].soc # None THEN "reserve" ELSE "write"
    [] pc[t] \in {"reserve", "reread"} -> "write"
    [] pc[t] = "write" -> "refresh"
    [] pc[t] = "refresh" -> "publish"

Following_AlwaysReserve(t) ==
  CASE pc[t] = "read" -> IF call[t].kind = "mode" THEN "reserve" ELSE "write"
    [] pc[t] = "reserve" -> "reread"
    [] pc[t] = "reread" -> "write"
    [] pc[t] = "write" -> "refresh"
    [] pc[t] = "refresh" -> "publish"

Following(t) ==
  CASE pc[t] = "read" -> IF call[t].kind = "mode" /\ call[t].soc # None THEN "reserve" ELSE "write"
    [] pc[t] = "reserve" -> "reread"
    [] pc[t] = "reread" -> "write"
    [] pc[t] = "write" -> "refresh"
    [] pc[t] = "refresh" -> "publish"

\* device.mode(): the guard looks at the first read only.
Read(t) ==
  /\ pc[t] \in {"read", "reread"}
  /\ HoldsLock(t)
  /\ UNCHANGED <<device, mute, shown, polled, success, calls>>
  /\ \/ "reject" \in Faults /\ Return(t, "failed")
     \/ \E style \in Styles :
          LET config == Parsed(Answer(device, mute, style)) IN
          IF pc[t] = "read" /\ Refused(call[t], config) THEN Return(t, "failed")
          ELSE /\ conf' = [conf EXCEPT ![t] = config]
               /\ pc' = [pc EXCEPT ![t] = Following(t)]
               /\ UNCHANGED <<queue, call, result>>

Land(t) ==
  LET config == Applied(device, Payload(call[t], pc[t], conf[t])) IN
  \/ device' = config
  \/ "ignore" \in Faults /\ device' = [config EXCEPT !.grid = device.grid]

Write(t) ==
  /\ pc[t] \in {"reserve", "write"}
  /\ UNCHANGED <<mute, shown, polled, success, calls>>
  /\ \/ "reject" \in Faults /\ Return(t, "failed") /\ UNCHANGED device
     \/ "lost" \in Faults /\ Return(t, "failed") /\ Land(t)
     \/ /\ Land(t)
        /\ pc' = [pc EXCEPT ![t] = Following(t)]
        /\ UNCHANGED <<queue, call, conf, result>>

\* A refresh of the coordinator, which never raises, is over at once for the controls
\* when it has nothing to show: it fails and the data is kept, or reads all but the
\* mode section.
Blank ==
  \/ "stale" \in Faults /\ success' = FALSE /\ UNCHANGED shown
  \/ "modeless" \in Faults /\ success' = TRUE /\ shown' = None

\* The switch reads its setting back; the others are done.  Mutant: it does not.
Verdict_Trusting(c, mode) == "done"

Verdict(c, mode) ==
  IF c.kind = "switch" /\ mode # None /\ GridChargingAllowed(mode) # c.allowed THEN "rejected" ELSE "done"

\* The refresh at the end of a call reads the mode section.
Refresh(t) ==
  /\ pc[t] = "refresh"
  /\ UNCHANGED <<device, mute, polled, calls>>
  /\ \/ Blank /\ Return(t, Verdict(call[t], shown'))
     \/ /\ \E style \in Styles :
             conf' = [conf EXCEPT ![t] = Parsed(Answer(device, mute, style))]
        /\ pc' = [pc EXCEPT ![t] = Following(t)]
        /\ UNCHANGED <<shown, success, queue, call, result>>

\* It ends when the other sections have been read too: the data is replaced, and what
\* follows in the call finds it so.
Publish(t) ==
  /\ pc[t] = "publish"
  /\ shown' = conf[t] /\ success' = TRUE
  /\ Return(t, Verdict(call[t], shown'))
  /\ UNCHANGED <<device, mute, polled, calls>>

\* The scheduled refresh, which does not wait for the lock, reads the mode section.
Poll ==
  /\ polled = None
  /\ \/ /\ \E style \in Styles :
             polled' = [mode |-> Parsed(Answer(device, mute, style)), held |-> device]
        /\ UNCHANGED <<shown, success>>
     \/ Blank /\ UNCHANGED polled
  /\ UNCHANGED <<device, mute, queue, pc, call, conf, result, calls>>

\* It ends, whatever has been written meanwhile.
PollEnds ==
  /\ polled # None
  /\ shown' = polled.mode /\ success' = TRUE
  /\ polled' = None
  /\ UNCHANGED <<device, mute, queue, pc, call, conf, result, calls>>

Next ==
  \/ Poll \/ PollEnds
  \/ \E t \in Tasks : Enter(t) \/ Read(t) \/ Write(t) \/ Refresh(t) \/ Publish(t)

Spec == Init /\ [][Next]_vars

\* Every request ends, one way or the other, and so does every refresh.
FairSpec ==
  Spec /\ \A t \in Tasks : WF_vars(Read(t) \/ Write(t) \/ Refresh(t) \/ Publish(t))

-----------------------------------------------------------------------------
\* Types; what is written to the device is a complete configuration: a call that
\* sets no reserve never writes one.
TypeOK ==
  /\ device \in Config /\ mute \in Mutes
  /\ shown # None => DOMAIN shown = Settings
  /\ polled # None => DOMAIN polled.mode = Settings /\ polled.held \in Config
  /\ success \in BOOLEAN
  /\ queue \in Seq(Tasks)
  /\ pc \in [Tasks -> Stages]
  /\ call \in [Tasks -> Calls \cup {None}]
  /\ \A t \in Tasks : conf[t] # None <=> pc[t] \notin {"idle", "read"}
  /\ result \in [Tasks -> Results]
  /\ calls \in Nat

\* Calls in flight together change the device one after the other, each only in
\* what it was asked to change, whatever form the device answers in, and the mode
\* alone is never switched to a calendar that is empty but for daylight saving time:
\* the control panel of ModePanel.
Panel == INSTANCE ModePanel
ImplementsPanel == Panel!Spec

\* The device takes every request that is about to be sent: nothing is missing from
\* it and nothing is in a form the endpoint refuses, whatever form it was read in
\* (requests.py:45, 97-100).
PayloadTaken ==
  \A t \in Tasks : pc[t] \in {"reserve", "write"} =>
    LET payload == Payload(call[t], pc[t], conf[t]) IN
    Accepted(payload) /\ Settings \ {"ev"} \subseteq DOMAIN payload.body

\* When a call ends with the refresh it made, the controls show what the device holds
\* then, whatever the other calls and the scheduled refresh are at; a scheduled refresh
\* may end after a write that it read before, and then shows what the device held
\* before.  None goes unknown, or off, because of the form the device spells it in
\* (coordinator.py async_write, number.py:82-93, select.py:44-48, switch.py:41-44).
ShownIsHeld ==
  [][\A s \in {"mode", "grid", "self_reserve", "backup_reserve"} \ mute :
       /\ \A t \in Tasks :
            pc[t] = "publish" /\ pc'[t] = "idle" => Displayed(shown', s) = device[s]
       /\ polled # None /\ polled' = None => Displayed(shown', s) = polled.held[s]]_vars

\* set_operating_mode with a reserve never runs the mode on another floor: the
\* reserve it asked for is in place when the mode is (services.py:166-172).
ModeOnFloor ==
  [][\A t \in Tasks :
       pc[t] = "write" /\ pc'[t] = "refresh" /\ call[t].kind = "mode" /\ call[t].soc # None =>
         device'.mode = call[t].mode /\ device'[Floor(call[t].mode)] = call[t].soc]_vars

\* A change of grid charging is reported as made if and only if the device made it,
\* as long as the refresh after it could read it, whatever a scheduled refresh shows
\* meanwhile (switch.py:55-61).
VerdictIsTrue ==
  [][\A t \in Tasks :
       pc[t] = "publish" /\ pc'[t] = "idle" /\ call[t].kind = "switch" /\ "grid" \notin mute
       => (result'[t] = "done" <=> device.grid = call[t].allowed)]_vars

\* No call waits for the lock for ever, whatever the ones before it ran into.
CallsEnd == \A t \in Tasks : (pc[t] # "idle") ~> (pc[t] = "idle")
=============================================================================

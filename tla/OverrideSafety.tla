---------------------------- MODULE OverrideSafety ----------------------------
(***************************************************************************)
(* The safety properties of Override that the code establishes, and what   *)
(* each of them rests on: the lock of the one coordinator, and the order   *)
(* in which overrides are saved and timers armed.                          *)
(***************************************************************************)
EXTENDS OverrideProofs

-----------------------------------------------------------------------------
(* Settings, under one manager.                                            *)

\* The configuration a writer is about to send back is what the device holds.
Fresh == \A t \in Tasks : pc[t] = "write" => call[t].conf = device

\* With one manager there is one lock, so one writer.
LEMMA OneWriter ==
  ASSUME NEW m, Managers = {m}, TypeInv,
         NEW t \in Tasks, NEW u \in Tasks, pc[t] = "write", pc[u] = "write"
  PROVE  t = u
<1>1. call[t].mgr = m /\ call[u].mgr = m
  BY DEF TypeInv, CoroutineInv, TaskOK, Call
<1>2. HoldsLock(t) /\ HoldsLock(u)
  BY DEF TypeInv, CoroutineInv, LockInv
<1>. QED
  BY <1>1, <1>2 DEF HoldsLock

\* Only a write changes the device, and only a read brings a task to its write.
LEMMA DeviceFrame ==
  ASSUME TypeInv, "unreported" \notin Events, [Next]_vars, ~ \E t \in Tasks : Write(t)
  PROVE  /\ device' = device
         /\ \A u \in Tasks : pc'[u] = "write" =>
              \/ pc[u] = "write" /\ call'[u] = call[u]
              \/ call'[u].conf = device
<1> DEFINE Frame == /\ device' = device
                    /\ \A u \in Tasks : pc'[u] = "write" =>
                         \/ pc[u] = "write" /\ call'[u] = call[u]
                         \/ call'[u].conf = device
<1>1. CASE UNCHANGED vars
  BY <1>1 DEF vars, memory
<1>2. ASSUME NEW t \in Tasks,
             Start(t) \/ SetReserve(t) \/ SetOther(t)
      PROVE  Frame
  BY <1>2 DEF Start, SetReserve, SetOther, EnterWrite, TypeInv, CoroutineInv
<1>3. ASSUME NEW t \in Tasks, Clear(t) PROVE Frame
  BY <1>3 DEF Clear, BeginClear, EnterWrite, TypeInv, CoroutineInv
<1>4. ASSUME NEW t \in Tasks, NEW m \in Managers, Fire(t, m) PROVE Frame
  BY <1>4 DEF Fire, BeginClear, EnterWrite, TypeInv, CoroutineInv
<1>5. ASSUME NEW t \in Tasks, Read(t) PROVE Frame
  <2>1. device' = device
    BY <1>5 DEF Read
  <2>2. CASE /\ pc' = [pc EXCEPT ![t] = "write"]
             /\ \E conf \in Reported :
                  call' = [call EXCEPT ![t].conf = conf, ![t].prev = Previous(call[t], conf)]
    <3>. PICK conf \in Reported :
           call' = [call EXCEPT ![t].conf = conf, ![t].prev = Previous(call[t], conf)]
      BY <2>2
    <3>1. call'[t] = [call[t] EXCEPT !.conf = conf, !.prev = Previous(call[t], conf)] /\ conf = device
      BY <2>2, AnswerRead DEF TypeInv, DataOK, CoroutineInv
    <3>2. call'[t].conf = device
      BY <3>1 DEF TypeInv, CoroutineInv, Call
    <3>. QED
      BY <2>1, <2>2, <3>2 DEF TypeInv, CoroutineInv
  <2>3. CASE Return(t)
    BY <2>1, <2>3 DEF Return, TypeInv, CoroutineInv
  <2>. QED
    BY <1>5, <2>2, <2>3 DEF Read, Fail
<1>6. ASSUME NEW t \in Tasks, Refresh(t) \/ Save(t) \/ Remove(t) PROVE Frame
  BY <1>6 DEF Refresh, Save, Remove, Return, TypeInv, CoroutineInv
<1>7. ASSUME NEW t \in Tasks, NEW m \in Managers, Setup(t, m) PROVE Frame
  BY <1>7 DEF Setup, BeginClear, EnterWrite, TypeInv, CoroutineInv
<1>8. CASE Tick
  BY <1>8 DEF Tick, TypeInv, CoroutineInv
<1>9. CASE Unload
  BY <1>9 DEF Unload
<1>10. CASE Crash
  BY <1>10 DEF Crash
<1>. QED
  BY <1>1, <1>2, <1>3, <1>4, <1>5, <1>6, <1>7, <1>8, <1>9, <1>10 DEF Next

\* What a write does to the device: nothing, or it lands the payload.
LEMMA WriteFrame ==
  ASSUME TypeInv, NEW t \in Tasks, Write(t)
  PROVE  /\ pc[t] = "write" /\ pc'[t] # "write"
         /\ \A u \in Tasks : u # t => pc'[u] = pc[u] /\ call'[u] = call[u]
         /\ device' = device \/ device' = Payload(call[t])
BY DEF Write, Land, Fail, Return, TypeInv, CoroutineInv, history

\* While a task is at its write, what it read is still what the device holds: the
\* one task that could change it waits for the lock (coordinator.py:130-141).
LEMMA FreshStep ==
  ASSUME NEW m, Managers = {m}, "unreported" \notin Events, TypeInv, Fresh, [Next]_vars
  PROVE  Fresh'
<1>1. CASE ~ \E t \in Tasks : Write(t)
  BY <1>1, DeviceFrame DEF Fresh
<1>2. ASSUME NEW t \in Tasks, Write(t) PROVE Fresh'
  <2>1. ASSUME NEW u \in Tasks, pc'[u] = "write" PROVE FALSE
    <3>1. u # t /\ pc[u] = "write" /\ pc[t] = "write"
      BY <1>2, <2>1, WriteFrame
    <3>. QED
      BY <3>1, OneWriter
  <2>. QED
    BY <2>1 DEF Fresh
<1>. QED
  BY <1>1, <1>2

\* A step of the system, seen from a writer that was asked to change one setting.
LEMMA SettingStep ==
  ASSUME NEW m, Managers = {m}, "unreported" \notin Events, TypeInv, Fresh, [Next]_vars,
         NEW t \in Tasks, pc[t] = "write"
  PROVE  IF call[t].kind = "other" THEN device'.reserve = device.reserve
                                   ELSE device'.other = device.other
<1>1. CASE ~ \E u \in Tasks : Write(u)
  BY <1>1, DeviceFrame
<1>2. ASSUME NEW u \in Tasks, Write(u)
      PROVE  IF call[t].kind = "other" THEN device'.reserve = device.reserve
                                       ELSE device'.other = device.other
  <2>1. t = u /\ call[t].conf = device
    BY <1>2, WriteFrame, OneWriter DEF Fresh
  <2>2. device \in Config
    BY DEF TypeInv, DataOK
  <2>. QED
    BY <1>2, <2>1, <2>2, WriteFrame, ConstantsAssumption DEF Payload, Config
<1>. QED
  BY <1>1, <1>2

\* Under one manager, which is one coordinator and one lock, a write never
\* resets a setting it was not asked to change (coordinator.py async_write).
\* A failed set-up leaves a second manager: the run leaked_timer shows what is lost.
\* The device is taken to report its reserve, in place of which a default is sent.
THEOREM SettingsStayIndependent ==
  ASSUME NEW m, Managers = {m}, "unreported" \notin Events
  PROVE  Spec => SettingsIndependent
<1>1. Init => Fresh
  BY DEF Init, Fresh
<1>2. TypeInv /\ Fresh /\ [Next]_vars => Fresh'
  BY FreshStep
<1>3. TypeInv /\ Fresh /\ [Next]_vars =>
        [\A t \in Tasks : pc[t] = "write" =>
           IF call[t].kind = "other" THEN device'.reserve = device.reserve
                                     ELSE device'.other = device.other]_vars
  BY SettingStep
<1>. QED
  BY <1>1, <1>2, <1>3, Invariance, PTL DEF Spec, SettingsIndependent

-----------------------------------------------------------------------------
(* Overrides, under one manager and while calls do not overlap, so that    *)
(* only the timer's reverts run beside them.                               *)

\* A task that waits for the lock or holds it is there for an override that ends, or for a
\* call, which was made when nothing else was in flight and so is first in line.
Ending(t) == AtLock(t) /\ call[t].kind \in Clears
Calling(t) == AtLock(t) /\ call[t].kind \notin Clears

\* Who is in line is at the lock, and in line once.
Lined(m) ==
  /\ \A i \in 1 .. Len(queue[m]) : AtLock(queue[m][i])
  /\ \A i, j \in 1 .. Len(queue[m]) : queue[m][i] = queue[m][j] => i = j

\* The line at the lock while calls do not overlap: there is at most one call, and it
\* is first; there is at most one start at the Store, and then no call at the lock.
LineInv(m) ==
  /\ TypeInv /\ Lined(m)
  /\ \A t \in Tasks : Calling(t) => HoldsLock(t)
  /\ \A t, u \in Tasks : pc[t] = "save" => ~ Calling(u) /\ (pc[u] = "save" => t = u)

\* Before the entry is loaded there is nothing.
Fallow(m) ==
  live = None => Idle /\ store = None /\ active[m] = None /\ timer[m] = None

\* The user's reserve is the one to be restored, or on the device; an override is on
\* the device as long as it is active, but for a call about to say so.
Baseline(m) ==
  /\ active[m] # None => active[m].prev = base
  /\ ~ overridden => device.reserve = base
  /\ overridden /\ active[m] = None =>
       \E t \in Tasks : pc[t] = "refresh" /\ call[t].kind = "start"
  /\ ~ overridden /\ active[m] # None =>
       \E t \in Tasks : pc[t] = "refresh" /\ call[t].kind \in Clears

\* What a task at the lock carries.
Carries(t, m) ==
  /\ Ending(t) => call[t].value = base
  /\ AtLock(t) /\ call[t].kind = "start" =>
       call[t].prev = base \/ (pc[t] = "read" /\ call[t].prev = None /\ active[m] = None)
  /\ pc[t] = "refresh" /\ call[t].kind = "start" => overridden
  /\ pc[t] = "refresh" /\ call[t].kind \in Clears => ~ overridden

\* A revert is only ever behind a call if there is an override to revert.
Behind(m) == (\E t, u \in Tasks : Calling(t) /\ Ending(u)) => active[m] # None

SerialInv(m) ==
  /\ LineInv(m) /\ Fresh
  /\ Fallow(m) /\ Baseline(m) /\ Behind(m)
  /\ \A t \in Tasks : Carries(t, m)

\* The holder of the one lock is the only one.
LEMMA OneHolder ==
  ASSUME NEW m, Managers = {m}, TypeInv,
         NEW t \in Tasks, NEW u \in Tasks, AtLock(t), AtLock(u), HoldsLock(t), HoldsLock(u)
  PROVE  t = u
<1>1. call[t].mgr = m /\ call[u].mgr = m
  BY DEF AtLock, TypeInv, CoroutineInv, TaskOK, Call
<1>. QED
  BY <1>1 DEF HoldsLock

\* A step that keeps the line, with who is in it.
LEMMA LinedKept ==
  ASSUME NEW m \in Managers, TypeInv, Lined(m), queue'[m] = queue[m],
         \A u \in Tasks : AtLock(u) => AtLock(u)'
  PROVE  Lined(m)'
<1>1. queue[m] \in Seq(Tasks)
  BY DEF TypeInv, CoroutineInv
<1>2. \A i \in 1 .. Len(queue[m]) : queue[m][i] \in Tasks
  BY <1>1, ElementOfSeq
<1>. QED
  BY <1>2 DEF Lined

\* A task joins the line.
LEMMA LinedJoin ==
  ASSUME NEW m \in Managers, TypeInv, Lined(m), NEW t \in Tasks, ~ AtLock(t), AtLock(t)',
         queue'[m] = Append(queue[m], t),
         \A u \in Tasks : u # t => pc'[u] = pc[u]
  PROVE  Lined(m)'
<1>1. queue[m] \in Seq(Tasks)
  BY DEF TypeInv, CoroutineInv
<1>2. \A i \in 1 .. Len(queue[m]) : queue[m][i] \in Tasks /\ queue[m][i] # t
  BY <1>1, ElementOfSeq DEF Lined
<1>3. /\ Len(queue'[m]) = Len(queue[m]) + 1 /\ Len(queue[m]) \in Nat
      /\ \A i \in 1 .. Len(queue[m]) : queue'[m][i] = queue[m][i]
      /\ queue'[m][Len(queue[m]) + 1] = t
  BY <1>1, AppendProperties, LenProperties
<1>. QED
  BY <1>2, <1>3 DEF Lined, AtLock

\* The holder of the lock leaves the line.
LEMMA LinedLeave ==
  ASSUME NEW m \in Managers, TypeInv, Lined(m), NEW t \in Tasks,
         queue[m] # <<>>, Head(queue[m]) = t, queue'[m] = Tail(queue[m]),
         \A u \in Tasks : u # t => pc'[u] = pc[u]
  PROVE  Lined(m)'
<1>1. queue[m] \in Seq(Tasks) /\ \A i \in 1 .. Len(queue[m]) : queue[m][i] \in Tasks
  BY ElementOfSeq DEF TypeInv, CoroutineInv
<1>2. /\ Len(queue'[m]) = Len(queue[m]) - 1 /\ Len(queue[m]) \in Nat
      /\ \A i \in 1 .. Len(queue'[m]) : queue'[m][i] = queue[m][i + 1]
      /\ queue[m][1] = t
  BY <1>1, HeadTailProperties, LenProperties
<1>3. \A i \in 1 .. Len(queue'[m]) : i + 1 \in 1 .. Len(queue[m]) /\ i + 1 # 1
  BY <1>2
<1>4. 1 \in 1 .. Len(queue[m])
  BY <1>1, EmptySeq, LenProperties
<1>5. \A i \in 1 .. Len(queue'[m]) : queue'[m][i] \in Tasks /\ queue'[m][i] # t
  BY <1>1, <1>2, <1>3, <1>4 DEF Lined
<1>6. \A i \in 1 .. Len(queue'[m]) : pc'[queue'[m][i]] \in {"read", "write", "refresh"}
  BY <1>2, <1>3, <1>5 DEF Lined, AtLock
<1>7. \A i, j \in 1 .. Len(queue'[m]) : queue'[m][i] = queue'[m][j] => i = j
  BY <1>2, <1>3 DEF Lined
<1>. QED
  BY <1>6, <1>7 DEF Lined, AtLock

\* Nobody is in line when nothing is in flight.
LEMMA IdleLine ==
  ASSUME NEW m \in Managers, TypeInv, Lined(m), Idle
  PROVE  queue[m] = <<>>
<1>1. queue[m] \in Seq(Tasks)
  BY DEF TypeInv, CoroutineInv
<1>2. queue[m] # <<>> => 1 \in 1 .. Len(queue[m]) /\ queue[m][1] \in Tasks
  BY <1>1, EmptySeq, LenProperties, ElementOfSeq
<1>. QED
  BY <1>2 DEF Lined, AtLock, Idle

\* A step that keeps the line.
LEMMA LineFrame ==
  ASSUME NEW m \in Managers, LineInv(m), TypeInv', queue' = queue,
         \A u \in Tasks : AtLock(u)' <=> AtLock(u),
         \A u \in Tasks : AtLock(u) =>
           call'[u].mgr = call[u].mgr /\ call'[u].kind = call[u].kind,
         \A u \in Tasks : pc'[u] = "save" => pc[u] = "save"
  PROVE  LineInv(m)'
<1>1. Lined(m)'
  BY LinedKept DEF LineInv
<1>. QED
  BY <1>1 DEF LineInv, Calling, HoldsLock

\* A task queues for the lock: a call only when nothing else is in flight.
LEMMA LineEnter ==
  ASSUME NEW m, Managers = {m}, LineInv(m), TypeInv', NEW t \in Tasks, pc[t] = "idle",
         NEW kind, NEW value, NEW prev, NEW left,
         EnterWrite(t, m, kind, value, prev, left),
         kind \notin Clears => Idle
  PROVE  LineInv(m)'
<1>1. /\ pc'[t] = "read" /\ call'[t].mgr = m /\ call'[t].kind = kind
      /\ \A u \in Tasks : u # t => call'[u] = call[u] /\ pc'[u] = pc[u]
      /\ queue'[m] = Append(queue[m], t) /\ queue[m] \in Seq(Tasks)
  BY DEF EnterWrite, LineInv, TypeInv, CoroutineInv
<1>2. Lined(m)'
  BY <1>1, LinedJoin DEF LineInv, AtLock
<1>3. ASSUME NEW u \in Tasks, u # t, Calling(u)' PROVE HoldsLock(u)'
  <2>1. Calling(u) /\ HoldsLock(u) /\ call[u].mgr = m
    BY <1>1, <1>3
    DEF LineInv, Calling, AtLock, TypeInv, CoroutineInv, TaskOK, Call
  <2>. QED
    BY <1>1, <1>3, <2>1, QueueFacts DEF HoldsLock
<1>4. Calling(t)' => HoldsLock(t)'
  <2>1. kind \notin Clears => queue[m] = <<>>
    BY IdleLine DEF LineInv
  <2>2. Append(<<>>, t) # <<>> /\ Head(Append(<<>>, t)) = t
    <3>1. <<>> \in Seq(Tasks) /\ Len(<<>>) = 0
      BY EmptySeq
    <3>. QED
      BY <3>1, AppendProperties, HeadTailProperties, EmptySeq
  <2>. QED
    BY <1>1, <2>1, <2>2 DEF Calling, HoldsLock
<1>. QED
  BY <1>1, <1>2, <1>3, <1>4 DEF LineInv, Calling, AtLock, Idle

\* The holder of the lock leaves the line, a start for the Store.
LEMMA LineLeave ==
  ASSUME NEW m, Managers = {m}, LineInv(m), TypeInv', NEW t \in Tasks, AtLock(t),
         HoldsLock(t), Release(t),
         \A u \in Tasks : u # t => call'[u] = call[u] /\ pc'[u] = pc[u],
         ~ AtLock(t)', pc'[t] = "save" => Calling(t)
  PROVE  LineInv(m)'
<1>1. call[t].mgr = m
  BY DEF LineInv, TypeInv, CoroutineInv, AtLock, TaskOK, Call
<1>2. queue[m] # <<>> /\ Head(queue[m]) = t /\ queue'[m] = Tail(queue[m])
  BY <1>1 DEF HoldsLock, Release, LineInv, TypeInv, CoroutineInv
<1>3. Lined(m)'
  BY <1>2, LinedLeave DEF LineInv
<1>4. ASSUME NEW u \in Tasks PROVE ~ Calling(u)'
  BY <1>4, OneHolder DEF LineInv, Calling, AtLock
<1>. QED
  BY <1>3, <1>4 DEF LineInv

\* Every step keeps it, faults, reloads and crashes included.
LEMMA LineStep ==
  ASSUME NEW m, Managers = {m}, Overlap = FALSE, LineInv(m), [Next]_vars
  PROVE  LineInv(m)'
<1>1. TypeInv'
  BY TypeStep DEF LineInv
<1>2. CASE UNCHANGED <<queue, pc, call>>
  BY <1>1, <1>2, LineFrame DEF AtLock
<1>3. live \in {m, None}
  BY DEF LineInv, TypeInv, DataOK
<1>4. ASSUME NEW t \in Tasks, NEW kind \in Clears, NEW ov, pc[t] = "idle", BeginClear(t, m, kind, ov)
      PROVE  LineInv(m)'
  <2>1. CASE pc' = [pc EXCEPT ![t] = "remove"] /\ UNCHANGED queue
             /\ call' = [call EXCEPT ![t] = [NoCall EXCEPT !.kind = kind, !.mgr = m]]
    BY <1>1, <1>4, <2>1, LineFrame DEF AtLock, LineInv, TypeInv, CoroutineInv
  <2>2. CASE EnterWrite(t, m, kind, ov.prev, None, None)
    BY <1>1, <1>4, <2>2, LineEnter
  <2>. QED
    BY <1>4, <2>1, <2>2 DEF BeginClear
<1>5. ASSUME NEW t \in Tasks, UserCalls(t) PROVE Idle /\ live = m /\ pc[t] = "idle"
  BY <1>3, <1>5 DEF UserCalls
<1>6. ASSUME NEW t \in Tasks, Start(t) \/ SetReserve(t) \/ SetOther(t) PROVE LineInv(m)'
  <2>1. Idle /\ live = m /\ pc[t] = "idle"
    BY <1>5, <1>6 DEF Start, SetReserve, SetOther
  <2>2. PICK kind, value, prev, left : EnterWrite(t, m, kind, value, prev, left)
    BY <1>6, <2>1 DEF Start, SetReserve, SetOther
  <2>. QED
    BY <1>1, <2>1, <2>2, LineEnter
<1>7. ASSUME NEW t \in Tasks, Clear(t) PROVE LineInv(m)'
  BY <1>4, <1>5, <1>7 DEF Clear, Clears
<1>8. ASSUME NEW t \in Tasks, Fire(t, m) PROVE LineInv(m)'
  BY <1>2, <1>4, <1>8 DEF Fire, Clears
<1>9. ASSUME NEW t \in Tasks, Setup(t, m) PROVE LineInv(m)'
  BY <1>2, <1>4, <1>9 DEF Setup, Clears
<1>10. ASSUME NEW t \in Tasks, AtLock(t), HoldsLock(t), Release(t), Return(t) PROVE LineInv(m)'
  <2>1. pc'[t] = "idle" /\ \A u \in Tasks : u # t => call'[u] = call[u] /\ pc'[u] = pc[u]
    BY <1>10, ReturnFacts DEF LineInv, TypeInv
  <2>. QED
    BY <1>1, <1>10, <2>1, LineLeave DEF AtLock
<1>11. ASSUME NEW t \in Tasks, Read(t) PROVE LineInv(m)'
  <2>1. CASE /\ pc' = [pc EXCEPT ![t] = "write"] /\ queue' = queue
             /\ \E conf \in Reported :
                  call' = [call EXCEPT ![t].conf = conf, ![t].prev = Previous(call[t], conf)]
    <3>. PICK conf \in Reported :
           call' = [call EXCEPT ![t].conf = conf, ![t].prev = Previous(call[t], conf)]
      BY <2>1
    <3>1. call'[t] = [call[t] EXCEPT !.conf = conf, !.prev = Previous(call[t], conf)] /\ call[t] \in Call
      BY <2>1 DEF LineInv, TypeInv, CoroutineInv
    <3>2. /\ call'[t].mgr = call[t].mgr /\ call'[t].kind = call[t].kind
          /\ \A u \in Tasks : u # t => call'[u] = call[u] /\ pc'[u] = pc[u]
      BY <2>1, <3>1 DEF Call, LineInv, TypeInv, CoroutineInv
    <3>3. pc'[t] = "write" /\ pc[t] = "read"
      BY <1>11, <2>1 DEF Read, LineInv, TypeInv, CoroutineInv
    <3>. QED
      BY <1>1, <2>1, <3>2, <3>3, LineFrame DEF AtLock
  <2>. QED
    BY <1>10, <1>11, <2>1 DEF Read, Fail, AtLock
<1>12. ASSUME NEW t \in Tasks, Write(t) PROVE LineInv(m)'
  <2>1. pc[t] = "write" /\ HoldsLock(t)
    BY <1>12 DEF Write, LineInv, TypeInv, CoroutineInv, LockInv
  <2>2. CASE pc' = [pc EXCEPT ![t] = "refresh"] /\ UNCHANGED <<queue, call>>
    BY <1>1, <2>1, <2>2, LineFrame DEF AtLock, LineInv, TypeInv, CoroutineInv
  <2>. QED
    BY <1>10, <1>12, <2>1, <2>2 DEF Write, Fail, AtLock
<1>13. ASSUME NEW t \in Tasks, Refresh(t) PROVE LineInv(m)'
  <2>1. pc[t] = "refresh" /\ HoldsLock(t) /\ Release(t)
    BY <1>13 DEF Refresh, LineInv, TypeInv, CoroutineInv, LockInv
  <2>2. CASE /\ pc' = [pc EXCEPT ![t] = "save"] \/ pc' = [pc EXCEPT ![t] = "remove"]
             /\ call' = call
             /\ pc' = [pc EXCEPT ![t] = "save"] => call[t].kind = "start"
    <3>1. /\ pc'[t] \in {"save", "remove"} /\ \A u \in Tasks : u # t => pc'[u] = pc[u]
          /\ pc'[t] = "save" => call[t].kind = "start"
      BY <2>2 DEF LineInv, TypeInv, CoroutineInv
    <3>. QED
      BY <1>1, <2>1, <2>2, <3>1, LineLeave DEF AtLock, Calling, Clears
  <2>3. CASE Return(t)
    BY <1>10, <2>1, <2>3 DEF AtLock
  <2>4. \/ pc' = [pc EXCEPT ![t] = "save"] /\ call' = call /\ call[t].kind = "start"
        \/ pc' = [pc EXCEPT ![t] = "remove"] /\ call' = call
        \/ Return(t)
    BY <1>13 DEF Refresh
  <2>5. [pc EXCEPT ![t] = "remove"] # [pc EXCEPT ![t] = "save"]
    BY DEF LineInv, TypeInv, CoroutineInv
  <2>. QED
    BY <2>2, <2>3, <2>4, <2>5
<1>14. ASSUME NEW t \in Tasks, Save(t) \/ Remove(t) PROVE LineInv(m)'
  <2>1. pc[t] \in {"save", "remove"} /\ Return(t) /\ queue' = queue
    BY <1>14 DEF Save, Remove
  <2>2. pc'[t] = "idle" /\ \A u \in Tasks : u # t => call'[u] = call[u] /\ pc'[u] = pc[u]
    BY <2>1, ReturnFacts DEF LineInv, TypeInv
  <2>. QED
    BY <1>1, <2>1, <2>2, LineFrame DEF AtLock
<1>15. CASE Tick
  BY <1>1, <1>15, LineFrame DEF Tick, AtLock
<1>16. CASE Crash
  <2>1. queue'[m] = <<>> /\ Len(queue'[m]) = 0
    BY <1>16, EmptySeq DEF Crash
  <2>. QED
    BY <1>1, <1>16, <2>1 DEF Crash, LineInv, Lined, Calling, AtLock
<1>17. CASE UNCHANGED vars \/ Unload
  BY <1>2, <1>17 DEF vars, memory, Unload
<1>. QED
  BY <1>6, <1>7, <1>8, <1>9, <1>11, <1>12, <1>13, <1>14, <1>15, <1>16, <1>17 DEF Next

LEMMA LineInit ==
  ASSUME NEW m \in Managers, Init
  PROVE  LineInv(m)
<1>1. queue[m] = <<>> /\ Len(queue[m]) = 0
  BY EmptySeq DEF Init
<1>. QED
  BY <1>1, InitType DEF Init, LineInv, Lined, Calling, AtLock

\* A task queues for the lock: a call when nothing else is in flight, or the end of
\* an override that is active.
LEMMA SerialEnter ==
  ASSUME NEW m, Managers = {m}, SerialInv(m), LineInv(m)', Fresh', NEW t \in Tasks,
         pc[t] = "idle", live = m,
         NEW kind \in Kinds \ {"none"}, NEW value, NEW prev, NEW left,
         EnterWrite(t, m, kind, value, prev, left),
         UNCHANGED <<device, live, active, history>>,
         kind \in Clears => active[m] # None /\ value = base,
         kind \notin Clears => Idle,
         kind = "start" => prev = base \/ (prev = None /\ active[m] = None)
  PROVE  SerialInv(m)'
<1> USE ConstantsAssumption
<1>1. /\ pc'[t] = "read"
      /\ call'[t] = [kind |-> kind, mgr |-> m, value |-> value,
                     prev |-> prev, left |-> left, conf |-> None]
      /\ \A u \in Tasks : u # t => call'[u] = call[u] /\ pc'[u] = pc[u]
      /\ queue'[m] = Append(queue[m], t) /\ queue[m] \in Seq(Tasks)
  BY DEF EnterWrite, SerialInv, LineInv, TypeInv, CoroutineInv
<1>3. Fallow(m)'
  BY DEF Fallow
<1>4. Baseline(m)'
  BY <1>1 DEF SerialInv, Baseline, history
<1>5. Behind(m)'
  BY <1>1 DEF SerialInv, Behind, Calling, Ending, AtLock, Idle
<1>6. ASSUME NEW u \in Tasks, u # t PROVE Carries(u, m)'
  BY <1>1, <1>6 DEF SerialInv, Carries, Ending, AtLock, history
<1>7. Carries(t, m)'
  BY <1>1 DEF Carries, Ending, AtLock, history, Clears
<1>. QED
  BY <1>3, <1>4, <1>5, <1>6, <1>7 DEF SerialInv

\* The holder of the lock gives it up and changes nothing else.
LEMMA SerialLeave ==
  ASSUME NEW m, Managers = {m}, SerialInv(m), LineInv(m)', Fresh', NEW t \in Tasks,
         AtLock(t), HoldsLock(t), Release(t), Return(t),
         UNCHANGED <<device, live, active, history>>,
         pc[t] = "refresh" => call[t].kind \notin Clears \cup {"start"}
  PROVE  SerialInv(m)'
<1>1. /\ pc'[t] = "idle" /\ call'[t] = NoCall
      /\ \A u \in Tasks : u # t => call'[u] = call[u] /\ pc'[u] = pc[u]
  BY ReturnFacts DEF SerialInv, LineInv, TypeInv
<1>2. Fallow(m)'
  BY DEF SerialInv, Fallow, Idle, AtLock
<1>3. Baseline(m)'
  BY <1>1 DEF SerialInv, Baseline, history
<1>4. Behind(m)'
  BY <1>1 DEF SerialInv, Behind, Calling, Ending, AtLock
<1>5. ASSUME NEW u \in Tasks PROVE Carries(u, m)'
  BY <1>1 DEF SerialInv, Carries, Calling, Ending, AtLock, history
<1>. QED
  BY <1>2, <1>3, <1>4, <1>5 DEF SerialInv

\* The read, and the reserve a start remembers.
LEMMA SerialRead ==
  ASSUME NEW m, Managers = {m}, SerialInv(m), LineInv(m)', Fresh', NEW t \in Tasks,
         pc[t] = "read", HoldsLock(t),
         pc' = [pc EXCEPT ![t] = "write"],
         NEW conf \in Reported, "unreported" \notin Events,
         call' = [call EXCEPT ![t].conf = conf, ![t].prev = Previous(call[t], conf)],
         UNCHANGED <<device, live, active, queue, history>>
  PROVE  SerialInv(m)'
<1> USE ConstantsAssumption
<1>1. call[t] \in Call /\ call[t].mgr = m
  BY DEF SerialInv, LineInv, TypeInv, CoroutineInv, TaskOK, Call
<1>2. call'[t] = [call[t] EXCEPT !.conf = conf, !.prev = Previous(call[t], conf)] /\ conf = device
  BY AnswerRead DEF SerialInv, LineInv, TypeInv, DataOK, CoroutineInv
<1>3. /\ pc'[t] = "write"
      /\ call'[t].kind = call[t].kind /\ call'[t].value = call[t].value
      /\ call'[t].mgr = m /\ call'[t].prev = Previous(call[t], conf)
      /\ \A u \in Tasks : u # t => call'[u] = call[u] /\ pc'[u] = pc[u]
  BY <1>1, <1>2 DEF Call, SerialInv, LineInv, TypeInv, CoroutineInv
<1>5. Fallow(m)'
  BY DEF SerialInv, Fallow, Idle
<1>6. Baseline(m)'
  BY <1>3 DEF SerialInv, Baseline, history
<1>7. Behind(m)'
  BY <1>3 DEF SerialInv, Behind, Calling, Ending, AtLock
<1>8. call[t].kind = "start" => Previous(call[t], conf) = base
  <2>1. active[m] = None => ~ overridden
    <3>1. ASSUME NEW u \in Tasks, pc[u] = "refresh" PROVE FALSE
      BY <3>1, OneHolder DEF SerialInv, LineInv, TypeInv, CoroutineInv, LockInv, AtLock
    <3>. QED
      BY <3>1 DEF SerialInv, Baseline
  <2>2. Carries(t, m) /\ Baseline(m) /\ device.reserve \in Socs
    BY DEF SerialInv, LineInv, TypeInv, DataOK, Config
  <2>. QED
    BY <1>1, <1>2, <2>1, <2>2 DEF Previous, Carries, Baseline, AtLock
<1>9. ASSUME NEW u \in Tasks PROVE Carries(u, m)'
  BY <1>1, <1>3, <1>8 DEF SerialInv, Carries, Calling, Ending, AtLock, history
<1>. QED
  BY <1>5, <1>6, <1>7, <1>9 DEF SerialInv

\* What a write does to reserve, base and overridden: a step of OverridePromise.
LEMMA SerialPromise ==
  ASSUME NEW m, Managers = {m}, SerialInv(m), NEW t \in Tasks, pc[t] = "write", Land(call[t])
  PROVE  /\ call[t].kind = "start" =>
              device'.reserve \in Socs /\ overridden' = TRUE /\ base' = base
         /\ call[t].kind \in Clears =>
              device'.reserve = base /\ overridden' = FALSE /\ base' = base
         /\ call[t].kind = "reserve" =>
              /\ device'.reserve \in Socs /\ overridden' = overridden
              /\ base' = IF overridden THEN base ELSE device'.reserve
         /\ call[t].kind = "other" =>
              device'.reserve = device.reserve /\ overridden' = overridden /\ base' = base
         /\ call[t].kind \in {"start", "reserve", "other"} \cup Clears
<1>1. /\ call[t].conf = device /\ device \in Config /\ call[t] \in Call /\ TaskOK(t)
      /\ Carries(t, m) /\ overridden \in BOOLEAN
  BY DEF SerialInv, LineInv, Fresh, TypeInv, DataOK, CoroutineInv
<1>2. call[t].kind # "other" => device'.reserve = call[t].value /\ call[t].value \in Socs
  BY <1>1 DEF Land, Payload, Config, TaskOK
<1>3. call[t].kind = "other" => device'.reserve = device.reserve
  BY <1>1, ConstantsAssumption DEF Land, Payload, Config
<1>4. call[t].kind \in {"start", "reserve", "other"} \cup Clears
  BY <1>1 DEF TaskOK, Call, Kinds
<1>5. call[t].kind \in Clears => call[t].value = base
  BY <1>1 DEF Carries, Ending, AtLock
<1>. QED
  BY <1>1, <1>2, <1>3, <1>4, <1>5 DEF Land, Clears

\* The write: of a start, of the end of an override, or of one setting.
LEMMA SerialWrite ==
  ASSUME NEW m, Managers = {m}, SerialInv(m), LineInv(m)', Fresh', NEW t \in Tasks,
         pc[t] = "write", Land(call[t]),
         pc' = [pc EXCEPT ![t] = "refresh"],
         UNCHANGED <<live, active, queue, call>>
  PROVE  SerialInv(m)'
<1> USE ConstantsAssumption
<1>1. /\ pc'[t] = "refresh"
      /\ \A u \in Tasks : u # t => pc'[u] = pc[u]
      /\ HoldsLock(t) /\ call[t].mgr = m /\ overridden \in BOOLEAN
  BY DEF SerialInv, LineInv, TypeInv, DataOK, CoroutineInv, LockInv, TaskOK, Call
<1>3. Fallow(m)'
  BY DEF SerialInv, Fallow, Idle
<1>4. Behind(m)'
  BY <1>1 DEF SerialInv, Behind, Calling, Ending, AtLock
<1>5. ASSUME NEW u \in Tasks, u # t PROVE pc[u] # "refresh" /\ ~ Calling(u)
  BY <1>1, <1>5, OneHolder
  DEF SerialInv, LineInv, TypeInv, CoroutineInv, LockInv, AtLock, Calling
<1>6. ~ overridden => active[m] = None
  BY <1>1, <1>5 DEF SerialInv, Baseline
<1>7. overridden => active[m] # None
  BY <1>1, <1>5 DEF SerialInv, Baseline
<1>8. Baseline(m)'
  <2>1. active[m] # None => base' = base
    BY <1>6, SerialPromise, <1>1
  <2>2. ~ overridden' => device'.reserve = base'
    BY <1>1, SerialPromise DEF SerialInv, Baseline
  <2>3. overridden' /\ active[m] = None => call[t].kind = "start"
    BY <1>7, SerialPromise
  <2>4. ~ overridden' /\ active[m] # None => call[t].kind \in Clears
    BY <1>6, SerialPromise
  <2>. QED
    BY <1>1, <2>1, <2>2, <2>3, <2>4 DEF SerialInv, Baseline
<1>9. ASSUME NEW u \in Tasks, u # t PROVE Carries(u, m)'
  <2>1. Ending(u) => base' = base
    <3>1. CASE call[t].kind = "reserve" /\ ~ overridden
      BY <1>6, <3>1 DEF SerialInv, Behind, Calling, AtLock, Clears
    <3>. QED
      BY <3>1, SerialPromise
  <2>. QED
    BY <1>1, <1>5, <1>9, <2>1 DEF SerialInv, Carries, Calling, Ending, AtLock
<1>10. Carries(t, m)'
  <2>1. Ending(t) \/ call[t].kind = "start" => base' = base
    BY SerialPromise DEF Ending, Clears
  <2>. QED
    BY <1>1, <2>1, SerialPromise
    DEF SerialInv, Carries, Calling, Ending, AtLock, Clears
<1>. QED
  BY <1>3, <1>4, <1>8, <1>9, <1>10 DEF SerialInv

\* A start makes its override the active one, or an override has ended.
LEMMA SerialSettle ==
  ASSUME NEW m, Managers = {m}, SerialInv(m), LineInv(m)', Fresh', NEW t \in Tasks,
         pc[t] = "refresh", Release(t), call[t].kind \in Clears \cup {"start"},
         pc'[t] \in {"save", "remove"}, call' = call,
         \A u \in Tasks : u # t => pc'[u] = pc[u],
         UNCHANGED <<device, live, history>>,
         call[t].kind = "start" => active'[m] # None /\ active'[m].prev = call[t].prev,
         call[t].kind \in Clears => active'[m] = None
  PROVE  SerialInv(m)'
<1>1. HoldsLock(t) /\ call[t].mgr = m
  BY DEF SerialInv, LineInv, TypeInv, DataOK, CoroutineInv, LockInv, TaskOK, Call
<1>4. Fallow(m)'
  BY DEF SerialInv, Fallow, Idle
<1>5. ASSUME NEW u \in Tasks, u # t PROVE pc[u] # "refresh" /\ ~ Calling(u)
  BY <1>1, <1>5, OneHolder
  DEF SerialInv, LineInv, TypeInv, CoroutineInv, LockInv, AtLock, Calling
<1>6. Behind(m)'
  BY <1>5 DEF Behind, Calling, AtLock
<1>7. Baseline(m)'
  BY DEF SerialInv, Baseline, Carries, AtLock, history, Clears
<1>8. ASSUME NEW u \in Tasks PROVE Carries(u, m)'
  <2>1. CASE u = t
    BY <2>1 DEF Carries, Calling, Ending, AtLock
  <2>2. CASE u # t
    BY <1>5, <2>2 DEF SerialInv, Carries, Calling, Ending, AtLock, history, Clears
  <2>. QED
    BY <2>1, <2>2
<1>. QED
  BY <1>4, <1>6, <1>7, <1>8 DEF SerialInv

\* A step away from the lock.
LEMMA SerialFrame ==
  ASSUME NEW m, Managers = {m}, SerialInv(m), LineInv(m)', Fresh', Fallow(m)',
         \A u \in Tasks : AtLock(u)' <=> AtLock(u),
         \A u \in Tasks : AtLock(u) =>
           /\ pc'[u] = pc[u] /\ call'[u].kind = call[u].kind
           /\ call'[u].value = call[u].value /\ call'[u].prev = call[u].prev,
         UNCHANGED <<device, history>>,
         active'[m] = None <=> active[m] = None,
         active[m] # None => active'[m].prev = active[m].prev
  PROVE  SerialInv(m)'
<1>2. Behind(m)'
  BY DEF SerialInv, Behind, Calling, Ending
<1>3. Baseline(m)'
  BY DEF SerialInv, Baseline, history, AtLock
<1>4. ASSUME NEW u \in Tasks PROVE Carries(u, m)'
  <2>1. CASE AtLock(u)
    BY <2>1 DEF SerialInv, Carries, Calling, Ending, AtLock, history
  <2>2. CASE ~ AtLock(u)
    BY <2>2 DEF Carries, Calling, Ending, AtLock
  <2>. QED
    BY <2>1, <2>2
<1>. QED
  BY <1>2, <1>3, <1>4 DEF SerialInv

\* The prefix of async_clear, with an override that has a reserve to restore.
LEMMA SerialClear ==
  ASSUME NEW m, Managers = {m}, SerialInv(m), LineInv(m)', Fresh', NEW t \in Tasks,
         pc[t] = "idle", live = m, NEW kind \in Clears, active[m] # None,
         BeginClear(t, m, kind, active[m]),
         UNCHANGED <<device, live, history>>
  PROVE  SerialInv(m)'
<1> USE ConstantsAssumption
<1>1. active[m].prev = base /\ base \in Socs /\ base # None
  BY DEF SerialInv, LineInv, Baseline, TypeInv, DataOK
<1>2. EnterWrite(t, m, kind, base, None, None) /\ active' = active
  BY <1>1 DEF BeginClear, SerialInv, LineInv, TypeInv, DataOK
<1>3. kind \in Kinds \ {"none"} /\ kind # "start"
  BY DEF Clears, Kinds
<1>. QED
  BY <1>2, <1>3, SerialEnter

\* A task away from the lock returns.
LEMMA SerialReturn ==
  ASSUME NEW m, Managers = {m}, SerialInv(m), LineInv(m)', Fresh', NEW t \in Tasks,
         pc[t] \in {"save", "remove"}, Return(t), live' \in {live, call[t].mgr},
         UNCHANGED <<device, active, queue, history>>
  PROVE  SerialInv(m)'
<1> USE ConstantsAssumption
<1>1. /\ pc'[t] = "idle" /\ call[t].mgr = m
      /\ \A u \in Tasks : u # t => call'[u] = call[u] /\ pc'[u] = pc[u]
  BY ReturnFacts DEF SerialInv, LineInv, TypeInv, CoroutineInv, TaskOK, Call
<1>2. live # None /\ m # None
  BY DEF SerialInv, Fallow, Idle
<1>3. Fallow(m)'
  BY <1>1, <1>2 DEF Fallow
<1>. QED
  BY <1>1, <1>3, SerialFrame DEF AtLock

LEMMA SerialTick ==
  ASSUME NEW m, Managers = {m}, SerialInv(m), LineInv(m)', Fresh', Tick
  PROVE  SerialInv(m)'
<1> USE ConstantsAssumption
<1>1. \A u \in Tasks : AtLock(u) => call'[u] = call[u]
  BY DEF Tick, AtLock
<1>2. active[m] \in OverrideRecord \cup {None} /\ timer[m] \in Ends
  BY DEF SerialInv, LineInv, TypeInv, DataOK
<1>3. active'[m] = ElapseOf(active[m]) /\ timer'[m] = Elapse(timer[m])
  BY DEF Tick
<1>4. active[m] = None => active'[m] = None
  BY <1>3 DEF ElapseOf
<1>5. active[m] # None => active'[m] # None /\ active'[m].prev = active[m].prev
  <2>1. active[m] # None => active'[m] = [active[m] EXCEPT !.left = Elapse(@)]
    BY <1>3 DEF ElapseOf
  <2>2. active[m] # None => active'[m] \in OverrideRecord /\ active'[m].prev = active[m].prev
    <3>1. \A left \in Ends : Elapse(left) \in Ends
      BY DEF Elapse, Ends
    <3>. QED
      BY <1>2, <2>1, <3>1 DEF OverrideRecord
  <2>. QED
    BY <2>2, RecordAssumption
<1>6. Fallow(m)'
  BY <1>3, <1>4 DEF SerialInv, Fallow, Tick, Idle, Elapse, ElapseOf
<1>. QED
  BY <1>1, <1>4, <1>5, <1>6, SerialFrame DEF Tick, AtLock

\* Every step keeps the invariant.
LEMMA SerialStep ==
  ASSUME NEW m, Managers = {m}, Overlap = FALSE, Events \subseteq {"reject", "empty"},
         SerialInv(m), [Next]_vars
  PROVE  SerialInv(m)'
<1> USE ConstantsAssumption
<1>1. LineInv(m)' /\ Fresh'
  BY LineStep, FreshStep DEF SerialInv, LineInv
<1>2. live \in {m, None} /\ m # None
  BY DEF SerialInv, LineInv, TypeInv, DataOK
<1>3. CASE UNCHANGED vars
  <2>1. UNCHANGED <<device, queue, active, pc, call, history, live, store, timer>>
    BY <1>3 DEF vars, memory
  <2>2. Fallow(m)'
    BY <2>1 DEF SerialInv, Fallow, Idle
  <2>. QED
    BY <1>1, <2>1, <2>2, SerialFrame DEF AtLock
<1>4. ASSUME NEW t \in Tasks, UserCalls(t) PROVE Idle /\ live = m /\ pc[t] = "idle"
  BY <1>2, <1>4 DEF UserCalls
<1>5. ASSUME NEW t \in Tasks, Start(t) PROVE SerialInv(m)'
  <2>1. Idle /\ live = m /\ pc[t] = "idle"
    BY <1>4, <1>5 DEF Start
  <2> DEFINE prev == IF active[m] # None THEN active[m].prev ELSE None
  <2>2. PICK soc \in Socs, d \in Durations \cup {None} :
          EnterWrite(t, m, "start", soc, prev, d)
    BY <1>5, <2>1 DEF Start
  <2>3. prev = base \/ (prev = None /\ active[m] = None)
    BY DEF SerialInv, Baseline
  <2>4. UNCHANGED <<device, live, active, history>>
    BY <1>5 DEF Start
  <2>5. "start" \in Kinds \ {"none"} /\ "start" \notin Clears
    BY DEF Kinds, Clears
  <2> HIDE DEF prev
  <2>. QED
    BY <1>1, <2>1, <2>2, <2>3, <2>4, <2>5, SerialEnter
<1>6. ASSUME NEW t \in Tasks, Clear(t) PROVE SerialInv(m)'
  BY <1>1, <1>4, <1>6, SerialClear DEF Clear, Clears
<1>7. ASSUME NEW t \in Tasks, SetReserve(t) \/ SetOther(t) PROVE SerialInv(m)'
  <2>1. Idle /\ live = m /\ pc[t] = "idle" /\ UNCHANGED <<device, live, active, history>>
    BY <1>4, <1>7 DEF SetReserve, SetOther
  <2>2. PICK kind, value : kind \in {"reserve", "other"} /\ EnterWrite(t, m, kind, value, None, None)
    BY <1>7, <2>1 DEF SetReserve, SetOther
  <2>3. kind \in Kinds \ {"none"} /\ kind \notin Clears /\ kind # "start"
    BY <2>2 DEF Kinds, Clears
  <2>. QED
    BY <1>1, <2>1, <2>2, <2>3, SerialEnter
<1>8. ASSUME NEW t \in Tasks, Fire(t, m) PROVE SerialInv(m)'
  <2>1. timer[m] = 0 /\ pc[t] = "idle" /\ UNCHANGED <<device, store, live, saving, history>>
    BY <1>8 DEF Fire
  <2>2. live = m
    BY <1>2, <2>1 DEF SerialInv, Fallow
  <2>3. CASE active[m] # None /\ BeginClear(t, m, "revert", active[m])
    BY <1>1, <2>1, <2>2, <2>3, SerialClear DEF Clears
  <2>4. CASE timer' = [timer EXCEPT ![m] = None] /\ UNCHANGED <<active, queue, pc, call>>
    <3>1. Fallow(m)'
      BY <1>2, <2>1, <2>2 DEF Fallow
    <3>. QED
      BY <1>1, <2>1, <2>4, <3>1, SerialFrame DEF AtLock
  <2>. QED
    BY <1>8, <2>3, <2>4 DEF Fire
<1>9. ASSUME NEW t \in Tasks, Read(t) PROVE SerialInv(m)'
  <2>1. pc[t] = "read" /\ HoldsLock(t) /\ UNCHANGED <<device, history>>
    BY <1>9 DEF Read
  <2>2. CASE Release(t) /\ Return(t) /\ UNCHANGED <<live, active>>
    BY <1>1, <2>1, <2>2, SerialLeave DEF AtLock
  <2>. QED
    BY <1>1, <1>9, <2>1, <2>2, SerialRead DEF Read, Fail
<1>10. ASSUME NEW t \in Tasks, Write(t) PROVE SerialInv(m)'
  <2>1. pc[t] = "write" /\ HoldsLock(t)
    BY <1>10 DEF Write, SerialInv, LineInv, TypeInv, CoroutineInv, LockInv
  <2>2. CASE Release(t) /\ Return(t) /\ UNCHANGED <<device, live, active, history>>
    BY <1>1, <2>1, <2>2, SerialLeave DEF AtLock
  <2>. QED
    BY <1>1, <1>10, <2>1, <2>2, SerialWrite DEF Write, Fail
<1>11. ASSUME NEW t \in Tasks, Refresh(t) PROVE SerialInv(m)'
  <2>1. /\ pc[t] = "refresh" /\ Release(t) /\ UNCHANGED <<device, live, history>>
        /\ HoldsLock(t) /\ call[t].mgr = m /\ call[t] \in Call /\ TaskOK(t)
        /\ active \in [Managers -> OverrideRecord \cup {None}]
    BY <1>11 DEF Refresh, SerialInv, LineInv, TypeInv, DataOK, CoroutineInv, LockInv, TaskOK, Call
  <2>2. CASE /\ call[t].kind = "start"
             /\ active' = [active EXCEPT ![call[t].mgr] =
                  [target |-> call[t].value, prev |-> call[t].prev, left |-> call[t].left]]
             /\ pc' = [pc EXCEPT ![t] = "save"]
             /\ UNCHANGED call
    <3>1. active'[m] = [target |-> call[t].value, prev |-> call[t].prev, left |-> call[t].left]
      BY <2>1, <2>2
    <3>2. active'[m] \in OverrideRecord
      BY <2>1, <2>2, <3>1 DEF TaskOK, Call, OverrideRecord
    <3>3. active'[m] # None /\ active'[m].prev = call[t].prev
      BY <3>1, <3>2, RecordAssumption
    <3>4. pc'[t] = "save" /\ \A u \in Tasks : u # t => pc'[u] = pc[u]
      BY <2>2 DEF SerialInv, LineInv, TypeInv, CoroutineInv
    <3>. QED
      BY <1>1, <2>1, <2>2, <3>3, <3>4, SerialSettle DEF Clears
  <2>3. CASE /\ call[t].kind \in Clears
             /\ active' = [active EXCEPT ![call[t].mgr] = None]
             /\ pc' = [pc EXCEPT ![t] = "remove"]
             /\ UNCHANGED call
    <3>1. active'[m] = None
      BY <2>1, <2>3
    <3>2. pc'[t] = "remove" /\ \A u \in Tasks : u # t => pc'[u] = pc[u]
      BY <2>3 DEF SerialInv, LineInv, TypeInv, CoroutineInv
    <3>. QED
      BY <1>1, <2>1, <2>3, <3>1, <3>2, SerialSettle DEF Clears
  <2>4. CASE call[t].kind \in {"reserve", "other"} /\ Return(t) /\ UNCHANGED active
    BY <1>1, <2>1, <2>4, SerialLeave DEF AtLock, Clears
  <2>. QED
    BY <1>11, <2>2, <2>3, <2>4 DEF Refresh
<1>12. ASSUME NEW t \in Tasks, Save(t) \/ Remove(t) PROVE SerialInv(m)'
  BY <1>1, <1>12, SerialReturn DEF Save, Remove
<1>13. ASSUME NEW t \in Tasks, Setup(t, m) PROVE SerialInv(m)'
  <2>1. live = None /\ store = None /\ active[m] = None /\ UNCHANGED <<device, history>>
    BY <1>13 DEF Setup, SerialInv, Fallow
  <2>2. live' = m /\ active' = [active EXCEPT ![m] = None] /\ UNCHANGED <<queue, pc, call>>
    BY <1>13, <2>1 DEF Setup
  <2>3. active'[m] = None /\ Fallow(m)'
    BY <1>2, <2>2 DEF SerialInv, LineInv, TypeInv, DataOK, Fallow
  <2>. QED
    BY <1>1, <2>1, <2>2, <2>3, SerialFrame DEF AtLock
<1>14. CASE Tick
  BY <1>1, <1>14, SerialTick
<1>15. ~ Unload /\ ~ Crash
  BY DEF Unload, Crash
<1>. QED
  BY <1>3, <1>5, <1>6, <1>7, <1>8, <1>9, <1>10, <1>11, <1>12, <1>13, <1>14, <1>15 DEF Next

\* It holds initially and from then on.
LEMMA SerialInvariance ==
  ASSUME NEW m, Managers = {m}, Overlap = FALSE, Events \subseteq {"reject", "empty"}
  PROVE  Spec => []SerialInv(m)
<1>1. Init => SerialInv(m)
  <2>1. SUFFICES ASSUME Init PROVE SerialInv(m)
    OBVIOUS
  <2>. QED
    BY <2>1, LineInit
    DEF Init, SerialInv, Fresh, Fallow, Baseline, Behind, Carries, Calling, Ending, AtLock, Idle
<1>2. SerialInv(m) /\ [Next]_vars => SerialInv(m)'
  BY SerialStep
<1>. QED
  BY <1>1, <1>2, PTL DEF Spec

\* An override puts back the reserve the user had chosen, also after re-overriding and
\* with any reverts, refused requests and empty reads beside; outside of overrides the
\* device has it (override.py:117-128).  The run two_starts shows what overlap does.
THEOREM BaselineIsKept ==
  ASSUME NEW m, Managers = {m}, Overlap = FALSE, Events \subseteq {"reject", "empty"}
  PROVE  Spec => []BaselineKept
<1>1. SerialInv(m) => BaselineKept
  <2>1. SerialInv(m) => live \in {m, None}
    BY DEF SerialInv, LineInv, TypeInv, DataOK
  <2>. QED
    BY <2>1 DEF SerialInv, Baseline, BaselineKept, NoOrphan, Idle
<1>. QED
  BY <1>1, SerialInvariance, PTL

\* The override shown as active is the one on the device.
THEOREM ActiveStaysInForce ==
  ASSUME NEW m, Managers = {m}, Overlap = FALSE, Events \subseteq {"reject", "empty"}
  PROVE  Spec => []ActiveInForce
<1>1. SerialInv(m) => ActiveInForce
  <2>1. SerialInv(m) => live \in {m, None}
    BY DEF SerialInv, LineInv, TypeInv, DataOK
  <2>. QED
    BY <2>1 DEF SerialInv, Baseline, ActiveInForce
<1>. QED
  BY <1>1, SerialInvariance, PTL

\* Seen from the device, the machinery only overrides and restores: the refinement of
\* OverridePromise.
THEOREM PromiseIsKept ==
  ASSUME NEW m, Managers = {m}, Overlap = FALSE, Events \subseteq {"reject", "empty"}
  PROVE  Spec => ImplementsPromise
<1>1. Init => Promise!Init
  BY DEF Init, Promise!Init, Config
<1>2. SerialInv(m) /\ [Next]_vars =>
        [Promise!UserSets \/ Promise!Begin \/ Promise!End]_<<device.reserve, base, overridden>>
  <2>1. SUFFICES ASSUME SerialInv(m), [Next]_vars
                 PROVE  \/ Promise!UserSets \/ Promise!Begin \/ Promise!End
                        \/ UNCHANGED <<device.reserve, base, overridden>>
    OBVIOUS
  <2>2. CASE UNCHANGED <<device, history>>
    BY <2>2 DEF history
  <2>3. ASSUME NEW t \in Tasks, Write(t)
        PROVE  \/ Promise!UserSets \/ Promise!Begin \/ Promise!End
               \/ UNCHANGED <<device.reserve, base, overridden>>
    <3>1. pc[t] = "write" /\ (Land(call[t]) \/ UNCHANGED <<device, history>>)
      BY <2>3 DEF Write
    <3>2. CASE Land(call[t])
      BY <2>1, <3>1, <3>2, SerialPromise DEF Promise!UserSets, Promise!Begin, Promise!End
    <3>. QED
      BY <2>2, <3>1, <3>2
  <2>4. (\E t \in Tasks : Write(t)) \/ UNCHANGED <<device, history>>
    BY <2>1
    DEF Next, vars, Start, Clear, SetReserve, SetOther, Fire, Read, Refresh, Save, Remove,
        Setup, Tick, Unload, Crash
  <2>. QED
    BY <2>2, <2>3, <2>4
<1>. QED
  BY <1>1, <1>2, SerialInvariance, PTL DEF Spec, ImplementsPromise, Promise!Spec

-----------------------------------------------------------------------------
(* The store, with restarts between calls.                                 *)

\* The record to come, or there, is the override that is active.
Stored(m) ==
  /\ active[m] # None => active[m].prev # None
  /\ store # None => store.prev # None
  /\ \A t \in Tasks : pc[t] = "save" /\ active[m] # None => active[m] = Saved(call[t])
  /\ (\A t \in Tasks : pc[t] # "save") /\ active[m] # None => store = active[m]

\* An override on the device is active, about to be, or on disk while Home Assistant
\* is down.
Owned(m) ==
  overridden /\ active[m] = None =>
    \/ \E t \in Tasks : pc[t] = "refresh" /\ call[t].kind = "start"
    \/ live = None /\ store # None

\* What a task keeps to; a clear that removes the record has ended the override, and
\* no call can start another before it is done.
Keeps(t, m) ==
  /\ AtLock(t) /\ call[t].kind = "start" =>
       call[t].prev # None \/ (pc[t] = "read" /\ active[m] = None)
  /\ pc[t] = "save" => call[t].prev # None
  /\ pc[t] = "refresh" /\ call[t].kind \in Clears => ~ overridden
  /\ pc[t] = "remove" =>
       ~ overridden /\ active[m] = None /\ \A u \in Tasks : ~ Calling(u)

StoreInv(m) == LineInv(m) /\ Stored(m) /\ Owned(m) /\ \A t \in Tasks : Keeps(t, m)

\* A task queues for the lock; a set-up takes the override from the store first.
LEMMA StoreEnter ==
  ASSUME NEW m, Managers = {m}, StoreInv(m), LineInv(m)', NEW t \in Tasks, pc[t] = "idle",
         NEW kind, NEW value, NEW prev, NEW left,
         EnterWrite(t, m, kind, value, prev, left),
         UNCHANGED <<store, live, history>>,
         \/ active'[m] = active[m]
         \/ Idle /\ store # None /\ active'[m] = store,
         kind \notin Clears => Idle /\ active'[m] = active[m],
         kind = "start" => prev # None \/ active[m] = None
  PROVE  StoreInv(m)'
<1>1. /\ pc'[t] = "read"
      /\ call'[t] = [kind |-> kind, mgr |-> m, value |-> value,
                     prev |-> prev, left |-> left, conf |-> None]
      /\ \A u \in Tasks : u # t => call'[u] = call[u] /\ pc'[u] = pc[u]
  BY DEF EnterWrite, StoreInv, LineInv, TypeInv, CoroutineInv
<1>2. Stored(m)'
  BY <1>1 DEF StoreInv, Stored, Idle, Saved
<1>3. Owned(m)'
  BY <1>1 DEF StoreInv, Owned, history
<1>4. ASSUME NEW u \in Tasks PROVE Keeps(u, m)'
  <2>1. CASE u = t
    BY <1>1, <2>1 DEF Keeps, AtLock, Clears
  <2>2. CASE u # t
    BY <1>1, <2>2 DEF StoreInv, Keeps, Calling, AtLock, Idle, history
  <2>. QED
    BY <2>1, <2>2
<1>. QED
  BY <1>2, <1>3, <1>4 DEF StoreInv

\* The prefix of async_clear, with an override that has a reserve to restore.
LEMMA StoreClear ==
  ASSUME NEW m, Managers = {m}, StoreInv(m), LineInv(m)', NEW t \in Tasks, pc[t] = "idle",
         NEW kind \in Clears, NEW ov, ov # None, BeginClear(t, m, kind, ov),
         UNCHANGED <<store, live, history>>,
         ov = active[m] \/ (Idle /\ ov = store)
  PROVE  StoreInv(m)'
<1>1. ov.prev # None
  BY DEF StoreInv, Stored
<1>2. EnterWrite(t, m, kind, ov.prev, None, None) /\ active'[m] = ov
  BY <1>1 DEF BeginClear, StoreInv, LineInv, TypeInv, DataOK
<1>. QED
  BY <1>2, StoreEnter DEF Clears

\* A task returns, having changed nothing.
LEMMA StoreLeave ==
  ASSUME NEW m, Managers = {m}, StoreInv(m), LineInv(m)', NEW t \in Tasks,
         AtLock(t), Return(t), pc[t] = "refresh" => call[t].kind # "start",
         UNCHANGED <<store, live, active, history>>
  PROVE  StoreInv(m)'
<1>1. /\ pc'[t] = "idle" /\ call'[t] = NoCall
      /\ \A u \in Tasks : u # t => call'[u] = call[u] /\ pc'[u] = pc[u]
  BY ReturnFacts DEF StoreInv, LineInv, TypeInv
<1>2. Stored(m)'
  BY <1>1 DEF StoreInv, Stored, Saved, AtLock
<1>3. Owned(m)'
  BY <1>1 DEF StoreInv, Owned, history
<1>4. ASSUME NEW u \in Tasks PROVE Keeps(u, m)'
  BY <1>1 DEF StoreInv, Keeps, Calling, AtLock, history
<1>. QED
  BY <1>2, <1>3, <1>4 DEF StoreInv

\* The read, and the reserve a start remembers.
LEMMA StoreRead ==
  ASSUME NEW m, Managers = {m}, StoreInv(m), LineInv(m)', NEW t \in Tasks,
         pc[t] = "read",
         pc' = [pc EXCEPT ![t] = "write"],
         NEW conf \in Reported, "unreported" \notin Events,
         call' = [call EXCEPT ![t].conf = conf, ![t].prev = Previous(call[t], conf)],
         UNCHANGED <<store, live, active, history>>
  PROVE  StoreInv(m)'
<1> USE ConstantsAssumption
<1>1. call[t] \in Call /\ call[t].mgr = m
  BY DEF StoreInv, LineInv, TypeInv, CoroutineInv, TaskOK, Call
<1>2. call'[t] = [call[t] EXCEPT !.conf = conf, !.prev = Previous(call[t], conf)] /\ conf = device
  BY AnswerRead DEF StoreInv, LineInv, TypeInv, DataOK, CoroutineInv
<1>3. /\ pc'[t] = "write"
      /\ call'[t].kind = call[t].kind /\ call'[t].prev = Previous(call[t], conf)
      /\ \A u \in Tasks : u # t => call'[u] = call[u] /\ pc'[u] = pc[u]
  BY <1>1, <1>2 DEF Call, StoreInv, LineInv, TypeInv, CoroutineInv
<1>4. call[t].kind = "start" => Previous(call[t], conf) # None
  <2>1. device.reserve # None /\ Keeps(t, m)
    BY DEF StoreInv, LineInv, TypeInv, DataOK, Config
  <2>. QED
    BY <1>1, <1>2, <2>1 DEF Previous, Keeps, AtLock
<1>5. Stored(m)'
  BY <1>3 DEF StoreInv, Stored, Saved
<1>6. Owned(m)'
  BY <1>3 DEF StoreInv, Owned, history
<1>7. ASSUME NEW u \in Tasks PROVE Keeps(u, m)'
  BY <1>3, <1>4 DEF StoreInv, Keeps, Calling, AtLock, history
<1>. QED
  BY <1>5, <1>6, <1>7 DEF StoreInv

\* The write.
LEMMA StoreWrite ==
  ASSUME NEW m, Managers = {m}, StoreInv(m), LineInv(m)', NEW t \in Tasks,
         pc[t] = "write", Land(call[t]),
         pc' = [pc EXCEPT ![t] = "refresh"],
         UNCHANGED <<store, live, active, call>>
  PROVE  StoreInv(m)'
<1>1. /\ pc'[t] = "refresh" /\ \A u \in Tasks : u # t => pc'[u] = pc[u]
      /\ HoldsLock(t)
  BY DEF StoreInv, LineInv, TypeInv, CoroutineInv, LockInv
<1>2. ASSUME NEW u \in Tasks, u # t PROVE pc[u] # "refresh"
  BY <1>1, <1>2, OneHolder DEF StoreInv, LineInv, TypeInv, CoroutineInv, LockInv, AtLock
<1>3. /\ overridden' => call[t].kind = "start" \/ overridden
      /\ call[t].kind \in Clears => ~ overridden'
  BY DEF Land, Clears
<1>4. Stored(m)'
  BY <1>1 DEF StoreInv, Stored, Saved
<1>5. Owned(m)'
  BY <1>1, <1>2, <1>3 DEF StoreInv, Owned
<1>6. ASSUME NEW u \in Tasks PROVE Keeps(u, m)'
  <2>1. CASE u = t
    BY <1>1, <1>3, <2>1 DEF StoreInv, Keeps, AtLock
  <2>2. CASE u # t
    <3>1. pc[u] = "remove" => ~ Calling(t)
      BY DEF StoreInv, Keeps
    <3>2. pc[u] = "remove" => ~ overridden'
      BY <1>3, <3>1 DEF StoreInv, Keeps, Calling, AtLock, Clears
    <3>. QED
      BY <1>1, <1>2, <2>2, <3>2 DEF StoreInv, Keeps, Calling, AtLock
  <2>. QED
    BY <2>1, <2>2
<1>. QED
  BY <1>4, <1>5, <1>6 DEF StoreInv

\* A start makes its override the active one, or an override has ended.
LEMMA StoreSettle ==
  ASSUME NEW m, Managers = {m}, StoreInv(m), LineInv(m)', NEW t \in Tasks,
         pc[t] = "refresh", call' = call,
         \A u \in Tasks : u # t => pc'[u] = pc[u],
         UNCHANGED <<store, live, history>>,
         \/ /\ call[t].kind = "start" /\ pc'[t] = "save"
            /\ active'[m] # None /\ active'[m] = Saved(call[t])
         \/ call[t].kind \in Clears /\ pc'[t] = "remove" /\ active'[m] = None
  PROVE  StoreInv(m)'
<1>1. HoldsLock(t)
  BY DEF StoreInv, LineInv, TypeInv, CoroutineInv, LockInv
<1>2. ASSUME NEW u \in Tasks, u # t PROVE pc[u] # "refresh" /\ ~ Calling(u)
  BY <1>1, <1>2, OneHolder
  DEF StoreInv, LineInv, TypeInv, CoroutineInv, LockInv, AtLock, Calling
<1>3. CASE call[t].kind = "start" /\ pc'[t] = "save"
           /\ active'[m] # None /\ active'[m] = Saved(call[t])
  <2>1. Calling(t)
    BY <1>3 DEF Calling, AtLock, Clears
  <2>2. call[t].prev # None /\ active'[m].prev = call[t].prev
    BY <1>3 DEF StoreInv, Keeps, AtLock, Saved
  <2>3. ASSUME NEW u \in Tasks, u # t PROVE pc[u] \notin {"save", "remove"}
    BY <2>1 DEF StoreInv, LineInv, Keeps
  <2>4. Stored(m)'
    BY <1>3, <2>2, <2>3 DEF StoreInv, Stored, Saved
  <2>5. Owned(m)'
    BY <1>3 DEF Owned
  <2>6. ASSUME NEW u \in Tasks PROVE Keeps(u, m)'
    BY <1>2, <1>3, <2>2, <2>3 DEF StoreInv, Keeps, Calling, AtLock, Clears
  <2>. QED
    BY <2>4, <2>5, <2>6 DEF StoreInv
<1>4. CASE call[t].kind \in Clears /\ pc'[t] = "remove" /\ active'[m] = None
  <2>1. ~ overridden /\ ~ overridden'
    BY <1>4 DEF StoreInv, Keeps, history
  <2>2. \A u \in Tasks : ~ Calling(u)'
    BY <1>2, <1>4 DEF Calling, AtLock
  <2>3. Stored(m)' /\ Owned(m)'
    BY <1>4, <2>1 DEF StoreInv, Stored, Owned
  <2>4. ASSUME NEW u \in Tasks PROVE Keeps(u, m)'
    <3>1. CASE u = t
      BY <1>4, <2>1, <2>2, <3>1 DEF Keeps, AtLock
    <3>2. CASE u # t
      BY <1>2, <1>4, <2>1, <2>2, <3>2 DEF StoreInv, Keeps, Calling, AtLock, Clears
    <3>. QED
      BY <3>1, <3>2
  <2>. QED
    BY <2>3, <2>4 DEF StoreInv
<1>. QED
  BY <1>3, <1>4

\* The Store: a record is saved, or removed.
LEMMA StoreDisk ==
  ASSUME NEW m, Managers = {m}, StoreInv(m), LineInv(m)', NEW t \in Tasks, Save(t) \/ Remove(t)
  PROVE  StoreInv(m)'
<1> USE ConstantsAssumption
<1>1. /\ pc'[t] = "idle" /\ call'[t] = NoCall
      /\ \A u \in Tasks : u # t => call'[u] = call[u] /\ pc'[u] = pc[u]
      /\ active' = active /\ overridden' = overridden
  BY ReturnFacts DEF StoreInv, LineInv, TypeInv, Save, Remove, history
<1>2. ASSUME NEW u \in Tasks PROVE Keeps(u, m)'
  BY <1>1 DEF StoreInv, Keeps, Calling, AtLock
<1>3. CASE Save(t)
  <2>1. pc[t] = "save" /\ store' = Saved(call[t]) /\ live' = live /\ call[t] \in Call
    BY <1>3 DEF Save, StoreInv, LineInv, TypeInv, CoroutineInv
  <2>2. ASSUME NEW u \in Tasks PROVE pc'[u] # "save"
    BY <1>1, <2>1 DEF StoreInv, LineInv
  <2>3. store' # None /\ store'.prev # None
    <3>1. store' \in OverrideRecord
      BY <2>1 DEF Saved, OverrideRecord, Call, StoreInv, LineInv, TypeInv, CoroutineInv, TaskOK
    <3>. QED
      BY <2>1, <3>1, RecordAssumption DEF StoreInv, Keeps, Saved
  <2>4. Stored(m)'
    BY <1>1, <2>1, <2>2, <2>3 DEF StoreInv, Stored
  <2>5. Owned(m)'
    BY <1>1, <2>1, <2>3 DEF StoreInv, Owned
  <2>. QED
    BY <1>2, <2>4, <2>5 DEF StoreInv
<1>4. CASE Remove(t)
  <2>1. active[m] = None /\ ~ overridden /\ store' = None
    BY <1>4 DEF Remove, StoreInv, Keeps
  <2>2. Stored(m)' /\ Owned(m)'
    BY <1>1, <2>1 DEF Stored, Owned
  <2>. QED
    BY <1>2, <2>2 DEF StoreInv
<1>. QED
  BY <1>3, <1>4

\* Every step keeps the invariant, a restart between calls included.
LEMMA StoreStep ==
  ASSUME NEW m, Managers = {m}, Overlap = FALSE, Events \subseteq {"reject", "empty", "restart"},
         StoreInv(m), [Next]_vars
  PROVE  StoreInv(m)'
<1> USE ConstantsAssumption
<1>1. LineInv(m)'
  BY LineStep DEF StoreInv
<1>2. live \in {m, None} /\ active \in [Managers -> OverrideRecord \cup {None}]
  BY DEF StoreInv, LineInv, TypeInv, DataOK
<1>3. ASSUME UNCHANGED <<pc, call, store, live, active, history>> PROVE StoreInv(m)'
  BY <1>1, <1>3 DEF StoreInv, Stored, Owned, Keeps, Calling, AtLock, Saved, history
<1>4. ASSUME NEW t \in Tasks, UserCalls(t) PROVE Idle /\ live = m /\ pc[t] = "idle"
  BY <1>2, <1>4 DEF UserCalls
<1>5. ASSUME NEW t \in Tasks, Start(t) PROVE StoreInv(m)'
  <2>1. Idle /\ live = m /\ pc[t] = "idle" /\ UNCHANGED <<store, live, active, history>>
    BY <1>4, <1>5 DEF Start
  <2> DEFINE prev == IF active[m] # None THEN active[m].prev ELSE None
  <2>2. PICK soc \in Socs, d \in Durations \cup {None} :
          EnterWrite(t, m, "start", soc, prev, d)
    BY <1>5, <2>1 DEF Start
  <2>3. prev # None \/ active[m] = None
    BY DEF StoreInv, Stored
  <2> HIDE DEF prev
  <2>. QED
    BY <1>1, <2>1, <2>2, <2>3, StoreEnter
<1>6. ASSUME NEW t \in Tasks, Clear(t) PROVE StoreInv(m)'
  BY <1>1, <1>4, <1>6, StoreClear DEF Clear, Clears
<1>7. ASSUME NEW t \in Tasks, SetReserve(t) \/ SetOther(t) PROVE StoreInv(m)'
  <2>1. Idle /\ live = m /\ pc[t] = "idle" /\ UNCHANGED <<store, live, active, history>>
    BY <1>4, <1>7 DEF SetReserve, SetOther
  <2>2. PICK kind, value : kind \in {"reserve", "other"} /\ EnterWrite(t, m, kind, value, None, None)
    BY <1>7, <2>1 DEF SetReserve, SetOther
  <2>. QED
    BY <1>1, <2>1, <2>2, StoreEnter
<1>8. ASSUME NEW t \in Tasks, Fire(t, m) PROVE StoreInv(m)'
  BY <1>1, <1>3, <1>8, StoreClear DEF Fire, Clears
<1>9. ASSUME NEW t \in Tasks, Read(t) PROVE StoreInv(m)'
  <2>1. pc[t] = "read" /\ UNCHANGED history
    BY <1>9 DEF Read
  <2>2. CASE Return(t) /\ UNCHANGED <<store, live, active>>
    BY <1>1, <2>1, <2>2, StoreLeave DEF AtLock
  <2>. QED
    BY <1>1, <1>9, <2>1, <2>2, StoreRead DEF Read, Fail
<1>10. ASSUME NEW t \in Tasks, Write(t) PROVE StoreInv(m)'
  <2>1. pc[t] = "write"
    BY <1>10 DEF Write
  <2>2. CASE Return(t) /\ UNCHANGED <<store, live, active, history>>
    BY <1>1, <2>1, <2>2, StoreLeave DEF AtLock
  <2>. QED
    BY <1>1, <1>10, <2>1, <2>2, StoreWrite DEF Write, Fail
<1>11. ASSUME NEW t \in Tasks, Refresh(t) PROVE StoreInv(m)'
  <2>1. /\ pc[t] = "refresh" /\ UNCHANGED <<store, live, history>>
        /\ call[t].mgr = m /\ call[t] \in Call /\ TaskOK(t)
    BY <1>11 DEF Refresh, StoreInv, LineInv, TypeInv, CoroutineInv, TaskOK, Call
  <2>2. CASE /\ call[t].kind = "start"
             /\ active' = [active EXCEPT ![call[t].mgr] =
                  [target |-> call[t].value, prev |-> call[t].prev, left |-> call[t].left]]
             /\ pc' = [pc EXCEPT ![t] = "save"]
             /\ UNCHANGED call
    <3>1. active'[m] = Saved(call[t])
      BY <1>2, <2>1, <2>2 DEF Saved
    <3>2. active'[m] \in OverrideRecord
      BY <2>1, <2>2, <3>1 DEF TaskOK, Call, OverrideRecord, Saved
    <3>3. active'[m] # None
      BY <3>2, RecordAssumption
    <3>4. pc'[t] = "save" /\ \A u \in Tasks : u # t => pc'[u] = pc[u]
      BY <2>2 DEF StoreInv, LineInv, TypeInv, CoroutineInv
    <3>. QED
      BY <1>1, <2>1, <2>2, <3>1, <3>3, <3>4, StoreSettle
  <2>3. CASE /\ call[t].kind \in Clears
             /\ active' = [active EXCEPT ![call[t].mgr] = None]
             /\ pc' = [pc EXCEPT ![t] = "remove"]
             /\ UNCHANGED call
    <3>1. active'[m] = None
      BY <1>2, <2>1, <2>3
    <3>2. pc'[t] = "remove" /\ \A u \in Tasks : u # t => pc'[u] = pc[u]
      BY <2>3 DEF StoreInv, LineInv, TypeInv, CoroutineInv
    <3>. QED
      BY <1>1, <2>1, <2>3, <3>1, <3>2, StoreSettle
  <2>4. CASE call[t].kind \in {"reserve", "other"} /\ Return(t) /\ UNCHANGED active
    BY <1>1, <2>1, <2>4, StoreLeave DEF AtLock
  <2>. QED
    BY <1>11, <2>2, <2>3, <2>4 DEF Refresh
<1>12. ASSUME NEW t \in Tasks, Save(t) \/ Remove(t) PROVE StoreInv(m)'
  BY <1>1, <1>12, StoreDisk
<1>13. ASSUME NEW t \in Tasks, Setup(t, m) PROVE StoreInv(m)'
  <2>1. /\ pc[t] = "idle" /\ UNCHANGED <<store, history>> /\ live = None
        /\ \A u \in Tasks : call[u].mgr # m
    BY <1>13 DEF Setup, Unused
  <2>2. Idle
    BY <2>1 DEF Idle, StoreInv, LineInv, TypeInv, CoroutineInv, TaskOK, Call
  <2>3. CASE live' = m /\ active' = [active EXCEPT ![m] = store] /\ UNCHANGED <<pc, call>>
    <3>1. active'[m] = store
      BY <1>2, <2>3
    <3>2. Stored(m)'
      BY <2>1, <2>2, <2>3, <3>1 DEF StoreInv, Stored, Idle
    <3>3. store = None => ~ overridden
      BY <2>2 DEF StoreInv, Stored, Owned, Idle
    <3>4. Owned(m)'
      BY <2>1, <3>1, <3>3 DEF Owned, history
    <3>5. ASSUME NEW u \in Tasks PROVE Keeps(u, m)'
      BY <2>2, <2>3 DEF Keeps, AtLock, Idle
    <3>. QED
      BY <1>1, <3>2, <3>4, <3>5 DEF StoreInv
  <2>4. CASE store # None /\ BeginClear(t, m, "load", store) /\ UNCHANGED live
    BY <1>1, <2>1, <2>2, <2>4, StoreClear DEF Clears
  <2>. QED
    BY <1>13, <2>3, <2>4 DEF Setup
<1>14. CASE Tick
  <2>1. /\ UNCHANGED <<pc, live, history>>
        /\ active'[m] = ElapseOf(active[m]) /\ store' = ElapseOf(store)
        /\ \A u \in Tasks : call'[u] =
             IF pc[u] = "save" THEN [call[u] EXCEPT !.left = Elapse(@)] ELSE call[u]
    BY <1>14 DEF Tick
  <2>2. \A u \in Tasks : call[u] \in Call
    BY DEF StoreInv, LineInv, TypeInv, CoroutineInv
  <2>3. \A u \in Tasks : call'[u].kind = call[u].kind /\ call'[u].prev = call[u].prev
    BY <2>1, <2>2 DEF Call
  <2>4. \A left \in Ends : Elapse(left) \in Ends
    BY DEF Elapse, Ends
  <2>5. ASSUME NEW ov \in OverrideRecord
        PROVE  /\ ElapseOf(ov) = [ov EXCEPT !.left = Elapse(@)]
               /\ ElapseOf(ov) # None /\ ElapseOf(ov).prev = ov.prev
    <3>1. ElapseOf(ov) = [ov EXCEPT !.left = Elapse(@)]
      BY <2>5, RecordAssumption DEF ElapseOf
    <3>2. ElapseOf(ov) \in OverrideRecord /\ ElapseOf(ov).prev = ov.prev
      BY <2>4, <3>1 DEF OverrideRecord
    <3>. QED
      BY <3>1, <3>2, RecordAssumption
  <2>6. ElapseOf(None) = None /\ store \in OverrideRecord \cup {None}
    BY DEF ElapseOf, StoreInv, LineInv, TypeInv, DataOK
  <2>7. ASSUME NEW u \in Tasks, pc[u] = "save", active[m] # None
        PROVE  active'[m] = Saved(call'[u])
    <3>1. active[m] = Saved(call[u]) /\ active[m] \in OverrideRecord
      BY <1>2, <2>7 DEF StoreInv, Stored
    <3>2. active'[m] = [active[m] EXCEPT !.left = Elapse(@)]
      BY <2>1, <2>5, <3>1
    <3>3. call'[u] = [call[u] EXCEPT !.left = Elapse(@)]
      BY <2>1, <2>7
    <3>. QED
      BY <2>2, <3>1, <3>2, <3>3 DEF Saved, Call
  <2>8. Stored(m)'
    BY <1>2, <2>1, <2>5, <2>6, <2>7 DEF StoreInv, Stored
  <2>9. Owned(m)'
    BY <1>2, <2>1, <2>3, <2>5, <2>6 DEF StoreInv, Owned, history
  <2>10. ASSUME NEW u \in Tasks PROVE Keeps(u, m)'
    BY <2>1, <2>3, <2>6 DEF StoreInv, Keeps, Calling, AtLock, history
  <2>. QED
    BY <1>1, <2>8, <2>9, <2>10 DEF StoreInv
<1>15. CASE Crash
  <2>1. Idle /\ active'[m] = None /\ live' = None /\ store' = store /\ overridden' = overridden
        /\ \A u \in Tasks : pc'[u] = "idle"
    BY <1>15 DEF Crash, history
  <2>2. Stored(m)'
    BY <2>1 DEF StoreInv, Stored
  <2>3. overridden => store # None
    BY <2>1 DEF StoreInv, Stored, Owned, Idle
  <2>4. Owned(m)'
    BY <2>1, <2>3 DEF Owned
  <2>. QED
    BY <1>1, <2>1, <2>2, <2>4 DEF StoreInv, Keeps, AtLock
<1>16. ~ Unload
  BY DEF Unload
<1>17. CASE UNCHANGED vars
  BY <1>3, <1>17 DEF vars, memory
<1>. QED
  BY <1>5, <1>6, <1>7, <1>8, <1>9, <1>10, <1>11, <1>12, <1>13, <1>14, <1>15, <1>16, <1>17
  DEF Next

\* It holds initially and from then on.
LEMMA StoreInvariance ==
  ASSUME NEW m, Managers = {m}, Overlap = FALSE, Events \subseteq {"reject", "empty", "restart"}
  PROVE  Spec => []StoreInv(m)
<1>1. Init => StoreInv(m)
  BY LineInit DEF Init, StoreInv, Stored, Owned, Keeps, AtLock
<1>2. StoreInv(m) /\ [Next]_vars => StoreInv(m)'
  BY StoreStep
<1>. QED
  BY <1>1, <1>2, PTL DEF Spec

\* What a restart finds on disk is the active override, its reserve and its end
\* included, however long it has run (override.py:69-93, 128-131).
THEOREM StoreHasTheOverride ==
  ASSUME NEW m, Managers = {m}, Overlap = FALSE, Events \subseteq {"reject", "empty", "restart"}
  PROVE  Spec => []StoreKeepsPromise
<1>1. StoreInv(m) => StoreKeepsPromise
  <2>1. StoreInv(m) => live \in {m, None}
    BY DEF StoreInv, LineInv, TypeInv, DataOK
  <2>. QED
    BY <2>1 DEF StoreInv, Stored, StoreKeepsPromise, Idle
<1>. QED
  BY <1>1, StoreInvariance, PTL

\* An override's effect never outlives its record, whatever requests are refused and
\* whenever Home Assistant restarts between calls.
THEOREM NothingOrphaned ==
  ASSUME NEW m, Managers = {m}, Overlap = FALSE, Events \subseteq {"reject", "empty", "restart"}
  PROVE  Spec => []NoOrphan
<1>1. StoreInv(m) => NoOrphan
  <2>1. StoreInv(m) => live \in {m, None}
    BY DEF StoreInv, LineInv, TypeInv, DataOK
  <2>. QED
    BY <2>1 DEF StoreInv, Owned, NoOrphan, Idle
<1>. QED
  BY <1>1, StoreInvariance, PTL
=============================================================================

--------------------------- MODULE OverrideProofs ----------------------------
(***************************************************************************)
(* What holds of Override for every number of tasks and managers, every    *)
(* set of levels and durations, and every bound on calls and restarts.     *)
(***************************************************************************)
EXTENDS Override, SequenceTheorems, TLAPS

-----------------------------------------------------------------------------
(* Coroutines and the lock they share.                                     *)

\* What the stage a task is at says of its locals.
TaskOK(t) ==
  /\ pc[t] = "idle" <=> call[t].mgr = None
  /\ pc[t] = "idle" => call[t].kind = "none"
  /\ pc[t] \in {"read", "write", "refresh"} =>
       /\ call[t].kind # "none"
       /\ call[t].kind = "other" => call[t].value \in Others
       /\ call[t].kind # "other" => call[t].value \in Socs
  /\ pc[t] = "write" => call[t].conf \in Reading
  /\ pc[t] = "save" => call[t].kind = "start" /\ call[t].value \in Socs
  /\ pc[t] = "remove" => call[t].kind \in Clears

\* From the write on, a task is at the head of its lock's queue.
LockInv == \A t \in Tasks : pc[t] \in {"write", "refresh"} => HoldsLock(t)

CoroutineInv ==
  /\ pc \in [Tasks -> {"idle", "read", "write", "refresh", "save", "remove"}]
  /\ call \in [Tasks -> Call]
  /\ queue \in [Managers -> Seq(Tasks)]
  /\ \A t \in Tasks : TaskOK(t)
  /\ LockInv

\* What the device answers: all that it stores, the reserve perhaps apart.
LEMMA AnswerRead ==
  ASSUME device \in Config, NEW conf \in Reported
  PROVE  conf \in Reading /\ ("unreported" \notin Events => conf = device)
BY DEF Reported, Reading, Config

\* Joining a queue leaves its head; leaving it keeps the rest.
LEMMA QueueFacts ==
  ASSUME NEW S, NEW q \in Seq(S), NEW e \in S
  PROVE  /\ Append(q, e) \in Seq(S) /\ Append(q, e) # <<>>
         /\ q # <<>> => Head(Append(q, e)) = Head(q)
         /\ q # <<>> => Tail(q) \in Seq(S)
<1>1. q # <<>> => Tail(q) \in Seq(S)
  BY HeadTailProperties
<1>2. /\ Append(q, e) \in Seq(S) /\ Append(q, e) # <<>>
      /\ Len(Append(q, e)) = Len(q) + 1
      /\ \A i \in 1 .. Len(q) : Append(q, e)[i] = q[i]
  BY AppendProperties
<1>3. q # <<>> => Head(Append(q, e)) = Head(q)
  BY <1>2, EmptySeq, LenProperties
<1>. QED
  BY <1>1, <1>2, <1>3

\* A task that queues for the lock disturbs no other.
LEMMA EnterWriteInv ==
  ASSUME CoroutineInv, NEW t \in Tasks, pc[t] = "idle", NEW m \in Managers,
         NEW kind \in Kinds \ {"none"}, NEW value \in Socs \cup Others,
         kind = "other" => value \in Others, kind # "other" => value \in Socs,
         NEW prev \in Socs \cup {None}, NEW left \in Ends,
         EnterWrite(t, m, kind, value, prev, left)
  PROVE  CoroutineInv'
<1> USE ConstantsAssumption DEF CoroutineInv, EnterWrite
<1>1. /\ pc' = [pc EXCEPT ![t] = "read"]
      /\ call'[t] = [kind |-> kind, mgr |-> m, value |-> value,
                     prev |-> prev, left |-> left, conf |-> None]
      /\ \A u \in Tasks : u # t => call'[u] = call[u]
  OBVIOUS
<1>2. call' \in [Tasks -> Call]
  BY DEF Call
<1>3. queue' \in [Managers -> Seq(Tasks)]
  BY QueueFacts
<1>4. ASSUME NEW u \in Tasks PROVE TaskOK(u)'
  BY <1>1 DEF TaskOK
<1>5. ASSUME NEW u \in Tasks, pc'[u] \in {"write", "refresh"} PROVE HoldsLock(u)'
  <2>1. u # t /\ pc'[u] = pc[u] /\ call'[u] = call[u]
    BY <1>1, <1>5
  <2>2. HoldsLock(u) /\ call[u].mgr \in Managers
    BY <1>5, <2>1 DEF LockInv, TaskOK, Call
  <2>. QED
    BY <2>1, <2>2, QueueFacts DEF HoldsLock
<1>. QED
  BY <1>1, <1>2, <1>3, <1>4, <1>5 DEF LockInv

\* The holder of the lock gives it up: no other task held it.
LEMMA ReleaseInv ==
  ASSUME CoroutineInv, NEW t \in Tasks, HoldsLock(t), call[t].mgr \in Managers, Release(t),
         pc' \in [Tasks -> {"idle", "read", "write", "refresh", "save", "remove"}],
         call' \in [Tasks -> Call], TaskOK(t)',
         pc'[t] \notin {"write", "refresh"},
         \A u \in Tasks : u # t => pc'[u] = pc[u] /\ call'[u] = call[u]
  PROVE  CoroutineInv'
<1> USE DEF CoroutineInv
<1>1. queue' \in [Managers -> Seq(Tasks)]
  BY QueueFacts DEF Release, HoldsLock
<1>2. ASSUME NEW u \in Tasks PROVE TaskOK(u)'
  BY DEF TaskOK
<1>3. ASSUME NEW u \in Tasks, pc'[u] \in {"write", "refresh"} PROVE HoldsLock(u)'
  <2>1. u # t /\ HoldsLock(u) /\ call'[u] = call[u]
    BY <1>3 DEF LockInv
  <2>2. call[u].mgr # call[t].mgr
    BY <2>1 DEF HoldsLock
  <2>. QED
    BY <2>1, <2>2 DEF HoldsLock, Release
<1>. QED
  BY <1>1, <1>2, <1>3 DEF LockInv

-----------------------------------------------------------------------------
(* Types.                                                                  *)

DataOK ==
  /\ device \in Config
  /\ store \in OverrideRecord \cup {None}
  /\ live \in Managers \cup {None}
  /\ active \in [Managers -> OverrideRecord \cup {None}]
  /\ timer \in [Managers -> Ends]
  /\ saving \in [Managers -> Seq(Tasks)]
  /\ calls \in Nat /\ restarts \in Nat
  /\ base \in Socs
  /\ overridden \in BOOLEAN

TypeInv == DataOK /\ CoroutineInv

\* It holds initially: nothing is loaded, nothing is in flight.
LEMMA InitType == Init => TypeInv
<1> USE ConstantsAssumption
<1>1. Init => DataOK
  <2>1. <<>> \in Seq(Tasks)
    BY EmptySeq
  <2>2. device \in Config => device.reserve \in Socs
    BY DEF Config
  <2>3. Init => /\ active \in [Managers -> OverrideRecord \cup {None}]
                /\ timer \in [Managers -> Ends]
                /\ saving \in [Managers -> Seq(Tasks)]
    BY <2>1 DEF Init, Ends
  <2>4. Init => /\ device \in Config /\ base \in Socs
                /\ store \in OverrideRecord \cup {None}
                /\ live \in Managers \cup {None}
    BY <2>2 DEF Init
  <2>5. Init => calls \in Nat /\ restarts \in Nat
    BY DEF Init
  <2>6. Init => overridden \in BOOLEAN
    BY DEF Init
  <2>. QED
    BY <2>3, <2>4, <2>5, <2>6 DEF DataOK
<1>2. Init => call \in [Tasks -> Call]
  BY DEF Init, NoCall, Call, Kinds, Ends
<1>3. Init => CoroutineInv
  BY <1>2, EmptySeq DEF Init, CoroutineInv, TaskOK, LockInv, NoCall
<1>. QED
  BY <1>1, <1>3 DEF TypeInv

\* A task returns: its slot is free again.
LEMMA ReturnFacts ==
  ASSUME CoroutineInv, NEW t \in Tasks, Return(t)
  PROVE  /\ pc' \in [Tasks -> {"idle", "read", "write", "refresh", "save", "remove"}]
         /\ call' \in [Tasks -> Call]
         /\ TaskOK(t)'
         /\ pc'[t] = "idle" /\ call'[t] = NoCall
         /\ \A u \in Tasks : u # t => pc'[u] = pc[u] /\ call'[u] = call[u]
<1>1. NoCall \in Call
  BY DEF NoCall, Call, Kinds, Ends
<1>. QED
  BY <1>1 DEF Return, CoroutineInv, TaskOK, NoCall

\* A task that is not at the lock returns.
LEMMA TaskReturns ==
  ASSUME TypeInv, NEW t \in Tasks, Return(t), queue' = queue,
         pc[t] \notin {"write", "refresh"}
  PROVE  CoroutineInv'
<1>1. ASSUME NEW u \in Tasks PROVE TaskOK(u)'
  BY ReturnFacts DEF TypeInv, CoroutineInv, TaskOK
<1>2. ASSUME NEW u \in Tasks, pc'[u] \in {"write", "refresh"} PROVE HoldsLock(u)'
  <2>1. u # t /\ pc'[u] = pc[u] /\ call'[u] = call[u]
    BY <1>2, ReturnFacts DEF TypeInv
  <2>. QED
    BY <1>2, <2>1 DEF TypeInv, CoroutineInv, LockInv, HoldsLock
<1>. QED
  BY <1>1, <1>2, ReturnFacts DEF TypeInv, CoroutineInv, LockInv

\* The prefix of async_clear either queues for the lock or has nothing to write.
LEMMA BeginClearInv ==
  ASSUME CoroutineInv, NEW t \in Tasks, pc[t] = "idle", NEW m \in Managers,
         NEW kind \in Clears, NEW ov \in OverrideRecord,
         active \in [Managers -> OverrideRecord \cup {None}],
         timer \in [Managers -> Ends],
         BeginClear(t, m, kind, ov)
  PROVE  /\ CoroutineInv'
         /\ active' \in [Managers -> OverrideRecord \cup {None}]
         /\ timer' \in [Managers -> Ends]
<1> USE ConstantsAssumption
<1>1. timer' \in [Managers -> Ends]
  BY DEF BeginClear, Ends
<1>2. active' \in [Managers -> OverrideRecord \cup {None}]
  BY DEF BeginClear
<1>3. CASE ov.prev # None
  <2>1. EnterWrite(t, m, kind, ov.prev, None, None) /\ ov.prev \in Socs
    BY <1>3 DEF BeginClear, OverrideRecord
  <2>. QED
    BY <1>1, <1>2, <2>1, EnterWriteInv DEF Clears, Kinds, Ends
<1>4. CASE ov.prev = None
  <2>1. /\ pc' = [pc EXCEPT ![t] = "remove"]
        /\ call' = [call EXCEPT ![t] = [NoCall EXCEPT !.kind = kind, !.mgr = m]]
        /\ queue' = queue
    BY <1>4 DEF BeginClear
  <2>2. [NoCall EXCEPT !.kind = kind, !.mgr = m] \in Call
    BY DEF NoCall, Call, Kinds, Ends
  <2>3. call' \in [Tasks -> Call]
    BY <2>1, <2>2 DEF CoroutineInv
  <2>4. ASSUME NEW u \in Tasks PROVE TaskOK(u)'
    BY <2>1 DEF CoroutineInv, TaskOK, NoCall
  <2>5. LockInv'
    BY <2>1 DEF CoroutineInv, LockInv, HoldsLock
  <2>. QED
    BY <1>1, <1>2, <2>1, <2>3, <2>4, <2>5 DEF CoroutineInv
<1>. QED
  BY <1>3, <1>4

\* A task that fails under the lock gives it up and returns.
LEMMA FailInv ==
  ASSUME TypeInv, NEW t \in Tasks, HoldsLock(t), pc[t] # "idle",
         Release(t), Return(t)
  PROVE  CoroutineInv'
<1>1. call[t].mgr \in Managers
  BY DEF TypeInv, CoroutineInv, TaskOK, Call
<1>. QED
  BY <1>1, ReturnFacts, ReleaseInv DEF TypeInv

\* The timers after a failure: the ones before it, or one of them armed to retry.
LEMMA RetryType ==
  ASSUME TypeInv, NEW t \in Tasks
  PROVE  Retry(call[t]) \in [Managers -> Ends]
BY ConstantsAssumption DEF TypeInv, DataOK, Retry, Armed, Ends

\* Every step keeps it, whoever takes it (override.py, coordinator.py:130-141).
LEMMA TypeStep == TypeInv /\ [Next]_vars => TypeInv'
<1> SUFFICES ASSUME TypeInv, [Next]_vars PROVE TypeInv'
  OBVIOUS
<1> USE ConstantsAssumption
<1>1. CASE UNCHANGED vars
  <2>1. DataOK'
    BY <1>1 DEF TypeInv, DataOK, vars, memory, bounds, history
  <2>2. CoroutineInv'
    BY <1>1 DEF TypeInv, CoroutineInv, TaskOK, LockInv, HoldsLock, vars, memory
  <2>. QED
    BY <2>1, <2>2 DEF TypeInv
<1>2. ASSUME NEW t \in Tasks, Start(t) PROVE TypeInv'
  <2>1. live \in Managers /\ pc[t] = "idle"
    BY <1>2 DEF TypeInv, DataOK, Start, UserCalls
  <2>2. PICK soc \in Socs, d \in Durations \cup {None} :
          EnterWrite(t, live, "start", soc,
                     IF active[live] # None THEN active[live].prev ELSE None, d)
    BY <1>2 DEF Start
  <2>3. (IF active[live] # None THEN active[live].prev ELSE None) \in Socs \cup {None}
    BY <2>1 DEF TypeInv, DataOK, OverrideRecord
  <2>4. CoroutineInv'
    BY <2>1, <2>2, <2>3, EnterWriteInv DEF TypeInv, Kinds, Clears, Ends
  <2>5. DataOK'
    BY <1>2 DEF TypeInv, DataOK, Start, UserCalls, history
  <2>. QED
    BY <2>4, <2>5 DEF TypeInv
<1>3. ASSUME NEW t \in Tasks, Clear(t) PROVE TypeInv'
  <2>1. live \in Managers /\ pc[t] = "idle" /\ active[live] \in OverrideRecord
    BY <1>3 DEF TypeInv, DataOK, Clear, UserCalls
  <2>2. /\ CoroutineInv'
        /\ active' \in [Managers -> OverrideRecord \cup {None}]
        /\ timer' \in [Managers -> Ends]
    BY <1>3, <2>1, BeginClearInv DEF TypeInv, DataOK, Clear, Clears
  <2>. QED
    BY <1>3, <2>2 DEF TypeInv, DataOK, Clear, UserCalls, history
<1>4. ASSUME NEW t \in Tasks, SetReserve(t) PROVE TypeInv'
  <2>1. live \in Managers /\ pc[t] = "idle"
    BY <1>4 DEF TypeInv, DataOK, SetReserve, UserCalls
  <2>2. CoroutineInv'
    BY <1>4, <2>1, EnterWriteInv DEF TypeInv, SetReserve, Kinds, Clears, Ends
  <2>3. DataOK'
    BY <1>4 DEF TypeInv, DataOK, SetReserve, UserCalls, history
  <2>. QED
    BY <2>2, <2>3 DEF TypeInv
<1>5. ASSUME NEW t \in Tasks, SetOther(t) PROVE TypeInv'
  <2>1. live \in Managers /\ pc[t] = "idle"
    BY <1>5 DEF TypeInv, DataOK, SetOther, UserCalls
  <2>2. CoroutineInv'
    BY <1>5, <2>1, EnterWriteInv DEF TypeInv, SetOther, Kinds, Clears, Ends
  <2>3. DataOK'
    BY <1>5 DEF TypeInv, DataOK, SetOther, UserCalls, history
  <2>. QED
    BY <2>2, <2>3 DEF TypeInv
<1>6. ASSUME NEW t \in Tasks, NEW m \in Managers, Fire(t, m) PROVE TypeInv'
  <2>1. CASE active[m] # None /\ BeginClear(t, m, "revert", active[m])
    <3>1. active[m] \in OverrideRecord /\ pc[t] = "idle"
      BY <1>6, <2>1 DEF TypeInv, DataOK, Fire
    <3>2. /\ CoroutineInv'
          /\ active' \in [Managers -> OverrideRecord \cup {None}]
          /\ timer' \in [Managers -> Ends]
      BY <2>1, <3>1, BeginClearInv DEF TypeInv, DataOK, Clears
    <3>. QED
      BY <1>6, <3>2 DEF TypeInv, DataOK, Fire, bounds, history
  <2>2. CASE timer' = [timer EXCEPT ![m] = None] /\ UNCHANGED <<active, queue, pc, call>>
    <3>1. CoroutineInv'
      BY <2>2 DEF TypeInv, CoroutineInv, TaskOK, LockInv, HoldsLock
    <3>. QED
      BY <1>6, <2>2, <3>1 DEF TypeInv, DataOK, Fire, bounds, history, Ends
  <2>. QED
    BY <1>6, <2>1, <2>2 DEF Fire
<1>7. ASSUME NEW t \in Tasks, Read(t) PROVE TypeInv'
  <2>1. HoldsLock(t) /\ pc[t] = "read" /\ UNCHANGED <<device, history>>
    BY <1>7 DEF Read
  <2>2. CASE /\ pc' = [pc EXCEPT ![t] = "write"]
             /\ \E conf \in Reported :
                  call' = [call EXCEPT ![t].conf = conf, ![t].prev = Previous(call[t], conf)]
             /\ UNCHANGED <<store, live, active, timer, queue, saving, bounds>>
    <3>. PICK conf \in Reported :
           call' = [call EXCEPT ![t].conf = conf, ![t].prev = Previous(call[t], conf)]
      BY <2>2
    <3>1. /\ conf \in Reading
          /\ call[t] \in Call /\ Previous(call[t], conf) \in Socs \cup {None}
      <4>1. conf \in Reading
        BY AnswerRead DEF TypeInv, DataOK
      <4>. QED
        BY <4>1 DEF TypeInv, CoroutineInv, Previous, Call, Reading
    <3>2. call'[t] = [call[t] EXCEPT !.conf = conf, !.prev = Previous(call[t], conf)]
      BY <2>2 DEF TypeInv, CoroutineInv
    <3>3. call'[t] \in Call /\ call' \in [Tasks -> Call]
      BY <2>2, <3>1, <3>2 DEF TypeInv, CoroutineInv, Call
    <3>4. \A u \in Tasks : u # t => call'[u] = call[u] /\ pc'[u] = pc[u]
      BY <2>2 DEF TypeInv, CoroutineInv
    <3>5. /\ pc'[t] = "write" /\ call'[t].conf = conf
          /\ call'[t].kind = call[t].kind /\ call'[t].value = call[t].value
          /\ call'[t].mgr = call[t].mgr
      BY <2>2, <3>1, <3>2 DEF TypeInv, CoroutineInv, Call
    <3>6. ASSUME NEW u \in Tasks PROVE TaskOK(u)'
      BY <2>1, <3>1, <3>4, <3>5 DEF TypeInv, CoroutineInv, TaskOK
    <3>7. ASSUME NEW u \in Tasks, pc'[u] \in {"write", "refresh"} PROVE HoldsLock(u)'
      BY <2>1, <2>2, <3>4, <3>5, <3>7 DEF TypeInv, CoroutineInv, LockInv, HoldsLock
    <3>8. CoroutineInv'
      BY <2>2, <3>3, <3>6, <3>7 DEF TypeInv, CoroutineInv, LockInv
    <3>. QED
      BY <2>1, <2>2, <3>8 DEF TypeInv, DataOK, bounds, history
  <2>3. CASE Fail(t)
    BY <2>1, <2>3, FailInv, RetryType DEF TypeInv, DataOK, Fail, bounds, history
  <2>4. CASE Release(t) /\ Return(t) /\ UNCHANGED <<store, live, active, timer, saving, bounds>>
    BY <2>1, <2>4, FailInv DEF TypeInv, DataOK, bounds, history
  <2>. QED
    BY <1>7, <2>2, <2>3, <2>4 DEF Read
<1>8. ASSUME NEW t \in Tasks, Write(t) PROVE TypeInv'
  <2>1. pc[t] = "write" /\ HoldsLock(t)
    BY <1>8 DEF Write, TypeInv, CoroutineInv, LockInv
  <2>2. CASE Land(call[t])
    <3>1. /\ call[t] \in Call /\ call[t].conf \in Reading
          /\ call[t].kind = "other" => call[t].value \in Others
          /\ call[t].kind # "other" => call[t].value \in Socs
      BY <2>1 DEF TypeInv, CoroutineInv, TaskOK
    <3>2. Payload(call[t]) \in Config
      BY <3>1, ConstantsAssumption DEF Payload, Reading, Config
    <3>3. device' \in Config /\ base' \in Socs /\ overridden' \in BOOLEAN
      BY <2>2, <3>1, <3>2 DEF Land, TypeInv, DataOK
    <3>4. CASE /\ pc' = [pc EXCEPT ![t] = "refresh"]
               /\ UNCHANGED <<store, live, active, timer, queue, saving, call, bounds>>
      <4>1. CoroutineInv'
        BY <2>1, <3>4 DEF TypeInv, CoroutineInv, TaskOK, LockInv, HoldsLock
      <4>. QED
        BY <3>3, <3>4, <4>1 DEF TypeInv, DataOK, bounds
    <3>5. CASE Fail(t)
      BY <2>1, <3>3, <3>5, FailInv, RetryType DEF TypeInv, DataOK, Fail, bounds
    <3>. QED
      BY <1>8, <2>2, <3>4, <3>5 DEF Write
  <2>3. CASE Fail(t) /\ UNCHANGED <<device, history>>
    BY <2>1, <2>3, FailInv, RetryType DEF TypeInv, DataOK, Fail, bounds, history
  <2>. QED
    BY <1>8, <2>2, <2>3 DEF Write
<1>9. ASSUME NEW t \in Tasks, Refresh(t) PROVE TypeInv'
  <2>1. /\ pc[t] = "refresh" /\ HoldsLock(t) /\ Release(t)
        /\ call[t] \in Call /\ call[t].mgr \in Managers
    BY <1>9 DEF Refresh, TypeInv, CoroutineInv, LockInv, TaskOK, Call
  <2>2. CASE /\ call[t].kind = "start"
             /\ active' = [active EXCEPT ![call[t].mgr] =
                  [target |-> call[t].value, prev |-> call[t].prev, left |-> call[t].left]]
             /\ saving' = [saving EXCEPT ![call[t].mgr] = Append(@, t)]
             /\ pc' = [pc EXCEPT ![t] = "save"]
             /\ UNCHANGED call
    <3>1. call[t].value \in Socs /\ call[t].prev \in Socs \cup {None} /\ call[t].left \in Ends
      BY <2>1, <2>2 DEF TypeInv, CoroutineInv, TaskOK, Call
    <3>2. active' \in [Managers -> OverrideRecord \cup {None}]
      BY <2>2, <3>1 DEF TypeInv, DataOK, OverrideRecord
    <3>3. saving' \in [Managers -> Seq(Tasks)]
      BY <2>1, <2>2, QueueFacts DEF TypeInv, DataOK
    <3>4. TaskOK(t)'
      BY <2>1, <2>2, <3>1 DEF TypeInv, CoroutineInv, TaskOK
    <3>5. CoroutineInv'
      BY <2>1, <2>2, <3>4, ReleaseInv DEF TypeInv, CoroutineInv
    <3>. QED
      BY <1>9, <3>2, <3>3, <3>5 DEF Refresh, TypeInv, DataOK, bounds, history
  <2>3. CASE /\ call[t].kind \in Clears
             /\ active' = [active EXCEPT ![call[t].mgr] = None]
             /\ pc' = [pc EXCEPT ![t] = "remove"]
             /\ UNCHANGED <<call, saving>>
    <3>1. TaskOK(t)'
      BY <2>1, <2>3 DEF TypeInv, CoroutineInv, TaskOK
    <3>2. CoroutineInv'
      BY <2>1, <2>3, <3>1, ReleaseInv DEF TypeInv, CoroutineInv
    <3>. QED
      BY <1>9, <2>3, <3>2 DEF Refresh, TypeInv, DataOK, bounds, history
  <2>4. CASE Return(t) /\ UNCHANGED <<active, saving>>
    BY <1>9, <2>1, <2>4, FailInv DEF Refresh, TypeInv, DataOK, bounds, history
  <2>. QED
    BY <1>9, <2>2, <2>3, <2>4 DEF Refresh
<1>10. ASSUME NEW t \in Tasks, Save(t) PROVE TypeInv'
  <2>1. /\ pc[t] = "save" /\ call[t] \in Call /\ call[t].mgr \in Managers
        /\ call[t].value \in Socs
    BY <1>10 DEF Save, TypeInv, CoroutineInv, TaskOK, Call
  <2>2. store' \in OverrideRecord
    BY <1>10, <2>1 DEF Save, Saved, OverrideRecord, Call
  <2>3. saving' \in [Managers -> Seq(Tasks)]
    BY <1>10, <2>1, QueueFacts DEF Save, TypeInv, DataOK
  <2>4. timer' \in [Managers -> Ends]
    BY <1>10, <2>1 DEF Save, Armed, TypeInv, DataOK, Call
  <2>5. Return(t)
    BY <1>10 DEF Save
  <2>6. CoroutineInv'
    BY <1>10, <2>1, <2>5, TaskReturns DEF Save
  <2>. QED
    BY <1>10, <2>2, <2>3, <2>4, <2>6 DEF Save, TypeInv, DataOK, bounds, history
<1>11. ASSUME NEW t \in Tasks, Remove(t) PROVE TypeInv'
  <2>1. live' \in Managers \cup {None} /\ Return(t) /\ queue' = queue /\ pc[t] = "remove"
    BY <1>11 DEF Remove, TypeInv, DataOK, CoroutineInv, Call
  <2>2. CoroutineInv'
    BY <2>1, TaskReturns
  <2>. QED
    BY <1>11, <2>1, <2>2 DEF Remove, TypeInv, DataOK, bounds, history
<1>12. ASSUME NEW t \in Tasks, NEW m \in Managers, Setup(t, m) PROVE TypeInv'
  <2>1. CASE live' = m /\ UNCHANGED <<queue, pc, call>>
    <3>1. CoroutineInv'
      BY <2>1 DEF TypeInv, CoroutineInv, TaskOK, LockInv, HoldsLock
    <3>2. /\ active' \in [Managers -> OverrideRecord \cup {None}]
          /\ timer' \in [Managers -> Ends]
      <4>1. CASE store = None /\ active' = [active EXCEPT ![m] = None] /\ UNCHANGED timer
        BY <4>1 DEF TypeInv, DataOK
      <4>2. CASE store # None /\ active' = [active EXCEPT ![m] = store]
                 /\ timer' = Armed(m, store.left)
        BY <4>2 DEF TypeInv, DataOK, Armed, OverrideRecord
      <4>3. ~ UNCHANGED live
        BY <1>12, <2>1 DEF Setup
      <4>. QED
        BY <1>12, <4>1, <4>2, <4>3 DEF Setup
    <3>. QED
      BY <1>12, <2>1, <3>1, <3>2 DEF Setup, TypeInv, DataOK, bounds, history
  <2>2. CASE store # None /\ BeginClear(t, m, "load", store) /\ UNCHANGED live
    <3>1. store \in OverrideRecord /\ pc[t] = "idle"
      BY <1>12, <2>2 DEF TypeInv, DataOK, Setup
    <3>2. /\ CoroutineInv'
          /\ active' \in [Managers -> OverrideRecord \cup {None}]
          /\ timer' \in [Managers -> Ends]
      BY <2>2, <3>1, BeginClearInv DEF TypeInv, DataOK, Clears
    <3>. QED
      BY <1>12, <2>2, <3>2 DEF Setup, TypeInv, DataOK, bounds, history
  <2>. QED
    BY <1>12, <2>1, <2>2 DEF Setup
<1>13. CASE Tick
  <2>1. ASSUME NEW left \in Ends PROVE Elapse(left) \in Ends
    BY DEF Elapse, Ends
  <2>2. ASSUME NEW ov \in OverrideRecord \cup {None}
        PROVE  ElapseOf(ov) \in OverrideRecord \cup {None}
    BY <2>1 DEF ElapseOf, OverrideRecord
  <2>3. /\ store' \in OverrideRecord \cup {None}
        /\ active' \in [Managers -> OverrideRecord \cup {None}]
        /\ timer' \in [Managers -> Ends]
    BY <1>13, <2>1, <2>2 DEF Tick, TypeInv, DataOK
  <2>4. ASSUME NEW u \in Tasks
        PROVE  /\ call'[u] \in Call
               /\ call'[u].mgr = call[u].mgr /\ call'[u].kind = call[u].kind
               /\ call'[u].value = call[u].value /\ call'[u].conf = call[u].conf
    <3>1. call[u] \in Call /\ Elapse(call[u].left) \in Ends
      BY <2>1 DEF TypeInv, CoroutineInv, Call
    <3>2. call'[u] = IF pc[u] = "save" THEN [call[u] EXCEPT !.left = Elapse(@)] ELSE call[u]
      BY <1>13 DEF Tick
    <3>. QED
      BY <3>1, <3>2 DEF Call
  <2>5. call' \in [Tasks -> Call]
    BY <1>13, <2>4 DEF Tick
  <2>6. CoroutineInv'
    BY <1>13, <2>4, <2>5 DEF Tick, TypeInv, CoroutineInv, TaskOK, LockInv, HoldsLock
  <2>. QED
    BY <1>13, <2>3, <2>6 DEF Tick, TypeInv, DataOK, bounds, history
<1>14. CASE Unload
  <2>1. CoroutineInv'
    BY <1>14 DEF Unload, TypeInv, CoroutineInv, TaskOK, LockInv, HoldsLock
  <2>. QED
    BY <1>14, <2>1 DEF Unload, TypeInv, DataOK, Ends, history
<1>15. CASE Crash
  <2>1. <<>> \in Seq(Tasks)
    BY EmptySeq
  <2>2. call' \in [Tasks -> Call]
    BY <1>15 DEF Crash, NoCall, Call, Kinds, Ends
  <2>3. CoroutineInv'
    BY <1>15, <2>1, <2>2 DEF Crash, CoroutineInv, TaskOK, LockInv, NoCall
  <2>. QED
    BY <1>15, <2>1, <2>3 DEF Crash, TypeInv, DataOK, Ends, history
<1>. QED
  BY <1>1, <1>2, <1>3, <1>4, <1>5, <1>6, <1>7, <1>8, <1>9, <1>10, <1>11, <1>12, <1>13,
     <1>14, <1>15 DEF Next

\* The inductive invariant holds of every behaviour.
LEMMA Invariance == Spec => []TypeInv
BY InitType, TypeStep, PTL DEF Spec

\* Every variable keeps its type, whatever the coroutines interleave.
THEOREM TypeCorrect == Spec => []TypeOK
<1>1. TypeInv => TypeOK
  BY DEF TypeInv, DataOK, CoroutineInv, TypeOK
<1>. QED
  BY <1>1, Invariance, PTL

-----------------------------------------------------------------------------
(* The timer: an active override that is to end always has something that  *)
(* will end it, as long as the mode can be read (Events without "empty":  *)
(* an empty read raises a ValueError that async_clear does not retry).     *)
(*                                                                         *)
(* A start makes its override active before it saves it and arms the       *)
(* timer afterwards, so a start that arms none may run between the two     *)
(* halves of one that does.  It does no harm because the Store saves in    *)
(* the order of the calls: the last start in `saving' is the one whose     *)
(* override is active (SaveLast).                                          *)

\* The starts in the Store are waiting there, each once, for their own manager.
SavingOK(m) ==
  /\ \A i \in 1 .. Len(saving[m]) :
       pc[saving[m][i]] = "save" /\ call[saving[m][i]].mgr = m
  /\ \A i, j \in 1 .. Len(saving[m]) : saving[m][i] = saving[m][j] => i = j

\* The last of them set the override that is active, if one is.
SaveLast(m) ==
  saving[m] # <<>> /\ active[m] # None /\ call[saving[m][Len(saving[m])]].left = None
    => active[m].left = None

\* While async_load reverts an expired override the entry is not loaded and its
\* manager is nobody else's.
LoadOK(t) ==
  call[t].kind = "load" =>
    /\ live = None
    /\ timer[call[t].mgr] = None
    /\ \A u \in Tasks : u # t => call[u].mgr # call[t].mgr /\ call[u].kind # "load"
    /\ pc[t] = "remove" => active[call[t].mgr] = None

RevertInv ==
  /\ TypeInv
  /\ \A m \in Managers : SavingOK(m) /\ SaveLast(m)
  /\ \A t \in Tasks : LoadOK(t)
  /\ RevertPending

-----------------------------------------------------------------------------
\* What holds of the store's queue and of the loader is about the memory only.
LEMMA RevertInit == Init => RevertInv
<1>1. ASSUME Init, NEW m \in Managers PROVE SavingOK(m) /\ SaveLast(m)
  <2>1. saving[m] = <<>> /\ Len(saving[m]) = 0
    BY <1>1, EmptySeq DEF Init
  <2>. QED
    BY <2>1 DEF SavingOK, SaveLast
<1>2. ASSUME Init, NEW t \in Tasks PROVE LoadOK(t)
  BY <1>2 DEF Init, LoadOK, NoCall
<1>3. Init => RevertPending
  BY DEF Init, RevertPending
<1>. QED
  BY <1>1, <1>2, <1>3, InitType DEF RevertInv

\* A step that leaves the Store's queue, and the tasks in it, alone.
LEMMA SavingFrame ==
  ASSUME RevertInv, NEW m \in Managers, saving'[m] = saving[m],
         \A u \in Tasks : pc[u] = "save" => pc'[u] = "save" /\ call'[u] = call[u],
         \/ active'[m] = active[m]
         \/ active'[m] = None
         \/ \A u \in Tasks : call[u].mgr # m
  PROVE  SavingOK(m)' /\ SaveLast(m)'
<1>1. saving[m] \in Seq(Tasks) /\ SavingOK(m) /\ SaveLast(m)
  BY DEF RevertInv, TypeInv, DataOK
<1>2. \A i \in 1 .. Len(saving[m]) : saving[m][i] \in Tasks
  BY <1>1, ElementOfSeq
<1>3. SavingOK(m)'
  BY <1>1, <1>2 DEF SavingOK
<1>4. saving[m] # <<>> => Len(saving[m]) \in 1 .. Len(saving[m])
  BY <1>1, EmptySeq, LenProperties
<1>5. SaveLast(m)'
  <2>1. CASE \A u \in Tasks : call[u].mgr # m
    BY <1>1, <1>2, <1>4, <2>1 DEF SavingOK, SaveLast
  <2>2. CASE active'[m] = active[m] \/ active'[m] = None
    BY <1>1, <1>2, <1>4, <2>2 DEF SavingOK, SaveLast
  <2>. QED
    BY <2>1, <2>2
<1>. QED
  BY <1>3, <1>5

\* A step of task t on behalf of manager m: what has to be shown of m and t, for
\* the whole invariant to hold after it.
LEMMA ManagerStep ==
  ASSUME RevertInv, TypeInv', NEW t \in Tasks, NEW m \in Managers,
         live' = live,
         call[t].mgr \in {m, None}, call'[t].mgr \in {m, None},
         \A u \in Tasks : u # t => pc'[u] = pc[u] /\ call'[u] = call[u],
         \A n \in Managers : n # m =>
           timer'[n] = timer[n] /\ active'[n] = active[n] /\ saving'[n] = saving[n],
         \A u \in Tasks : u # t /\ call[u].kind = "load" =>
           call[u].mgr # m /\ call'[t].kind # "load",
         SavingOK(m)', SaveLast(m)', LoadOK(t)', live = m => RevertPending'
  PROVE  RevertInv'
<1> USE ConstantsAssumption
<1>1. ASSUME NEW n \in Managers, n # m PROVE SavingOK(n)' /\ SaveLast(n)'
  <2>1. saving[n] \in Seq(Tasks) /\ SavingOK(n) /\ SaveLast(n)
    BY DEF RevertInv, TypeInv, DataOK
  <2>2. \A i \in 1 .. Len(saving[n]) : saving[n][i] \in Tasks /\ saving[n][i] # t
    BY <1>1, <2>1, ElementOfSeq DEF SavingOK
  <2>3. saving[n] # <<>> => Len(saving[n]) \in 1 .. Len(saving[n])
    BY <2>1, EmptySeq, LenProperties
  <2>. QED
    BY <1>1, <2>1, <2>2, <2>3 DEF SavingOK, SaveLast
<1>2. ASSUME NEW u \in Tasks, u # t PROVE LoadOK(u)'
  <2>1. LoadOK(u) /\ (call[u].kind = "load" => call[u].mgr \in Managers)
    BY DEF RevertInv, TypeInv, CoroutineInv, TaskOK, Call
  <2>. QED
    BY <1>2, <2>1 DEF LoadOK
<1>3. RevertPending'
  <2>1. CASE live # m /\ live # None
    <3>1. live \in Managers
      BY <2>1 DEF RevertInv, TypeInv, DataOK
    <3>2. \A u \in Tasks : Clearing(u, live) => Clearing(u, live)'
      BY <2>1 DEF Clearing
    <3>. QED
      BY <2>1, <3>1, <3>2 DEF RevertInv, RevertPending
  <2>2. CASE live = None
    BY <2>2 DEF RevertPending
  <2>. QED
    BY <2>1, <2>2
<1>. QED
  BY <1>1, <1>2, <1>3 DEF RevertInv

\* A task that queues for the lock of m, where it is no loader.
LEMMA EnterStep ==
  ASSUME RevertInv, TypeInv', NEW t \in Tasks, NEW m \in Managers, pc[t] = "idle",
         NEW kind \in Kinds \ {"none", "load"}, NEW value, NEW prev, NEW left,
         EnterWrite(t, m, kind, value, prev, left),
         UNCHANGED <<live, active, saving>>,
         \A n \in Managers : n # m => timer'[n] = timer[n],
         timer'[m] = timer[m] \/ kind \in Clears,
         \A u \in Tasks : call[u].kind = "load" => call[u].mgr # m
  PROVE  RevertInv'
<1> USE ConstantsAssumption
<1>1. /\ pc' = [pc EXCEPT ![t] = "read"]
      /\ call'[t] = [kind |-> kind, mgr |-> m, value |-> value,
                     prev |-> prev, left |-> left, conf |-> None]
      /\ \A u \in Tasks : u # t => call'[u] = call[u] /\ pc'[u] = pc[u]
  BY DEF EnterWrite, RevertInv, TypeInv, CoroutineInv
<1>2. call[t].mgr = None
  BY DEF RevertInv, TypeInv, CoroutineInv, TaskOK
<1>3. SavingOK(m)' /\ SaveLast(m)'
  BY <1>1, SavingFrame
<1>4. LoadOK(t)'
  BY <1>1 DEF LoadOK
<1>5. live = m => RevertPending'
  <2>1. CASE kind \in Clears
    <3>1. Clearing(t, m)'
      BY <1>1, <2>1 DEF Clearing, RevertInv, TypeInv, CoroutineInv
    <3>. QED
      BY <3>1 DEF RevertPending
  <2>2. CASE timer'[m] = timer[m]
    <3>1. \A u \in Tasks : Clearing(u, m) => Clearing(u, m)'
      BY <1>1, <1>2 DEF Clearing
    <3>. QED
      BY <2>2, <3>1 DEF RevertInv, RevertPending
  <2>. QED
    BY <2>1, <2>2
<1>. QED
  BY <1>1, <1>2, <1>3, <1>4, <1>5, ManagerStep

\* While the entry is loaded, and where a timer is armed, nobody is loading.
LEMMA NoLoader ==
  ASSUME RevertInv, NEW m \in Managers, live # None \/ timer[m] # None,
         NEW u \in Tasks, call[u].kind = "load"
  PROVE  call[u].mgr # m /\ live = None
BY DEF RevertInv, LoadOK

\* The prefix of async_clear, run by the service or by the timer.
LEMMA ClearStep ==
  ASSUME RevertInv, TypeInv', NEW t \in Tasks, NEW m \in Managers, pc[t] = "idle",
         NEW kind \in {"clear", "revert"}, active[m] # None,
         BeginClear(t, m, kind, active[m]),
         UNCHANGED <<live, saving>>, live # None \/ timer[m] # None
  PROVE  RevertInv'
<1> USE ConstantsAssumption
<1>1. \A u \in Tasks : call[u].kind = "load" => call[u].mgr # m
  BY NoLoader
<1>2. timer \in [Managers -> Ends] /\ active \in [Managers -> OverrideRecord \cup {None}]
  BY DEF RevertInv, TypeInv, DataOK
<1>3. \A n \in Managers : n # m => timer'[n] = timer[n]
  BY <1>2 DEF BeginClear
<1>4. CASE /\ EnterWrite(t, m, kind, active[m].prev, None, None)
           /\ active' = [active EXCEPT ![m] = active[m]]
  <2>1. active' = active
    BY <1>2, <1>4
  <2>. QED
    BY <1>1, <1>3, <1>4, <2>1, EnterStep DEF Kinds, Clears
<1>5. CASE /\ active' = [active EXCEPT ![m] = None]
           /\ pc' = [pc EXCEPT ![t] = "remove"]
           /\ call' = [call EXCEPT ![t] = [NoCall EXCEPT !.kind = kind, !.mgr = m]]
  <2>1. /\ call'[t].mgr = m /\ call'[t].kind = kind
        /\ \A u \in Tasks : u # t => call'[u] = call[u] /\ pc'[u] = pc[u]
    BY <1>5 DEF NoCall, RevertInv, TypeInv, CoroutineInv
  <2>2. call[t].mgr = None
    BY DEF RevertInv, TypeInv, CoroutineInv, TaskOK
  <2>3. active'[m] = None /\ \A n \in Managers : n # m => active'[n] = active[n]
    BY <1>2, <1>5
  <2>4. SavingOK(m)' /\ SaveLast(m)'
    BY <2>1, <2>3, SavingFrame
  <2>5. LoadOK(t)' /\ (live = m => RevertPending')
    BY <2>1, <2>3 DEF LoadOK, RevertPending
  <2>. QED
    BY <1>1, <1>3, <2>1, <2>2, <2>3, <2>4, <2>5, ManagerStep
<1>. QED
  BY <1>4, <1>5 DEF BeginClear

\* A request refused: a clear arms the retry.
LEMMA FailStep ==
  ASSUME RevertInv, TypeInv', NEW t \in Tasks, pc[t] \in {"read", "write"}, Fail(t)
  PROVE  RevertInv'
<1> USE ConstantsAssumption
<1>1. PICK m \in Managers : m = call[t].mgr
  BY DEF RevertInv, TypeInv, CoroutineInv, TaskOK, Call
<1>2. /\ call'[t] = NoCall
      /\ \A u \in Tasks : u # t => call'[u] = call[u] /\ pc'[u] = pc[u]
  BY ReturnFacts DEF RevertInv, TypeInv, Fail
<1>3. /\ timer'[m] = IF call[t].kind \in Clears THEN RetryDelay ELSE timer[m]
      /\ \A n \in Managers : n # m => timer'[n] = timer[n]
  BY <1>1 DEF Fail, Retry, Armed, RevertInv, TypeInv, DataOK
<1>4. SavingOK(m)' /\ SaveLast(m)'
  BY <1>1, <1>2, SavingFrame DEF Fail
<1>5. LoadOK(t)' /\ call'[t].mgr = None /\ call'[t].kind = "none"
  BY <1>2 DEF LoadOK, NoCall
<1>6. live = m => RevertPending'
  <2>1. CASE call[t].kind \in Clears
    BY <1>3, <2>1 DEF Fail, RevertPending
  <2>2. CASE call[t].kind \notin Clears
    <3>1. \A u \in Tasks : Clearing(u, m) => Clearing(u, m)'
      BY <1>2, <2>2 DEF Clearing
    <3>. QED
      BY <1>3, <2>2, <3>1 DEF Fail, RevertPending, RevertInv
  <2>. QED
    BY <2>1, <2>2
<1>7. \A u \in Tasks : u # t /\ call[u].kind = "load" => call[u].mgr # m
  BY <1>1 DEF RevertInv, LoadOK
<1>. QED
  BY <1>1, <1>2, <1>3, <1>4, <1>5, <1>6, <1>7, ManagerStep DEF Fail

\* The read and the write of one task under the lock, when they succeed.
LEMMA AdvanceStep ==
  ASSUME RevertInv, TypeInv', NEW t \in Tasks, pc[t] \in {"read", "write"},
         pc'[t] \in {"write", "refresh"},
         call'[t].mgr = call[t].mgr, call'[t].kind = call[t].kind,
         \A u \in Tasks : u # t => call'[u] = call[u] /\ pc'[u] = pc[u],
         UNCHANGED <<live, active, timer, saving>>
  PROVE  RevertInv'
<1>1. PICK m \in Managers : m = call[t].mgr
  BY DEF RevertInv, TypeInv, CoroutineInv, TaskOK, Call
<1>2. SavingOK(m)' /\ SaveLast(m)'
  BY SavingFrame
<1>3. LoadOK(t)'
  BY DEF RevertInv, LoadOK
<1>4. RevertPending'
  <2>1. \A u \in Tasks : Clearing(u, live) => Clearing(u, live)'
    BY DEF Clearing
  <2>. QED
    BY <2>1 DEF RevertInv, RevertPending
<1>5. \A u \in Tasks : u # t /\ call[u].kind = "load" =>
        call[u].mgr # m /\ call'[t].kind # "load"
  BY <1>1 DEF RevertInv, LoadOK
<1>. QED
  BY <1>1, <1>2, <1>3, <1>4, <1>5, ManagerStep

\* A write that succeeded: a start becomes active and goes to the Store, a clear
\* ends the override, a setting is done.
LEMMA RefreshStep ==
  ASSUME RevertInv, TypeInv', NEW t \in Tasks, Refresh(t)
  PROVE  RevertInv'
<1> USE ConstantsAssumption
<1>1. PICK m \in Managers : m = call[t].mgr
  BY DEF RevertInv, TypeInv, CoroutineInv, TaskOK, Call, Refresh
<1>2. /\ pc[t] = "refresh" /\ UNCHANGED <<live, timer>>
      /\ active \in [Managers -> OverrideRecord \cup {None}]
      /\ saving \in [Managers -> Seq(Tasks)]
  BY DEF RevertInv, TypeInv, DataOK, Refresh
<1>3. \A u \in Tasks : u # t /\ call[u].kind = "load" =>
        call[u].mgr # m /\ call[t].kind # "load"
  BY <1>1 DEF RevertInv, LoadOK
<1>4. CASE /\ call[t].kind = "start"
           /\ active' = [active EXCEPT ![call[t].mgr] =
                [target |-> call[t].value, prev |-> call[t].prev, left |-> call[t].left]]
           /\ saving' = [saving EXCEPT ![call[t].mgr] = Append(@, t)]
           /\ pc' = [pc EXCEPT ![t] = "save"]
           /\ UNCHANGED call
  <2>1. /\ pc'[t] = "save" /\ \A u \in Tasks : u # t => pc'[u] = pc[u]
        /\ saving'[m] = Append(saving[m], t) /\ active'[m].left = call[t].left
        /\ \A n \in Managers : n # m => active'[n] = active[n] /\ saving'[n] = saving[n]
    BY <1>1, <1>2, <1>4 DEF RevertInv, TypeInv, CoroutineInv
  <2>2. SavingOK(m) /\ saving[m] \in Seq(Tasks)
    BY <1>2 DEF RevertInv
  <2>3. /\ Len(saving'[m]) = Len(saving[m]) + 1 /\ Len(saving[m]) \in Nat
        /\ \A i \in 1 .. Len(saving[m]) : saving'[m][i] = saving[m][i]
        /\ saving'[m][Len(saving[m]) + 1] = t
        /\ saving'[m] # <<>>
    BY <2>1, <2>2, AppendProperties, LenProperties
  <2>4. \A i \in 1 .. Len(saving[m]) : saving[m][i] \in Tasks /\ saving[m][i] # t
    BY <1>2, <2>2, ElementOfSeq DEF SavingOK
  <2>5. SavingOK(m)'
    BY <1>1, <1>4, <2>1, <2>2, <2>3, <2>4 DEF SavingOK
  <2>6. SaveLast(m)'
    BY <1>4, <2>1, <2>3 DEF SaveLast
  <2>7. LoadOK(t)' /\ (live = m => RevertPending')
    BY <1>2, <1>4, <2>3 DEF LoadOK, RevertPending
  <2>. QED
    BY <1>1, <1>2, <1>3, <1>4, <2>1, <2>5, <2>6, <2>7, ManagerStep
<1>5. CASE /\ call[t].kind \in Clears
           /\ active' = [active EXCEPT ![call[t].mgr] = None]
           /\ pc' = [pc EXCEPT ![t] = "remove"]
           /\ UNCHANGED <<call, saving>>
  <2>1. /\ \A u \in Tasks : u # t => pc'[u] = pc[u]
        /\ active'[m] = None
        /\ \A n \in Managers : n # m => active'[n] = active[n]
    BY <1>1, <1>2, <1>5 DEF RevertInv, TypeInv, CoroutineInv
  <2>2. SavingOK(m)' /\ SaveLast(m)'
    BY <1>2, <1>5, <2>1, SavingFrame
  <2>3. LoadOK(t)' /\ (live = m => RevertPending')
    BY <1>1, <1>2, <1>5, <2>1 DEF RevertInv, LoadOK, RevertPending
  <2>. QED
    BY <1>1, <1>2, <1>3, <1>5, <2>1, <2>2, <2>3, ManagerStep
<1>6. CASE call[t].kind \in {"reserve", "other"} /\ Return(t) /\ UNCHANGED <<active, saving>>
  <2>1. /\ call'[t] = NoCall
        /\ \A u \in Tasks : u # t => call'[u] = call[u] /\ pc'[u] = pc[u]
    BY <1>6, ReturnFacts DEF RevertInv, TypeInv
  <2>2. SavingOK(m)' /\ SaveLast(m)'
    BY <1>2, <1>6, <2>1, SavingFrame
  <2>3. LoadOK(t)' /\ call'[t].mgr = None /\ call'[t].kind = "none"
    BY <2>1 DEF LoadOK, NoCall
  <2>4. RevertPending'
    <3>1. \A u \in Tasks : Clearing(u, live) => Clearing(u, live)'
      BY <1>2, <1>6, <2>1 DEF Clearing, Clears
    <3>. QED
      BY <1>2, <1>6, <3>1 DEF RevertInv, RevertPending
  <2>. QED
    BY <1>1, <1>2, <1>3, <1>6, <2>1, <2>2, <2>3, <2>4, ManagerStep
<1>. QED
  BY <1>4, <1>5, <1>6 DEF Refresh

\* The Store has saved: the timer is armed, unless the override has no end, and
\* then either it is the active one or another start is yet to arm.
LEMMA SaveStep ==
  ASSUME RevertInv, TypeInv', NEW t \in Tasks, Save(t)
  PROVE  RevertInv'
<1> USE ConstantsAssumption
<1>1. PICK m \in Managers : m = call[t].mgr
  BY DEF RevertInv, TypeInv, CoroutineInv, TaskOK, Call, Save
<1>2. /\ pc[t] = "save" /\ UNCHANGED <<live, active>>
      /\ timer \in [Managers -> Ends]
      /\ saving \in [Managers -> Seq(Tasks)]
  BY DEF RevertInv, TypeInv, DataOK, Save
<1>3. call[t].kind = "start"
  BY <1>2 DEF RevertInv, TypeInv, CoroutineInv, TaskOK
<1>4. /\ call'[t] = NoCall
      /\ \A u \in Tasks : u # t => call'[u] = call[u] /\ pc'[u] = pc[u]
  BY ReturnFacts DEF RevertInv, TypeInv, Save
<1>5. /\ saving[m] # <<>> /\ Head(saving[m]) = t /\ saving'[m] = Tail(saving[m])
      /\ timer'[m] = call[t].left
      /\ \A n \in Managers : n # m => saving'[n] = saving[n] /\ timer'[n] = timer[n]
  BY <1>1, <1>2 DEF Save, Armed
<1>6. SavingOK(m) /\ SaveLast(m) /\ saving[m] \in Seq(Tasks)
  BY <1>2 DEF RevertInv
<1>7. /\ Len(saving[m]) \in Nat /\ Len(saving[m]) > 0 /\ saving[m][1] = t
      /\ saving'[m] \in Seq(Tasks)
      /\ Len(saving'[m]) = Len(saving[m]) - 1
      /\ \A i \in 1 .. Len(saving'[m]) : saving'[m][i] = saving[m][i + 1]
  BY <1>5, <1>6, HeadTailProperties, EmptySeq, LenProperties
<1>8. \A i \in 1 .. Len(saving'[m]) : saving'[m][i] \in Tasks /\ saving'[m][i] # t
  BY <1>6, <1>7, ElementOfSeq DEF SavingOK
<1>9. SavingOK(m)'
  <2>1. ASSUME NEW i \in 1 .. Len(saving'[m])
        PROVE  i + 1 \in 1 .. Len(saving[m]) /\ saving'[m][i] = saving[m][i + 1]
    BY <1>7
  <2>2. ASSUME NEW i \in 1 .. Len(saving'[m])
        PROVE  pc'[saving'[m][i]] = "save" /\ call'[saving'[m][i]].mgr = m
    BY <1>4, <1>6, <1>8, <2>1 DEF SavingOK
  <2>3. ASSUME NEW i \in 1 .. Len(saving'[m]), NEW j \in 1 .. Len(saving'[m]),
               saving'[m][i] = saving'[m][j]
        PROVE  i = j
    <3>1. i + 1 = j + 1
      BY <1>6, <2>1, <2>3 DEF SavingOK
    <3>. QED
      BY <1>7, <3>1
  <2>. QED
    BY <2>2, <2>3 DEF SavingOK
<1>10. saving'[m] # <<>> => /\ Len(saving'[m]) \in 1 .. Len(saving'[m])
                           /\ saving'[m][Len(saving'[m])] = saving[m][Len(saving[m])]
  BY <1>7, EmptySeq, LenProperties
<1>11. SaveLast(m)'
  BY <1>2, <1>4, <1>5, <1>6, <1>8, <1>10 DEF SaveLast
<1>12. LoadOK(t)' /\ call'[t].mgr = None /\ call'[t].kind = "none"
  BY <1>4 DEF LoadOK, NoCall
<1>13. live = m => RevertPending'
  <2>1. CASE call[t].left # None \/ saving'[m] # <<>>
    BY <1>2, <1>5, <2>1 DEF RevertPending
  <2>2. CASE call[t].left = None /\ saving'[m] = <<>>
    <3>1. Len(saving[m]) = 1
      BY <1>7, <2>2, EmptySeq
    <3>2. active[m] # None => active[m].left = None
      BY <1>5, <1>6, <1>7, <2>2, <3>1 DEF SaveLast
    <3>. QED
      BY <1>2, <3>2 DEF RevertPending
  <2>. QED
    BY <2>1, <2>2
<1>14. \A u \in Tasks : u # t /\ call[u].kind = "load" => call[u].mgr # m
  BY <1>1 DEF RevertInv, LoadOK
<1>. QED
  BY <1>1, <1>2, <1>4, <1>5, <1>9, <1>11, <1>12, <1>13, <1>14, ManagerStep

\* A clear ends with the removal of the record; a loader then owns the entry.
LEMMA RemoveStep ==
  ASSUME RevertInv, TypeInv', NEW t \in Tasks, Remove(t)
  PROVE  RevertInv'
<1> USE ConstantsAssumption
<1>1. PICK m \in Managers : m = call[t].mgr
  BY DEF RevertInv, TypeInv, CoroutineInv, TaskOK, Call, Remove
<1>2. pc[t] = "remove" /\ UNCHANGED <<active, timer, saving>>
  BY DEF Remove
<1>3. /\ call'[t] = NoCall
      /\ \A u \in Tasks : u # t => call'[u] = call[u] /\ pc'[u] = pc[u]
  BY ReturnFacts DEF RevertInv, TypeInv, Remove
<1>4. LoadOK(t)' /\ call'[t].mgr = None /\ call'[t].kind = "none"
  BY <1>3 DEF LoadOK, NoCall
<1>5. \A n \in Managers : SavingOK(n)' /\ SaveLast(n)'
  BY <1>2, <1>3, SavingFrame
<1>6. CASE call[t].kind # "load"
  <2>1. live' = live
    BY <1>6 DEF Remove
  <2>2. RevertPending'
    <3>1. \A u \in Tasks : Clearing(u, live) => Clearing(u, live)'
      BY <1>2, <1>3, <2>1 DEF Clearing
    <3>. QED
      BY <1>2, <2>1, <3>1 DEF RevertInv, RevertPending
  <2>3. \A u \in Tasks : u # t /\ call[u].kind = "load" => call[u].mgr # m
    BY <1>1 DEF RevertInv, LoadOK
  <2>. QED
    BY <1>1, <1>2, <1>3, <1>4, <1>5, <2>1, <2>2, <2>3, ManagerStep
<1>7. CASE call[t].kind = "load"
  <2>1. live' = m /\ active[m] = None
    BY <1>1, <1>2, <1>7 DEF Remove, RevertInv, LoadOK
  <2>2. RevertPending'
    BY <1>2, <2>1 DEF RevertPending
  <2>3. ASSUME NEW u \in Tasks PROVE LoadOK(u)'
    BY <1>3, <1>4, <1>7 DEF RevertInv, LoadOK
  <2>. QED
    BY <1>5, <2>2, <2>3 DEF RevertInv
<1>. QED
  BY <1>6, <1>7

\* A new manager, which no coroutine knows.
LEMMA SetupStep ==
  ASSUME RevertInv, TypeInv', NEW t \in Tasks, NEW m \in Managers, Setup(t, m)
  PROVE  RevertInv'
<1> USE ConstantsAssumption
<1>1. /\ live = None /\ pc[t] = "idle" /\ UNCHANGED saving
      /\ \A u \in Tasks : call[u].mgr # m /\ call[u].kind # "load"
      /\ active \in [Managers -> OverrideRecord \cup {None}]
      /\ timer \in [Managers -> Ends]
  BY DEF RevertInv, TypeInv, DataOK, Setup, Unused, Loading
<1>2. CASE live' = m /\ UNCHANGED <<pc, call>>
  <2>1. \A n \in Managers : n # m => active'[n] = active[n]
    BY <1>1, <1>2 DEF Setup
  <2>2. \A n \in Managers : SavingOK(n)' /\ SaveLast(n)'
    BY <1>1, <1>2, <2>1, SavingFrame
  <2>3. \A u \in Tasks : LoadOK(u)'
    BY <1>1, <1>2 DEF LoadOK
  <2>4. CASE active' = [active EXCEPT ![m] = None]
    BY <1>1, <1>2, <2>2, <2>3, <2>4 DEF RevertInv, RevertPending
  <2>5. CASE active' = [active EXCEPT ![m] = store] /\ timer' = Armed(m, store.left)
    BY <1>1, <1>2, <2>2, <2>3, <2>5 DEF RevertInv, RevertPending, Armed
  <2>. QED
    BY <1>1, <1>2, <2>4, <2>5 DEF Setup
<1>3. CASE BeginClear(t, m, "load", store) /\ UNCHANGED live
  <2>1. /\ call'[t].mgr = m /\ call'[t].kind = "load" /\ pc'[t] \in {"read", "remove"}
        /\ pc'[t] = "remove" => active'[m] = None
        /\ timer'[m] = None
        /\ \A u \in Tasks : u # t => call'[u] = call[u] /\ pc'[u] = pc[u]
        /\ \A n \in Managers : n # m => active'[n] = active[n] /\ timer'[n] = timer[n]
    <3>1. CASE EnterWrite(t, m, "load", store.prev, None, None)
               /\ active' = [active EXCEPT ![m] = store]
      BY <1>1, <1>3, <3>1 DEF BeginClear, EnterWrite, RevertInv, TypeInv, CoroutineInv
    <3>2. CASE /\ active' = [active EXCEPT ![m] = None]
               /\ pc' = [pc EXCEPT ![t] = "remove"]
               /\ call' = [call EXCEPT ![t] = [NoCall EXCEPT !.kind = "load", !.mgr = m]]
      BY <1>1, <1>3, <3>2 DEF BeginClear, NoCall, RevertInv, TypeInv, CoroutineInv
    <3>. QED
      BY <1>3, <3>1, <3>2 DEF BeginClear
  <2>2. \A n \in Managers : SavingOK(n)' /\ SaveLast(n)'
    BY <1>1, <2>1, SavingFrame
  <2>3. \A u \in Tasks : LoadOK(u)'
    BY <1>1, <1>3, <2>1 DEF LoadOK
  <2>4. RevertPending'
    BY <1>1, <1>3 DEF RevertPending
  <2>. QED
    BY <2>2, <2>3, <2>4 DEF RevertInv
<1>. QED
  BY <1>2, <1>3 DEF Setup

\* Time passes for every copy of an end alike: none appears, none disappears.
LEMMA TickStep ==
  ASSUME RevertInv, TypeInv', Tick
  PROVE  RevertInv'
<1> USE ConstantsAssumption
<1>1. \A left \in Ends : Elapse(left) = None <=> left = None
  BY DEF Elapse, Ends
<1>2. /\ UNCHANGED <<live, saving, pc>>
      /\ timer \in [Managers -> Ends] /\ call \in [Tasks -> Call]
      /\ active \in [Managers -> OverrideRecord \cup {None}]
      /\ saving \in [Managers -> Seq(Tasks)]
  BY DEF Tick, RevertInv, TypeInv, DataOK, CoroutineInv
<1>3. \A m \in Managers : timer'[m] = None <=> timer[m] = None
  BY <1>1, <1>2 DEF Tick
<1>4. ASSUME NEW m \in Managers, active'[m] # None
      PROVE  active[m] # None /\ (active'[m].left = None <=> active[m].left = None)
  <2>1. active'[m] = ElapseOf(active[m]) /\ active[m] # None
    BY <1>4 DEF Tick, ElapseOf
  <2>2. active[m] \in OverrideRecord /\ active[m].left \in Ends
    BY <1>2, <2>1 DEF OverrideRecord
  <2>3. active'[m].left = Elapse(active[m].left)
    BY <2>1, <2>2 DEF ElapseOf, OverrideRecord
  <2>. QED
    BY <1>1, <2>1, <2>2, <2>3
<1>5. ASSUME NEW u \in Tasks
      PROVE  /\ call'[u].mgr = call[u].mgr /\ call'[u].kind = call[u].kind
             /\ call'[u].left = None <=> call[u].left = None
  <2>1. call[u] \in Call /\ call[u].left \in Ends
    BY <1>2 DEF Call
  <2>2. call'[u] = IF pc[u] = "save" THEN [call[u] EXCEPT !.left = Elapse(@)] ELSE call[u]
    BY DEF Tick
  <2>. QED
    BY <1>1, <2>1, <2>2 DEF Call
<1>6. ASSUME NEW m \in Managers PROVE SavingOK(m)' /\ SaveLast(m)'
  <2>1. saving[m] \in Seq(Tasks) /\ SavingOK(m) /\ SaveLast(m)
    BY <1>2 DEF RevertInv
  <2>2. \A i \in 1 .. Len(saving[m]) : saving[m][i] \in Tasks
    BY <2>1, ElementOfSeq
  <2>3. saving[m] # <<>> => Len(saving[m]) \in 1 .. Len(saving[m])
    BY <2>1, EmptySeq, LenProperties
  <2>4. SavingOK(m)'
    BY <1>2, <1>5, <2>1, <2>2 DEF SavingOK
  <2>5. SaveLast(m)'
    BY <1>2, <1>4, <1>5, <2>1, <2>2, <2>3 DEF SaveLast
  <2>. QED
    BY <2>4, <2>5
<1>7. ASSUME NEW u \in Tasks PROVE LoadOK(u)'
  <2>1. LoadOK(u) /\ (call[u].kind = "load" => call[u].mgr \in Managers)
    BY DEF RevertInv, TypeInv, CoroutineInv, TaskOK, Call
  <2>. QED
    BY <1>2, <1>3, <1>4, <1>5, <2>1 DEF LoadOK
<1>8. RevertPending'
  <2>1. \A u \in Tasks : Clearing(u, live) => Clearing(u, live)'
    BY <1>2, <1>5 DEF Clearing
  <2>2. live \in Managers \cup {None}
    BY DEF RevertInv, TypeInv, DataOK
  <2>. QED
    BY <1>2, <1>3, <1>4, <2>1, <2>2 DEF RevertInv, RevertPending
<1>. QED
  BY <1>6, <1>7, <1>8 DEF RevertInv

\* Every step keeps the invariant, as long as no clear dies of an exception it does
\* not handle (override.py:146-160).
LEMMA RevertStep ==
  ASSUME "empty" \notin Events, RevertInv, [Next]_vars
  PROVE  RevertInv'
<1> USE ConstantsAssumption
<1>1. TypeInv'
  BY TypeStep DEF RevertInv
<1>2. CASE UNCHANGED vars
  BY <1>1, <1>2 DEF RevertInv, SavingOK, SaveLast, LoadOK, RevertPending, Clearing, vars, memory
<1>3. ASSUME NEW t \in Tasks, UserCalls(t)
      PROVE  /\ live \in Managers /\ pc[t] = "idle"
             /\ \A u \in Tasks : call[u].kind = "load" => call[u].mgr # live
  <2>1. live \in Managers /\ pc[t] = "idle" /\ live # None
    BY <1>3 DEF UserCalls, RevertInv, TypeInv, DataOK
  <2>. QED
    BY <2>1, NoLoader
<1>4. ASSUME NEW t \in Tasks, Start(t) \/ SetReserve(t) \/ SetOther(t) PROVE RevertInv'
  <2>1. UserCalls(t) /\ UNCHANGED <<live, active, timer, saving>>
    BY <1>4 DEF Start, SetReserve, SetOther
  <2>2. PICK kind \in {"start", "reserve", "other"} :
          \E value, prev, left : EnterWrite(t, live, kind, value, prev, left)
    BY <1>4 DEF Start, SetReserve, SetOther
  <2>. QED
    BY <1>1, <1>3, <2>1, <2>2, EnterStep DEF Kinds, Clears
<1>5. ASSUME NEW t \in Tasks, Clear(t) PROVE RevertInv'
  <2>1. UserCalls(t) /\ live # None
    BY <1>5 DEF Clear, UserCalls
  <2>. QED
    BY <1>1, <1>3, <1>5, <2>1, ClearStep DEF Clear
<1>6. ASSUME NEW t \in Tasks, NEW m \in Managers, Fire(t, m) PROVE RevertInv'
  <2>1. timer[m] # None /\ pc[t] = "idle" /\ UNCHANGED <<live, saving>>
    BY <1>6 DEF Fire
  <2>2. CASE active[m] # None /\ BeginClear(t, m, "revert", active[m])
    BY <1>1, <2>1, <2>2, ClearStep
  <2>3. CASE /\ active[m] = None /\ timer' = [timer EXCEPT ![m] = None]
             /\ UNCHANGED <<active, queue, pc, call>>
    <3>1. call[t].mgr = None /\ call[t].kind = "none"
      BY <2>1 DEF RevertInv, TypeInv, CoroutineInv, TaskOK
    <3>2. SavingOK(m)' /\ SaveLast(m)'
      BY <2>1, <2>3, SavingFrame
    <3>3. LoadOK(t)' /\ (live = m => RevertPending')
      BY <2>1, <2>3, <3>1 DEF LoadOK, RevertPending
    <3>4. \A n \in Managers : n # m => timer'[n] = timer[n]
      BY <2>3 DEF RevertInv, TypeInv, DataOK
    <3>. QED
      BY <1>1, <2>1, <2>3, <3>1, <3>2, <3>3, <3>4, NoLoader, ManagerStep
  <2>. QED
    BY <1>6, <2>2, <2>3 DEF Fire
<1>7. ASSUME NEW t \in Tasks, Read(t) PROVE RevertInv'
  <2>1. pc[t] = "read"
    BY <1>7 DEF Read
  <2>2. CASE Fail(t)
    BY <1>1, <2>1, <2>2, FailStep
  <2>3. CASE /\ pc' = [pc EXCEPT ![t] = "write"]
             /\ \E conf \in Reported :
                  call' = [call EXCEPT ![t].conf = conf, ![t].prev = Previous(call[t], conf)]
             /\ UNCHANGED <<store, live, active, timer, queue, saving, bounds>>
    <3>. PICK conf \in Reported :
           call' = [call EXCEPT ![t].conf = conf, ![t].prev = Previous(call[t], conf)]
      BY <2>3
    <3>1. call'[t] = [call[t] EXCEPT !.conf = conf, !.prev = Previous(call[t], conf)]
      BY <2>3 DEF RevertInv, TypeInv, CoroutineInv
    <3>2. call'[t].mgr = call[t].mgr /\ call'[t].kind = call[t].kind
      BY <3>1 DEF RevertInv, TypeInv, CoroutineInv, Call
    <3>3. /\ pc'[t] = "write"
          /\ \A u \in Tasks : u # t => call'[u] = call[u] /\ pc'[u] = pc[u]
      BY <2>3 DEF RevertInv, TypeInv, CoroutineInv
    <3>. QED
      BY <1>1, <2>1, <2>3, <3>2, <3>3, AdvanceStep
  <2>. QED
    BY <1>7, <2>2, <2>3 DEF Read
<1>8. ASSUME NEW t \in Tasks, Write(t) PROVE RevertInv'
  <2>1. pc[t] = "write"
    BY <1>8 DEF Write
  <2>2. CASE Fail(t)
    BY <1>1, <2>1, <2>2, FailStep
  <2>3. CASE /\ pc' = [pc EXCEPT ![t] = "refresh"]
             /\ UNCHANGED <<store, live, active, timer, queue, saving, call, bounds>>
    <3>1. pc'[t] = "refresh" /\ \A u \in Tasks : u # t => pc'[u] = pc[u]
      BY <2>3 DEF RevertInv, TypeInv, CoroutineInv
    <3>. QED
      BY <1>1, <2>1, <2>3, <3>1, AdvanceStep
  <2>. QED
    BY <1>8, <2>2, <2>3 DEF Write
<1>9. ASSUME NEW t \in Tasks, Refresh(t) \/ Save(t) \/ Remove(t) PROVE RevertInv'
  BY <1>1, <1>9, RefreshStep, SaveStep, RemoveStep
<1>10. ASSUME NEW t \in Tasks, NEW m \in Managers, Setup(t, m) PROVE RevertInv'
  BY <1>1, <1>10, SetupStep
<1>11. CASE Tick
  BY <1>1, <1>11, TickStep
<1>12. CASE Unload
  <2>1. /\ live' = None /\ live # None /\ UNCHANGED <<active, saving, pc, call>>
    BY <1>12 DEF Unload
  <2>2. \A m \in Managers : SavingOK(m)' /\ SaveLast(m)'
    BY <2>1, SavingFrame
  <2>3. \A t \in Tasks : LoadOK(t)'
    BY <2>1 DEF RevertInv, LoadOK
  <2>. QED
    BY <1>1, <2>1, <2>2, <2>3 DEF RevertInv, RevertPending
<1>13. CASE Crash
  <2>1. live' = None /\ \A m \in Managers : saving'[m] = <<>>
    BY <1>13 DEF Crash
  <2>2. \A t \in Tasks : call'[t] = NoCall
    BY <1>13 DEF Crash
  <2>3. \A m \in Managers : SavingOK(m)' /\ SaveLast(m)'
    BY <2>1, EmptySeq DEF SavingOK, SaveLast
  <2>4. \A t \in Tasks : LoadOK(t)'
    BY <2>2 DEF LoadOK, NoCall
  <2>. QED
    BY <1>1, <2>1, <2>3, <2>4 DEF RevertInv, RevertPending
<1>. QED
  BY <1>2, <1>4, <1>5, <1>6, <1>7, <1>8, <1>9, <1>10, <1>11, <1>12, <1>13 DEF Next

\* While every mode read is answered with data, an active override that is to end
\* always has a timer, a clear or a start that will see to it, over reloads,
\* restarts, refusals and lost answers (override.py async_start, async_clear,
\* async_load, async_unload).
THEOREM RevertAlwaysPending ==
  ASSUME "empty" \notin Events
  PROVE  Spec => []RevertPending
<1>1. RevertInv /\ [Next]_vars => RevertInv'
  BY RevertStep
<1>2. RevertInv => RevertPending
  BY DEF RevertInv
<1>. QED
  BY RevertInit, <1>1, <1>2, PTL DEF Spec

-----------------------------------------------------------------------------
(* The lines at the lock and at the Store.                                 *)

\* t waits for the lock or holds it.
AtLock(t) == pc[t] \in {"read", "write", "refresh"}

\* q lists the members of S, each of them once.
Lists(q, S) ==
  /\ \A i \in 1 .. Len(q) : q[i] \in S
  /\ \A i, j \in 1 .. Len(q) : q[i] = q[j] => i = j
  /\ \A t \in S : \E i \in 1 .. Len(q) : q[i] = t

AtLockOf(m) == {t \in Tasks : AtLock(t) /\ call[t].mgr = m}
AtStoreOf(m) == {t \in Tasks : pc[t] = "save" /\ call[t].mgr = m}

\* In the lines are those who wait for them, so that none stands behind a task
\* that has ended and will not let it pass.
NobodyLeftInLine ==
  \A m \in Managers : Lists(queue[m], AtLockOf(m)) /\ Lists(saving[m], AtStoreOf(m))

LEMMA ListNone ==
  ASSUME NEW S, S = {}
  PROVE  Lists(<<>>, S)
BY EmptySeq DEF Lists

\* A newcomer is listed last.
LEMMA ListJoin ==
  ASSUME NEW q \in Seq(Tasks), NEW S, Lists(q, S), NEW t \in Tasks, t \notin S
  PROVE  Lists(Append(q, t), S \cup {t})
<1> DEFINE r == Append(q, t)
<1>1. /\ Len(r) = Len(q) + 1 /\ Len(q) \in Nat
      /\ \A i \in 1 .. Len(q) : r[i] = q[i]
      /\ r[Len(q) + 1] = t
  BY AppendProperties, LenProperties
<1> HIDE DEF r
<1>2. \A i \in 1 .. Len(r) : i \in 1 .. Len(q) \/ i = Len(q) + 1
  BY <1>1
<1>3. \A i \in 1 .. Len(q) : i \in 1 .. Len(r) /\ r[i] # t
  BY <1>1 DEF Lists
<1>4. \A i \in 1 .. Len(r) : r[i] \in S \cup {t}
  BY <1>1, <1>2 DEF Lists
<1>5. \A i, j \in 1 .. Len(r) : r[i] = r[j] => i = j
  BY <1>1, <1>2, <1>3 DEF Lists
<1>6. \A u \in S \cup {t} : \E i \in 1 .. Len(r) : r[i] = u
  <2>1. Len(q) + 1 \in 1 .. Len(r)
    BY <1>1
  <2>. QED
    BY <1>1, <1>3, <2>1 DEF Lists
<1>7. Lists(r, S \cup {t})
  BY <1>4, <1>5, <1>6 DEF Lists
<1>. QED
  BY <1>7 DEF r

\* Who leaves from the front was listed nowhere else.
LEMMA ListLeave ==
  ASSUME NEW q \in Seq(Tasks), q # <<>>, NEW S, Lists(q, S)
  PROVE  Lists(Tail(q), S \ {Head(q)})
<1> DEFINE r == Tail(q)
<1>1. /\ Len(r) = Len(q) - 1 /\ Len(q) \in Nat \ {0} /\ Head(q) = q[1]
      /\ \A i \in 1 .. Len(r) : r[i] = q[i + 1]
  BY HeadTailProperties, LenProperties, EmptySeq
<1> HIDE DEF r
<1>2. \A i \in 1 .. Len(r) : i + 1 \in 1 .. Len(q) /\ i + 1 # 1
  BY <1>1
<1>3. 1 \in 1 .. Len(q)
  BY <1>1
<1>4. \A i \in 1 .. Len(r) : r[i] \in S \ {Head(q)}
  BY <1>1, <1>2, <1>3 DEF Lists
<1>5. \A i, j \in 1 .. Len(r) : r[i] = r[j] => i = j
  <2>1. \A i, j \in 1 .. Len(r) : r[i] = r[j] => i + 1 = j + 1
    BY <1>1, <1>2 DEF Lists
  <2>. QED
    BY <2>1
<1>6. ASSUME NEW u \in S \ {Head(q)} PROVE \E i \in 1 .. Len(r) : r[i] = u
  <2>1. PICK i \in 1 .. Len(q) : q[i] = u
    BY DEF Lists
  <2>2. i - 1 \in 1 .. Len(r)
    BY <1>1, <2>1
  <2>3. r[i - 1] = q[(i - 1) + 1] /\ (i - 1) + 1 = i
    BY <1>1, <2>2
  <2>. QED
    BY <2>1, <2>2, <2>3
<1>7. Lists(r, S \ {Head(q)})
  BY <1>4, <1>5, <1>6 DEF Lists
<1>. QED
  BY <1>7 DEF r

\* A step that leaves both lines, and who belongs to them, as they are.
LEMMA LinesFrame ==
  ASSUME NobodyLeftInLine, UNCHANGED <<queue, saving>>,
         \A u \in Tasks : /\ AtLock(u)' <=> AtLock(u)
                          /\ pc'[u] = "save" <=> pc[u] = "save"
                          /\ AtLock(u) \/ pc[u] = "save" => call'[u].mgr = call[u].mgr
  PROVE  NobodyLeftInLine'
<1>1. ASSUME NEW m \in Managers PROVE AtLockOf(m)' = AtLockOf(m) /\ AtStoreOf(m)' = AtStoreOf(m)
  BY DEF AtLockOf, AtStoreOf
<1>. QED
  BY <1>1 DEF NobodyLeftInLine

\* A task queues for the lock.
LEMMA LinesEnter ==
  ASSUME NobodyLeftInLine, TypeInv, NEW t \in Tasks, NEW m \in Managers, pc[t] = "idle",
         NEW kind, NEW value, NEW prev, NEW left,
         EnterWrite(t, m, kind, value, prev, left), UNCHANGED saving
  PROVE  NobodyLeftInLine'
<1>1. /\ pc'[t] = "read" /\ call'[t].mgr = m
      /\ \A u \in Tasks \ {t} : pc'[u] = pc[u] /\ call'[u] = call[u]
      /\ queue' = [queue EXCEPT ![m] = Append(@, t)] /\ queue \in [Managers -> Seq(Tasks)]
  BY DEF EnterWrite, TypeInv, CoroutineInv
<1>2. ASSUME NEW n \in Managers PROVE AtStoreOf(n)' = AtStoreOf(n)
  BY <1>1 DEF AtStoreOf
<1>3. ASSUME NEW n \in Managers, n # m PROVE AtLockOf(n)' = AtLockOf(n) /\ queue'[n] = queue[n]
  BY <1>1, <1>3 DEF AtLockOf, AtLock
<1>4. /\ t \notin AtLockOf(m) /\ AtLockOf(m)' = AtLockOf(m) \cup {t}
      /\ queue[m] \in Seq(Tasks) /\ queue'[m] = Append(queue[m], t)
  BY <1>1 DEF AtLockOf, AtLock
<1>5. Lists(queue[m], AtLockOf(m))
  BY DEF NobodyLeftInLine
<1>6. Lists(queue'[m], AtLockOf(m)')
  BY <1>4, <1>5, ListJoin
<1>. QED
  BY <1>2, <1>3, <1>6 DEF NobodyLeftInLine

\* The holder of the lock gives it up, and may go on to the Store.
LEMMA LinesLeave ==
  ASSUME NobodyLeftInLine, TypeInv, NEW t \in Tasks, AtLock(t), HoldsLock(t), Release(t),
         ~ AtLock(t)',
         \A u \in Tasks \ {t} : pc'[u] = pc[u] /\ call'[u] = call[u],
         \/ pc'[t] # "save" /\ UNCHANGED saving
         \/ /\ pc'[t] = "save" /\ call'[t] = call[t]
            /\ saving' = [saving EXCEPT ![call[t].mgr] = Append(@, t)]
  PROVE  NobodyLeftInLine'
<1>. PICK m \in Managers : call[t].mgr = m
  BY DEF TypeInv, CoroutineInv, AtLock, TaskOK, Call
<1>1. /\ queue \in [Managers -> Seq(Tasks)] /\ saving \in [Managers -> Seq(Tasks)]
      /\ pc[t] # "save"
  BY DEF TypeInv, DataOK, CoroutineInv, AtLock
<1>2. ASSUME NEW n \in Managers, n # m
      PROVE  /\ AtLockOf(n)' = AtLockOf(n) /\ queue'[n] = queue[n]
             /\ AtStoreOf(n)' = AtStoreOf(n) /\ saving'[n] = saving[n]
  BY <1>1, <1>2 DEF AtLockOf, AtStoreOf, AtLock, Release
<1>3. /\ AtLockOf(m)' = AtLockOf(m) \ {t} /\ queue'[m] = Tail(queue[m])
      /\ queue[m] \in Seq(Tasks) /\ queue[m] # <<>> /\ Head(queue[m]) = t
  BY <1>1 DEF AtLockOf, AtLock, Release, HoldsLock
<1>4. Lists(queue[m], AtLockOf(m)) /\ Lists(saving[m], AtStoreOf(m))
  BY <1>1 DEF NobodyLeftInLine
<1>5. Lists(queue'[m], AtLockOf(m)')
  BY <1>3, <1>4, ListLeave
<1>6. Lists(saving'[m], AtStoreOf(m)')
  <2>1. CASE pc'[t] # "save" /\ UNCHANGED saving
    <3>1. AtStoreOf(m)' = AtStoreOf(m)
      BY <1>1, <2>1 DEF AtStoreOf
    <3>. QED
      BY <1>4, <2>1, <3>1
  <2>2. CASE /\ pc'[t] = "save" /\ call'[t] = call[t]
             /\ saving' = [saving EXCEPT ![call[t].mgr] = Append(@, t)]
    <3>1. /\ AtStoreOf(m)' = AtStoreOf(m) \cup {t} /\ t \notin AtStoreOf(m)
          /\ saving'[m] = Append(saving[m], t) /\ saving[m] \in Seq(Tasks)
      BY <1>1, <2>2 DEF AtStoreOf
    <3>. QED
      BY <1>4, <3>1, ListJoin
  <2>. QED
    BY <2>1, <2>2
<1>. QED
  BY <1>2, <1>5, <1>6 DEF NobodyLeftInLine

\* Every step keeps it, whoever takes it.
LEMMA LinesStep ==
  ASSUME NobodyLeftInLine, TypeInv, [Next]_vars
  PROVE  NobodyLeftInLine'
<1>1. CASE UNCHANGED <<queue, saving, pc, call>>
  BY <1>1, LinesFrame DEF AtLock
<1>2. live \in Managers \cup {None}
  BY DEF TypeInv, DataOK
<1>3. ASSUME NEW t \in Tasks, NEW m \in Managers, NEW kind, NEW ov, pc[t] = "idle",
             BeginClear(t, m, kind, ov), UNCHANGED saving
      PROVE  NobodyLeftInLine'
  <2>1. CASE pc' = [pc EXCEPT ![t] = "remove"] /\ UNCHANGED queue
             /\ call' = [call EXCEPT ![t] = [NoCall EXCEPT !.kind = kind, !.mgr = m]]
    BY <1>3, <2>1, LinesFrame DEF AtLock, TypeInv, CoroutineInv
  <2>2. CASE EnterWrite(t, m, kind, ov.prev, None, None)
    BY <1>3, <2>2, LinesEnter
  <2>. QED
    BY <1>3, <2>1, <2>2 DEF BeginClear
<1>4. ASSUME NEW t \in Tasks, Start(t) \/ SetReserve(t) \/ SetOther(t) PROVE NobodyLeftInLine'
  <2>1. live \in Managers /\ pc[t] = "idle" /\ UNCHANGED saving
    BY <1>2, <1>4 DEF Start, SetReserve, SetOther, UserCalls
  <2>2. PICK kind, value, prev, left : EnterWrite(t, live, kind, value, prev, left)
    BY <1>4 DEF Start, SetReserve, SetOther
  <2>. QED
    BY <2>1, <2>2, LinesEnter
<1>5. ASSUME NEW t \in Tasks, Clear(t) PROVE NobodyLeftInLine'
  BY <1>2, <1>3, <1>5 DEF Clear, UserCalls
<1>6. ASSUME NEW t \in Tasks, NEW m \in Managers, Fire(t, m) PROVE NobodyLeftInLine'
  BY <1>1, <1>3, <1>6 DEF Fire
<1>7. ASSUME NEW t \in Tasks, NEW m \in Managers, Setup(t, m) PROVE NobodyLeftInLine'
  BY <1>1, <1>3, <1>7 DEF Setup
<1>8. ASSUME NEW t \in Tasks, AtLock(t), HoldsLock(t), Release(t), Return(t), UNCHANGED saving
      PROVE  NobodyLeftInLine'
  <2>1. pc'[t] = "idle" /\ \A u \in Tasks \ {t} : call'[u] = call[u] /\ pc'[u] = pc[u]
    BY <1>8, ReturnFacts DEF TypeInv
  <2>. QED
    BY <1>8, <2>1, LinesLeave DEF AtLock
<1>9. ASSUME NEW t \in Tasks, Read(t) PROVE NobodyLeftInLine'
  <2>1. CASE /\ pc' = [pc EXCEPT ![t] = "write"] /\ UNCHANGED <<queue, saving>>
             /\ \E conf \in Reported :
                  call' = [call EXCEPT ![t].conf = conf, ![t].prev = Previous(call[t], conf)]
    <3>1. pc[t] = "read" /\ pc'[t] = "write" /\ \A u \in Tasks \ {t} : pc'[u] = pc[u]
      BY <1>9, <2>1 DEF Read, TypeInv, CoroutineInv
    <3>. PICK conf \in Reported :
           call' = [call EXCEPT ![t].conf = conf, ![t].prev = Previous(call[t], conf)]
      BY <2>1
    <3>2. call'[t] = [call[t] EXCEPT !.conf = conf, !.prev = Previous(call[t], conf)] /\ call[t] \in Call
      BY <2>1 DEF TypeInv, CoroutineInv
    <3>3. \A u \in Tasks : call'[u].mgr = call[u].mgr
      BY <2>1, <3>2 DEF Call, TypeInv, CoroutineInv
    <3>. QED
      BY <2>1, <3>1, <3>3, LinesFrame DEF AtLock
  <2>. QED
    BY <1>8, <1>9, <2>1 DEF Read, Fail, AtLock
<1>10. ASSUME NEW t \in Tasks, Write(t) PROVE NobodyLeftInLine'
  <2>1. pc[t] = "write" /\ HoldsLock(t)
    BY <1>10 DEF Write, TypeInv, CoroutineInv, LockInv
  <2>2. CASE pc' = [pc EXCEPT ![t] = "refresh"] /\ UNCHANGED <<queue, saving, call>>
    BY <2>1, <2>2, LinesFrame DEF AtLock, TypeInv, CoroutineInv
  <2>. QED
    BY <1>8, <1>10, <2>1, <2>2 DEF Write, Fail, AtLock
<1>11. ASSUME NEW t \in Tasks, Refresh(t) PROVE NobodyLeftInLine'
  <2>1. pc[t] = "refresh" /\ HoldsLock(t) /\ Release(t)
    BY <1>11 DEF Refresh, TypeInv, CoroutineInv, LockInv
  <2>2. CASE /\ pc' = [pc EXCEPT ![t] = "save"] /\ call' = call
             /\ saving' = [saving EXCEPT ![call[t].mgr] = Append(@, t)]
    BY <2>1, <2>2, LinesLeave DEF AtLock, TypeInv, CoroutineInv
  <2>3. CASE pc' = [pc EXCEPT ![t] = "remove"] /\ call' = call /\ saving' = saving
    BY <2>1, <2>3, LinesLeave DEF AtLock, TypeInv, CoroutineInv
  <2>4. CASE Return(t) /\ UNCHANGED saving
    BY <1>8, <2>1, <2>4 DEF AtLock
  <2>. QED
    BY <1>11, <2>2, <2>3, <2>4 DEF Refresh
<1>12. ASSUME NEW t \in Tasks, Save(t) PROVE NobodyLeftInLine'
  <2>. PICK m \in Managers : call[t].mgr = m
    BY <1>12 DEF Save, TypeInv, CoroutineInv, TaskOK, Call
  <2>1. /\ pc[t] = "save" /\ saving[m] # <<>> /\ Head(saving[m]) = t /\ UNCHANGED queue
        /\ saving' = [saving EXCEPT ![m] = Tail(@)] /\ saving \in [Managers -> Seq(Tasks)]
    BY <1>12 DEF Save, TypeInv, DataOK
  <2>2. pc'[t] = "idle" /\ \A u \in Tasks \ {t} : call'[u] = call[u] /\ pc'[u] = pc[u]
    BY <1>12, ReturnFacts DEF Save, TypeInv
  <2>3. ASSUME NEW n \in Managers
        PROVE  /\ AtLockOf(n)' = AtLockOf(n)
               /\ n # m => AtStoreOf(n)' = AtStoreOf(n) /\ saving'[n] = saving[n]
    BY <2>1, <2>2 DEF AtLockOf, AtLock, AtStoreOf
  <2>4. AtStoreOf(m)' = AtStoreOf(m) \ {t} /\ saving'[m] = Tail(saving[m])
    BY <2>1, <2>2 DEF AtStoreOf
  <2>5. Lists(saving'[m], AtStoreOf(m)')
    BY <2>1, <2>4, ListLeave DEF NobodyLeftInLine
  <2>. QED
    BY <2>1, <2>3, <2>5 DEF NobodyLeftInLine
<1>13. ASSUME NEW t \in Tasks, Remove(t) PROVE NobodyLeftInLine'
  <2>1. pc[t] = "remove" /\ UNCHANGED <<queue, saving>>
    BY <1>13 DEF Remove
  <2>2. pc'[t] = "idle" /\ \A u \in Tasks \ {t} : call'[u] = call[u] /\ pc'[u] = pc[u]
    BY <1>13, ReturnFacts DEF Remove, TypeInv
  <2>. QED
    BY <2>1, <2>2, LinesFrame DEF AtLock
<1>14. CASE Tick
  <2>1. call \in [Tasks -> Call] /\ UNCHANGED <<queue, saving, pc>>
    BY <1>14 DEF Tick, TypeInv, CoroutineInv
  <2>2. \A u \in Tasks : call'[u].mgr = call[u].mgr
    BY <1>14, <2>1 DEF Tick, Call
  <2>. QED
    BY <2>1, <2>2, LinesFrame DEF AtLock
<1>15. CASE Crash
  <2>1. \A m \in Managers :
          /\ queue'[m] = <<>> /\ saving'[m] = <<>>
          /\ AtLockOf(m)' = {} /\ AtStoreOf(m)' = {}
    BY <1>15 DEF Crash, AtLockOf, AtLock, AtStoreOf
  <2>. QED
    BY <2>1, ListNone DEF NobodyLeftInLine
<1>16. CASE UNCHANGED vars \/ Unload
  BY <1>1, <1>16 DEF vars, memory, Unload
<1>. QED
  BY <1>4, <1>5, <1>6, <1>7, <1>9, <1>10, <1>11, <1>12, <1>13, <1>14, <1>15, <1>16 DEF Next

\* Over refusals, lost answers, reloads, crashes and any overlap of calls, each lock's
\* line holds exactly the tasks that wait for it or hold it, each once, and each
\* Store's line those that save: no task is stuck behind one that is gone
\* (coordinator.py:130-141, override.py:134; external: asyncio's lock and the Store).
THEOREM NobodyIsLeftInLine == Spec => []NobodyLeftInLine
<1>1. Init => NobodyLeftInLine
  <2>1. ASSUME Init, NEW m \in Managers PROVE AtLockOf(m) = {} /\ AtStoreOf(m) = {}
    BY <2>1 DEF Init, AtLockOf, AtLock, AtStoreOf
  <2>. QED
    BY <2>1, ListNone DEF Init, NobodyLeftInLine
<1>. QED
  BY <1>1, LinesStep, Invariance, PTL DEF Spec
=============================================================================

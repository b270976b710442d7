-------------------------- MODULE RefreshCycleProofs --------------------------
(***************************************************************************)
(* What holds of RefreshCycle for any sections of either kind, any         *)
(* interval and any number of changes of the device.                       *)
(***************************************************************************)
EXTENDS RefreshCycle, TLAPS

\* A version is not one of the values that stand in its place.
LEMMA Apart ==
  /\ Error \notin Versions /\ Unavailable \notin Versions /\ None \notin Versions
  /\ Error # None /\ Unavailable # None
BY SectionsAssumption DEF Versions

-----------------------------------------------------------------------------
(* Types.                                                                  *)

\* What was read of a section is a version or nothing, and so is what is carried.
LEMMA ReadTyped ==
  ASSUME TypeOK, NEW r \in Refreshes
  PROVE  /\ \A s \in Sections : Read(r, s) \in Versions \cup {None}
         /\ Carried(r) \in [Slow -> Versions \cup {None}]
         /\ Degraded(r) \subseteq Sections
BY Apart DEF TypeOK, Read, Carried, Degraded, Failed, Sections

LEMMA DisplayTyped ==
  ASSUME active \in Versions, NEW e \in Entities, NEW dat \in [Sections -> Versions \cup {None}],
         NEW errs, NEW ok
  PROVE  Display(e, dat, errs, ok) \in Versions \cup {Unavailable, None}
BY DEF Display, Entities

LEMMA NotifyTyped ==
  ASSUME active \in Versions, data' \in [Sections -> Versions \cup {None}], Notify
  PROVE  state' \in [Entities -> Versions \cup {Unavailable, None}]
BY DisplayTyped DEF Notify

LEMMA InitTyped == Init => TypeOK
<1> SUFFICES ASSUME Init PROVE TypeOK
  OBVIOUS
<1>1. 0 \in Versions /\ 0 \in 0 .. Interval
  BY RefreshAssumption DEF Versions
<1>2. Nothing \in [Sections -> Versions \cup {None}] /\ Nothing \in [Sections -> Versions \cup {Error, None}]
  BY DEF Nothing
<1>3. Idle \in [awaits : {"nothing", "live", "sections"}, heavy : BOOLEAN, was : BOOLEAN]
  BY DEF Idle
<1>4. /\ refresh \in
           [Refreshes -> [awaits : {"nothing", "live", "sections"}, heavy : BOOLEAN, was : BOOLEAN]]
      /\ got \in [Refreshes -> [Sections -> Versions \cup {Error, None}]]
  BY <1>2, <1>3 DEF Init
<1>. QED
  BY <1>1, <1>2, <1>4 DEF Init, TypeOK

LEMMA NextTyped ==
  ASSUME TypeOK, [Next]_vars
  PROVE  TypeOK'
<1>1. CASE UNCHANGED vars
  BY <1>1 DEF TypeOK, vars, entities
<1>2. CASE Poll
  BY <1>2 DEF Poll, Start, TypeOK, HeavyDue, Refreshes, entities
<1>3. CASE Write
  BY <1>3, RefreshAssumption DEF Write, Start, TypeOK, HeavyDue, Refreshes, Versions, entities
<1>4. CASE Change \/ Tick \/ Settle
  BY <1>4, RefreshAssumption DEF Change, Tick, Settle, TypeOK, Versions, entities
<1>5. CASE Add
  <2>1. state' \in [Entities -> Versions \cup {Unavailable, None}]
    BY <1>5, DisplayTyped DEF Add, TypeOK
  <2>. QED
    BY <1>5, <2>1 DEF Add, TypeOK
<1>6. ASSUME NEW r \in Refreshes, NEW s \in Sections, NEW value \in {device, Error}, Answer(r, s, value)
      PROVE  TypeOK'
  BY <1>6 DEF Answer, TypeOK, entities
<1>7. ASSUME NEW r \in Refreshes, Live(r)
      PROVE  TypeOK'
  BY <1>7 DEF Live, TypeOK, entities
<1>8. ASSUME NEW r \in Refreshes, Unread(r), timer' \in {"set", "refused"}
      PROVE  TypeOK'
  <2>1. state' \in [Entities -> Versions \cup {Unavailable, None}]
    BY <1>8, NotifyTyped DEF Unread, TypeOK
  <2>. QED
    BY <1>8, <2>1 DEF Unread, Finished, TypeOK, Idle, Nothing
<1>9. ASSUME NEW r \in Refreshes, End(r)
      PROVE  TypeOK'
  <2>1. cache' \in [Slow -> Versions \cup {None}] /\ errors' \subseteq Sections
    BY <1>9, ReadTyped DEF End
  <2>2. data' \in [Sections -> Versions \cup {None}]
    BY <1>9, <2>1, ReadTyped DEF End
  <2>3. state' \in [Entities -> Versions \cup {Unavailable, None}]
    BY <1>9, <2>2, NotifyTyped DEF End, TypeOK
  <2>4. due' \in 0 .. Interval
    BY <1>9, RefreshAssumption DEF End, TypeOK
  <2>. QED
    BY <1>9, <2>1, <2>2, <2>3, <2>4 DEF End, Finished, TypeOK, Idle, Nothing
<1>. QED
  BY <1>1, <1>2, <1>3, <1>4, <1>5, <1>6, <1>7, <1>8, <1>9 DEF Next, Fail, Refuse

\* Types; no exception a section read ended with is ever shown as its value.
THEOREM TypeCorrect == Spec => []TypeOK
BY InitTyped, NextTyped, PTL DEF Spec

-----------------------------------------------------------------------------
(* The invariant.                                                          *)

\* A section that has no value has an error, if it is fast, and the other way round:
\* an error means there is no value.
ErrorsOK ==
  /\ success \/ added # {} => \A s \in Fast : data[s] = None => s \in errors
  /\ \A s \in errors : data[s] = None

\* What is shown of a slow section is what is cached.
CacheOK ==
  /\ \A s \in Slow : data[s] = cache[s]
  /\ \A s \in Slow : state[s] \in Versions => cache[s] # None

\* While refreshes succeed the entities of the sections show the snapshot; before
\* that, or when they fail, they are there all the same.
ShownOK ==
  /\ success => \A e \in added \cap Sections :
       state[e] = IF e \in errors \/ (e \in Listed /\ data[e] = None) THEN Unavailable ELSE data[e]
  /\ success /\ "override" \in added => state["override"] # Unavailable
  /\ \A e \in added \cap Fast : state[e] # None

IInv == TypeOK /\ ErrorsOK /\ CacheOK /\ ShownOK

\* Entities are told of a snapshot that agrees with its errors.
LEMMA Told ==
  ASSUME active \in Versions, errors' \subseteq Sections, ErrorsOK', added' \subseteq Entities,
         state' = [e \in Entities |->
                     IF e \in added' THEN Display(e, data', errors', success') ELSE None]
  PROVE  /\ ShownOK'
         /\ \A s \in Slow : state'[s] \in Versions => data'[s] \in Versions
<1>1. \A e \in Entities : state'[e] = IF e \in added' THEN Display(e, data', errors', success') ELSE None
  OBVIOUS
<1>2. Fast \subseteq Entities /\ Sections \subseteq Entities /\ Fast \subseteq Sections /\ "override" \notin Sections
      /\ "override" \notin Listed /\ "override" \in Entities
  BY SectionsAssumption DEF Entities, Sections
<1>3. ASSUME success'
      PROVE  \A e \in added' \cap Sections :
               state'[e] = IF e \in errors' \/ (e \in Listed /\ data'[e] = None) THEN Unavailable ELSE data'[e]
  BY <1>1, <1>2, <1>3 DEF Display
<1>4. ASSUME success', "override" \in added' PROVE state'["override"] # Unavailable
  BY <1>1, <1>2, <1>4, Apart DEF Display
<1>5. ASSUME NEW e \in added' \cap Fast PROVE state'[e] # None
  BY <1>1, <1>2, <1>5, Apart DEF Display, ErrorsOK
<1>6. ASSUME NEW s \in Slow, state'[s] \in Versions PROVE data'[s] \in Versions
  BY <1>1, <1>2, <1>6, Apart DEF Display, Sections
<1>. QED
  BY <1>3, <1>4, <1>5, <1>6 DEF ShownOK

LEMMA InitInv == Init => IInv
BY InitTyped, Apart, SectionsAssumption
DEF Init, IInv, ErrorsOK, CacheOK, ShownOK, Nothing, Sections, Entities

LEMMA AddInv ==
  ASSUME IInv, Add
  PROVE  ErrorsOK' /\ CacheOK' /\ ShownOK'
<1>1. ErrorsOK'
  BY DEF IInv, ErrorsOK, Add
<1>2. added' \subseteq Entities /\ active \in Versions /\ errors' \subseteq Sections
  BY DEF IInv, TypeOK, Add
<1>3. state' = [e \in Entities |-> IF e \in added' THEN Display(e, data', errors', success') ELSE None]
  BY DEF Add
<1>4. ShownOK' /\ \A s \in Slow : state'[s] \in Versions => data'[s] \in Versions
  BY <1>1, <1>2, <1>3, Told
<1>5. CacheOK'
  BY <1>4, Apart DEF IInv, CacheOK, Add
<1>. QED
  BY <1>1, <1>4, <1>5

LEMMA UnreadInv ==
  ASSUME IInv, NEW r \in Refreshes, Unread(r)
  PROVE  ErrorsOK' /\ CacheOK' /\ ShownOK'
<1>1. /\ success' = FALSE /\ UNCHANGED <<data, errors, cache, active, added>>
      /\ Notify \/ UNCHANGED state
  BY DEF Unread
<1>2. ErrorsOK'
  BY <1>1 DEF IInv, ErrorsOK
<1>3. CASE Notify
  <2>1. state' = [e \in Entities |-> IF e \in added' THEN Display(e, data', errors', success') ELSE None]
    BY <1>1, <1>3 DEF Notify
  <2>2. ShownOK' /\ \A s \in Slow : state'[s] \in Versions => data'[s] \in Versions
    BY <1>1, <1>2, <2>1, Told DEF IInv, TypeOK
  <2>. QED
    BY <1>1, <1>2, <2>2, Apart DEF IInv, CacheOK
<1>4. CASE UNCHANGED state
  BY <1>1, <1>2, <1>4 DEF IInv, CacheOK, ShownOK
<1>. QED
  BY <1>1, <1>3, <1>4

\* A slow section is cached once it has been read, and stays.
LEMMA CacheKept ==
  ASSUME IInv, NEW r \in Refreshes, End(r), NEW s \in Slow
  PROVE  /\ data'[s] = cache'[s] /\ s \in Sections
         /\ cache[s] # None => cache'[s] \in Versions /\ s \notin errors'
         /\ s \in errors' => cache'[s] = None
<1>1. s \in Sections /\ cache'[s] = Carried(r)[s] /\ data'[s] = cache'[s] /\ errors' = Degraded(r)
  BY DEF End, Sections
<1>2. refresh[r].heavy => got[r][s] # None
  BY <1>1 DEF End, Asked
<1>3. cache[s] \in Versions \cup {None} /\ got[r][s] \in Versions \cup {Error, None}
  BY <1>1 DEF IInv, TypeOK
<1>4. cache'[s] = IF refresh[r].heavy /\ got[r][s] # Error THEN got[r][s] ELSE cache[s]
  BY <1>1 DEF Carried, Failed
<1>5. s \in errors' <=> got[r][s] = Error /\ cache[s] = None
  BY <1>1 DEF Degraded, Failed
<1>. QED
  BY <1>1, <1>2, <1>3, <1>4, <1>5

LEMMA EndInv ==
  ASSUME IInv, NEW r \in Refreshes, End(r)
  PROVE  ErrorsOK' /\ CacheOK' /\ ShownOK'
<1>1. ASSUME NEW s \in Fast
      PROVE  data'[s] = None <=> s \in errors'
  <2>1. s \in Sections /\ s \notin Slow /\ s \in Asked(r)
    BY SectionsAssumption DEF Sections, Asked
  <2>2. got[r][s] # None /\ data'[s] = Read(r, s) /\ errors' = Degraded(r)
    BY <2>1 DEF End
  <2>. QED
    BY <2>1, <2>2, Apart DEF Read, Degraded, Failed
<1>2. errors' \subseteq Sections
  BY ReadTyped DEF End, IInv
<1>3. ErrorsOK'
  BY <1>1, <1>2, CacheKept DEF ErrorsOK, Sections
<1>4. /\ state' = [e \in Entities |-> IF e \in added' THEN Display(e, data', errors', success') ELSE None]
      /\ added' = added
  BY DEF End, Notify
<1>5. ShownOK' /\ \A s \in Slow : state'[s] \in Versions => data'[s] \in Versions
  BY <1>2, <1>3, <1>4, Told DEF IInv, TypeOK
<1>6. CacheOK'
  BY <1>5, Apart, CacheKept DEF CacheOK
<1>. QED
  BY <1>3, <1>5, <1>6

LEMMA NextInv ==
  ASSUME IInv, [Next]_vars
  PROVE  IInv'
<1>1. TypeOK'
  BY NextTyped DEF IInv
<1>2. ASSUME UNCHANGED <<data, errors, cache, success, added, state>>
      PROVE  ErrorsOK' /\ CacheOK' /\ ShownOK'
  BY <1>2 DEF IInv, ErrorsOK, CacheOK, ShownOK
<1>3. CASE UNCHANGED vars \/ Poll \/ Write \/ Change \/ Tick \/ Settle
  BY <1>1, <1>2, <1>3 DEF vars, entities, Poll, Write, Change, Tick, Settle, IInv
<1>4. CASE \E r \in Refreshes :
             Live(r) \/ \E s \in Sections, value \in {device, Error} : Answer(r, s, value)
  BY <1>1, <1>2, <1>4 DEF entities, Live, Answer, IInv
<1>. QED
  BY <1>1, <1>3, <1>4, AddInv, UnreadInv, EndInv DEF Next, Fail, Refuse, IInv

LEMMA Inductive == Spec => []IInv
BY InitInv, NextInv, PTL DEF Spec

-----------------------------------------------------------------------------
(* The properties.                                                         *)

\* While refreshes succeed an entity is unavailable only where there is no value, and
\* wherever there is an error; one of a section every refresh reads is never unknown
\* (entity.py, sensor.py, coordinator.py _carry_slow_sections).
THEOREM UnavailableMeansAbsent == Spec => []UnavailableIsAbsent
<1>1. ASSUME IInv PROVE UnavailableIsAbsent
  <2> SUFFICES ASSUME NEW e \in added
               PROVE  /\ success /\ state[e] = Unavailable => e \in Sections /\ data[e] = None
                      /\ success /\ e \in errors => state[e] = Unavailable
                      /\ e \in Fast => state[e] # None
    BY DEF UnavailableIsAbsent
  <2>1. e \in Sections \/ e = "override"
    BY <1>1 DEF IInv, TypeOK, Entities
  <2>2. e \in Sections => data[e] \in Versions \cup {None}
    BY <1>1 DEF IInv, TypeOK
  <2>3. errors \subseteq Sections
    BY <1>1 DEF IInv, TypeOK
  <2>. QED
    BY <1>1, <2>1, <2>2, <2>3, Apart DEF IInv, ShownOK, ErrorsOK
<1>. QED
  BY <1>1, Inductive, PTL

\* Once shown, a slow section is shown until a refresh fails as a whole.
THEOREM SlowNeverBlanked == Spec => NeverBlanked
<1> DEFINE Kept ==
      \A s \in Slow \cap added : state[s] \in Versions => state'[s] \in Versions \/ ~ success'
<1>1. ASSUME IInv, [Next]_vars PROVE [Kept]_vars
  <2>1. CASE state' = state
    BY <2>1
  <2>2. CASE Add
    BY <2>2 DEF Add
  <2>3. CASE \E r \in Refreshes : Unread(r)
    BY <2>3 DEF Unread
  <2>4. ASSUME NEW r \in Refreshes, End(r), NEW s \in Slow \cap added, state[s] \in Versions
        PROVE  state'[s] \in Versions
    <3>1. cache[s] # None
      BY <1>1, <2>4 DEF IInv, CacheOK
    <3>2. data'[s] \in Versions /\ s \notin errors' /\ s \in Sections /\ success'
      BY <1>1, <2>4, <3>1, CacheKept DEF End
    <3>3. s \in Entities /\ s \notin Listed /\ s # "override"
      BY <3>2, SectionsAssumption DEF Entities
    <3>4. state'[s] = Display(s, data', errors', success')
      BY <2>4, <3>3 DEF End, Notify
    <3>. QED
      BY <3>2, <3>3, <3>4 DEF Display
  <2>. QED
    BY <1>1, <2>1, <2>2, <2>3, <2>4
    DEF Next, Poll, Write, Change, Tick, Settle, Live, Answer, Fail, Refuse, entities, vars
<1>. QED
  BY <1>1, Inductive, PTL DEF Spec, NeverBlanked

-----------------------------------------------------------------------------
(* What is current stays so.                                               *)

\* The entities of the sections show the device, and so does all that may be shown next: what the
\* refreshes under way have read, and what is cached.
Settled ==
  /\ \A r \in Refreshes, s \in Sections : got[r][s] \in {device, Error, None}
  /\ \A s \in Slow : cache[s] = device
  /\ \A s \in Sections : data[s] \in {device, None}
  /\ added # {}
  /\ \A s \in added \cap Sections : state[s] \in {device, Unavailable}

\* Entities that are told of a snapshot of the device show it.
LEMMA ToldOfDevice ==
  ASSUME UNCHANGED <<device, added>>, Notify, ErrorsOK', added # {},
         \A s \in Sections : data'[s] \in {device, None},
         \A s \in Slow : data'[s] = device, device \in Versions
  PROVE  \A s \in added' \cap Sections : state'[s] \in {device', Unavailable}
<1> SUFFICES ASSUME NEW s \in added \cap Sections PROVE state'[s] \in {device, Unavailable}
  OBVIOUS
<1>1. state'[s] = Display(s, data', errors', success')
  BY DEF Notify, Entities
<1>2. s # "override" /\ data'[s] \in {device, None}
  BY SectionsAssumption
<1>3. data'[s] = None => s \in Fast /\ s \in errors'
  BY Apart DEF ErrorsOK, Sections
<1>. QED
  BY <1>1, <1>2, <1>3 DEF Display

LEMMA SettledKept ==
  ASSUME IInv, Settled, [Next]_vars, UNCHANGED device
  PROVE  Settled'
<1>1. IInv' /\ device \in Versions
  BY NextInv DEF IInv, TypeOK
<1>2. ASSUME UNCHANGED <<got, data, cache, added, state>> PROVE Settled'
  BY <1>2 DEF Settled
<1>3. ASSUME NEW r \in Refreshes, Finished(r)
      PROVE  \A q \in Refreshes, s \in Sections : got'[q][s] \in {device, Error, None}
  BY <1>3 DEF Settled, Finished, Nothing, IInv, TypeOK
<1>4. ASSUME NEW r \in Refreshes, NEW s \in Sections, NEW value \in {device, Error}, Answer(r, s, value)
      PROVE  Settled'
  <2>1. \A q \in Refreshes, t \in Sections : got'[q][t] \in {device, Error, None}
    BY <1>4 DEF Settled, Answer, IInv, TypeOK
  <2>. QED
    BY <1>4, <2>1 DEF Settled, Answer, entities
<1>5. ASSUME NEW r \in Refreshes, Unread(r) PROVE Settled'
  <2>1. CASE UNCHANGED state
    BY <1>3, <1>5, <2>1 DEF Settled, Unread
  <2>2. CASE Notify
    <3>1. \A s \in Slow : data[s] = device
      BY DEF IInv, CacheOK, Settled
    <3>2. \A s \in added' \cap Sections : state'[s] \in {device', Unavailable}
      BY <1>1, <1>5, <2>2, <3>1, ToldOfDevice DEF Unread, Settled, IInv
    <3>. QED
      BY <1>3, <1>5, <3>2 DEF Settled, Unread
  <2>. QED
    BY <1>5, <2>1, <2>2 DEF Unread
<1>6. ASSUME NEW r \in Refreshes, End(r) PROVE Settled'
  <2>1. \A s \in Slow : cache'[s] = device
    <3> SUFFICES ASSUME NEW s \in Slow PROVE cache'[s] = device
      OBVIOUS
    <3>1. s \in Sections /\ cache'[s] = IF refresh[r].heavy /\ s \notin Failed(r)
                                        THEN got[r][s] ELSE cache[s]
      BY <1>6 DEF End, Carried, Sections
    <3>2. refresh[r].heavy => got[r][s] # None
      BY <1>6, <3>1 DEF End, Asked
    <3>. QED
      BY <3>1, <3>2 DEF Settled, Failed
  <2>2. \A s \in Sections : data'[s] \in {device, None}
    BY <1>6, <2>1 DEF End, Read, Settled
  <2>3. \A s \in Slow : data'[s] = device
    BY <1>6, <2>1 DEF End, Sections
  <2>4. \A s \in added' \cap Sections : state'[s] \in {device', Unavailable}
    BY <1>1, <1>6, <2>2, <2>3, ToldOfDevice DEF End, IInv, Settled
  <2>. QED
    BY <1>3, <1>6, <2>1, <2>2, <2>4 DEF Settled, End
<1>7. ~ Add
  BY DEF Add, Settled
<1>. QED
  BY <1>1, <1>2, <1>4, <1>5, <1>6, <1>7
  DEF Next, Poll, Write, Change, Tick, Settle, Live, Fail, Refuse, vars, entities

\* Once what is shown, cached and under way is of the device as it is, the entities
\* of the sections show it until the device changes: no refresh that lands late, fails,
\* or leaves the slow sections to the cache brings anything older back
\* (coordinator.py:85-128).  It is the lasting half of EventuallyCurrent.
THEOREM CurrentStays ==
  Spec => [][Settled /\ device' = device => Settled']_vars
<1>1. IInv /\ [Next]_vars => [Settled /\ device' = device => Settled']_vars
  BY SettledKept
<1>. QED
  BY <1>1, Inductive, PTL DEF Spec
=============================================================================

---------------------------- MODULE ReadingsProofs ----------------------------
(***************************************************************************)
(* What holds of Readings for any power flows, any number of slots in a    *)
(* day and any number of slots that pass.                                  *)
(***************************************************************************)
EXTENDS Readings, TLAPS

-----------------------------------------------------------------------------
(* The series.                                                             *)

\* What Max chooses.
LEMMA MaxIs ==
  ASSUME NEW S, S \subseteq Int, NEW x \in S, \A y \in S : y <= x
  PROVE  Max(S) = x
<1>1. x >= x /\ \A y \in S : x >= y
  OBVIOUS
<1>2. \A z \in S : (\A y \in S : z >= y) => z = x
  OBVIOUS
<1>. QED
  BY <1>1, <1>2 DEF Max

\* What has been logged of the slots.
Entry == [flow : Flows, lacks : {"nothing", "solar", "charge"}]
Logged == log \in Seq(Entry)

\* A point is a point, and recorded if its slot has ended.
LEMMA PointIs ==
  ASSUME Logged, NEW h \in Int
  PROVE  /\ Point(h) \in PointVO
         /\ h \in 1 .. Len(log) => Point(h).id
         /\ h \notin 1 .. Len(log) => IsEmpty(Point(h))
<1>1. CASE h \in 1 .. Len(log)
  <2>1. log[h] \in Entry
    BY <1>1 DEF Logged
  <2>2. log[h].flow \in [solar : Nat, load : Nat, charge : Int]
    BY <2>1, ReadingsAssumption DEF Entry
  <2>. QED
    BY <1>1, <2>1, <2>2 DEF Point, PointVO
<1>2. CASE h \notin 1 .. Len(log)
  BY <1>2 DEF Point, PointVO, IsEmpty
<1>. QED
  BY <1>1, <1>2

\* The slots of a day, of the first n.
SlotsOf(day, n) == {h \in day * Slots + 1 .. (day + 1) * Slots : h \in 1 .. n}

LEMMA DayEnds ==
  ASSUME NEW day \in Int
  PROVE  /\ day * Slots \in Int
         /\ (day + 1) * Slots = day * Slots + Slots
<1>1. Slots \in Nat
  BY ReadingsAssumption
<1>. QED
  BY <1>1, Z3

\* The last slot of a day, if it has one.
LEMMA LastSlot ==
  ASSUME NEW day \in Int, NEW n \in Nat, SlotsOf(day, n) # {}
  PROVE  LET start == day * Slots
             last == IF n < start + Slots THEN n ELSE start + Slots
         IN Max(SlotsOf(day, n)) = last /\ last \in SlotsOf(day, n) /\ last \in 1 .. n
<1> DEFINE start == day * Slots
           slots == SlotsOf(day, n)
           last == IF n < start + Slots THEN n ELSE start + Slots
<1>1. Slots \in Nat /\ start \in Int
  BY ReadingsAssumption, DayEnds
<1>2. slots = {h \in start + 1 .. start + Slots : h \in 1 .. n}
  BY DayEnds DEF SlotsOf
<1>. HIDE DEF start, slots
<1>3. PICK h \in start + 1 .. start + Slots : h \in 1 .. n
  BY <1>2 DEF slots
<1>4. last \in slots /\ slots \subseteq Int /\ \A g \in slots : g <= last
  BY <1>1, <1>2, <1>3
<1>. HIDE DEF last
<1>5. Max(slots) = last
  BY <1>4, MaxIs
<1>6. last \in 1 .. n
  BY <1>2, <1>4
<1>. QED
  BY <1>4, <1>5, <1>6 DEF slots, last, start

\* latest finds the point of the day's last slot that has ended, if one has: slots to
\* come are empty, recorded ones are not even if they are zeros.
LEMMA LatestIsLast ==
  ASSUME NEW day \in Int, Logged
  PROVE  LET slots == SlotsOf(day, Len(log)) IN
         IF slots = {} THEN Latest(Series(day)) = None
         ELSE /\ Max(slots) \in 1 .. Len(log)
              /\ Latest(Series(day)) = Point(Max(slots))
<1> DEFINE slots == SlotsOf(day, Len(log))
           n == Len(log)
           start == day * Slots
           filled == Populated(Series(day))
<1>1. Slots \in Nat /\ Slots > 0 /\ n \in Nat
  BY ReadingsAssumption DEF Logged
<1>2. start \in Int /\ (day + 1) * Slots = start + Slots
  BY DayEnds
<1>3. LET last == IF n < start + Slots THEN n ELSE start + Slots
      IN slots # {} => Max(slots) = last /\ last \in slots /\ last \in 1 .. n
  BY <1>1, LastSlot
<1>. HIDE DEF start
<1>4. slots = {h \in start + 1 .. start + Slots : h \in 1 .. n}
  BY <1>2 DEF SlotsOf, start
<1>5. DOMAIN Series(day) = 1 .. Slots /\ \A i \in 1 .. Slots : Series(day)[i] = Point(start + i)
  BY DEF Series, start
<1>6. \A i \in 1 .. Slots : IsEmpty(Point(start + i)) <=> start + i \notin 1 .. n
  <2>1. TAKE i \in 1 .. Slots
  <2>2. start + i \in Int
    BY <1>1, <1>2
  <2>. QED
    BY <2>2, PointIs DEF IsEmpty
<1>7. filled = {i \in 1 .. Slots : start + i \in 1 .. n}
  BY <1>5, <1>6 DEF Populated
<1>. HIDE DEF n, filled, slots
<1>8. CASE slots = {}
  <2>1. ASSUME NEW i \in filled PROVE FALSE
    <3>1. i \in 1 .. Slots /\ start + i \in 1 .. n
      BY <1>7, <2>1
    <3>2. start + i \in start + 1 .. start + Slots
      BY <1>1, <1>2, <3>1
    <3>. QED
      BY <1>4, <1>8, <3>1, <3>2
  <2>2. filled = {}
    BY <2>1
  <2>. QED
    BY <1>8, <2>2 DEF Latest, filled, slots
<1>9. CASE slots # {}
  <2> DEFINE last == IF n < start + Slots THEN n ELSE start + Slots
             k == last - start
  <2>1. Max(slots) = last /\ last \in slots /\ last \in 1 .. n
    BY <1>3, <1>9 DEF start
  <2>2. last \in start + 1 .. start + Slots /\ last <= n
    BY <1>1, <1>2, <1>4, <2>1
  <2>3. k \in 1 .. Slots /\ start + k = last /\ k \in Int
    BY <1>1, <1>2, <2>2
  <2>4. k \in filled
    BY <1>7, <2>1, <2>3
  <2>5. ASSUME NEW i \in filled PROVE i \in Int /\ i <= k
    <3>1. i \in 1 .. Slots /\ start + i \in 1 .. n
      BY <1>7
    <3>2. start + i <= last
      BY <1>1, <1>2, <3>1
    <3>. QED
      BY <1>1, <1>2, <2>2, <3>1, <3>2
  <2>. HIDE DEF k, last
  <2>6. Max(filled) = k
    BY <2>4, <2>5, MaxIs
  <2>7. Series(day) # None
    <3>1. \A i \in 1 .. Slots : day * Slots + i \in Int
      BY <1>1, DayEnds
    <3>2. Series(day) \in [1 .. Slots -> PointVO]
      BY <3>1, PointIs DEF Series
    <3>. QED
      BY <3>2, ReadingsAssumption
  <2>8. Series(day)[k] = Point(last)
    BY <1>5, <2>3
  <2>9. Latest(Series(day)) = Point(last)
    BY <2>4, <2>6, <2>7, <2>8 DEF Latest, filled
  <2>. QED
    BY <1>9, <2>1, <2>9 DEF slots, n
<1>. QED
  BY <1>8, <1>9 DEF slots

-----------------------------------------------------------------------------
(* Refreshes.                                                              *)

\* The day it is at an hour, at the plant or at the host.
DayAt(zoned, hour) == IF zoned THEN hour \div Slots ELSE HostDay(hour)

LEMMA DayIs ==
  ASSUME NEW zoned, NEW hour \in Nat
  PROVE  DayAt(zoned, hour) \in Int
<1>1. Slots \in Nat /\ Slots > 0 /\ Behind \in Int
  BY ReadingsAssumption
<1>2. \A h \in Int : h \div Slots \in Int
  BY <1>1, Z3
<1>3. hour - Behind \in Int /\ hour \in Int
  BY <1>1
<1>. QED
  BY <1>2, <1>3 DEF DayAt, HostDay

\* What a live read left behind: the day it was, and what it read of the flows.
Began(r) ==
  /\ r.heavy \in BOOLEAN /\ r.zoned \in BOOLEAN /\ r.flow \in Flows
  /\ r.hour \in Nat /\ r.day = DayAt(r.zoned, r.hour) /\ r.day \in Int
  /\ r.live \in LiveReads(r.flow)

IInv ==
  /\ TypeOK
  /\ refresh # None => Began(refresh)
  /\ shown # None => Began(shown.began) /\ shown.upto \in 0 .. Len(log) /\ shown.now \in Flows

\* The flows of a live read that is right balance; one without solar or grid power
\* has no battery power.
LEMMA Balance ==
  ASSUME NEW r, Began(r)
  PROVE  /\ r.live = Right(r.flow) => Derived(r.live) = Watts(r.flow.charge)
         /\ Derived(r.live) = None <=> None \in {r.live.solar, r.live.grid}
<1> DEFINE f == r.flow
           right == Right(f)
<1>1. f \in [solar : Nat, load : Nat, charge : Int]
  BY ReadingsAssumption DEF Began
<1>2. right.solar \in Int /\ right.load \in Int /\ right.grid \in Int
      /\ right.solar + right.grid - right.load = Watts(f.charge)
  BY <1>1 DEF Right, Watts
<1>3. None \notin Int
  BY ReadingsAssumption
<1>4. Right(f) = [solar |-> right.solar, load |-> right.load, grid |-> right.grid]
  BY DEF Right
<1>. HIDE DEF f, right
<1>5. /\ r.live.solar \in Int \cup {None} /\ r.live.load \in Int \cup {None}
      /\ r.live.grid \in Int \cup {None}
      /\ r.live = Right(f) =>
           r.live.solar = right.solar /\ r.live.load = right.load /\ r.live.grid = right.grid
  <2>1. r.live \in LiveReads(f)
    BY DEF Began, f
  <2>. QED
    BY <1>2, <1>4, <2>1 DEF LiveReads
<1>6. r.live = Right(f) => Derived(r.live) = Watts(f.charge)
  BY <1>2, <1>3, <1>5 DEF Derived
<1>7. None \notin {r.live.solar, r.live.grid} => Derived(r.live) \in Int
  BY <1>5 DEF Derived
<1>8. None \in {r.live.solar, r.live.grid} => Derived(r.live) = None
  BY DEF Derived
<1>. QED
  BY <1>3, <1>6, <1>7, <1>8 DEF f

\* A refresh that read the series goes by the last slot of its day that has ended;
\* one that did not, and one whose day has no such slot yet, has no point to go by.
LEMMA GoesBy ==
  ASSUME IInv, refresh # None,
         NEW series \in {None} \cup (IF refresh.heavy THEN {Series(refresh.day)} ELSE {})
  PROVE  LET slots == SlotsOf(refresh.day, Len(log)) IN
         /\ series # None => series # <<>>
         /\ series = None \/ slots = {} => Latest(series) = None
         /\ series # None /\ slots # {} =>
              /\ Max(slots) \in 1 .. Len(log)
              /\ Latest(series) = Point(Max(slots)) /\ Point(Max(slots)) # None
<1> DEFINE day == refresh.day
<1>1. Logged /\ day \in Int
  BY DEF IInv, Began, TypeOK, Logged, Entry
<1>2. series # None => series = Series(day)
  OBVIOUS
<1>. HIDE DEF day
<1>3. Series(day) # <<>>
  BY ReadingsAssumption DEF Series
<1>4. ASSUME series # None, SlotsOf(day, Len(log)) # {}
      PROVE  Point(Max(SlotsOf(day, Len(log)))) # None
  <2>1. Max(SlotsOf(day, Len(log))) \in 1 .. Len(log)
    BY <1>1, <1>4, LatestIsLast
  <2>. QED
    BY <1>1, <2>1, PointIs, ReadingsAssumption DEF Logged
<1>. QED
  BY <1>1, <1>2, <1>3, <1>4, LatestIsLast DEF Latest, day

\* The point a refresh of that day and series goes by for a measurement, 0 if none.
Chosen(day, series, field) ==
  LET slots == SlotsOf(day, Len(log))
  IN IF series # None /\ slots # {} /\ log[Max(slots)].lacks # field THEN Max(slots) ELSE 0

\* What a point says of its slot.
LEMMA PointSays ==
  ASSUME Logged, NEW h \in 1 .. Len(log)
  PROVE  /\ log[h].flow \in Flows /\ log[h].flow \in [solar : Nat, load : Nat, charge : Int]
         /\ log[h].lacks # "charge" =>
              Point(h).battery # None /\ - Watts(Point(h).battery) = Watts(log[h].flow.charge)
         /\ log[h].lacks = "charge" => Point(h).battery = None
         /\ log[h].lacks # "solar" =>
              Point(h).solar # None /\ Watts(Point(h).solar) = Watts(log[h].flow.solar)
         /\ log[h].lacks = "solar" => Point(h).solar = None
<1>1. log[h] \in Entry
  BY DEF Logged
<1>2. log[h].flow \in Flows /\ log[h].flow \in [solar : Nat, load : Nat, charge : Int]
  BY <1>1, ReadingsAssumption DEF Entry
<1>3. - log[h].flow.charge # None /\ log[h].flow.solar # None
  BY <1>2, ReadingsAssumption
<1>. QED
  BY <1>2, <1>3 DEF Point, Watts, Logged

\* Battery power and its names: the chosen point's, or else derived and not called
\* measured without a series.
LEMMA BatteryReads ==
  ASSUME IInv, refresh # None,
         NEW series \in {None} \cup (IF refresh.heavy THEN {Series(refresh.day)} ELSE {}),
         NEW s, s.live = refresh.live, s.series = series
  PROVE  LET c == Chosen(refresh.day, series, "charge") IN
         /\ c # 0 => /\ c \in 1 .. Len(log)
                     /\ Battery(s) = Watts(log[c].flow.charge)
                     /\ BatterySource(s) = "measured" /\ StatusSource(s) = "measured"
         /\ c = 0 => Battery(s) = Derived(refresh.live)
         /\ {BatterySource(s), StatusSource(s)} \subseteq {"measured", "derived"}
         /\ "derived" \in {BatterySource(s), StatusSource(s)} => Battery(s) = Derived(refresh.live)
<1> DEFINE slots == SlotsOf(refresh.day, Len(log))
<1>1. Logged
  BY DEF IInv, TypeOK, Logged, Entry
<1>2. CASE series = None \/ slots = {}
  <2>1. Latest(s.series) = None
    BY <1>2, GoesBy
  <2>2. Chosen(refresh.day, series, "charge") = 0
    BY <1>2 DEF Chosen
  <2>. QED
    BY <2>1, <2>2 DEF Battery, BatterySource, StatusSource
<1>3. CASE series # None /\ slots # {}
  <2> DEFINE h == Max(slots)
  <2>1. h \in 1 .. Len(log) /\ Latest(s.series) = Point(h) /\ Point(h) # None /\ series # <<>>
    BY <1>3, GoesBy
  <2>2. Chosen(refresh.day, series, "charge") = IF log[h].lacks # "charge" THEN h ELSE 0
    BY <1>3 DEF Chosen
  <2>3. BatterySource(s) = "measured" /\ StatusSource(s) = "measured"
    BY <1>3, <2>1 DEF BatterySource, StatusSource
  <2>. HIDE DEF h
  <2>4. CASE log[h].lacks # "charge"
    BY <1>1, <2>1, <2>2, <2>3, <2>4, PointSays DEF Battery
  <2>5. CASE log[h].lacks = "charge"
    BY <1>1, <2>1, <2>2, <2>3, <2>5, PointSays DEF Battery
  <2>. QED
    BY <2>4, <2>5
<1>. QED
  BY <1>2, <1>3

\* Solar power and its name: the chosen point's, the active strings', the live read's.
LEMMA SolarReads ==
  ASSUME IInv, refresh # None,
         NEW series \in {None} \cup (IF refresh.heavy THEN {Series(refresh.day)} ELSE {}),
         NEW s, s.live = refresh.live, s.series = series
  PROVE  LET c == Chosen(refresh.day, series, "solar") IN
         /\ c # 0 => /\ c \in 1 .. Len(log)
                     /\ Solar(s) = Watts(log[c].flow.solar) /\ SolarSource(s) = "series"
         /\ c = 0 => Solar(s) = IF PvActive(s) THEN s.pv.total ELSE refresh.live.solar
         /\ SolarSource(s) \in {"series", "pv_strings", "live"}
         /\ SolarSource(s) = "pv_strings" => PvActive(s) /\ Solar(s) = s.pv.total
         /\ SolarSource(s) = "live" => ~ PvActive(s) /\ Solar(s) = refresh.live.solar
<1> DEFINE slots == SlotsOf(refresh.day, Len(log))
<1>1. Logged
  BY DEF IInv, TypeOK, Logged, Entry
<1>2. CASE series = None \/ slots = {}
  <2>1. Latest(s.series) = None
    BY <1>2, GoesBy
  <2>2. Chosen(refresh.day, series, "solar") = 0
    BY <1>2 DEF Chosen
  <2>. QED
    BY <2>1, <2>2 DEF Solar, SolarSource
<1>3. CASE series # None /\ slots # {}
  <2> DEFINE h == Max(slots)
  <2>1. h \in 1 .. Len(log) /\ Latest(s.series) = Point(h) /\ Point(h) # None
    BY <1>3, GoesBy
  <2>2. Chosen(refresh.day, series, "solar") = IF log[h].lacks # "solar" THEN h ELSE 0
    BY <1>3 DEF Chosen
  <2>3. SolarSource(s) = "series"
    BY <2>1 DEF SolarSource
  <2>. HIDE DEF h
  <2>4. CASE log[h].lacks # "solar"
    BY <1>1, <2>1, <2>2, <2>3, <2>4, PointSays DEF Solar
  <2>5. CASE log[h].lacks = "solar"
    BY <1>1, <2>1, <2>2, <2>3, <2>5, PointSays DEF Solar
  <2>. QED
    BY <2>4, <2>5
<1>. QED
  BY <1>2, <1>3

-----------------------------------------------------------------------------
(* Steps.                                                                  *)

\* The power of flows is one of the powers.
LEMMA PowersHave ==
  ASSUME NEW f \in Flows
  PROVE  Watts(f.solar) \in Powers("solar") /\ Watts(f.charge) \in Powers("charge")
BY DEF Powers

\* What the sensors show after a refresh.
Shows(pv, series) ==
  LET s == [live |-> refresh.live, pv |-> pv, series |-> series] IN
  /\ shown' = [battery |-> Battery(s), batterySource |-> BatterySource(s),
               statusSource |-> StatusSource(s),
               solar |-> Solar(s), solarSource |-> SolarSource(s),
               began |-> refresh, pv |-> pv, read |-> series # None,
               now |-> flow, upto |-> Len(log)]

LEMMA GatherShows ==
  ASSUME IInv, Gather
  PROVE  /\ refresh # None /\ Began(refresh) /\ Logged /\ flow \in Flows
         /\ \E pv \in StringReads,
               series \in {None} \cup (IF refresh.heavy THEN {Series(refresh.day)} ELSE {}) :
              Shows(pv, series)
         /\ refresh' = None /\ UNCHANGED <<flow, log>>
BY DEF IInv, TypeOK, Gather, Shows, Logged, Entry

\* The properties' slot to go by is the last of the refresh's day.
LEMMA SlotIs ==
  ASSUME Began(shown.began), NEW field
  PROVE  LET slots == SlotsOf(shown.began.day, shown.upto) IN
         Slot(field) = IF shown.read /\ slots # {} /\ log[Max(slots)].lacks # field
                       THEN Max(slots) ELSE 0
BY DEF Slot, SlotsOf, Began, DayAt

\* It is the point the refresh went by.
LEMMA SlotIsChosen ==
  ASSUME NEW pv, NEW series, Shows(pv, series), Began(refresh), UNCHANGED log, NEW field
  PROVE  Slot(field)' = Chosen(refresh.day, series, field)
<1>1. shown'.began = refresh /\ shown'.read = (series # None) /\ shown'.upto = Len(log)
  BY DEF Shows
<1>2. Slot(field)' = LET slots == SlotsOf(shown'.began.day, shown'.upto) IN
                     IF shown'.read /\ slots # {} /\ log'[Max(slots)].lacks # field
                     THEN Max(slots) ELSE 0
  BY <1>1 DEF Slot, SlotsOf, Began, DayAt
<1>. QED
  BY <1>1, <1>2 DEF Chosen

\* Slots that end later change nothing in what is shown.
LEMMA SlotStays ==
  ASSUME IInv, shown # None, UNCHANGED shown, log' = log \/ Record, NEW field
  PROVE  /\ Slot(field)' = Slot(field)
         /\ Slot(field) # 0 => Slot(field) \in 1 .. Len(log) /\ log'[Slot(field)] = log[Slot(field)]
<1> DEFINE slots == SlotsOf(shown.began.day, shown.upto)
<1>1. Logged /\ Began(shown.began) /\ shown.upto \in 0 .. Len(log)
  BY DEF IInv, TypeOK, Logged, Entry
<1>2. \A h \in 1 .. Len(log) : log'[h] = log[h]
  BY <1>1 DEF Record, Logged, Entry
<1>3. ASSUME slots # {} PROVE Max(slots) \in 1 .. Len(log)
  <2>1. shown.began.day \in Int /\ shown.upto \in Nat /\ Len(log) \in Nat
    BY <1>1 DEF Began, Logged
  <2>. QED
    BY <1>1, <1>3, <2>1, LastSlot
<1>4. Slot(field) = IF shown.read /\ slots # {} /\ log[Max(slots)].lacks # field THEN Max(slots) ELSE 0
  BY <1>1, SlotIs
<1>5. Slot(field)' = IF shown.read /\ slots # {} /\ log'[Max(slots)].lacks # field THEN Max(slots) ELSE 0
  BY <1>1 DEF Slot, SlotsOf, Began, DayAt
<1>. HIDE DEF slots
<1>. QED
  BY <1>2, <1>3, <1>4, <1>5

LEMMA InitInv == Init => IInv
BY DEF Init, IInv, TypeOK

LEMMA StepInv == IInv /\ [Next]_vars => IInv'
<1>1. SUFFICES ASSUME IInv, [Next]_vars PROVE IInv'
  OBVIOUS
<1>2. Logged /\ flow \in Flows
  BY <1>1 DEF IInv, TypeOK, Logged, Entry
<1>3. Len(log) \in Nat
  BY <1>2 DEF Logged
<1>4. CASE Record
  <2>1. flow' \in Flows /\ log' \in Seq(Entry) /\ Len(log') = Len(log) + 1
        /\ UNCHANGED <<refresh, shown>>
    BY <1>2, <1>4 DEF Record, Logged, Entry
  <2>2. refresh # None =>
          /\ {refresh.heavy, refresh.zoned} \subseteq BOOLEAN /\ refresh.flow \in Flows
          /\ refresh.hour \in 0 .. Len(log') /\ refresh.day \in Int
          /\ refresh.live \in LiveReads(refresh.flow)
    BY <1>1, <1>3, <2>1 DEF IInv, TypeOK
  <2>3. shown.upto \in 0 .. Len(log) => shown.upto \in 0 .. Len(log')
    BY <1>3, <2>1
  <2>4. TypeOK'
    BY <1>1, <2>1, <2>2 DEF IInv, TypeOK, Entry
  <2>. QED
    BY <1>1, <2>1, <2>3, <2>4 DEF IInv
<1>5. CASE Live
  <2>1. PICK heavy \in BOOLEAN, zoned \in BOOLEAN, live \in LiveReads(flow) :
          refresh' = [heavy |-> heavy, zoned |-> zoned, day |-> Today(zoned), hour |-> Len(log),
                      flow |-> flow, live |-> live]
    BY <1>5 DEF Live
  <2>2. UNCHANGED <<flow, log>> /\ shown' = None
    BY <1>5 DEF Live
  <2>3. Today(zoned) = DayAt(zoned, Len(log)) /\ DayAt(zoned, Len(log)) \in Int
    BY <1>3, DayIs DEF Today, DayAt
  <2>4. Began(refresh')
    BY <1>2, <1>3, <2>1, <2>3 DEF Began
  <2>5. /\ {refresh'.heavy, refresh'.zoned} \subseteq BOOLEAN /\ refresh'.flow \in Flows
        /\ refresh'.hour \in 0 .. Len(log') /\ refresh'.day \in Int
        /\ refresh'.live \in LiveReads(refresh'.flow)
    BY <1>2, <1>3, <2>1, <2>2, <2>3
  <2>6. TypeOK'
    BY <1>1, <2>2, <2>5 DEF IInv, TypeOK
  <2>. QED
    BY <2>2, <2>4, <2>6 DEF IInv
<1>6. CASE Gather
  <2>1. /\ refresh # None /\ Began(refresh) /\ refresh' = None /\ UNCHANGED <<flow, log>>
    BY <1>1, <1>6, GatherShows
  <2>2. PICK pv \in StringReads,
             series \in {None} \cup (IF refresh.heavy THEN {Series(refresh.day)} ELSE {}) :
               Shows(pv, series)
    BY <1>1, <1>6, GatherShows
  <2> DEFINE s == [live |-> refresh.live, pv |-> pv, series |-> series]
  <2>3. /\ shown'.battery = Battery(s) /\ shown'.solar = Solar(s)
        /\ shown'.batterySource = BatterySource(s) /\ shown'.statusSource = StatusSource(s)
        /\ shown'.solarSource = SolarSource(s)
        /\ shown'.began = refresh /\ shown'.upto = Len(log) /\ shown'.now = flow /\ shown'.pv = pv
    BY <2>2 DEF Shows
  <2>4. s.live = refresh.live /\ s.series = series /\ s.pv = pv
    OBVIOUS
  <2>. HIDE DEF s
  <2>5. Battery(s) \in Powers("charge") \cup {Derived(refresh.live)}
        /\ {BatterySource(s), StatusSource(s)} \subseteq {"measured", "derived"}
    BY <1>1, <1>2, <2>1, <2>2, <2>4, BatteryReads, PointSays, PowersHave
  <2>6. /\ Solar(s) \in Powers("solar") \cup {refresh.live.solar}
                        \cup (IF pv = None THEN {} ELSE {pv.total})
        /\ SolarSource(s) \in {"series", "pv_strings", "live"}
    <3> DEFINE c == Chosen(refresh.day, series, "solar")
    <3>1. PvActive(s) => pv # None /\ s.pv.total = pv.total
      BY <2>4 DEF PvActive
    <3>2. /\ c # 0 => c \in 1 .. Len(log) /\ Solar(s) = Watts(log[c].flow.solar)
          /\ c = 0 => Solar(s) = IF PvActive(s) THEN s.pv.total ELSE refresh.live.solar
          /\ SolarSource(s) \in {"series", "pv_strings", "live"}
      BY <1>1, <2>1, <2>2, <2>4, SolarReads
    <3>. HIDE DEF c
    <3>3. CASE c # 0
      <4>1. log[c].flow \in Flows
        BY <1>2, <3>2, <3>3, PointSays
      <4>. QED
        BY <3>2, <3>3, <4>1, PowersHave
    <3>4. CASE c = 0
      BY <3>1, <3>2, <3>4
    <3>. QED
      BY <3>2, <3>3, <3>4
  <2>7. TypeOK'
    BY <1>1, <2>1, <2>3, <2>5, <2>6 DEF IInv, TypeOK
  <2>. QED
    BY <1>2, <1>3, <2>1, <2>3, <2>7 DEF IInv
<1>7. CASE UNCHANGED vars
  BY <1>1, <1>7 DEF vars, IInv, TypeOK, Began
<1>. QED
  BY <1>1, <1>4, <1>5, <1>6, <1>7 DEF Next

LEMMA Invariance == Spec => []IInv
BY InitInv, StepInv, PTL DEF Spec

-----------------------------------------------------------------------------
(* What is shown.                                                          *)

\* What is shown is in W, of the flows there were.
THEOREM TypeCorrect == Spec => []TypeOK
<1>1. IInv => TypeOK
  BY DEF IInv
<1>. QED
  BY <1>1, Invariance, PTL

\* Battery power is the power the plant charges with: as measured in the last slot that
\* has ended of the day it is at the plant, or at the host if the plant's time zone is
\* missing or unknown, or else as the flows of the live read balance if that is right;
\* there is none where solar or grid power is missing (models/snapshot.py:40-46,
\* models/energy.py:66-82, live.py:120-124, client.py:41-47).
THEOREM BatteryPowerIsTrue == Spec => []BatteryIsTrue
<1>1. Init => BatteryIsTrue
  BY DEF Init, BatteryIsTrue
<1>2. ASSUME IInv, BatteryIsTrue, [Next]_vars PROVE BatteryIsTrue'
  <2>1. ASSUME UNCHANGED shown, log' = log \/ Record PROVE BatteryIsTrue'
    BY <1>2, <2>1, SlotStays DEF BatteryIsTrue
  <2>2. CASE Gather
    <3>1. /\ refresh # None /\ Began(refresh) /\ refresh' = None /\ UNCHANGED <<flow, log>>
      BY <1>2, <2>2, GatherShows
    <3>2. PICK pv \in StringReads,
               series \in {None} \cup (IF refresh.heavy THEN {Series(refresh.day)} ELSE {}) :
                 Shows(pv, series)
      BY <1>2, <2>2, GatherShows
    <3> DEFINE s == [live |-> refresh.live, pv |-> pv, series |-> series]
    <3>3. shown'.battery = Battery(s) /\ shown'.began = refresh
      BY <3>2 DEF Shows
    <3>4. s.live = refresh.live /\ s.series = series
      OBVIOUS
    <3>. HIDE DEF s
    <3>5. Slot("charge")' = Chosen(refresh.day, series, "charge")
      BY <1>2, <3>1, <3>2, SlotIsChosen DEF IInv
    <3>. QED
      BY <1>2, <3>1, <3>2, <3>3, <3>4, <3>5, BatteryReads, Balance DEF BatteryIsTrue
  <2>3. CASE Live
    BY <2>3 DEF Live, BatteryIsTrue
  <2>. QED
    BY <1>2, <2>1, <2>2, <2>3 DEF Next, Record, vars
<1>. QED
  BY <1>1, <1>2, Invariance, PTL DEF Spec

\* A live read that is too low on solar power, or has none, is not shown while the
\* series of that day says better, or the strings do, if all report their power
\* (models/snapshot.py:53-60, device.py:197-199).
THEOREM SolarIsNotUnderstated == Spec => []SolarNotUnderstated
<1>1. Init => SolarNotUnderstated
  BY DEF Init, SolarNotUnderstated
<1>2. ASSUME IInv, SolarNotUnderstated, [Next]_vars PROVE SolarNotUnderstated'
  <2>1. ASSUME UNCHANGED shown, log' = log \/ Record PROVE SolarNotUnderstated'
    BY <1>2, <2>1, SlotStays DEF SolarNotUnderstated
  <2>2. CASE Gather
    <3>1. /\ refresh # None /\ flow \in Flows /\ UNCHANGED <<flow, log>>
      BY <1>2, <2>2, GatherShows
    <3>2. PICK pv \in StringReads,
               series \in {None} \cup (IF refresh.heavy THEN {Series(refresh.day)} ELSE {}) :
                 Shows(pv, series)
      BY <1>2, <2>2, GatherShows
    <3> DEFINE s == [live |-> refresh.live, pv |-> pv, series |-> series]
    <3>3. /\ shown'.solar = Solar(s) /\ shown'.now = flow
          /\ shown'.pv = pv
      BY <3>2 DEF Shows
    <3>4. s.live = refresh.live /\ s.series = series /\ s.pv = pv
      OBVIOUS
    <3>. HIDE DEF s
    <3>5. Slot("solar")' = Chosen(refresh.day, series, "solar")
      BY <1>2, <3>1, <3>2, SlotIsChosen DEF IInv
    <3>6. shown'.pv = [active |-> TRUE, total |-> Watts(shown'.now.solar)]
            => PvActive(s) /\ s.pv.total = Watts(shown'.now.solar)
      <4>1. flow \in [solar : Nat, load : Nat, charge : Int]
        BY <3>1, ReadingsAssumption
      <4>2. Watts(flow.solar) \in Int
        BY <4>1 DEF Watts
      <4> DEFINE w == Watts(flow.solar)
      <4>. HIDE DEF w
      <4>3. [active |-> TRUE, total |-> w] \in PvStrings
        BY <4>2 DEF PvStrings, w
      <4>4. None \notin PvStrings
        BY ReadingsAssumption
      <4>5. pv = [active |-> TRUE, total |-> w] => pv # None
        BY <4>3, <4>4
      <4>6. pv = [active |-> TRUE, total |-> w] => pv.active /\ pv.total = w
        OBVIOUS
      <4>. QED
        BY <3>3, <3>4, <4>5, <4>6 DEF PvActive, w
    <3>. QED
      BY <1>2, <3>1, <3>2, <3>3, <3>4, <3>5, <3>6, SolarReads DEF SolarNotUnderstated
  <2>3. CASE Live
    BY <2>3 DEF Live, SolarNotUnderstated
  <2>. QED
    BY <1>2, <2>1, <2>2, <2>3 DEF Next, Record, vars
<1>. QED
  BY <1>1, <1>2, Invariance, PTL DEF Spec

\* The source that is named is the one that was used, in the entities and on the
\* command line (sensor.py:249-257, cli.py:87-92).
THEOREM SourcesAreHonest == Spec => []SourceIsHonest
<1>1. Init => SourceIsHonest
  BY DEF Init, SourceIsHonest
<1>2. ASSUME IInv, SourceIsHonest, [Next]_vars PROVE SourceIsHonest'
  <2>1. ASSUME UNCHANGED shown, log' = log \/ Record PROVE SourceIsHonest'
    BY <1>2, <2>1, SlotStays DEF SourceIsHonest
  <2>2. CASE Gather
    <3>1. /\ refresh # None /\ flow \in Flows /\ UNCHANGED <<flow, log>>
      BY <1>2, <2>2, GatherShows
    <3>2. PICK pv \in StringReads,
               series \in {None} \cup (IF refresh.heavy THEN {Series(refresh.day)} ELSE {}) :
                 Shows(pv, series)
      BY <1>2, <2>2, GatherShows
    <3> DEFINE s == [live |-> refresh.live, pv |-> pv, series |-> series]
    <3>3. /\ shown'.solar = Solar(s) /\ shown'.solarSource = SolarSource(s)
          /\ shown'.battery = Battery(s) /\ shown'.batterySource = BatterySource(s)
          /\ shown'.statusSource = StatusSource(s)
          /\ shown'.now = flow /\ shown'.began = refresh
          /\ shown'.pv = pv
      BY <3>2 DEF Shows
    <3>4. s.live = refresh.live /\ s.series = series /\ s.pv = pv
      OBVIOUS
    <3>. HIDE DEF s
    <3>5. /\ Slot("solar")' = Chosen(refresh.day, series, "solar")
          /\ Slot("charge")' = Chosen(refresh.day, series, "charge")
      BY <1>2, <3>1, <3>2, SlotIsChosen DEF IInv
    <3>6. PvActive(s) <=> shown'.pv # None /\ shown'.pv.active
      BY <3>3, <3>4 DEF PvActive
    <3>7. /\ Slot("solar")' # 0 => shown'.solarSource = "series"
          /\ shown'.solarSource = "pv_strings" =>
               (shown'.pv # None /\ shown'.pv.active) /\ shown'.solar = shown'.pv.total
          /\ shown'.solarSource = "live" =>
               ~ (shown'.pv # None /\ shown'.pv.active) /\ shown'.solar = shown'.began.live.solar
      BY <1>2, <3>1, <3>2, <3>3, <3>4, <3>5, <3>6, SolarReads
    <3>8. /\ Slot("charge")' # 0 => {shown'.batterySource, shown'.statusSource} = {"measured"}
          /\ "derived" \in {shown'.batterySource, shown'.statusSource}
               => shown'.battery = Derived(shown'.began.live)
      BY <1>2, <3>1, <3>2, <3>3, <3>4, <3>5, BatteryReads
    <3>. QED
      BY <3>7, <3>8 DEF SourceIsHonest
  <2>3. CASE Live
    BY <2>3 DEF Live, SourceIsHonest
  <2>. QED
    BY <1>2, <2>1, <2>2, <2>3 DEF Next, Record, vars
<1>. QED
  BY <1>1, <1>2, Invariance, PTL DEF Spec
=============================================================================

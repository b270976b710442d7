------------------------------- MODULE Readings -------------------------------
(***************************************************************************)
(* The two values with several sources, battery power and solar power:     *)
(* what a refresh collects (client.py), what the series, the strings and   *)
(* the live read make of the plant's power flows (models/energy.py,        *)
(* device.py, live.py), and which of them is shown under which name        *)
(* (models/snapshot.py, sensor.py).                                        *)
(*                                                                         *)
(* The cloud records a point of the series at the end of every slot of the *)
(* plant's day and fills the slots to come with zeros.  It reports the     *)
(* series in kW and the battery's power as negative when it charges; live  *)
(* reads are in W, have no battery power, may be far too low on solar      *)
(* power (architecture.md:117), and leave out what they like.  A refresh   *)
(* reads live values first, the rest after that, and the series only when  *)
(* it is a heavy one.                                                      *)
(***************************************************************************)
EXTENDS Integers, Sequences, FiniteSetsExt

CONSTANTS
  Flows,   \* power flows of a plant: records of solar, load and charge, in kW
  Slots,   \* slots in a day
  Hours,   \* bound: slots that pass
  Behind,  \* slots that the host's day begins after the plant's, or before it
  None

\* A point of the series, in kW, and the strings' section, in W.
PointVO == [id : BOOLEAN, solar : Int \cup {None}, battery : Int \cup {None}]
PvStrings == [active : BOOLEAN, total : Int]

ASSUME ReadingsAssumption ==
  /\ Flows \subseteq [solar : Nat, load : Nat, charge : Int]
  /\ Slots \in Nat \ {0} /\ Hours \in Nat /\ Behind \in Int
  /\ None \notin Int \cup PointVO \cup PvStrings \cup [1 .. Slots -> PointVO]

VARIABLES
  flow,     \* the power flows of the plant
  log,      \* log[h]: those of slot h, and the one its point lacks, if any
  refresh,  \* a refresh after its live read
  shown     \* what the sensors show of the last refresh, and where it came from

vars == <<flow, log, refresh, shown>>

Init ==
  /\ flow \in Flows
  /\ log = <<>>
  /\ refresh = None
  /\ shown = None

Watts(kw) == 1000 * kw

-----------------------------------------------------------------------------
(* The series.                                                             *)

\* The points the cloud has by now for a day, in kW: recorded ones have an id.  The
\* first day is the plant's first.
Point(h) ==
  IF h \in 1 .. Len(log)
  THEN [id |-> TRUE,
        solar |-> IF log[h].lacks = "solar" THEN None ELSE log[h].flow.solar,
        battery |-> IF log[h].lacks = "charge" THEN None ELSE - log[h].flow.charge]
  ELSE [id |-> FALSE, solar |-> 0, battery |-> 0]

Series(day) == [i \in 1 .. Slots |-> Point(day * Slots + i)]

\* is_empty, of the measurements modelled.  Mutant: a point of zeros is empty.
IsEmpty_Zeros(p) == p.solar \in {0, None} /\ p.battery \in {0, None}

IsEmpty(p) == ~ p.id /\ p.solar \in {0, None} /\ p.battery \in {0, None}

Populated(series) == {i \in DOMAIN series : ~ IsEmpty(series[i])}

Latest(series) ==
  IF series = None \/ Populated(series) = {} THEN None ELSE series[Max(Populated(series))]

-----------------------------------------------------------------------------
(* The snapshot: its live values in W, its strings, its series.            *)

\* LiveSnapshot.battery_power: a load that is missing counts as none.
Derived(live) ==
  IF None \in {live.solar, live.grid} THEN None
  ELSE live.solar + live.grid - (IF live.load = None THEN 0 ELSE live.load)

\* battery_power_w.  Mutant: as if the series were in W.
Battery_RawUnit(s) ==
  LET p == Latest(s.series) IN
  IF p # None /\ p.battery # None THEN - p.battery ELSE Derived(s.live)

Battery(s) ==
  LET p == Latest(s.series) IN
  IF p # None /\ p.battery # None THEN - Watts(p.battery) ELSE Derived(s.live)

\* PvStrings: the read may have failed, or no string has a voltage or a current.
PvActive(s) == s.pv # None /\ s.pv.active

\* solar_power_w.
Solar(s) ==
  LET p == Latest(s.series) IN
  IF p # None /\ p.solar # None THEN Watts(p.solar)
  ELSE IF PvActive(s) THEN s.pv.total ELSE s.live.solar

\* solar_power_source.  Mutant: the strings are asked first.
SolarSource_StringsFirst(s) ==
  IF PvActive(s) THEN "pv_strings" ELSE IF Latest(s.series) # None THEN "series" ELSE "live"

SolarSource(s) ==
  IF Latest(s.series) # None THEN "series" ELSE IF PvActive(s) THEN "pv_strings" ELSE "live"

BatterySource(s) == IF Latest(s.series) # None THEN "measured" ELSE "derived"

\* What the command line calls it: a series without a recorded point counts too.
StatusSource(s) ==
  IF s.series # None /\ s.series # <<>> THEN "measured" ELSE "derived"

-----------------------------------------------------------------------------
\* A slot ends: its point is recorded.
Record ==
  /\ Len(log) < Hours
  /\ \E lacks \in {"nothing", "solar", "charge"} : log' = Append(log, [flow |-> flow, lacks |-> lacks])
  /\ flow' \in Flows
  /\ UNCHANGED <<refresh, shown>>

HostDay(hour) == (hour - Behind) \div Slots

\* _plant_today: the day it is at the plant, if the live read names a time zone that
\* is known, else at the host.  Mutant: the day it is at the host.
Today_Host(zoned) == HostDay(Len(log))

Today(zoned) == IF zoned THEN Len(log) \div Slots ELSE HostDay(Len(log))

\* What a live read should say of the flows f, and what it may say, with one value
\* missing or too low.  Loads come in two parts (load_power), one of which may be missing.
Right(f) ==
  [solar |-> Watts(f.solar), load |-> Watts(f.load),
   grid |-> Watts(f.load + f.charge - f.solar)]

LiveReads(f) ==
  {Right(f)} \cup {[Right(f) EXCEPT !.solar = v] : v \in {None, 0}}
             \cup {[Right(f) EXCEPT !.load = v] : v \in {None, 0}}
             \cup {[Right(f) EXCEPT !.grid = None]}

\* resolve_device: the live read fixes the day.
Live ==
  /\ refresh = None
  /\ \E heavy, zoned \in BOOLEAN, live \in LiveReads(flow) :
       refresh' = [heavy |-> heavy, zoned |-> zoned, day |-> Today(zoned), hour |-> Len(log),
                   flow |-> flow, live |-> live]
  /\ shown' = None
  /\ UNCHANGED <<flow, log>>

\* The strings' powers are those of the moment; one that reports no power counts as
\* none (total_power_w), and one that reports neither voltage nor current as inactive.
StringReads ==
  {None} \cup {[active |-> a, total |-> Watts(kw)] : a \in BOOLEAN, kw \in 0 .. flow.solar}

\* The other reads, and the sensors' update.  A section that failed is None.
Gather ==
  /\ refresh # None
  /\ \E pv \in StringReads,
        series \in {None} \cup (IF refresh.heavy THEN {Series(refresh.day)} ELSE {}) :
       LET s == [live |-> refresh.live, pv |-> pv, series |-> series] IN
       shown' = [battery |-> Battery(s), batterySource |-> BatterySource(s),
                 statusSource |-> StatusSource(s),
                 solar |-> Solar(s), solarSource |-> SolarSource(s),
                 began |-> refresh, pv |-> pv, read |-> series # None,
                 now |-> flow, upto |-> Len(log)]
  /\ refresh' = None
  /\ UNCHANGED <<flow, log>>

Next == Record \/ Live \/ Gather

Spec == Init /\ [][Next]_vars

-----------------------------------------------------------------------------
Powers(field) == {Watts(f[field]) : f \in Flows}

\* Types: what is shown is in W (models/energy.py:66-82).
TypeOK ==
  /\ flow \in Flows
  /\ log \in Seq([flow : Flows, lacks : {"nothing", "solar", "charge"}])
  /\ refresh # None =>
       /\ {refresh.heavy, refresh.zoned} \subseteq BOOLEAN /\ refresh.flow \in Flows
       /\ refresh.hour \in 0 .. Len(log) /\ refresh.day \in Int
       /\ refresh.live \in LiveReads(refresh.flow)
  /\ shown # None =>
       /\ shown.battery \in Powers("charge") \cup {Derived(shown.began.live)}
       /\ shown.solar \in Powers("solar") \cup {shown.began.live.solar}
            \cup (IF shown.pv = None THEN {} ELSE {shown.pv.total})
       /\ {shown.batterySource, shown.statusSource} \subseteq {"measured", "derived"}
       /\ shown.solarSource \in {"series", "pv_strings", "live"}

\* The slot to go by for a measurement: the last one recorded of the day it was when
\* the refresh began, at the plant, or at the host for want of the plant's time zone,
\* if the series was read and the measurement is not lacking.
Slot(field) ==
  LET began == shown.began
      day == IF began.zoned THEN began.hour \div Slots ELSE HostDay(began.hour)
      slots == {h \in day * Slots + 1 .. (day + 1) * Slots : h \in 1 .. shown.upto}
  IN IF shown.read /\ slots # {} /\ log[Max(slots)].lacks # field THEN Max(slots) ELSE 0

\* Battery power is the power the plant charges with, positive when it does: as
\* measured in the last slot of the plant's day, zeros included and slots to come
\* notwithstanding, or else as the flows of the live read balance, if none is missing
\* or too low; where solar or grid power is missing there is none.  The host's date
\* decides on the day only if the live read names no time zone that is known
\* (architecture.md:119-134, models/snapshot.py:40-46, live.py:120-124, client.py:41-47).
BatteryIsTrue ==
  shown # None =>
    LET live == shown.began.live IN
    IF Slot("charge") # 0
    THEN shown.battery = Watts(log[Slot("charge")].flow.charge)
    ELSE /\ live = Right(shown.began.flow) => shown.battery = Watts(shown.began.flow.charge)
         /\ shown.battery = None <=> None \in {live.solar, live.grid}

\* A live read that is too low on solar power, or has none, is never shown while the
\* series of the day says better, or the strings do, if all that are active report
\* their power: one that does not is counted as none, and the sum is then shown even
\* over a live read that is right (architecture.md:117, models/snapshot.py:53-60,
\* device.py:198-199).
SolarNotUnderstated ==
  shown # None =>
    /\ Slot("solar") # 0 => shown.solar = Watts(log[Slot("solar")].flow.solar)
    /\ Slot("solar") = 0 /\ shown.pv = [active |-> TRUE, total |-> Watts(shown.now.solar)]
         => shown.solar = Watts(shown.now.solar)

\* Of a series whose last point is whole, the source that is named is the one that
\* was used; and what is named derived, or live, is never a better source's,
\* in the entities and on the command line.  Of a point that lacks the measurement
\* it is not so: the series is named, and another source used (architecture.md:111-112,
\* sensor.py:249-257, cli.py:87-92).
SourceIsHonest ==
  shown # None =>
    LET live == shown.began.live
        active == shown.pv # None /\ shown.pv.active
    IN
    /\ Slot("solar") # 0 => shown.solarSource = "series"
    /\ Slot("charge") # 0 => {shown.batterySource, shown.statusSource} = {"measured"}
    /\ shown.solarSource = "pv_strings" => active /\ shown.solar = shown.pv.total
    /\ shown.solarSource = "live" => ~ active /\ shown.solar = live.solar
    /\ "derived" \in {shown.batterySource, shown.statusSource}
         => shown.battery = Derived(live)
=============================================================================

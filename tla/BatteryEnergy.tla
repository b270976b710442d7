---------------------------- MODULE BatteryEnergy ----------------------------
(***************************************************************************)
(* The energy charged into and discharged from the battery, which the API  *)
(* does not report and which the integration derives from the level of     *)
(* stored energy: BatteryEnergyAccumulator (battery.py) fed by every       *)
(* refresh, and the two sensors that publish its totals on top of the ones *)
(* Home Assistant restored (sensor.py).                                    *)
(*                                                                         *)
(* Energy counts in units of 0.01 kWh, the quantisation of the level, so   *)
(* that rounding to two digits changes nothing.  The code subtracts        *)
(* doubles: a difference of exactly MinDelta may come out on either side.  *)
(***************************************************************************)
EXTENDS Integers

CONSTANTS
  Levels,       \* the levels the device may report
  MinDelta,     \* MIN_DELTA_KWH
  MaxSamples,   \* bound: refreshes in a behaviour
  MaxRestarts,  \* bound: times the sensors go away
  None

ASSUME LevelsAssumption == Levels \subseteq Int /\ None \notin Levels
ASSUME MinDeltaAssumption == MinDelta \in Nat \ {0}
ASSUME BoundsAssumption == MaxSamples \in Nat /\ MaxRestarts \in Nat

VARIABLES
  anchor, charged, discharged,  \* the accumulator of the loaded entry
  restored,                     \* _restored of the two sensors
  saved,                        \* their values in Home Assistant's restore state
  status,                       \* do the sensors exist, and if not, why
  samples, restarts,            \* counted against the bounds
  first, last, rises, falls,    \* history: what the accumulator was shown
  shown                         \* history: the totals last published

accumulator == <<anchor, charged, discharged>>
observed == <<first, last, rises, falls>>
vars == <<accumulator, restored, saved, status, samples, restarts, observed, shown>>

Totals == [charged : Nat, discharged : Nat]
AtLeast(new, old) == new.charged >= old.charged /\ new.discharged >= old.discharged

Init ==
  /\ anchor = None /\ charged = 0 /\ discharged = 0
  /\ first = None /\ last = None /\ rises = 0 /\ falls = 0
  /\ status = "unloaded"
  /\ restored = [charged |-> 0, discharged |-> 0]
  /\ saved = restored
  /\ shown = restored
  /\ samples = 0 /\ restarts = 0

\* native_value of the two sensors.  Mutant: the session's part alone.
Published_Session(c, d) == [charged |-> c, discharged |-> d]

Published(c, d) ==
  [charged |-> restored.charged + c, discharged |-> restored.discharged + d]

\* delta >= MIN_DELTA_KWH may come out true of the doubles, or false.
MayReach(delta) == delta >= MinDelta
MayMiss(delta) == delta <= MinDelta

\* BatteryEnergyAccumulator.update once there is an anchor: a rise, a fall, or
\* a difference too small to count, for which the anchor stays.
Rise(stored) ==
  /\ MayReach(stored - anchor)
  /\ charged' = charged + (stored - anchor)
  /\ anchor' = stored
  /\ UNCHANGED discharged

\* Mutants: the anchor is not moved; the difference keeps its sign.
Fall_KeepsAnchor(stored) ==
  /\ MayReach(anchor - stored)
  /\ discharged' = discharged + (anchor - stored)
  /\ UNCHANGED <<anchor, charged>>

Fall_Signed(stored) ==
  /\ MayReach(anchor - stored)
  /\ discharged' = discharged + (stored - anchor)
  /\ anchor' = stored
  /\ UNCHANGED charged

Fall(stored) ==
  /\ MayReach(anchor - stored)
  /\ discharged' = discharged + (anchor - stored)
  /\ anchor' = stored
  /\ UNCHANGED charged

\* Mutant: the anchor follows every sample, and slow flow is never counted.
Hold_Slides(stored) ==
  /\ MayMiss(stored - anchor) /\ MayMiss(anchor - stored)
  /\ anchor' = stored
  /\ UNCHANGED <<charged, discharged>>

Hold(stored) ==
  /\ MayMiss(stored - anchor) /\ MayMiss(anchor - stored)
  /\ UNCHANGED accumulator

\* A refresh that read the level, and the sensors that publish after it (one
\* that read none changes nothing).
Refresh ==
  /\ status = "up"
  /\ samples < MaxSamples
  /\ samples' = samples + 1
  /\ \E stored \in Levels :
       /\ \/ /\ anchor = None
             /\ anchor' = stored
             /\ first' = stored
             /\ UNCHANGED <<charged, discharged, rises, falls>>
          \/ /\ anchor # None
             /\ Rise(stored) \/ Fall(stored) \/ Hold(stored)
             /\ rises' = IF stored > last THEN rises + (stored - last) ELSE rises
             /\ falls' = IF stored < last THEN falls + (last - stored) ELSE falls
             /\ UNCHANGED first
       /\ last' = stored
  /\ shown' = Published(charged', discharged')
  /\ UNCHANGED <<restored, saved, status, restarts>>

\* Home Assistant dumps its restore state every few minutes.
Dump ==
  /\ status = "up"
  /\ saved' = Published(charged, discharged)
  /\ UNCHANGED <<accumulator, restored, status, samples, restarts, observed, shown>>

\* The entry is set up: a new accumulator, on top of the values restored.
Add ==
  /\ status # "up"
  /\ anchor' = None /\ charged' = 0 /\ discharged' = 0
  /\ first' = None /\ last' = None /\ rises' = 0 /\ falls' = 0
  /\ restored' = saved
  /\ shown' = saved
  /\ status' = "up"
  /\ UNCHANGED <<saved, samples, restarts>>

\* The entry is unloaded, or Home Assistant stops: the values are saved.
Unload ==
  /\ status = "up"
  /\ restarts < MaxRestarts
  /\ saved' = Published(charged, discharged)
  /\ status' = "unloaded"
  /\ restarts' = restarts + 1
  /\ UNCHANGED <<accumulator, restored, samples, observed, shown>>

\* Home Assistant dies: the last dump is what will be restored.
Crash ==
  /\ status = "up"
  /\ restarts < MaxRestarts
  /\ status' = "crashed"
  /\ restarts' = restarts + 1
  /\ UNCHANGED <<accumulator, restored, saved, samples, observed, shown>>

Next == Refresh \/ Dump \/ Add \/ Unload \/ Crash

Spec == Init /\ [][Next]_vars

-----------------------------------------------------------------------------
\* Types; no total is ever negative (battery.py:17-24).
TypeOK ==
  /\ anchor \in Levels \cup {None}
  /\ charged \in Nat /\ discharged \in Nat
  /\ restored \in Totals /\ saved \in Totals /\ shown \in Totals
  /\ status \in {"up", "unloaded", "crashed"}
  /\ samples \in Nat /\ restarts \in Nat
  /\ first \in Levels \cup {None} /\ last \in Levels \cup {None}
  /\ rises \in Nat /\ falls \in Nat

\* No energy is lost or counted twice between the samples that moved the
\* anchor: the two totals differ by what the level gained since the first one.
Conserved == anchor # None => charged - discharged = anchor - first

\* What is not yet counted is never more than the threshold, whatever the
\* speed at which the level moved.
LagBounded ==
  anchor # None => last - anchor \in -MinDelta .. MinDelta

\* Jitter of the level is not turned into energy: no more is counted in a
\* direction than the level really moved in that direction.
NothingInvented ==
  anchor # None =>
    /\ charged + (IF last > anchor THEN last - anchor ELSE 0) <= rises
    /\ discharged + (IF last < anchor THEN anchor - last ELSE 0) <= falls

\* The published totals never decrease, over reloads and restarts included,
\* except when Home Assistant died since the last dump; and what it restores
\* was published before.
TotalsIncrease == [][AtLeast(shown', shown) \/ status = "crashed"]_vars
RestoredWasShown == AtLeast(shown, saved)
=============================================================================

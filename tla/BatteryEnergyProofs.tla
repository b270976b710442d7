------------------------- MODULE BatteryEnergyProofs -------------------------
(***************************************************************************)
(* The invariants of BatteryEnergy, for every set of integer levels, every *)
(* threshold and every number of samples and restarts.                     *)
(***************************************************************************)
EXTENDS BatteryEnergy, TLAPS

\* The history variables start with the anchor, and what is saved follows what
\* is shown: the strengthening that makes the properties inductive.
Session ==
  /\ anchor = None <=> first = None
  /\ anchor = None <=> last = None
  /\ anchor = None => charged = 0 /\ discharged = 0

Shows ==
  /\ status = "up" => shown = Published(charged, discharged)
  /\ status = "unloaded" => saved = shown

\* The invariants of the accumulator, and of the sensors on top of it.
AccumulatorInv == Conserved /\ LagBounded /\ NothingInvented
SensorInv == Shows /\ RestoredWasShown
IInv == TypeOK /\ Session /\ AccumulatorInv /\ SensorInv

\* It holds before the sensors exist.
LEMMA InitIInv == Init => IInv
BY LevelsAssumption, MinDeltaAssumption
DEF Init, IInv, TypeOK, Session, Shows, AccumulatorInv, SensorInv, Conserved,
    LagBounded, NothingInvented, RestoredWasShown, AtLeast, Totals, Published

\* One sample of the level, as Refresh makes it.
Sample(stored) ==
  /\ \/ /\ anchor = None
        /\ anchor' = stored
        /\ first' = stored
        /\ UNCHANGED <<charged, discharged, rises, falls>>
     \/ /\ anchor # None
        /\ Rise(stored) \/ Fall(stored) \/ Hold(stored)
        /\ rises' = IF stored > last THEN rises + (stored - last) ELSE rises
        /\ falls' = IF stored < last THEN falls + (last - stored) ELSE falls
        /\ UNCHANGED first
  /\ last' = stored

\* A sample keeps the accumulator's bookkeeping, and its totals do not decrease.
LEMMA SampleStep ==
  ASSUME TypeOK, Session, AccumulatorInv, NEW stored \in Levels, Sample(stored)
  PROVE  /\ anchor' \in Levels /\ first' \in Levels /\ last' \in Levels
         /\ charged' \in Nat /\ discharged' \in Nat /\ rises' \in Nat /\ falls' \in Nat
         /\ charged' >= charged /\ discharged' >= discharged
         /\ Session' /\ AccumulatorInv'
<1> USE LevelsAssumption, MinDeltaAssumption
<1> USE DEF TypeOK, Session, AccumulatorInv
<1>1. stored \in Int /\ stored # None
  OBVIOUS
<1>2. CASE anchor = None
  BY <1>1, <1>2 DEF Sample, Conserved, LagBounded, NothingInvented
<1>3. CASE anchor # None
  <2>1. anchor \in Int /\ first \in Int /\ last \in Int
    BY <1>3
  <2>2. /\ rises' = IF stored > last THEN rises + (stored - last) ELSE rises
        /\ falls' = IF stored < last THEN falls + (last - stored) ELSE falls
        /\ first' = first /\ last' = stored
        /\ Rise(stored) \/ Fall(stored) \/ Hold(stored)
    BY <1>3 DEF Sample
  <2>3. CASE Rise(stored)
    BY <1>1, <1>3, <2>1, <2>2, <2>3
    DEF Rise, MayReach, Conserved, LagBounded, NothingInvented
  <2>4. CASE Fall(stored)
    BY <1>1, <1>3, <2>1, <2>2, <2>4
    DEF Fall, MayReach, Conserved, LagBounded, NothingInvented
  <2>5. CASE Hold(stored)
    BY <1>1, <1>3, <2>1, <2>2, <2>5
    DEF Hold, MayMiss, accumulator, Conserved, LagBounded, NothingInvented
  <2>. QED
    BY <2>2, <2>3, <2>4, <2>5
<1>. QED
  BY <1>2, <1>3

\* A refresh publishes totals that are at least the ones published before.
LEMMA RefreshStep ==
  ASSUME IInv, Refresh
  PROVE  IInv' /\ AtLeast(shown', shown)
<1>1. PICK stored \in Levels : Sample(stored)
  BY DEF Refresh, Sample
<1>2. /\ status = "up" /\ status' = "up"
      /\ samples' = samples + 1
      /\ shown' = Published(charged', discharged')
      /\ UNCHANGED <<restored, saved, restarts>>
  BY DEF Refresh
<1>3. /\ anchor' \in Levels /\ first' \in Levels /\ last' \in Levels
      /\ charged' \in Nat /\ discharged' \in Nat /\ rises' \in Nat /\ falls' \in Nat
      /\ charged' >= charged /\ discharged' >= discharged
      /\ Session' /\ AccumulatorInv'
  BY <1>1, SampleStep DEF IInv
<1>4. TypeOK'
  BY <1>2, <1>3 DEF IInv, TypeOK, Published, Totals
<1>5. AtLeast(shown', shown)
  BY <1>2, <1>3 DEF IInv, TypeOK, SensorInv, Shows, Published, Totals, AtLeast
<1>6. SensorInv'
  BY <1>2, <1>3, <1>5
  DEF IInv, TypeOK, SensorInv, Shows, RestoredWasShown, Published, Totals, AtLeast
<1>. QED
  BY <1>3, <1>4, <1>5, <1>6 DEF IInv

\* Every step keeps the invariant, and but for a restart after a crash it keeps
\* the published totals from decreasing.
LEMMA NextStep ==
  ASSUME IInv, [Next]_vars
  PROVE  IInv' /\ (AtLeast(shown', shown) \/ status = "crashed")
<1> USE DEF IInv
<1>1. CASE Refresh
  BY <1>1, RefreshStep
<1>2. CASE Dump
  BY <1>2
  DEF Dump, TypeOK, Session, AccumulatorInv, SensorInv, Shows, RestoredWasShown, Conserved,
      LagBounded, NothingInvented, accumulator, observed, Published, Totals, AtLeast
<1>3. CASE Add
  BY <1>3, LevelsAssumption
  DEF Add, TypeOK, Session, AccumulatorInv, SensorInv, Shows, RestoredWasShown, Conserved,
      LagBounded, NothingInvented, Published, Totals, AtLeast
<1>4. CASE Unload
  BY <1>4
  DEF Unload, TypeOK, Session, AccumulatorInv, SensorInv, Shows, RestoredWasShown, Conserved,
      LagBounded, NothingInvented, accumulator, observed, Published, Totals, AtLeast
<1>5. CASE Crash
  BY <1>5
  DEF Crash, TypeOK, Session, AccumulatorInv, SensorInv, Shows, RestoredWasShown, Conserved,
      LagBounded, NothingInvented, accumulator, observed, Published, Totals, AtLeast
<1>6. CASE UNCHANGED vars
  BY <1>6
  DEF vars, TypeOK, Session, AccumulatorInv, SensorInv, Shows, RestoredWasShown, Conserved,
      LagBounded, NothingInvented, accumulator, observed, Published, Totals, AtLeast
<1>. QED
  BY <1>1, <1>2, <1>3, <1>4, <1>5, <1>6 DEF Next

\* The inductive invariant holds of every behaviour.
LEMMA Invariance == Spec => []IInv
<1>1. IInv /\ [Next]_vars => IInv'
  BY NextStep
<1>. QED
  BY InitIInv, <1>1, PTL DEF Spec

\* The accumulator's totals and the sensors' values are always well typed, the
\* totals natural numbers (battery.py).
THEOREM TypeCorrect == Spec => []TypeOK
<1>1. IInv => TypeOK
  BY DEF IInv
<1>. QED
  BY Invariance, <1>1, PTL

\* No energy is lost or counted twice between the samples that moved the
\* anchor (battery.py:19-25).
THEOREM EnergyConserved == Spec => []Conserved
<1>1. IInv => Conserved
  BY DEF IInv, AccumulatorInv
<1>. QED
  BY Invariance, <1>1, PTL

\* What is not yet counted never exceeds the threshold (battery.py:20-25).
THEOREM LagStaysBounded == Spec => []LagBounded
<1>1. IInv => LagBounded
  BY DEF IInv, AccumulatorInv
<1>. QED
  BY Invariance, <1>1, PTL

\* Jitter is not turned into energy (battery.py:19-25).
THEOREM NoEnergyInvented == Spec => []NothingInvented
<1>1. IInv => NothingInvented
  BY DEF IInv, AccumulatorInv
<1>. QED
  BY Invariance, <1>1, PTL

\* What Home Assistant restores was published before (sensor.py:355-369).
THEOREM RestoredTotalsWereShown == Spec => []RestoredWasShown
<1>1. IInv => RestoredWasShown
  BY DEF IInv, SensorInv
<1>. QED
  BY Invariance, <1>1, PTL

\* The published totals decrease only where a crash lost the values since the
\* last dump (battery.py, sensor.py:355-369).
THEOREM TotalsNeverDecrease == Spec => TotalsIncrease
<1>1. IInv /\ [Next]_vars => [AtLeast(shown', shown) \/ status = "crashed"]_vars
  BY NextStep
<1>. QED
  BY Invariance, <1>1, PTL DEF Spec, TotalsIncrease
=============================================================================

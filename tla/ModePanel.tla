------------------------------- MODULE ModePanel ------------------------------
(***************************************************************************)
(* What the integration promises of the device's mode configuration: it is *)
(* changed like a control panel, one setting at a time.                    *)
(***************************************************************************)
CONSTANTS Socs, Lists, Daylight, DayLists, Settings, Initial, Mutes
VARIABLES device, mute

Init == device \in Initial /\ mute \in Mutes

\* Only these settings change, apart from settings the device does not report and lists
\* of days that are empty: they may fall back to a default, as may ev while the mode is
\* not reported.
Only(settings) ==
  /\ \A s \in Settings \ (settings \cup mute) :
       /\ s = "ev" => "mode" \notin mute
       /\ s \in DayLists => device[s] # {}
       => device'[s] = device[s]
  /\ "mode" \notin settings => device'.mode = device.mode
  /\ UNCHANGED mute

SetReserve ==
  \E s \in {"self_reserve", "backup_reserve"} : Only({s}) /\ device'[s] \in Socs

SetGrid == Only({"grid"}) /\ device'.grid \in BOOLEAN

\* The calendar is edited, but for the lists for daylight saving time, and the mode
\* that runs on it may be entered with it.
SetCalendar ==
  /\ Only({"calendar", "mode"})
  /\ device'.calendar \subseteq Lists
  /\ "calendar" \notin mute => device'.calendar \cap Daylight = device.calendar \cap Daylight
  /\ device'.mode \in {device.mode, "time_of_use"}

\* The mode alone is switched: never to a calendar that is empty, those lists aside.
SwitchMode ==
  /\ Only({"mode"})
  /\ device'.mode = "time_of_use" => device.calendar \ Daylight # {}

Spec == Init /\ [][SetReserve \/ SetGrid \/ SetCalendar \/ SwitchMode]_<<device, mute>>
=============================================================================

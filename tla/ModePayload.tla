------------------------------ MODULE ModePayload -----------------------------
(***************************************************************************)
(* The mode configuration on the wire: what device/getSwitchMode answers,  *)
(* in whatever form it spells a setting; what ModeConfig makes of it; the  *)
(* SwitchModeRequest built from that; what device/switchMode does with it; *)
(* and what the control entities display.                                  *)
(*                                                                         *)
(* A value on the wire is a flag, with a Boolean, or a number or a text,   *)
(* with the number it is or its digits spell; modes and switches go by     *)
(* codes.  A list, with its members for a value, has days as such values;  *)
(* calendar stands for the nine lists of tariff windows and has those that *)
(* are not empty.  None is a setting that is missing, or blank.            *)
(***************************************************************************)
EXTENDS Integers

CONSTANTS
  Socs,      \* reserve levels that are asked for
  Lists,     \* the window lists of the tariff calendar
  Daylight,  \* those of them for daylight saving time
  None

WorkMode == [self_consumption |-> 1, time_of_use |-> 2, backup |-> 3]
Modes == DOMAIN WorkMode
Days == 1 .. 7

\* The settings by what ModeConfig declares them to be.
Texts == {"mode", "weather", "grid", "self_reserve", "backup_reserve"}
Numbers == {"ev", "tou"}
Flags == {"daylight"}
DayLists == {"workdays", "non_workdays", "daylight_workdays", "daylight_non_workdays"}
Settings == Texts \cup Numbers \cup Flags \cup DayLists \cup {"calendar"}

Switches == {"weather", "grid", "daylight"}

Kind(s) == IF s \in Numbers THEN "number" ELSE IF s \in Flags THEN "flag" ELSE "text"

\* What the request says of a setting the device said nothing of; of ev it then
\* says nothing, and the default is the device's.
Default ==
  [mode |-> "self_consumption", weather |-> FALSE, grid |-> TRUE, self_reserve |-> 5,
   backup_reserve |-> 50, ev |-> 50, tou |-> 0, daylight |-> FALSE,
   workdays |-> 1 .. 5, non_workdays |-> 6 .. 7,
   daylight_workdays |-> 1 .. 5, daylight_non_workdays |-> 6 .. 7, calendar |-> {}]

Levels == Socs \cup {Default.self_reserve, Default.backup_reserve}
Config ==
  [mode : Modes, weather : BOOLEAN, grid : BOOLEAN, self_reserve : Levels,
   backup_reserve : Levels, ev : Levels, tou : 0 .. 1, daylight : BOOLEAN,
   workdays : SUBSET Days, non_workdays : SUBSET Days, daylight_workdays : SUBSET Days,
   daylight_non_workdays : SUBSET Days, calendar : SUBSET Lists]

\* What a setting may be on the wire.
Values == [form : {"text", "number"}, val : Nat] \cup [form : {"flag"}, val : BOOLEAN]
Wire ==
  Values \cup [form : {"list"}, val : SUBSET Values] \cup [form : {"list"}, val : SUBSET Lists]

ASSUME PayloadAssumption ==
  /\ Socs \subseteq Nat /\ Daylight \subseteq Lists
  /\ None \notin Modes /\ None \notin Nat
  /\ None \notin Wire /\ None \notin [Settings -> Wire \cup {None}]

-----------------------------------------------------------------------------
(* Spelling.                                                               *)

\* The number a value goes by.
Code(s, v) ==
  IF s = "mode" THEN WorkMode[v]
  ELSE IF s \in Switches THEN (IF v THEN 1 ELSE 0)
  ELSE v

Spell(form, n) == [form |-> form, val |-> IF form = "flag" THEN n = 1 ELSE n]

Spelled(form, s, v) ==
  CASE s \in DayLists -> [form |-> "list", val |-> {Spell(form, d) : d \in v}]
    [] s = "calendar" -> [form |-> "list", val |-> v]
    [] OTHER -> Spell(form, Code(s, v))

\* In the form the endpoint takes.
Sent(s, v) == Spelled(Kind(s), s, v)

\* ModeConfig.mode, for a text or number.
ModeOf(raw) ==
  IF raw # None /\ \E m \in Modes : WorkMode[m] = raw.val
  THEN CHOOSE m \in Modes : WorkMode[m] = raw.val
  ELSE None

\* What the device makes of it.
Meaning(s, raw) ==
  CASE s = "mode" -> ModeOf(raw)
    [] s \in Switches -> IF raw.form = "flag" THEN raw.val ELSE raw.val = 1
    [] s \in DayLists -> {d.val : d \in raw.val}
    [] OTHER -> raw.val

-----------------------------------------------------------------------------
(* Reading.                                                                *)

\* How an answer may spell its settings: one way or another throughout, so that each
\* form of each setting is in one of them (a usual answer, tests/conftest.py:35-59,
\* has some of all).
Styles == {"text", "number", "flag"}

FormIn(style, s) ==
  IF style # "flag" THEN style
  ELSE IF s \in Switches THEN "flag"
  ELSE IF s \in DayLists THEN "number"
  ELSE Kind(s)

\* The answer of a device that leaves out the settings in mute.
Answer(config, mute, style) ==
  [s \in Settings |-> IF s \in mute THEN None ELSE Spelled(FormIn(style, s), s, config[s])]

\* The validators of base.py, for one value and for a list: a flag becomes a code, a
\* number a flag unless it is zero, and a text a flag if it is the code of one.
\* Mutant: the members of a list are left as they are.
ToList_AsIs(raw) == IF raw = None THEN [form |-> "list", val |-> {}] ELSE raw

ToKind(kind, raw) ==
  CASE raw = None -> None
    [] raw # None /\ kind # "flag" ->
         [form |-> kind,
          val |-> IF raw.form = "flag" THEN (IF raw.val THEN 1 ELSE 0) ELSE raw.val]
    [] raw # None /\ kind = "flag" ->
         IF raw.form = "flag" THEN raw
         ELSE IF raw.form = "text" /\ raw.val \notin {0, 1} THEN None
         ELSE [form |-> "flag", val |-> raw.val # 0]

ToList(raw) ==
  [form |-> "list",
   val |-> IF raw = None THEN {} ELSE {ToKind("text", d) : d \in raw.val} \ {None}]

\* ModeConfig.model_validate.
Parsed(answer) ==
  [s \in Settings |->
     CASE s \in DayLists -> ToList(answer[s])
       [] s = "calendar" -> IF answer[s] = None THEN [form |-> "list", val |-> {}] ELSE answer[s]
       [] OTHER -> ToKind(Kind(s), answer[s])]

GridChargingAllowed(config) ==
  config.grid # None /\ config.grid.form = "text" /\ config.grid.val = 1

\* The windows for daylight saving time do not count.
HasTouSchedule(config) == config.calendar.val \ Daylight # {}

\* What the number, select and switch entities display of it, None for unknown.
Displayed(config, s) ==
  CASE s = "grid" -> GridChargingAllowed(config)
    [] s = "mode" -> ModeOf(config.mode)
    [] s \notin {"grid", "mode"} -> IF config[s] = None THEN None ELSE config[s].val

-----------------------------------------------------------------------------
(* Writing.                                                                *)

\* from_config carries every setting that was read; a list of days that is empty, like
\* one that is missing, becomes the default.
Said(config, s) == config[s] # None /\ ~ (s \in DayLists /\ config[s].val = {})

Carried(config, s) == IF Said(config, s) THEN config[s] ELSE Sent(s, Default[s])

\* The reserve of the wall box is for time-of-use only.
EvSent(config, target) == target = "time_of_use" /\ config.ev # None

\* SwitchModeRequest.from_config: mode is the one to switch to, None for the one
\* that was read.
Request(config, mode, onlySave) ==
  LET target == IF mode # None THEN mode ELSE ModeOf(config.mode)
      sent == (Settings \ {"ev"}) \cup (IF EvSent(config, target) THEN {"ev"} ELSE {})
  IN [onlySave |-> onlySave,
      body |-> [s \in sent |->
                  CASE s = "mode" /\ mode # None -> Sent(s, mode)
                    [] s = "ev" -> config.ev
                    [] OTHER -> Carried(config, s)]]

\* with_changes.
WithChange(request, s, val) == [request EXCEPT !.body[s] = Sent(s, val)]

\* device/switchMode takes strings where the request declares strings.
Accepted(request) ==
  \A s \in DOMAIN request.body \ {"calendar"} :
    IF s \in DayLists THEN \A d \in request.body[s].val : d.form = "text"
    ELSE request.body[s].form = Kind(s)

\* It resets a setting that is absent, and saves without switching if told so.
Applied(device, request) ==
  LET mode == IF request.onlySave THEN device.mode ELSE Meaning("mode", request.body.mode) IN
  [s \in Settings |->
     CASE s = "mode" -> mode
       [] s # "mode" /\ s \in DOMAIN request.body -> Meaning(s, request.body[s])
       [] s = "ev" /\ s \notin DOMAIN request.body /\ mode # "time_of_use" -> device.ev
       [] OTHER -> Default[s]]
=============================================================================

--------------------------- MODULE ModeWritesProofs ---------------------------
(***************************************************************************)
(* What holds of ModeWrites for every number of tasks and calls, all       *)
(* levels and lists, every initial configuration, all settings left        *)
(* unreported, and any set of faults, as far as a theorem says no more.    *)
(***************************************************************************)
EXTENDS ModeWrites, SequenceTheorems, TLAPS

-----------------------------------------------------------------------------
(* What crosses the wire.                                                  *)

\* The values of each setting.
Sort ==
  [mode |-> Modes, weather |-> BOOLEAN, grid |-> BOOLEAN, self_reserve |-> Levels,
   backup_reserve |-> Levels, ev |-> Levels, tou |-> 0 .. 1, daylight |-> BOOLEAN,
   workdays |-> SUBSET Days, non_workdays |-> SUBSET Days,
   daylight_workdays |-> SUBSET Days, daylight_non_workdays |-> SUBSET Days,
   calendar |-> SUBSET Lists]

ListSettings == DayLists \cup {"calendar"}
Scalars == Texts \cup Numbers \cup Flags

LEMMA SettingsAre ==
  /\ Settings = Scalars \cup ListSettings
  /\ \A s \in Scalars : s \notin ListSettings
  /\ \A s \in DayLists : s # "calendar" /\ s # "mode" /\ s # "ev" /\ s \notin Switches
  /\ {"mode", "ev", "grid"} \subseteq Scalars /\ "calendar" \in Settings
BY DEF Settings, Scalars, ListSettings, Texts, Numbers, Flags, DayLists, Switches

LEMMA ConfigSorts ==
  ASSUME NEW config
  PROVE  config \in Config <=> /\ config = [s \in Settings |-> config[s]]
                              /\ \A s \in Settings : config[s] \in Sort[s]
BY DEF Config, Sort, Settings, Texts, Numbers, Flags, DayLists

LEMMA SortsAre ==
  /\ Sort["mode"] = Modes /\ Sort["calendar"] = SUBSET Lists
  /\ \A s \in Switches : Sort[s] = BOOLEAN
  /\ \A s \in DayLists : Sort[s] = SUBSET Days
  /\ \A s \in Scalars \ (Switches \cup {"mode"}) : Sort[s] \subseteq Nat
<1>1. Levels \subseteq Nat
  BY PayloadAssumption DEF Levels, Default
<1>. QED
  BY <1>1 DEF Sort, Switches, DayLists, Scalars, Texts, Numbers, Flags

LEMMA DefaultSorts == \A s \in Settings : Default[s] \in Sort[s]
<1>1. /\ Default.self_reserve \in Levels /\ Default.backup_reserve \in Levels
      /\ Default.ev \in Levels
  BY DEF Levels, Default
<1>2. /\ Default.mode \in Modes /\ Default.weather \in BOOLEAN /\ Default.grid \in BOOLEAN
      /\ Default.tou \in 0 .. 1 /\ Default.daylight \in BOOLEAN /\ Default.calendar \in SUBSET Lists
  BY DEF Default, Modes, WorkMode
<1>3. /\ Default.workdays \in SUBSET Days /\ Default.non_workdays \in SUBSET Days
      /\ Default.daylight_workdays \in SUBSET Days /\ Default.daylight_non_workdays \in SUBSET Days
  BY DEF Default, Days
<1>4. ASSUME NEW s \in Settings PROVE Default[s] \in Sort[s]
  BY <1>1, <1>2, <1>3 DEF Sort, Settings, Texts, Numbers, Flags, DayLists
<1>. QED
  BY <1>4

\* The codes of modes are those of no other.
LEMMA Codes ==
  /\ \A m \in Modes : WorkMode[m] \in Nat
  /\ \A m, n \in Modes : WorkMode[m] = WorkMode[n] => m = n
BY DEF Modes, WorkMode

LEMMA CodeIs ==
  ASSUME NEW s \in Scalars, NEW v \in Sort[s]
  PROVE  /\ Code(s, v) \in Nat
         /\ s \in Switches => /\ v \in BOOLEAN /\ Code(s, v) \in {0, 1}
                              /\ (Code(s, v) = 1 <=> v = TRUE)
<1>1. CASE s = "mode"
  BY <1>1, SortsAre, Codes DEF Code, Switches
<1>2. CASE s \in Switches
  <2>1. v \in BOOLEAN /\ s # "mode"
    BY <1>2, SortsAre DEF Switches
  <2>2. CASE v = TRUE
    BY <1>2, <2>1, <2>2 DEF Code
  <2>3. CASE v = FALSE
    BY <1>2, <2>1, <2>3 DEF Code
  <2>. QED
    BY <2>1, <2>2, <2>3
<1>3. CASE s # "mode" /\ s \notin Switches
  BY <1>3, SortsAre DEF Code
<1>. QED
  BY <1>1, <1>2, <1>3

\* Spelled is not missing.
LEMMA SpellIs ==
  /\ \A form \in {"text", "number"}, n \in Nat :
       Spell(form, n) = [form |-> form, val |-> n] /\ Spell(form, n) \in Values
  /\ \A n \in Nat : Spell("flag", n) = [form |-> "flag", val |-> n = 1] /\ Spell("flag", n) \in Values
  /\ None \notin Values
BY PayloadAssumption DEF Spell, Values, Wire

LEMMA KindIs ==
  ASSUME NEW s \in Scalars, NEW style \in Styles
  PROVE  /\ Kind(s) \in {"text", "number", "flag"} /\ (Kind(s) = "flag" => s \in Switches)
         /\ FormIn(style, s) \in {"text", "number", "flag"} /\ (FormIn(style, s) = "flag" => s \in Switches)
BY DEF Kind, FormIn, Styles, Scalars, Switches, Texts, Numbers, Flags, DayLists

\* The validator of a scalar undoes every way a device may spell it.
LEMMA ScalarRead ==
  ASSUME NEW s \in Scalars, NEW v \in Sort[s], NEW style \in Styles
  PROVE  LET raw == Spelled(FormIn(style, s), s, v) IN
         raw # None /\ ToKind(Kind(s), raw) = Sent(s, v) /\ Sent(s, v) \in Values
<1> DEFINE form == FormIn(style, s)
           n == Code(s, v)
           raw == Spelled(form, s, v)
<1>1. s \notin DayLists /\ s # "calendar"
  BY SettingsAre DEF ListSettings
<1>2. raw = Spell(form, n) /\ Sent(s, v) = Spell(Kind(s), n)
  BY <1>1 DEF Spelled, Sent
<1>3. /\ n \in Nat /\ (s \in Switches => n \in {0, 1})
      /\ Kind(s) \in {"text", "number", "flag"} /\ (Kind(s) = "flag" => s \in Switches)
      /\ form \in {"text", "number", "flag"} /\ (form = "flag" => s \in Switches)
  BY CodeIs, KindIs
<1>. HIDE DEF form, n, raw
<1>4. raw \in Values /\ raw # None /\ Sent(s, v) \in Values
  BY <1>2, <1>3, SpellIs
<1>5. CASE form = "flag" /\ Kind(s) # "flag"
  <2>1. raw = [form |-> "flag", val |-> n = 1] /\ n \in {0, 1}
    BY <1>2, <1>3, <1>5, SpellIs
  <2>2. ToKind(Kind(s), raw) = [form |-> Kind(s), val |-> n]
    BY <1>4, <1>5, <2>1 DEF ToKind
  <2>. QED
    BY <1>2, <1>3, <1>4, <1>5, <2>2, SpellIs DEF raw, form
<1>6. CASE form # "flag" /\ Kind(s) # "flag"
  <2>1. raw.form # "flag" /\ raw.val = n
    BY <1>2, <1>3, <1>6, SpellIs
  <2>2. ToKind(Kind(s), raw) = [form |-> Kind(s), val |-> n]
    BY <1>4, <1>6, <2>1 DEF ToKind
  <2>. QED
    BY <1>2, <1>3, <1>4, <1>6, <2>2, SpellIs DEF raw, form
<1>7. CASE form = "flag" /\ Kind(s) = "flag"
  <2>1. raw.form = "flag" /\ raw = Sent(s, v)
    BY <1>2, <1>3, <1>7, SpellIs
  <2>2. ToKind(Kind(s), raw) = raw
    BY <1>4, <1>7, <2>1 DEF ToKind
  <2>. QED
    BY <1>4, <2>1, <2>2 DEF raw, form
<1>8. CASE form # "flag" /\ Kind(s) = "flag"
  <2>1. raw.form # "flag" /\ raw.val = n /\ n \in {0, 1}
    BY <1>2, <1>3, <1>8, SpellIs
  <2>2. ToKind(Kind(s), raw) = [form |-> "flag", val |-> n # 0]
    BY <1>4, <1>8, <2>1 DEF ToKind
  <2>3. (n # 0) = (n = 1)
    BY <2>1
  <2>4. Sent(s, v) = [form |-> "flag", val |-> n = 1]
    BY <1>2, <1>3, <1>8, SpellIs
  <2>. QED
    BY <1>4, <2>2, <2>3, <2>4 DEF raw, form
<1>. QED
  BY <1>5, <1>6, <1>7, <1>8

\* So does that of a list of days.
LEMMA DaysRead ==
  ASSUME NEW s \in DayLists, NEW v \in SUBSET Days, NEW style \in Styles
  PROVE  LET raw == Spelled(FormIn(style, s), s, v) IN
         /\ raw # None /\ ToList(raw) = Sent(s, v) /\ Sent(s, v) \in Wire
         /\ Sent(s, v).form = "list" /\ Sent(s, v).val = {Spell("text", d) : d \in v}
<1> DEFINE form == FormIn(style, s)
           raw == Spelled(form, s, v)
           members == {Spell(form, d) : d \in v}
           texts == {Spell("text", d) : d \in v}
           kept == {ToKind("text", d) : d \in members} \ {None}
<1>1. form \in {"text", "number"} /\ Kind(s) = "text" /\ v \subseteq Nat
  BY DEF FormIn, Styles, Kind, DayLists, Switches, Numbers, Flags, Days
<1>2. raw = [form |-> "list", val |-> members] /\ Sent(s, v) = [form |-> "list", val |-> texts]
  <2>1. \A f : Spelled(f, s, v) = [form |-> "list", val |-> {Spell(f, d) : d \in v}]
    BY SettingsAre DEF Spelled
  <2>. QED
    BY <1>1, <2>1 DEF Sent
<1>3. members \subseteq Values /\ texts \subseteq Values
  BY <1>1, SpellIs
<1>4. raw \in Wire /\ Sent(s, v) \in Wire
  BY <1>2, <1>3 DEF Wire
<1>5. ASSUME NEW d \in v
      PROVE  ToKind("text", Spell(form, d)) = Spell("text", d) /\ Spell("text", d) # None
  <2>2. d \in Nat /\ Spell(form, d) = [form |-> form, val |-> d] /\ Spell(form, d) # None
        /\ Spell("text", d) = [form |-> "text", val |-> d] /\ Spell("text", d) # None
    BY <1>1, SpellIs
  <2>3. ToKind("text", Spell(form, d)) = [form |-> "text", val |-> d]
    BY <1>1, <2>2 DEF ToKind
  <2>. QED
    BY <2>2, <2>3
<1>6. kept = texts
  BY <1>5
<1>7. raw # None
  BY <1>4, PayloadAssumption
<1>8. ToList(raw) = [form |-> "list", val |-> kept]
  <2>1. raw.val = members
    BY <1>2
  <2>. HIDE DEF raw, members, texts
  <2>. QED
    BY <1>7, <2>1 DEF ToList
<1>. HIDE DEF raw, texts, kept
<1>9. /\ ToList(raw) = Sent(s, v) /\ Sent(s, v).form = "list" /\ Sent(s, v).val = texts
  BY <1>2, <1>6, <1>8
<1>. QED
  BY <1>4, <1>7, <1>9 DEF raw, texts

LEMMA MeaningIs ==
  ASSUME NEW raw
  PROVE  /\ Meaning("mode", raw) = ModeOf(raw)
         /\ \A s \in Switches : /\ raw.form = "flag" => Meaning(s, raw) = raw.val
                                /\ raw.form # "flag" => Meaning(s, raw) = (raw.val = 1)
         /\ \A s \in DayLists : Meaning(s, raw) = {d.val : d \in raw.val}
         /\ \A s : s # "mode" /\ s \notin Switches /\ s \notin DayLists => Meaning(s, raw) = raw.val
<1>1. Meaning("mode", raw) = ModeOf(raw)
  BY DEF Meaning, Switches, DayLists
<1>2. ASSUME NEW s \in Switches
      PROVE  Meaning(s, raw) = IF raw.form = "flag" THEN raw.val ELSE raw.val = 1
  BY <1>2, Zenon, SettingsAre DEF Meaning, Switches
<1>3. ASSUME NEW s \in DayLists
      PROVE  Meaning(s, raw) = {d.val : d \in raw.val}
  BY <1>3, SettingsAre DEF Meaning
<1>4. ASSUME NEW s, s # "mode", s \notin Switches, s \notin DayLists
      PROVE  Meaning(s, raw) = raw.val
  BY <1>4 DEF Meaning
<1>. QED
  BY <1>1, <1>2, <1>3, <1>4

\* What a value is taken for is the value; and it is in the form that is taken.
LEMMA SentIs ==
  ASSUME NEW s \in Settings, NEW v \in Sort[s]
  PROVE  /\ Sent(s, v) \in Wire /\ Sent(s, v) # None
         /\ Meaning(s, Sent(s, v)) = v
         /\ s \in DayLists => \A d \in Sent(s, v).val : d.form = "text"
         /\ s \in Scalars => Sent(s, v).form = Kind(s)
         /\ s = "calendar" => Sent(s, v) = [form |-> "list", val |-> v]
         /\ s \in DayLists /\ v # {} => Sent(s, v).val # {}
<1>1. "text" \in Styles
  BY DEF Styles
<1>2. CASE s \in DayLists
  <2>1. v \in SUBSET Days /\ s \notin Scalars /\ s # "calendar" /\ s # "mode" /\ s \notin Switches
    BY <1>2, SettingsAre, SortsAre DEF ListSettings
  <2>2. Sent(s, v) \in Wire /\ Sent(s, v).val = {Spell("text", d) : d \in v}
    BY <1>1, <1>2, <2>1, DaysRead
  <2>3. \A d \in v : Spell("text", d) = [form |-> "text", val |-> d]
    BY <2>1, SpellIs DEF Days
  <2>4. Meaning(s, Sent(s, v)) = {d.val : d \in Sent(s, v).val}
    BY <1>2, MeaningIs
  <2>5. {d.val : d \in {Spell("text", d) : d \in v}} = v
    BY <2>3
  <2>. QED
    BY <1>2, <2>1, <2>2, <2>3, <2>4, <2>5, PayloadAssumption
<1>3. CASE s = "calendar"
  <2>1. Sent(s, v) = [form |-> "list", val |-> v] /\ v \in SUBSET Lists
    BY <1>3, SortsAre DEF Sent, Spelled, DayLists
  <2>2. Sent(s, v) \in Wire
    BY <2>1 DEF Wire
  <2>3. Meaning(s, Sent(s, v)) = v
    BY <1>3, <2>1 DEF Meaning, Switches, DayLists
  <2>4. s \notin DayLists /\ s \notin Scalars
    BY <1>3, SettingsAre DEF ListSettings
  <2>. QED
    BY <2>1, <2>2, <2>3, <2>4, PayloadAssumption
<1>4. CASE s \in Scalars
  <2> DEFINE n == Code(s, v)
  <2>1. s \notin DayLists /\ s # "calendar" /\ Sent(s, v) \in Values
    BY <1>1, <1>4, SettingsAre, ScalarRead DEF ListSettings
  <2>2. Sent(s, v) = Spell(Kind(s), n) /\ n \in Nat /\ Kind(s) \in {"text", "number", "flag"}
        /\ (Kind(s) = "flag" => s \in Switches)
    BY <1>1, <1>4, <2>1, CodeIs, KindIs DEF Sent, Spelled
  <2>3. Sent(s, v) \in Wire /\ Sent(s, v) # None
    BY <2>1, PayloadAssumption DEF Wire
  <2>4. Sent(s, v).form = Kind(s)
    BY <2>2, SpellIs
  <2>5. Meaning(s, Sent(s, v)) = v
    <3>1. CASE s = "mode"
      <4>1. Sent(s, v) = [form |-> "text", val |-> WorkMode[v]] /\ v \in Modes
        BY <2>2, <3>1, SortsAre, SpellIs DEF Code, Kind, Numbers, Flags
      <4>2. ModeOf(Sent(s, v)) = v
        BY <2>3, <4>1, Codes DEF ModeOf
      <4>. QED
        BY <3>1, <4>2, MeaningIs
    <3>2. CASE s \in Switches
      <4>1. v \in BOOLEAN /\ (n = 1 <=> v = TRUE) /\ s # "mode"
        BY <1>4, <3>2, CodeIs DEF Switches
      <4>2. CASE Kind(s) = "flag"
        <5>1. Sent(s, v) = [form |-> "flag", val |-> n = 1]
          BY <2>2, <4>2, SpellIs
        <5>2. Meaning(s, Sent(s, v)) = (n = 1)
          BY <3>2, <4>1, <5>1, MeaningIs
        <5>. QED
          BY <4>1, <5>2
      <4>3. CASE Kind(s) # "flag"
        <5>1. Sent(s, v).form # "flag" /\ Sent(s, v).val = n
          BY <2>2, <4>3, SpellIs
        <5>2. Meaning(s, Sent(s, v)) = (n = 1)
          BY <3>2, <4>1, <5>1, MeaningIs
        <5>. QED
          BY <4>1, <5>2
      <4>. QED
        BY <4>2, <4>3
    <3>3. CASE s # "mode" /\ s \notin Switches
      <4>1. Sent(s, v).val = v
        BY <2>2, <3>3, SpellIs DEF Code
      <4>. QED
        BY <2>1, <3>3, <4>1, MeaningIs
    <3>. QED
      BY <3>1, <3>2, <3>3
  <2>. QED
    BY <2>1, <2>3, <2>4, <2>5
<1>. QED
  BY <1>2, <1>3, <1>4, SettingsAre DEF ListSettings

\* What is read of a device, whatever the form it answers in.
NoMembers == [form |-> "list", val |-> {}]

Reading(config, silent) ==
  [s \in Settings |->
     IF s \notin silent THEN Sent(s, config[s])
     ELSE IF s \in ListSettings THEN NoMembers ELSE None]

Readings == {Reading(config, silent) : config \in Config, silent \in SUBSET Settings}

\* The validators of base.py undo every way a device may spell its settings.
THEOREM FormForgotten ==
  ASSUME NEW config \in Config, NEW silent, NEW style \in Styles
  PROVE  Parsed(Answer(config, silent, style)) = Reading(config, silent)
<1> DEFINE answer == Answer(config, silent, style)
           read(s) == CASE s \in DayLists -> ToList(answer[s])
                        [] s = "calendar" -> IF answer[s] = None THEN NoMembers ELSE answer[s]
                        [] OTHER -> ToKind(Kind(s), answer[s])
<1>1. Parsed(answer) = [s \in Settings |-> read(s)]
  BY DEF Parsed, NoMembers
<1>2. ASSUME NEW s \in Settings, s \notin silent
      PROVE  read(s) = Sent(s, config[s])
  <2>1. answer[s] = Spelled(FormIn(style, s), s, config[s]) /\ config[s] \in Sort[s]
    BY <1>2, ConfigSorts DEF Answer
  <2>. HIDE DEF answer
  <2>2. CASE s \in DayLists
    <3>1. config[s] \in SUBSET Days /\ s # "calendar"
      BY <2>1, <2>2, SortsAre, SettingsAre
    <3>2. ToList(answer[s]) = Sent(s, config[s])
      BY <2>1, <2>2, <3>1, DaysRead
    <3>. QED
      BY <2>2, <3>1, <3>2
  <2>3. CASE s = "calendar"
    <3>1. answer[s] = Sent(s, config[s])
      BY <2>1, <2>3 DEF Spelled, Sent, DayLists
    <3>2. answer[s] # None /\ s \notin DayLists
      BY <2>1, <2>3, <3>1, SentIs DEF DayLists
    <3>. QED
      BY <2>3, <3>1, <3>2
  <2>4. CASE s \in Scalars
    <3>1. s \notin DayLists /\ s # "calendar"
      BY <2>4, SettingsAre DEF ListSettings
    <3>. QED
      BY <2>1, <2>4, <3>1, ScalarRead
  <2>. QED
    BY <2>2, <2>3, <2>4, SettingsAre DEF ListSettings
<1>3. ASSUME NEW s \in Settings, s \in silent
      PROVE  read(s) = IF s \in ListSettings THEN NoMembers ELSE None
  <2>1. answer[s] = None
    BY <1>3 DEF Answer
  <2>. HIDE DEF answer
  <2>2. CASE s \in DayLists
    BY <2>1, <2>2 DEF ToList, NoMembers, ListSettings
  <2>3. CASE s = "calendar"
    BY <2>1, <2>3 DEF DayLists, ListSettings
  <2>4. CASE s \notin ListSettings
    BY <2>1, <2>4 DEF ToKind, ListSettings
  <2>. QED
    BY <2>2, <2>3, <2>4 DEF ListSettings
<1>. HIDE DEF read
<1>. QED
  BY <1>1, <1>2, <1>3 DEF Reading

\* What is read of each setting.
LEMMA ReadingIs ==
  ASSUME NEW config \in Config, NEW silent \in SUBSET Settings, NEW s \in Settings
  PROVE  /\ s \notin silent => Reading(config, silent)[s] = Sent(s, config[s])
         /\ s \in silent => Reading(config, silent)[s] = IF s \in ListSettings THEN NoMembers ELSE None
         /\ Reading(config, silent)[s] \in Wire \cup {None}
         /\ Reading(config, silent)[s] = None => s \in silent /\ s \notin ListSettings
<1>1. NoMembers \in Wire /\ NoMembers # None
  <2>1. NoMembers \in Wire
    BY DEF NoMembers, Wire
  <2>. QED
    BY <2>1, PayloadAssumption
<1>. QED
  BY <1>1, ConfigSorts, SentIs DEF Reading

\* None is not taken for anything read.
LEMMA ReadingsTyped ==
  ASSUME NEW reading \in Readings
  PROVE  reading # None /\ reading \in [Settings -> Wire \cup {None}] /\ DOMAIN reading = Settings
<1>1. PICK config \in Config, silent \in SUBSET Settings : reading = Reading(config, silent)
  BY DEF Readings
<1>2. reading \in [Settings -> Wire \cup {None}]
  BY <1>1, ReadingIs DEF Reading
<1>. QED
  BY <1>2, PayloadAssumption


-----------------------------------------------------------------------------
(* What is sent.                                                           *)

\* What a setting of a request is taken for.
Says(r, s) == Meaning(s, r.body[s])

\* A request is complete, but for ev, and in the forms and of the values it declares.
WellFormed(r) ==
  /\ r = [onlySave |-> r.onlySave, body |-> r.body]
  /\ r.body = [s \in DOMAIN r.body |-> r.body[s]]
  /\ DOMAIN r.body \subseteq Settings /\ Settings \ {"ev"} \subseteq DOMAIN r.body
  /\ \A s \in DOMAIN r.body : Says(r, s) \in Sort[s] /\ r.body[s] = Sent(s, Says(r, s))

\* Of what the device reports it changes only these settings (a list without days
\* cannot be told from one that is not reported), and ev is left out where that leaves
\* it as it is.
Faithful(r, config, silent, changed) ==
  /\ \A s \in DOMAIN r.body \ (silent \cup changed \cup {"mode"}) :
       (s \in DayLists => config[s] # {}) => Says(r, s) = config[s]
  /\ "ev" \notin DOMAIN r.body \cup silent /\ "mode" \notin silent =>
       (IF r.onlySave THEN config["mode"] ELSE Says(r, "mode")) # "time_of_use"

LEMMA CarriedIs ==
  ASSUME NEW config \in Config, NEW silent \in SUBSET Settings, NEW s \in Settings
  PROVE  \E v \in Sort[s] :
           /\ Carried(Reading(config, silent), s) = Sent(s, v)
           /\ s \notin silent /\ (s \in DayLists => config[s] # {}) => v = config[s]
<1> DEFINE reading == Reading(config, silent)
<1>1. config[s] \in Sort[s] /\ Default[s] \in Sort[s]
  BY ConfigSorts, DefaultSorts
<1>2. /\ s \notin silent => reading[s] = Sent(s, config[s])
      /\ s \in silent => reading[s] = IF s \in ListSettings THEN NoMembers ELSE None
  BY ReadingIs
<1>. HIDE DEF reading
<1>3. CASE ~ Said(reading, s)
  <2>1. Carried(reading, s) = Sent(s, Default[s])
    BY <1>3 DEF Carried
  <2>2. ASSUME s \notin silent, s \in DayLists => config[s] # {} PROVE FALSE
    <3>1. reading[s] = Sent(s, config[s]) /\ reading[s] # None
      BY <1>1, <1>2, <2>2, SentIs
    <3>2. s \in DayLists => reading[s].val # {}
      BY <1>1, <2>2, <3>1, SentIs
    <3>. QED
      BY <1>3, <3>1, <3>2 DEF Said
  <2>. QED
    BY <1>1, <2>1, <2>2 DEF reading
<1>4. CASE Said(reading, s) /\ s \notin silent
  BY <1>1, <1>2, <1>4 DEF Carried, reading
<1>5. CASE Said(reading, s) /\ s \in silent
  <2>1. s = "calendar"
    BY <1>2, <1>5 DEF Said, ListSettings, NoMembers
  <2>2. {} \in Sort[s]
    BY <2>1, SortsAre
  <2>3. Carried(reading, s) = NoMembers /\ NoMembers = Sent(s, {})
    BY <1>2, <1>5, <2>1, <2>2, SentIs DEF Carried, ListSettings, NoMembers
  <2>. QED
    BY <1>5, <2>2, <2>3 DEF reading
<1>. QED
  BY <1>3, <1>4, <1>5

LEMMA RequestSent ==
  ASSUME NEW config \in Config, NEW silent \in SUBSET Settings,
         NEW mode \in Modes \cup {None}, NEW onlySave \in BOOLEAN, mode = None <=> onlySave
  PROVE  LET r == Request(Reading(config, silent), mode, onlySave) IN
         /\ WellFormed(r)
         /\ r.onlySave = onlySave
         /\ mode # None => Says(r, "mode") = mode
         /\ Faithful(r, config, silent, {})
<1> DEFINE reading == Reading(config, silent)
           r == Request(reading, mode, onlySave)
           target == IF mode # None THEN mode ELSE ModeOf(reading.mode)
           sent == (Settings \ {"ev"}) \cup (IF EvSent(reading, target) THEN {"ev"} ELSE {})
<1>1. /\ r.onlySave = onlySave
      /\ r.body = [s \in sent |-> CASE s = "mode" /\ mode # None -> Sent(s, mode)
                                    [] s = "ev" -> reading.ev
                                    [] OTHER -> Carried(reading, s)]
      /\ r = [onlySave |-> r.onlySave, body |-> r.body]
  BY DEF Request
<1>2. "mode" \in Settings \ {"ev"} /\ "ev" \in Settings \ ListSettings /\ "mode" \notin DayLists
  BY SettingsAre DEF ListSettings
<1>3. /\ sent \subseteq Settings /\ Settings \ {"ev"} \subseteq sent /\ DOMAIN r.body = sent
      /\ "mode" \in sent
  BY <1>1, <1>2
<1>4. "ev" \in sent => reading["ev"] # None
  BY <1>2 DEF EvSent
<1>5. \A s \in Settings \ silent : reading[s] = Sent(s, config[s]) /\ config[s] \in Sort[s]
  BY ReadingIs, ConfigSorts
<1>6. "ev" \in silent => reading["ev"] = None
  BY <1>2, ReadingIs
<1>7. "mode" \notin silent => ModeOf(reading["mode"]) = config["mode"]
  BY <1>2, <1>5, SentIs, MeaningIs
<1>. HIDE DEF reading, r, sent
<1>8. ASSUME NEW s \in sent
      PROVE  \E v \in Sort[s] :
               /\ r.body[s] = Sent(s, v)
               /\ s = "mode" /\ mode # None => v = mode
               /\ s \notin silent \cup {"mode"} /\ (s \in DayLists => config[s] # {}) => v = config[s]
  <2>1. CASE s = "mode" /\ mode # None
    BY <1>1, <1>3, <2>1, SortsAre
  <2>2. CASE s = "ev"
    <3>1. s \notin silent /\ s \in Settings
      BY <1>2, <1>4, <1>6, <1>8, <2>2
    <3>2. r.body[s] = reading["ev"] /\ s # "mode"
      BY <1>1, <2>2
    <3>3. r.body[s] = Sent(s, config[s]) /\ config[s] \in Sort[s]
      BY <1>5, <2>2, <3>1, <3>2
    <3>. QED
      BY <3>2, <3>3
  <2>3. CASE s # "ev" /\ ~ (s = "mode" /\ mode # None)
    <3>1. r.body[s] = Carried(reading, s) /\ s \in Settings
      BY <1>1, <1>3, <2>3
    <3>. QED
      BY <2>3, <3>1, CarriedIs DEF reading
  <2>. QED
    BY <2>1, <2>2, <2>3
<1>9. ASSUME NEW s \in sent
      PROVE  /\ Says(r, s) \in Sort[s] /\ r.body[s] = Sent(s, Says(r, s))
             /\ s = "mode" /\ mode # None => Says(r, s) = mode
             /\ s \notin silent \cup {"mode"} /\ (s \in DayLists => config[s] # {})
                  => Says(r, s) = config[s]
  <2>1. PICK v \in Sort[s] :
          /\ r.body[s] = Sent(s, v)
          /\ s = "mode" /\ mode # None => v = mode
          /\ s \notin silent \cup {"mode"} /\ (s \in DayLists => config[s] # {}) => v = config[s]
    BY <1>8
  <2>2. Says(r, s) = v
    BY <1>3, <2>1, SentIs DEF Says
  <2>. QED
    BY <2>1, <2>2
<1>10. WellFormed(r)
  BY <1>1, <1>3, <1>9 DEF WellFormed
<1>11. mode # None => Says(r, "mode") = mode
  BY <1>3, <1>9
<1>12. Faithful(r, config, silent, {})
  <2>1. ASSUME "ev" \notin sent, "ev" \notin silent, "mode" \notin silent
        PROVE  (IF r.onlySave THEN config["mode"] ELSE Says(r, "mode")) # "time_of_use"
    <3>1. reading["ev"] # None
      BY <1>2, <1>5, <2>1, SentIs
    <3>2. target # "time_of_use"
      BY <2>1, <3>1 DEF sent, EvSent
    <3>3. target = IF mode # None THEN mode ELSE config["mode"]
      BY <1>7, <2>1
    <3>. QED
      BY <1>1, <1>11, <3>2, <3>3
  <2>. QED
    BY <1>3, <1>9, <2>1 DEF Faithful
<1>. QED
  BY <1>1, <1>10, <1>11, <1>12 DEF r, reading

LEMMA Changed ==
  ASSUME NEW r, WellFormed(r), NEW s0 \in Settings \ {"ev", "mode"}, NEW val \in Sort[s0]
  PROVE  LET q == WithChange(r, s0, val) IN
         /\ WellFormed(q) /\ q.onlySave = r.onlySave /\ DOMAIN q.body = DOMAIN r.body
         /\ s0 \in DOMAIN q.body /\ Says(q, s0) = val
         /\ \A s \in DOMAIN r.body \ {s0} : Says(q, s) = Says(r, s)
         /\ \A config, silent, changed :
              Faithful(r, config, silent, changed) => Faithful(q, config, silent, changed \cup {s0})
<1> DEFINE q == WithChange(r, s0, val)
<1>1. /\ q.onlySave = r.onlySave
      /\ q.body = [r.body EXCEPT ![s0] = Sent(s0, val)]
      /\ q = [onlySave |-> q.onlySave, body |-> q.body]
  BY DEF WellFormed, WithChange
<1>2. s0 \in DOMAIN r.body /\ s0 # "mode" /\ s0 # "ev"
  BY DEF WellFormed
<1>3. DOMAIN q.body = DOMAIN r.body /\ q.body = [s \in DOMAIN q.body |-> q.body[s]]
  BY <1>1
<1>4. q.body[s0] = Sent(s0, val)
  BY <1>1, <1>2
<1>5. \A s \in DOMAIN r.body \ {s0} : q.body[s] = r.body[s]
  BY <1>1, <1>3
<1> HIDE DEF q
<1>6. Says(q, s0) = val /\ \A s \in DOMAIN r.body \ {s0} : Says(q, s) = Says(r, s)
  BY <1>4, <1>5, SentIs DEF Says
<1>7. WellFormed(q)
  BY <1>1, <1>3, <1>4, <1>5, <1>6 DEF WellFormed
<1>8. ASSUME NEW config, NEW silent, NEW changed, Faithful(r, config, silent, changed)
      PROVE  Faithful(q, config, silent, changed \cup {s0})
  <2>1. "mode" \in DOMAIN r.body
    BY SettingsAre DEF WellFormed
  <2>2. Says(q, "mode") = Says(r, "mode")
    BY <1>2, <1>6, <2>1
  <2>. QED
    BY <1>1, <1>3, <1>6, <1>8, <2>2 DEF Faithful
<1>. QED
  BY <1>1, <1>2, <1>3, <1>6, <1>7, <1>8 DEF q

\* A request the device takes leaves it with a configuration again.
LEMMA Taken ==
  ASSUME NEW config \in Config, NEW r, WellFormed(r), r.onlySave \in BOOLEAN
  PROVE  LET after == Applied(config, r) IN
         /\ after \in Config
         /\ \A s \in DOMAIN r.body \ {"mode"} : after[s] = Says(r, s)
         /\ after["mode"] = IF r.onlySave THEN config["mode"] ELSE Says(r, "mode")
         /\ \A silent, changed : Faithful(r, config, silent, changed) =>
              \A s \in Settings \ (silent \cup changed \cup {"mode"}) :
                (s \in DayLists => config[s] # {}) /\ (s = "ev" => "mode" \notin silent) =>
                  after[s] = config[s]
<1> DEFINE after == Applied(config, r)
           mode == IF r.onlySave THEN config["mode"] ELSE Says(r, "mode")
<1>1. "mode" \in DOMAIN r.body /\ "mode" \in Settings /\ "ev" \in Settings /\ "mode" # "ev"
  BY SettingsAre DEF WellFormed
<1>2. after = [s \in Settings |->
                 CASE s = "mode" -> mode
                   [] s # "mode" /\ s \in DOMAIN r.body -> Says(r, s)
                   [] s = "ev" /\ s \notin DOMAIN r.body /\ mode # "time_of_use" -> config.ev
                   [] OTHER -> Default[s]]
  BY DEF Applied, Says
<1> HIDE DEF after, mode
<1>3. after["mode"] = mode
  BY <1>1, <1>2
<1>4. ASSUME NEW s \in DOMAIN r.body \ {"mode"} PROVE after[s] = Says(r, s)
  BY <1>2, <1>4 DEF WellFormed
<1>5. ASSUME "ev" \notin DOMAIN r.body
      PROVE  after["ev"] = IF mode # "time_of_use" THEN config["ev"] ELSE Default["ev"]
  BY <1>1, <1>2, <1>5
<1>6. after \in Config
  <2>1. mode \in Sort["mode"]
    BY <1>1, ConfigSorts DEF mode, WellFormed
  <2>2. \A s \in DOMAIN r.body \ {"mode"} : after[s] \in Sort[s]
    BY <1>4 DEF WellFormed
  <2>3. "ev" \notin DOMAIN r.body => after["ev"] \in Sort["ev"]
    BY <1>1, <1>5, ConfigSorts, DefaultSorts
  <2>4. \A s \in Settings : after[s] \in Sort[s]
    BY <1>3, <2>1, <2>2, <2>3 DEF WellFormed
  <2>. QED
    BY <1>2, <2>4, ConfigSorts
<1>7. ASSUME NEW silent, NEW changed, Faithful(r, config, silent, changed),
             NEW s \in Settings \ (silent \cup changed \cup {"mode"}),
             s \in DayLists => config[s] # {}, s = "ev" => "mode" \notin silent
      PROVE  after[s] = config[s]
  <2>1. CASE s \in DOMAIN r.body
    BY <1>4, <1>7, <2>1 DEF Faithful
  <2>2. CASE s \notin DOMAIN r.body
    <3>1. s = "ev"
      BY <2>2 DEF WellFormed
    <3>2. mode # "time_of_use"
      BY <1>7, <2>2, <3>1 DEF Faithful, mode
    <3>. QED
      BY <1>5, <2>2, <3>1, <3>2
  <2>. QED
    BY <2>1, <2>2
<1>. QED
  BY <1>3, <1>4, <1>6, <1>7 DEF after, mode

\* The mode a call switches to at a stage, and the setting it was asked to change.
Target(c, stage) ==
  IF stage = "write" /\ c.kind = "mode" THEN c.mode
  ELSE IF stage = "write" /\ c.kind = "schedule" /\ c.apply THEN "time_of_use" ELSE None

Touched(c, stage) ==
  CASE stage = "reserve" -> {Floor(c.mode)}
    [] stage # "reserve" /\ c.kind = "mode" -> {}
    [] stage # "reserve" /\ c.kind = "number" -> {c.field}
    [] stage # "reserve" /\ c.kind = "switch" -> {"grid"}
    [] stage # "reserve" /\ c.kind = "schedule" -> {"calendar"}

Staged(c, stage) ==
  stage \in {"reserve", "write"} /\ (stage = "reserve" => c.kind = "mode" /\ c.soc # None)

LEMMA CallKinds ==
  ASSUME NEW c \in Calls
  PROVE  /\ c.kind \in {"number", "switch", "mode", "schedule"}
         /\ c.kind = "number" => c.field \in Reserves /\ c.soc \in Socs
         /\ c.kind = "switch" => c.allowed \in BOOLEAN
         /\ c.kind = "mode" => c.mode \in Modes /\ c.soc \in Socs \cup {None}
         /\ c.kind = "schedule" =>
              /\ c.fill \in SUBSET (Lists \ Daylight) /\ c.clear \in SUBSET (Lists \ Daylight)
              /\ c.apply \in BOOLEAN
BY DEF Calls

\* What c sends is what it was asked to, and the rest as the device has it, a calendar
\* that is edited included but for the lists that cannot be given.
Sends(c, stage, config, silent, r) ==
  /\ WellFormed(r)
  /\ r.onlySave \in BOOLEAN /\ (r.onlySave <=> Target(c, stage) = None)
  /\ Target(c, stage) # None => Says(r, "mode") = Target(c, stage)
  /\ Faithful(r, config, silent, Touched(c, stage))
  /\ stage = "reserve" => Says(r, Floor(c.mode)) = c.soc
  /\ c.kind = "number" => Says(r, c.field) = c.soc
  /\ c.kind = "switch" => Says(r, "grid") = c.allowed
  /\ c.kind = "schedule" /\ "calendar" \notin silent =>
       Says(r, "calendar") \cap Daylight = config["calendar"] \cap Daylight

LEMMA PayloadSent ==
  ASSUME NEW c \in Calls, NEW stage, Staged(c, stage),
         NEW config \in Config, NEW silent \in SUBSET Settings
  PROVE  Sends(c, stage, config, silent, Payload(c, stage, Reading(config, silent)))
<1> DEFINE reading == Reading(config, silent)
           r == Payload(c, stage, reading)
           saving == Request(reading, None, TRUE)
<1> SUFFICES Sends(c, stage, config, silent, r)
  OBVIOUS
<1>1. WellFormed(saving) /\ saving.onlySave = TRUE /\ Faithful(saving, config, silent, {})
  BY RequestSent
<1>2. ASSUME NEW mode \in Modes
      PROVE  LET q == Request(reading, mode, FALSE) IN
             /\ WellFormed(q) /\ q.onlySave = FALSE /\ Says(q, "mode") = mode
             /\ Faithful(q, config, silent, {})
  <2>1. mode \in Modes \cup {None} /\ mode # None /\ FALSE \in BOOLEAN /\ (mode = None <=> FALSE)
    BY <1>2, PayloadAssumption
  <2> HIDE DEF reading
  <2>. QED
    BY <2>1, RequestSent DEF reading
<1>3. Reserves \subseteq Settings \ {"ev", "mode"} /\ {"grid", "calendar"} \subseteq Settings \ {"ev", "mode"}
  BY DEF Reserves, Settings, Texts
<1>4. /\ \A s \in Reserves : Socs \subseteq Sort[s]
      /\ BOOLEAN = Sort["grid"] /\ SUBSET Lists = Sort["calendar"]
  BY DEF Reserves, Sort, Levels
<1>5. ASSUME NEW s \in Settings \ {"ev", "mode"}, NEW val \in Sort[s],
             r = WithChange(saving, s, val)
      PROVE  /\ WellFormed(r) /\ r.onlySave = TRUE /\ Says(r, s) = val
             /\ Faithful(r, config, silent, {s})
  <2>. HIDE DEF saving, r
  <2>. QED
    BY <1>1, <1>5, Changed
<1>6. \/ stage = "reserve" /\ c.kind = "mode"
      \/ stage = "write" /\ c.kind \in {"mode", "number", "switch", "schedule"}
  BY CallKinds DEF Staged
<1>7. "calendar" \notin silent => reading.calendar.val = config["calendar"]
  BY <1>3, <1>4, ReadingIs, ConfigSorts, SentIs
<1>8. reading.calendar.val \subseteq Lists
  <2>1. reading.calendar = reading["calendar"] /\ "calendar" \in Settings
    BY <1>3
  <2>2. CASE "calendar" \in silent
    BY <2>1, <2>2, ReadingIs DEF ListSettings, NoMembers
  <2>. QED
    BY <1>3, <1>4, <1>7, <2>2, ConfigSorts
<1> HIDE DEF saving, reading, r
<1>9. CASE stage = "reserve"
  <2>1. c.kind = "mode" /\ c.soc \in Socs /\ Floor(c.mode) \in Reserves
    BY <1>9, CallKinds DEF Staged, Floor, Reserves
  <2>2. r = WithChange(saving, Floor(c.mode), c.soc)
    BY <1>9, <2>1 DEF Payload, saving, r
  <2>3. Target(c, stage) = None /\ Touched(c, stage) = {Floor(c.mode)}
    BY <1>9 DEF Target, Touched
  <2>4. c.soc \in Sort[Floor(c.mode)] /\ Floor(c.mode) \in Settings \ {"ev", "mode"}
    BY <1>3, <1>4, <2>1
  <2>5. /\ WellFormed(r) /\ r.onlySave = TRUE /\ Says(r, Floor(c.mode)) = c.soc
        /\ Faithful(r, config, silent, {Floor(c.mode)})
    BY <1>5, <2>2, <2>4
  <2>. QED
    BY <2>1, <2>3, <2>5 DEF Sends
<1>10. CASE stage = "write" /\ c.kind = "mode"
  <2>1. r = Request(reading, c.mode, FALSE)
    BY <1>10 DEF Payload, r
  <2>2. Target(c, stage) = c.mode /\ Touched(c, stage) = {} /\ c.mode \in Modes /\ c.mode # None
    BY <1>10, CallKinds, PayloadAssumption DEF Target, Touched
  <2>. QED
    BY <1>2, <1>10, <2>1, <2>2 DEF Sends
<1>11. CASE stage = "write" /\ c.kind = "number"
  <2>1. r = WithChange(saving, c.field, c.soc)
    BY <1>11 DEF Payload, saving, r
  <2>2. Target(c, stage) = None /\ Touched(c, stage) = {c.field}
    BY <1>11 DEF Target, Touched
  <2>3. c.soc \in Sort[c.field] /\ c.field \in Settings \ {"ev", "mode"}
    BY <1>3, <1>4, <1>11, CallKinds
  <2>4. /\ WellFormed(r) /\ r.onlySave = TRUE /\ Says(r, c.field) = c.soc
        /\ Faithful(r, config, silent, {c.field})
    BY <1>5, <2>1, <2>3
  <2>. QED
    BY <1>11, <2>2, <2>4 DEF Sends
<1>12. CASE stage = "write" /\ c.kind = "switch"
  <2>1. r = WithChange(saving, "grid", c.allowed)
    BY <1>12 DEF Payload, saving, r
  <2>2. Target(c, stage) = None /\ Touched(c, stage) = {"grid"}
    BY <1>12 DEF Target, Touched
  <2>3. c.allowed \in Sort["grid"] /\ "grid" \in Settings \ {"ev", "mode"}
    BY <1>3, <1>4, <1>12, CallKinds
  <2>4. /\ WellFormed(r) /\ r.onlySave = TRUE /\ Says(r, "grid") = c.allowed
        /\ Faithful(r, config, silent, {"grid"})
    BY <1>5, <2>1, <2>3
  <2>. QED
    BY <1>12, <2>2, <2>4 DEF Sends
<1>13. CASE stage = "write" /\ c.kind = "schedule"
  <2> DEFINE lists == (reading.calendar.val \ c.clear) \cup c.fill
             mode == IF c.apply THEN "time_of_use" ELSE None
             q == Request(reading, mode, ~ c.apply)
  <2>1. r = WithChange(q, "calendar", lists)
    BY <1>13 DEF Payload, Scheduled, r
  <2>2. Target(c, stage) = mode /\ Touched(c, stage) = {"calendar"}
    BY <1>13 DEF Target, Touched
  <2>3. lists \in Sort["calendar"]
    BY <1>4, <1>8, <1>13, CallKinds
  <2>4. "calendar" \notin silent => lists \cap Daylight = config["calendar"] \cap Daylight
    BY <1>7, <1>13, CallKinds
  <2>5. "time_of_use" \in Modes /\ "time_of_use" # None
    BY PayloadAssumption DEF Modes, WorkMode
  <2>6. /\ WellFormed(q) /\ q.onlySave = (~ c.apply)
        /\ (mode # None => Says(q, "mode") = mode) /\ Faithful(q, config, silent, {})
    <3>1. CASE c.apply
      <4>1. mode = "time_of_use" /\ (~ c.apply) = FALSE
        BY <3>1
      <4>. QED
        BY <1>2, <2>5, <4>1
    <3>2. CASE ~ c.apply
      <4>1. mode = None /\ (~ c.apply) = TRUE
        BY <3>2
      <4>2. q = saving
        BY <4>1 DEF saving
      <4>. QED
        BY <1>1, <4>1, <4>2
    <3>. QED
      BY <1>13, <3>1, <3>2, CallKinds
  <2>7. "mode" \in DOMAIN q.body
    BY <2>6, SettingsAre DEF WellFormed
  <2> HIDE DEF q, lists
  <2>8. /\ WellFormed(r) /\ r.onlySave = q.onlySave
        /\ Says(r, "mode") = Says(q, "mode") /\ Says(r, "calendar") = lists
        /\ Faithful(r, config, silent, {"calendar"})
    BY <1>3, <2>1, <2>3, <2>6, <2>7, Changed
  <2>. QED
    BY <1>13, <2>2, <2>4, <2>5, <2>6, <2>8, CallKinds DEF Sends
<1>. QED
  BY <1>6, <1>9, <1>10, <1>11, <1>12, <1>13

-----------------------------------------------------------------------------
(* The invariant.                                                          *)

Busy(t) == pc[t] \notin {"idle", "read"}

\* A call that has read holds the lock, and what it is about to send, or to show, is
\* what the device holds.
InHand(t) ==
  /\ pc[t] # "idle" => call[t] \in Calls
  /\ Busy(t) => HoldsLock(t) /\ conf[t] \in Readings
  /\ ~ Busy(t) => conf[t] = None
  /\ pc[t] \in {"reserve", "reread"} => call[t].kind = "mode" /\ call[t].soc # None
  /\ pc[t] \in {"reserve", "write", "publish"} => conf[t] = Reading(device, mute)

Typed ==
  /\ device \in Config /\ mute \in Mutes
  /\ shown \in Readings \cup {None} /\ success \in BOOLEAN
  /\ polled # None => polled.held \in Config /\ polled.mode = Reading(polled.held, mute)
  /\ queue \in Seq(Tasks)
  /\ pc \in [Tasks -> Stages]
  /\ call \in [Tasks -> Calls \cup {None}]
  /\ conf \in [Tasks -> Readings \cup {None}]
  /\ result \in [Tasks -> Results]
  /\ calls \in Nat

IInv == Typed /\ \A t \in Tasks : InHand(t)

LEMMA Mute == mute \in Mutes => mute \in SUBSET Settings
BY ConfigAssumption

\* What is read of the device.
LEMMA Heard ==
  ASSUME IInv, NEW style \in Styles
  PROVE  /\ Parsed(Answer(device, mute, style)) = Reading(device, mute)
         /\ Reading(device, mute) \in Readings
BY FormForgotten, Mute DEF IInv, Typed, Readings

LEMMA OneBusy ==
  ASSUME IInv, NEW t \in Tasks, HoldsLock(t), NEW u \in Tasks, u # t
  PROVE  ~ Busy(u)
BY DEF IInv, InHand, HoldsLock

\* A step of the call that holds the lock leaves the others where they are.
LEMMA OthersUnmoved ==
  ASSUME IInv, NEW t \in Tasks, HoldsLock(t),
         \A u \in Tasks \ {t} : pc'[u] = pc[u] /\ call'[u] = call[u] /\ conf'[u] = conf[u],
         NEW u \in Tasks, u # t
  PROVE  InHand(u)'
BY OneBusy DEF IInv, InHand, Busy

\* The write at a stage, and what it leaves.
Landed(c, stage) ==
  /\ device' \in Config
  /\ device'["mode"] = IF Target(c, stage) = None THEN device["mode"] ELSE Target(c, stage)
  /\ \A s \in Settings \ (mute \cup Touched(c, stage) \cup {"mode"}) :
       (s \in DayLists => device[s] # {}) /\ (s = "ev" => "mode" \notin mute) => device'[s] = device[s]
  /\ stage = "reserve" => device'[Floor(c.mode)] = c.soc
  /\ c.kind = "number" => device'[c.field] = c.soc
  /\ c.kind = "schedule" /\ "calendar" \notin mute =>
       device'["calendar"] \cap Daylight = device["calendar"] \cap Daylight

LEMMA StagedCall ==
  ASSUME IInv, NEW t \in Tasks, pc[t] \in {"reserve", "write"}
  PROVE  /\ call[t] \in Calls /\ Staged(call[t], pc[t])
         /\ Sends(call[t], pc[t], device, mute, Payload(call[t], pc[t], conf[t]))
<1>1. call[t] \in Calls /\ Staged(call[t], pc[t]) /\ conf[t] = Reading(device, mute)
  BY DEF IInv, InHand, Staged
<1>2. device \in Config /\ mute \in SUBSET Settings
  BY Mute DEF IInv, Typed
<1>. QED
  BY <1>1, <1>2, PayloadSent

LEMMA Lands ==
  ASSUME IInv, NEW t \in Tasks, pc[t] \in {"reserve", "write"}, Land(t)
  PROVE  Landed(call[t], pc[t])
<1> DEFINE c == call[t]
           stage == pc[t]
           r == Payload(c, stage, conf[t])
           after == Applied(device, r)
<1>1. c \in Calls /\ Staged(c, stage) /\ Sends(c, stage, device, mute, r)
  BY StagedCall
<1>2. device \in Config
  BY DEF IInv, Typed
<1>3. device' = after \/ device' = [after EXCEPT !["grid"] = device["grid"]]
  BY DEF Land
<1> HIDE DEF c, stage, r
<1>4. WellFormed(r) /\ r.onlySave \in BOOLEAN /\ Faithful(r, device, mute, Touched(c, stage))
  BY <1>1 DEF Sends
<1>5. /\ after \in Config
      /\ \A s \in DOMAIN r.body \ {"mode"} : after[s] = Says(r, s)
      /\ after["mode"] = IF r.onlySave THEN device["mode"] ELSE Says(r, "mode")
      /\ \A s \in Settings \ (mute \cup Touched(c, stage) \cup {"mode"}) :
           (s \in DayLists => device[s] # {}) /\ (s = "ev" => "mode" \notin mute) =>
             after[s] = device[s]
  BY <1>2, <1>4, Taken
<1> HIDE DEF after
<1>6. \A s \in Settings \ {"ev"} : s \in DOMAIN r.body
  BY <1>4 DEF WellFormed
<1>7. /\ "grid" \in Settings /\ "mode" \in Settings \ {"grid"}
      /\ "calendar" \in Settings \ {"ev", "mode", "grid"}
      /\ Reserves \subseteq Settings \ {"ev", "mode", "grid"}
  BY DEF Reserves, Settings, Texts
<1>8. after["mode"] = IF Target(c, stage) = None THEN device["mode"] ELSE Target(c, stage)
  BY <1>1, <1>5 DEF Sends
<1>9. ASSUME stage = "reserve"
      PROVE  Floor(c.mode) \in Reserves /\ after[Floor(c.mode)] = c.soc
  <2>1. Floor(c.mode) \in Reserves
    BY DEF Floor, Reserves
  <2>. QED
    BY <1>1, <1>5, <1>6, <1>7, <1>9, <2>1 DEF Sends
<1>10. ASSUME c.kind = "number"
       PROVE  c.field \in Reserves /\ after[c.field] = c.soc
  <2>1. c.field \in Reserves
    BY <1>1, <1>10, CallKinds
  <2>. QED
    BY <1>1, <1>5, <1>6, <1>7, <1>10, <2>1 DEF Sends
<1>11. c.kind = "schedule" /\ "calendar" \notin mute =>
         after["calendar"] \cap Daylight = device["calendar"] \cap Daylight
  BY <1>1, <1>5, <1>6, <1>7 DEF Sends
<1>12. device' \in Config /\ \A s \in Settings \ {"grid"} : device'[s] = after[s]
  <2>1. DOMAIN after = Settings /\ device["grid"] \in Sort["grid"]
    BY <1>2, <1>5, <1>7, ConfigSorts
  <2>2. CASE device' = after
    BY <1>5, <2>2
  <2>3. CASE device' = [after EXCEPT !["grid"] = device["grid"]]
    <3>1. \A s \in Settings : device'[s] \in Sort[s]
      BY <1>5, <2>1, <2>3, ConfigSorts
    <3>2. device' = [s \in Settings |-> device'[s]]
      BY <2>1, <2>3
    <3>. QED
      BY <2>1, <2>3, <3>1, <3>2, ConfigSorts
  <2>. QED
    BY <1>3, <2>2, <2>3
<1>13. device'["grid"] \in {after["grid"], device["grid"]}
  <2>1. DOMAIN after = Settings
    BY <1>5, ConfigSorts
  <2>. QED
    BY <1>3, <1>7, <2>1
<1>14. Landed(c, stage)
  BY <1>5, <1>7, <1>8, <1>9, <1>10, <1>11, <1>12, <1>13 DEF Landed
<1>. QED
  BY <1>14 DEF c, stage

\* A call that ends.
LEMMA Returns ==
  ASSUME IInv, NEW t \in Tasks, HoldsLock(t), NEW how \in Results, Return(t, how),
         device' \in Config, UNCHANGED <<mute, polled, calls>>,
         shown' \in Readings \cup {None}, success' \in BOOLEAN
  PROVE  IInv'
<1>1. queue' \in Seq(Tasks)
  BY HeadTailProperties DEF IInv, Typed, HoldsLock, Return
<1>2. Typed'
  BY <1>1 DEF IInv, Typed, Return, Stages
<1>3. InHand(t)'
  BY DEF IInv, Typed, InHand, Busy, Return
<1>4. \A u \in Tasks \ {t} : pc'[u] = pc[u] /\ call'[u] = call[u] /\ conf'[u] = conf[u]
  BY DEF IInv, Typed, Return
<1>. QED
  BY <1>2, <1>3, <1>4, OthersUnmoved DEF IInv

\* A call that goes on with what it reads of the device.
LEMMA GoesOnReading ==
  ASSUME IInv, NEW t \in Tasks, HoldsLock(t), pc[t] # "idle",
         UNCHANGED <<device, mute, shown, polled, success, calls, queue, call, result>>,
         NEW style \in Styles, conf' = [conf EXCEPT ![t] = Parsed(Answer(device, mute, style))],
         NEW stage \in {"reserve", "write", "publish"}, pc' = [pc EXCEPT ![t] = stage],
         stage = "reserve" => call[t].kind = "mode" /\ call[t].soc # None
  PROVE  IInv'
<1>1. /\ conf' = [conf EXCEPT ![t] = Reading(device, mute)]
      /\ Reading(device, mute) \in Readings
  BY Heard
<1>2. Typed'
  BY <1>1 DEF IInv, Typed, Stages
<1>3. InHand(t)'
  <2>1. pc'[t] = stage /\ conf'[t] = Reading(device, mute) /\ call' = call
    BY <1>1 DEF IInv, Typed
  <2>2. HoldsLock(t)' /\ device' = device /\ mute' = mute
    BY DEF HoldsLock
  <2>3. call[t] \in Calls
    BY DEF IInv, InHand
  <2>. QED
    BY <1>1, <2>1, <2>2, <2>3 DEF InHand, Busy
<1>4. \A u \in Tasks \ {t} : pc'[u] = pc[u] /\ call'[u] = call[u] /\ conf'[u] = conf[u]
  BY <1>1 DEF IInv, Typed
<1>. QED
  BY <1>2, <1>3, <1>4, OthersUnmoved DEF IInv

LEMMA InitInv == Init => IInv
<1> SUFFICES ASSUME Init PROVE IInv
  OBVIOUS
<1>1. device \in Config /\ mute \in SUBSET Settings /\ "text" \in Styles
  BY ConfigAssumption DEF Init, Styles
<1>2. shown \in Readings
  BY <1>1, FormForgotten DEF Init, Readings
<1>3. Typed
  BY <1>1, <1>2 DEF Init, Typed, Stages, Results
<1>. QED
  BY <1>3 DEF IInv, InHand, Busy, Init

LEMMA EnterInv ==
  ASSUME IInv, NEW t \in Tasks, Enter(t)
  PROVE  IInv'
<1>1. PICK c \in Calls : call' = [call EXCEPT ![t] = c]
  BY DEF Enter
<1>2. Typed'
  BY <1>1, BoundAssumption DEF IInv, Typed, Enter, Stages, Results
<1>3. InHand(t)'
  BY <1>1 DEF IInv, Typed, InHand, Busy, Enter
<1>4. ASSUME NEW u \in Tasks, u # t PROVE InHand(u)'
  <2>1. pc'[u] = pc[u] /\ call'[u] = call[u] /\ conf'[u] = conf[u]
    BY <1>1, <1>4 DEF IInv, Typed, Enter
  <2>2. HoldsLock(u) => HoldsLock(u)'
    BY AppendProperties DEF IInv, Typed, HoldsLock, Enter
  <2>. QED
    BY <2>1, <2>2 DEF IInv, InHand, Busy, Enter
<1>. QED
  BY <1>2, <1>3, <1>4 DEF IInv

LEMMA ReadInv ==
  ASSUME IInv, NEW t \in Tasks, Read(t)
  PROVE  IInv'
<1>1. /\ HoldsLock(t) /\ pc[t] \in {"read", "reread"}
      /\ UNCHANGED <<device, mute, shown, polled, success, calls>>
  BY DEF Read
<1>2. CASE Return(t, "failed")
  BY <1>1, <1>2, Returns DEF IInv, Typed, Results
<1>3. CASE ~ Return(t, "failed")
  <2>1. PICK style \in Styles :
          /\ conf' = [conf EXCEPT ![t] = Parsed(Answer(device, mute, style))]
          /\ pc' = [pc EXCEPT ![t] = Following(t)]
          /\ UNCHANGED <<queue, call, result>>
    BY <1>3 DEF Read
  <2>2. /\ Following(t) \in {"reserve", "write", "publish"}
        /\ Following(t) = "reserve" => call[t].kind = "mode" /\ call[t].soc # None
    BY <1>1 DEF Following
  <2>. QED
    BY <1>1, <2>1, <2>2, GoesOnReading
<1>. QED
  BY <1>2, <1>3

LEMMA WriteInv ==
  ASSUME IInv, NEW t \in Tasks, Write(t)
  PROVE  IInv'
<1>1. /\ pc[t] \in {"reserve", "write"} /\ UNCHANGED <<mute, shown, polled, success, calls>>
      /\ HoldsLock(t)
  BY DEF Write, IInv, InHand, Busy
<1>2. device' \in Config
  BY <1>1, Lands DEF Write, Landed, IInv, Typed
<1>3. CASE Return(t, "failed")
  BY <1>1, <1>2, <1>3, Returns DEF IInv, Typed, Results
<1>4. CASE pc' = [pc EXCEPT ![t] = Following(t)] /\ UNCHANGED <<queue, call, conf, result>>
  <2>1. Following(t) \in {"reread", "refresh"} /\ (Following(t) = "reread" => pc[t] = "reserve")
    BY <1>1 DEF Following
  <2>2. Typed'
    BY <1>1, <1>2, <1>4, <2>1 DEF IInv, Typed, Stages
  <2>3. InHand(t)'
    <3>1. pc'[t] = Following(t) /\ conf' = conf /\ call' = call /\ HoldsLock(t)'
      BY <1>1, <1>4 DEF IInv, Typed, HoldsLock
    <3>2. InHand(t) /\ Busy(t)
      BY <1>1 DEF IInv, Busy
    <3>. QED
      BY <1>1, <2>1, <3>1, <3>2 DEF InHand, Busy
  <2>4. \A u \in Tasks \ {t} : pc'[u] = pc[u] /\ call'[u] = call[u] /\ conf'[u] = conf[u]
    BY <1>4 DEF IInv, Typed
  <2>. QED
    BY <1>1, <2>2, <2>3, <2>4, OthersUnmoved DEF IInv
<1>. QED
  BY <1>3, <1>4 DEF Write

LEMMA Verdicts == \A c, mode : Verdict(c, mode) \in Results
BY DEF Verdict, Results

\* A refresh with nothing to show.
LEMMA Blanks ==
  ASSUME IInv, Blank
  PROVE  success' \in BOOLEAN /\ shown' \in Readings \cup {None}
BY DEF Blank, IInv, Typed

LEMMA RefreshInv ==
  ASSUME IInv, NEW t \in Tasks, Refresh(t)
  PROVE  IInv'
<1>1. HoldsLock(t) /\ pc[t] = "refresh" /\ UNCHANGED <<device, mute, polled, calls>>
  BY DEF Refresh, IInv, InHand, Busy
<1>2. CASE Blank /\ Return(t, Verdict(call[t], shown'))
  BY <1>1, <1>2, Blanks, Verdicts, Returns DEF IInv, Typed
<1>3. CASE /\ \E style \in Styles :
                conf' = [conf EXCEPT ![t] = Parsed(Answer(device, mute, style))]
           /\ pc' = [pc EXCEPT ![t] = Following(t)]
           /\ UNCHANGED <<shown, success, queue, call, result>>
  <2>1. Following(t) = "publish"
    BY <1>1 DEF Following
  <2>. QED
    BY <1>1, <1>3, <2>1, GoesOnReading
<1>. QED
  BY <1>2, <1>3 DEF Refresh

LEMMA PublishInv ==
  ASSUME IInv, NEW t \in Tasks, Publish(t)
  PROVE  IInv'
<1>1. /\ HoldsLock(t) /\ conf[t] \in Readings /\ UNCHANGED <<device, mute, polled, calls>>
      /\ shown' = conf[t] /\ success' = TRUE /\ Return(t, Verdict(call[t], shown'))
  BY DEF Publish, IInv, InHand, Busy
<1>. QED
  BY <1>1, Verdicts, Returns DEF IInv, Typed

LEMMA PollInv ==
  ASSUME IInv, Poll
  PROVE  IInv'
<1>1. UNCHANGED <<device, mute, queue, pc, call, conf, result, calls>>
  BY DEF Poll
<1>2. success' \in BOOLEAN /\ shown' \in Readings \cup {None}
  BY Blanks DEF Poll, IInv, Typed
<1>3. polled' # None => polled'.held \in Config /\ polled'.mode = Reading(polled'.held, mute')
  <2>1. CASE polled' = polled
    BY <2>1 DEF Poll
  <2>2. CASE \E style \in Styles :
               polled' = [mode |-> Parsed(Answer(device, mute, style)), held |-> device]
    BY <1>1, <2>2, Heard DEF IInv, Typed
  <2>. QED
    BY <2>1, <2>2 DEF Poll
<1>. QED
  BY <1>1, <1>2, <1>3 DEF IInv, Typed, InHand, Busy, HoldsLock

LEMMA PollEndsInv ==
  ASSUME IInv, PollEnds
  PROVE  IInv'
<1>1. /\ UNCHANGED <<device, mute, queue, pc, call, conf, result, calls>>
      /\ success' = TRUE /\ shown' = polled.mode /\ polled' = None
  BY DEF PollEnds
<1>2. shown' \in Readings
  BY <1>1, Mute DEF PollEnds, IInv, Typed, Readings
<1>. QED
  BY <1>1, <1>2 DEF IInv, Typed, InHand, Busy, HoldsLock

LEMMA NextInv == IInv /\ [Next]_vars => IInv'
<1> SUFFICES ASSUME IInv, [Next]_vars PROVE IInv'
  OBVIOUS
<1>1. CASE Next
  BY <1>1, EnterInv, ReadInv, WriteInv, RefreshInv, PublishInv, PollInv, PollEndsInv DEF Next
<1>2. CASE UNCHANGED vars
  BY <1>2 DEF vars, IInv, Typed, InHand, Busy, HoldsLock
<1>. QED
  BY <1>1, <1>2

LEMMA Inductive == Spec => []IInv
BY InitInv, NextInv, PTL DEF Spec

-----------------------------------------------------------------------------
(* The properties.                                                         *)

\* Types, and that a call holds a configuration exactly when it has read one.
THEOREM TypeCorrect == Spec => []TypeOK
<1>1. ASSUME IInv PROVE TypeOK
  <2>1. shown # None => DOMAIN shown = Settings
    BY <1>1, ReadingsTyped DEF IInv, Typed
  <2>2. polled # None => DOMAIN polled.mode = Settings
    BY <1>1, Mute, ReadingsTyped DEF IInv, Typed, Readings
  <2>3. \A t \in Tasks : conf[t] # None <=> pc[t] \notin {"idle", "read"}
    BY <1>1, ReadingsTyped DEF IInv, InHand, Busy
  <2>. QED
    BY <1>1, <2>1, <2>2, <2>3 DEF TypeOK, IInv, Typed
<1>. QED
  BY <1>1, Inductive, PTL

\* Whatever the device leaves out and in whatever form it answers, every request
\* about to be sent is complete and in the forms the endpoint takes.
THEOREM PayloadsAreTaken == Spec => []PayloadTaken
<1>1. ASSUME IInv PROVE PayloadTaken
  <2> SUFFICES ASSUME NEW t \in Tasks, pc[t] \in {"reserve", "write"}
               PROVE  LET payload == Payload(call[t], pc[t], conf[t]) IN
                      Accepted(payload) /\ Settings \ {"ev"} \subseteq DOMAIN payload.body
    BY DEF PayloadTaken
  <2> DEFINE payload == Payload(call[t], pc[t], conf[t])
  <2>1. Sends(call[t], pc[t], device, mute, payload)
    BY <1>1, StagedCall
  <2> HIDE DEF payload
  <2>2. Accepted(payload) /\ Settings \ {"ev"} \subseteq DOMAIN payload.body
    <3>1. WellFormed(payload)
      BY <2>1 DEF Sends
    <3>2. ASSUME NEW s \in DOMAIN payload.body
          PROVE  /\ s \in DayLists => \A d \in payload.body[s].val : d.form = "text"
                 /\ s \in Scalars => payload.body[s].form = Kind(s)
      BY <3>1, SentIs DEF WellFormed
    <3>3. DOMAIN payload.body \ {"calendar"} \subseteq Scalars \cup DayLists
      BY <3>1, SettingsAre DEF WellFormed, ListSettings
    <3>. QED
      BY <3>1, <3>2, <3>3, SettingsAre DEF WellFormed, Accepted
  <2>. QED
    BY <2>2 DEF payload
<1>. QED
  BY <1>1, Inductive, PTL
\* What a reading displays of a setting that is reported is its value.
LEMMA ReadingDisplays ==
  ASSUME NEW config \in Config, NEW silent \in SUBSET Settings,
         NEW s \in {"mode", "grid", "self_reserve", "backup_reserve"}, s \notin silent
  PROVE  Displayed(Reading(config, silent), s) = config[s]
<1> DEFINE reading == Reading(config, silent)
<1>1. s \in Settings /\ s \in Texts /\ s \notin DayLists
  BY DEF Settings, Texts, DayLists
<1>2. /\ reading[s] = Sent(s, config[s]) /\ config[s] \in Sort[s]
      /\ reading[s] # None /\ Meaning(s, reading[s]) = config[s] /\ reading[s].form = Kind(s)
  BY <1>1, ReadingIs, ConfigSorts, SentIs DEF Scalars
<1>3. Kind(s) = "text"
  BY <1>1 DEF Kind, Texts, Numbers, Flags
<1> HIDE DEF reading
<1>4. CASE s = "grid"
  <2>1. config["grid"] \in BOOLEAN /\ s \in Switches
    BY <1>2, <1>4, SortsAre DEF Switches
  <2>2. (reading["grid"].val = 1) = config["grid"]
    BY <1>2, <1>3, <1>4, <2>1, MeaningIs
  <2>3. ASSUME config["grid"] = TRUE PROVE GridChargingAllowed(reading)
    BY <1>2, <1>3, <1>4, <2>2, <2>3 DEF GridChargingAllowed
  <2>4. ASSUME config["grid"] = FALSE PROVE ~ GridChargingAllowed(reading)
    BY <1>2, <1>3, <1>4, <2>2, <2>4 DEF GridChargingAllowed
  <2>5. Displayed(reading, s) = GridChargingAllowed(reading)
    BY <1>4 DEF Displayed
  <2>6. GridChargingAllowed(reading) \in BOOLEAN
    BY DEF GridChargingAllowed
  <2>. QED
    BY <1>4, <2>1, <2>3, <2>4, <2>5, <2>6 DEF reading
<1>5. CASE s = "mode"
  <2>1. Displayed(reading, s) = ModeOf(reading["mode"])
    BY <1>5 DEF Displayed
  <2>. QED
    BY <1>2, <1>5, <2>1, MeaningIs DEF reading
<1>6. CASE s \in Reserves
  <2>1. Displayed(reading, s) = reading[s].val
    BY <1>2, <1>6 DEF Displayed, Reserves
  <2>2. s # "mode" /\ s \notin Switches
    BY <1>6 DEF Reserves, Switches
  <2>. QED
    BY <1>1, <1>2, <2>1, <2>2, MeaningIs DEF reading
<1>. QED
  BY <1>4, <1>5, <1>6 DEF Reserves

\* One task moves at a time.
LEMMA OneMoves ==
  ASSUME IInv, [Next]_vars, NEW t \in Tasks, pc'[t] # pc[t]
  PROVE  Enter(t) \/ Read(t) \/ Write(t) \/ Refresh(t) \/ Publish(t)
<1>1. pc \in [Tasks -> Stages] /\ pc' # pc
  BY DEF IInv, Typed
<1>2. ~ Poll /\ ~ PollEnds /\ ~ UNCHANGED vars
  BY <1>1 DEF Poll, PollEnds, vars
<1>3. PICK u \in Tasks : Enter(u) \/ Read(u) \/ Write(u) \/ Refresh(u) \/ Publish(u)
  BY <1>2 DEF Next
<1>4. \E stage : pc' = [pc EXCEPT ![u] = stage]
  BY <1>3 DEF Enter, Read, Write, Refresh, Publish, Return
<1>5. u = t
  BY <1>1, <1>4
<1>. QED
  BY <1>3, <1>5

\* What a call that ends shows is what the device holds.
LEMMA PublishShows ==
  ASSUME IInv, [Next]_vars, NEW t \in Tasks, pc[t] = "publish", pc'[t] = "idle"
  PROVE  Publish(t) /\ shown' = Reading(device, mute)
<1>1. Publish(t)
  BY OneMoves DEF Enter, Read, Write, Refresh
<1>. QED
  BY <1>1 DEF Publish, IInv, InHand

\* What the controls show after the refresh of a call is what the device holds, in
\* whatever form it spells it; after a scheduled refresh, what it held when that
\* refresh read it.
THEOREM ControlsShowTheDevice == Spec => ShownIsHeld
<1> DEFINE Held ==
      \A s \in {"mode", "grid", "self_reserve", "backup_reserve"} \ mute :
        /\ \A t \in Tasks :
             pc[t] = "publish" /\ pc'[t] = "idle" => Displayed(shown', s) = device[s]
        /\ polled # None /\ polled' = None => Displayed(shown', s) = polled.held[s]
<1>1. ASSUME IInv, [Next]_vars PROVE [Held]_vars
  <2> SUFFICES ASSUME NEW s \in {"mode", "grid", "self_reserve", "backup_reserve"} \ mute
               PROVE  /\ \A t \in Tasks :
                           pc[t] = "publish" /\ pc'[t] = "idle" => Displayed(shown', s) = device[s]
                      /\ polled # None /\ polled' = None => Displayed(shown', s) = polled.held[s]
    OBVIOUS
  <2>1. device \in Config /\ mute \in SUBSET Settings
    BY <1>1, Mute DEF IInv, Typed
  <2>2. ASSUME NEW t \in Tasks, pc[t] = "publish", pc'[t] = "idle"
        PROVE  Displayed(shown', s) = device[s]
    BY <1>1, <2>1, <2>2, PublishShows, ReadingDisplays
  <2>3. ASSUME polled # None, polled' = None
        PROVE  Displayed(shown', s) = polled.held[s]
    <3>1. PollEnds
      BY <1>1, <2>3 DEF Next, Poll, Enter, Read, Write, Refresh, Publish, vars
    <3>2. shown' = Reading(polled.held, mute) /\ polled.held \in Config
      BY <1>1, <2>3, <3>1 DEF PollEnds, IInv, Typed
    <3>. QED
      BY <2>1, <3>2, ReadingDisplays
  <2>. QED
    BY <2>2, <2>3
<1>. QED
  BY <1>1, Inductive, PTL DEF Spec, ShownIsHeld

\* The switch reports a change of grid charging as made exactly when it is.
THEOREM SwitchTellsTheTruth == Spec => VerdictIsTrue
<1> DEFINE True ==
      \A t \in Tasks :
        pc[t] = "publish" /\ pc'[t] = "idle" /\ call[t].kind = "switch" /\ "grid" \notin mute
        => (result'[t] = "done" <=> device.grid = call[t].allowed)
<1>1. ASSUME IInv, [Next]_vars PROVE [True]_vars
  <2> SUFFICES ASSUME NEW t \in Tasks, pc[t] = "publish", pc'[t] = "idle", call[t].kind = "switch",
                      "grid" \notin mute
               PROVE  result'[t] = "done" <=> device.grid = call[t].allowed
    OBVIOUS
  <2>1. Publish(t) /\ shown' = Reading(device, mute)
    BY <1>1, PublishShows
  <2>2. device \in Config /\ mute \in SUBSET Settings /\ call[t] \in Calls
    BY <1>1, Mute DEF IInv, Typed, InHand
  <2>3. device["grid"] \in BOOLEAN /\ call[t].allowed \in BOOLEAN /\ shown' # None
    <3>1. shown' # None
      BY <2>1, <2>2, ReadingsTyped DEF Readings
    <3>2. "grid" \in Settings /\ "grid" \in Switches
      BY DEF Settings, Texts, Switches
    <3>. QED
      BY <2>2, <3>1, <3>2, ConfigSorts, CallKinds, SortsAre
  <2>4. GridChargingAllowed(shown') = device["grid"]
    BY <2>1, <2>2, ReadingDisplays DEF Displayed
  <2>5. result'[t] = Verdict(call[t], shown')
    BY <1>1, <2>1 DEF Publish, Return, IInv, Typed
  <2>6. CASE device.grid = call[t].allowed
    <3>1. ~ (GridChargingAllowed(shown') # call[t].allowed)
      BY <2>4, <2>6
    <3>2. Verdict(call[t], shown') = "done"
      BY <3>1, Zenon DEF Verdict
    <3>. QED
      BY <2>5, <2>6, <3>2
  <2>7. CASE device.grid # call[t].allowed
    <3>1. GridChargingAllowed(shown') # call[t].allowed
      BY <2>4, <2>7
    <3>2. Verdict(call[t], shown') = "rejected"
      BY <2>3, <3>1, Zenon DEF Verdict
    <3>. QED
      BY <2>5, <2>7, <3>2
  <2>. QED
    BY <2>6, <2>7
<1>. QED
  BY <1>1, Inductive, PTL DEF Spec, VerdictIsTrue

\* A call past its first read is where it was, or has just moved.
LEMMA Progress ==
  ASSUME IInv, [Next]_vars, NEW t \in Tasks, pc'[t] \in {"reserve", "reread", "write"}
  PROVE  \/ /\ pc'[t] = pc[t] /\ call'[t] = call[t] /\ UNCHANGED <<device, mute>>
         \/ /\ Read(t) /\ pc'[t] = Following(t) /\ call'[t] = call[t]
            /\ ~ (pc[t] = "read" /\ Refused(call[t], Reading(device, mute)))
         \/ Write(t) /\ Land(t) /\ pc[t] = "reserve" /\ pc'[t] = "reread" /\ call'[t] = call[t]
<1>1. CASE Poll \/ PollEnds \/ UNCHANGED vars
  BY <1>1 DEF Poll, PollEnds, vars
<1>2. CASE \E u \in Tasks : Enter(u)
  BY <1>2 DEF Enter, IInv, Typed
<1>3. CASE \E u \in Tasks \ {t} : Read(u) \/ Refresh(u) \/ Publish(u)
  <2>1. UNCHANGED <<device, mute>>
    BY <1>3 DEF Read, Refresh, Publish
  <2>2. pc'[t] = pc[t] /\ call'[t] = call[t]
    BY <1>3 DEF Read, Refresh, Publish, Return, IInv, Typed
  <2>. QED
    BY <2>1, <2>2
<1>4. CASE \E u \in Tasks \ {t} : Write(u)
  <2>1. PICK u \in Tasks \ {t} : Write(u)
    BY <1>4
  <2>2. HoldsLock(u)
    BY <2>1 DEF Write, IInv, InHand, Busy
  <2>3. ~ Busy(t)
    BY <2>2, OneBusy
  <2>4. pc'[t] = pc[t]
    BY <2>1 DEF Write, Return, IInv, Typed
  <2>. QED
    BY <2>3, <2>4 DEF Busy
<1>5. CASE Read(t)
  <2>1. ~ Return(t, "failed")
    BY DEF Return, IInv, Typed
  <2>. QED
    BY <1>5, <2>1, Heard DEF Read, IInv, Typed
<1>6. CASE Write(t)
  <2>1. ~ Return(t, "failed")
    BY DEF Return, IInv, Typed
  <2>2. pc'[t] = Following(t) /\ pc[t] \in {"reserve", "write"} /\ Land(t) /\ call' = call
    BY <1>6, <2>1 DEF Write, IInv, Typed
  <2>. QED
    BY <1>6, <2>2 DEF Following
<1>7. CASE Refresh(t) \/ Publish(t)
  <2>1. pc'[t] \in {"idle", "publish"}
    BY <1>7 DEF Refresh, Publish, Return, Following, IInv, Typed
  <2>. QED
    BY <2>1
<1>. QED
  BY <1>1, <1>2, <1>3, <1>4, <1>5, <1>6, <1>7 DEF Next

\* A step leaves the device as it is, or is the write of one call.
LEMMA DeviceSteps ==
  ASSUME IInv, [Next]_vars
  PROVE  /\ mute' = mute
         /\ \/ device' = device
            \/ \E t \in Tasks : pc[t] \in {"reserve", "write"} /\ Landed(call[t], pc[t])
<1>1. ASSUME NEW t \in Tasks, Write(t)
      PROVE  device' = device \/ Landed(call[t], pc[t])
  BY <1>1, Lands DEF Write
<1>. QED
  BY <1>1 DEF Next, Poll, PollEnds, Enter, Read, Write, Refresh, Publish, vars

-----------------------------------------------------------------------------
(* The panel.                                                              *)

\* A call that switches to time-of-use alone, once its guard has let it pass, has a
\* calendar to switch to until it writes: nobody else writes meanwhile, and its own
\* write of the reserve leaves the calendar as it is.
Guarded ==
  \A t \in Tasks :
    pc[t] \in {"reserve", "reread", "write"} /\ call[t].kind = "mode" /\ call[t].mode = "time_of_use"
      => "calendar" \notin mute /\ device["calendar"] \ Daylight # {}

LEMMA GuardedNext ==
  ASSUME IInv, Guarded, [Next]_vars
  PROVE  Guarded'
<1>1. mute' = mute
  BY DeviceSteps
<1>2. ASSUME NEW t \in Tasks, pc'[t] \in {"reserve", "reread", "write"},
             call'[t].kind = "mode", call'[t].mode = "time_of_use"
      PROVE  "calendar" \notin mute' /\ device'["calendar"] \ Daylight # {}
  <2>1. CASE pc'[t] = pc[t] /\ call'[t] = call[t] /\ UNCHANGED <<device, mute>>
    BY <1>2, <2>1 DEF Guarded
  <2>2. CASE /\ Read(t) /\ pc'[t] = Following(t) /\ call'[t] = call[t]
             /\ ~ (pc[t] = "read" /\ Refused(call[t], Reading(device, mute)))
    <3>1. UNCHANGED <<device, mute>> /\ pc[t] \in {"read", "reread"}
      BY <2>2 DEF Read
    <3>2. CASE pc[t] = "reread"
      BY <1>2, <2>2, <3>1, <3>2 DEF Guarded
    <3>3. CASE pc[t] = "read"
      <4>1. Reading(device, mute)["calendar"].val \ Daylight # {}
        BY <1>2, <2>2, <3>3 DEF Refused, HasTouSchedule
      <4>2. device \in Config /\ mute \in SUBSET Settings /\ "calendar" \in Settings
        BY Mute DEF IInv, Typed, Settings
      <4>3. CASE "calendar" \in mute
        <5>1. Reading(device, mute)["calendar"] = NoMembers
          BY <4>2, <4>3, ReadingIs DEF ListSettings
        <5>. QED
          BY <4>1, <5>1 DEF NoMembers
      <4>4. CASE "calendar" \notin mute
        <5>1. /\ device["calendar"] \in Sort["calendar"]
              /\ Reading(device, mute)["calendar"] = Sent("calendar", device["calendar"])
          BY <4>2, <4>4, ReadingIs, ConfigSorts
        <5>2. Sent("calendar", device["calendar"]) = [form |-> "list", val |-> device["calendar"]]
          BY <4>2, <5>1, SentIs
        <5>3. Reading(device, mute)["calendar"].val = device["calendar"]
          BY <5>1, <5>2
        <5>. QED
          BY <3>1, <4>1, <4>4, <5>3
      <4>. QED
        BY <4>3, <4>4
    <3>. QED
      BY <3>1, <3>2, <3>3
  <2>3. CASE Write(t) /\ Land(t) /\ pc[t] = "reserve" /\ pc'[t] = "reread" /\ call'[t] = call[t]
    <3>1. Landed(call[t], pc[t])
      BY <2>3, Lands
    <3>2. "calendar" \in Settings \ (mute \cup Touched(call[t], pc[t]) \cup {"mode"} \cup DayLists)
      BY <1>2, <2>3 DEF Guarded, Touched, Floor, Settings, DayLists
    <3>3. device'["calendar"] = device["calendar"]
      BY <3>1, <3>2 DEF Landed
    <3>. QED
      BY <1>1, <1>2, <2>3, <3>3 DEF Guarded
  <2>. QED
    BY <1>2, <2>1, <2>2, <2>3, Progress
<1>. QED
  BY <1>1, <1>2 DEF Guarded

\* One write moves the panel by one step.
LEMMA PanelWrite ==
  ASSUME IInv, Guarded, mute' = mute, NEW t \in Tasks, pc[t] \in {"reserve", "write"},
         Landed(call[t], pc[t])
  PROVE  Panel!SetReserve \/ Panel!SetGrid \/ Panel!SetCalendar \/ Panel!SwitchMode
<1> DEFINE c == call[t]
           stage == pc[t]
<1>1. c \in Calls /\ Staged(c, stage)
  BY StagedCall
<1>2. Landed(c, stage) /\ device' \in Config
  BY DEF Landed
<1>3. stage = "write" /\ c.kind = "mode" /\ c.mode = "time_of_use" => device.calendar \ Daylight # {}
  BY DEF Guarded
<1> HIDE DEF c, stage
<1>4. ASSUME NEW settings, Touched(c, stage) \subseteq settings,
             Target(c, stage) # None => "mode" \in settings
      PROVE  Panel!Only(settings)
  <2>1. ASSUME NEW s \in Settings \ (settings \cup mute),
               s = "ev" => "mode" \notin mute, s \in DayLists => device[s] # {}
        PROVE  device'[s] = device[s]
    <3>1. CASE s = "mode"
      BY <1>2, <1>4, <2>1, <3>1 DEF Landed
    <3>2. CASE s # "mode"
      BY <1>2, <1>4, <2>1, <3>2 DEF Landed
    <3>. QED
      BY <3>1, <3>2
  <2>2. "mode" \notin settings => device'.mode = device.mode
    BY <1>2, <1>4 DEF Landed
  <2>. QED
    BY <2>1, <2>2 DEF Panel!Only
<1>5. CASE stage = "reserve"
  <2>1. Target(c, stage) = None /\ Touched(c, stage) = {Floor(c.mode)} /\ c.soc \in Socs
    BY <1>1, <1>5, CallKinds DEF Target, Touched, Staged
  <2>2. Floor(c.mode) \in {"self_reserve", "backup_reserve"} /\ device'[Floor(c.mode)] = c.soc
    BY <1>2, <1>5 DEF Floor, Landed
  <2>. QED
    BY <1>4, <2>1, <2>2 DEF Panel!SetReserve
<1>6. CASE stage = "write" /\ c.kind = "number"
  <2>1. Target(c, stage) = None /\ Touched(c, stage) = {c.field}
    BY <1>6 DEF Target, Touched
  <2>2. c.field \in {"self_reserve", "backup_reserve"} /\ c.soc \in Socs /\ device'[c.field] = c.soc
    BY <1>1, <1>2, <1>6, CallKinds DEF Landed, Reserves
  <2>. QED
    BY <1>4, <2>1, <2>2 DEF Panel!SetReserve
<1>7. CASE stage = "write" /\ c.kind = "switch"
  <2>1. Target(c, stage) = None /\ Touched(c, stage) = {"grid"}
    BY <1>7 DEF Target, Touched
  <2>2. device'.grid \in BOOLEAN
    BY <1>2 DEF Config
  <2>. QED
    BY <1>4, <2>1, <2>2 DEF Panel!SetGrid
<1>8. CASE stage = "write" /\ c.kind = "schedule"
  <2>1. Target(c, stage) \in {None, "time_of_use"} /\ Touched(c, stage) = {"calendar"}
    BY <1>8 DEF Target, Touched
  <2>2. device'.calendar \subseteq Lists
    BY <1>2 DEF Config
  <2>3. device'.mode \in {device.mode, "time_of_use"}
    BY <1>2, <2>1 DEF Landed
  <2>4. "calendar" \notin mute => device'.calendar \cap Daylight = device.calendar \cap Daylight
    BY <1>2, <1>8 DEF Landed
  <2>. QED
    BY <1>4, <2>1, <2>2, <2>3, <2>4 DEF Panel!SetCalendar
<1>9. CASE stage = "write" /\ c.kind = "mode"
  <2>1. Target(c, stage) = c.mode /\ Touched(c, stage) = {} /\ c.mode # None
    BY <1>1, <1>9, CallKinds, PayloadAssumption DEF Target, Touched
  <2>2. device'.mode = c.mode
    BY <1>2, <2>1 DEF Landed
  <2>. QED
    BY <1>3, <1>4, <1>9, <2>1, <2>2 DEF Panel!SwitchMode
<1>. QED
  BY <1>1, <1>5, <1>6, <1>7, <1>8, <1>9, CallKinds DEF Staged

\* Calls in flight together, with any faults, move the device as its control panel
\* would, one setting at a time, lists of days that are empty aside.
THEOREM MovesLikeAPanel == Spec => ImplementsPanel
<1>1. Init => Guarded /\ Panel!Init
  BY DEF Init, Guarded, Panel!Init
<1>2. IInv /\ Guarded /\ [Next]_vars => Guarded'
  BY GuardedNext
<1>3. ASSUME IInv, Guarded, [Next]_vars
      PROVE  [Panel!SetReserve \/ Panel!SetGrid \/ Panel!SetCalendar \/ Panel!SwitchMode]_<<device, mute>>
  BY <1>3, DeviceSteps, PanelWrite
<1>. QED
  BY <1>1, <1>2, <1>3, Inductive, PTL DEF Spec, ImplementsPanel, Panel!Spec

-----------------------------------------------------------------------------
(* The floor.                                                              *)

\* Once it has been set, the reserve stays until the mode is written.
Floored ==
  \A t \in Tasks :
    pc[t] \in {"reread", "write"} /\ call[t].kind = "mode" /\ call[t].soc # None =>
      device[Floor(call[t].mode)] = call[t].soc

LEMMA FlooredNext ==
  ASSUME IInv, Floored, [Next]_vars
  PROVE  Floored'
<1> SUFFICES ASSUME NEW t \in Tasks, pc'[t] \in {"reread", "write"},
                    call'[t].kind = "mode", call'[t].soc # None
             PROVE  device'[Floor(call'[t].mode)] = call'[t].soc
  BY DEF Floored, Floor
<1>1. CASE pc'[t] = pc[t] /\ call'[t] = call[t] /\ UNCHANGED <<device, mute>>
  BY <1>1 DEF Floored
<1>2. CASE Read(t) /\ pc'[t] = Following(t) /\ call'[t] = call[t]
  <2>1. pc[t] = "reread" /\ device' = device
    BY <1>2 DEF Read, Following
  <2>. QED
    BY <1>2, <2>1 DEF Floored
<1>3. CASE Write(t) /\ Land(t) /\ pc[t] = "reserve" /\ pc'[t] = "reread" /\ call'[t] = call[t]
  BY <1>3, Lands DEF Landed
<1>. QED
  BY <1>1, <1>2, <1>3, Progress

\* set_operating_mode with a reserve runs the mode on that reserve, as long as the
\* device reports its reserves: one it leaves out is sent at its default.
THEOREM ModeRunsOnItsFloor ==
  ASSUME \A silent \in Mutes : silent \cap Reserves = {}
  PROVE  Spec => ModeOnFloor
<1> DEFINE OnFloor ==
      \A t \in Tasks :
        pc[t] = "write" /\ pc'[t] = "refresh" /\ call[t].kind = "mode" /\ call[t].soc # None =>
          device'.mode = call[t].mode /\ device'[Floor(call[t].mode)] = call[t].soc
<1>1. ASSUME IInv, Floored, [Next]_vars PROVE [OnFloor]_vars
  <2> SUFFICES ASSUME NEW t \in Tasks, pc[t] = "write", pc'[t] = "refresh",
                      call[t].kind = "mode", call[t].soc # None
               PROVE  device'.mode = call[t].mode /\ device'[Floor(call[t].mode)] = call[t].soc
    OBVIOUS
  <2>1. Write(t) /\ Land(t)
    <3>1. Write(t) /\ ~ Return(t, "failed")
      BY <1>1, OneMoves DEF IInv, Typed, Enter, Read, Refresh, Publish, Return
    <3>. QED
      BY <3>1 DEF Write
  <2>2. Landed(call[t], "write") /\ call[t] \in Calls
    BY <1>1, <2>1, Lands DEF IInv, InHand
  <2>3. Target(call[t], "write") = call[t].mode /\ call[t].mode # None /\ Touched(call[t], "write") = {}
    BY <2>2, CallKinds, PayloadAssumption DEF Target, Touched
  <2>4. Floor(call[t].mode) \in Settings \ (mute \cup {"mode", "ev"} \cup DayLists)
    BY <1>1 DEF IInv, Typed, Floor, Reserves, Settings, Texts, DayLists
  <2>5. device'[Floor(call[t].mode)] = device[Floor(call[t].mode)]
    BY <2>2, <2>3, <2>4 DEF Landed
  <2>. QED
    BY <1>1, <2>2, <2>3, <2>5 DEF Floored, Landed
<1>2. Init => Floored
  BY DEF Init, Floored
<1>3. IInv /\ Floored /\ [Next]_vars => Floored'
  BY FlooredNext
<1>. QED
  BY <1>1, <1>2, <1>3, Inductive, PTL DEF Spec, ModeOnFloor

-----------------------------------------------------------------------------
(* The line at the lock.                                                   *)

\* Those in the line are the calls that have not ended, each once.
InLine ==
  /\ \A t \in Tasks : pc[t] # "idle" <=> \E i \in 1 .. Len(queue) : queue[i] = t
  /\ \A i, j \in 1 .. Len(queue) : queue[i] = queue[j] => i = j

\* The requests and refreshes a call has before it, at most.
StepsLeft(stage) ==
  CASE stage = "read" -> 6
    [] stage = "reserve" -> 5
    [] stage = "reread" -> 4
    [] stage = "write" -> 3
    [] stage = "refresh" -> 2
    [] stage = "publish" -> 1

\* Those that the call at place i has to wait for, its own included.
Wait(i) == 6 * (i - 1) + StepsLeft(pc[Head(queue)])

\* A call joins the line, goes on, or leaves it.
Joins(t) ==
  /\ pc[t] = "idle" /\ pc' = [pc EXCEPT ![t] = "read"]
  /\ queue' = Append(queue, t) /\ calls' = calls + 1

GoesOn(t) ==
  /\ HoldsLock(t) /\ pc[t] \in {"read", "reserve", "reread", "write", "refresh"}
  /\ pc' = [pc EXCEPT ![t] = Following(t)]
  /\ UNCHANGED <<queue, calls>>

Leaves(t) ==
  /\ HoldsLock(t) /\ pc[t] # "idle" /\ pc' = [pc EXCEPT ![t] = "idle"]
  /\ queue' = Tail(queue) /\ calls' = calls

LEMMA LineMoves ==
  ASSUME IInv, [Next]_vars
  PROVE  \/ UNCHANGED <<queue, pc, calls>>
         \/ \E t \in Tasks : Joins(t) \/ GoesOn(t) \/ Leaves(t)
<1>1. CASE Poll \/ PollEnds \/ UNCHANGED vars
  BY <1>1 DEF Poll, PollEnds, vars
<1>2. ASSUME NEW t \in Tasks, Enter(t) PROVE Joins(t)
  BY <1>2 DEF Enter, Joins
<1>3. ASSUME NEW t \in Tasks, Read(t) PROVE GoesOn(t) \/ Leaves(t)
  BY <1>3 DEF Read, Return, GoesOn, Leaves
<1>4. ASSUME NEW t \in Tasks, Write(t) PROVE GoesOn(t) \/ Leaves(t)
  <2>1. HoldsLock(t)
    BY <1>4 DEF Write, IInv, InHand, Busy
  <2>. QED
    BY <1>4, <2>1 DEF Write, Return, GoesOn, Leaves
<1>5. ASSUME NEW t \in Tasks, Refresh(t) PROVE GoesOn(t) \/ Leaves(t)
  <2>1. HoldsLock(t)
    BY <1>5 DEF Refresh, IInv, InHand, Busy
  <2>. QED
    BY <1>5, <2>1 DEF Refresh, Return, GoesOn, Leaves
<1>6. ASSUME NEW t \in Tasks, Publish(t) PROVE Leaves(t)
  <2>1. HoldsLock(t)
    BY <1>6 DEF Publish, IInv, InHand, Busy
  <2>. QED
    BY <1>6, <2>1 DEF Publish, Return, Leaves
<1>. QED
  BY <1>1, <1>2, <1>3, <1>4, <1>5, <1>6 DEF Next

\* The line without its head.
LEMMA Shifted ==
  ASSUME IInv, queue # <<>>
  PROVE  /\ Len(queue) \in Nat \ {0} /\ Head(queue) = queue[1]
         /\ Tail(queue) \in Seq(Tasks) /\ Len(Tail(queue)) = Len(queue) - 1
         /\ \A i \in 1 .. Len(queue) - 1 : Tail(queue)[i] = queue[i + 1]
<1>1. queue \in Seq(Tasks)
  BY DEF IInv, Typed
<1>. QED
  BY <1>1, HeadTailProperties, LenProperties

LEMMA LineKept ==
  ASSUME IInv, InLine, [Next]_vars
  PROVE  InLine'
<1>1. pc \in [Tasks -> Stages] /\ queue \in Seq(Tasks) /\ Len(queue) \in Nat
  BY LenProperties DEF IInv, Typed
<1>2. ASSUME NEW t \in Tasks, Joins(t) PROVE InLine'
  <2>1. /\ Len(queue') = Len(queue) + 1 /\ queue'[Len(queue) + 1] = t
        /\ \A i \in 1 .. Len(queue) : queue'[i] = queue[i]
    BY <1>1, <1>2, AppendProperties DEF Joins
  <2>2. \A i \in 1 .. Len(queue) : queue[i] # t
    BY <1>2 DEF InLine, Joins
  <2>3. pc'[t] # "idle" /\ \A u \in Tasks \ {t} : pc'[u] = pc[u]
    BY <1>1, <1>2 DEF Joins
  <2>4. \A i \in 1 .. Len(queue') : i \in 1 .. Len(queue) \/ i = Len(queue) + 1
    BY <1>1, <2>1
  <2>5. \A i \in 1 .. Len(queue) : i \in 1 .. Len(queue')
    BY <1>1, <2>1
  <2>6. ASSUME NEW u \in Tasks
        PROVE  pc'[u] # "idle" <=> \E i \in 1 .. Len(queue') : queue'[i] = u
    <3>1. CASE u = t
      BY <1>1, <2>1, <2>3, <3>1
    <3>2. CASE u # t
      BY <2>1, <2>3, <2>4, <2>5, <3>2 DEF InLine
    <3>. QED
      BY <3>1, <3>2
  <2>7. \A i, j \in 1 .. Len(queue') : queue'[i] = queue'[j] => i = j
    BY <2>1, <2>2, <2>4 DEF InLine
  <2>. QED
    BY <2>6, <2>7 DEF InLine
<1>3. ASSUME NEW t \in Tasks, GoesOn(t) PROVE InLine'
  <2>1. Following(t) # "idle" /\ pc[t] # "idle" /\ queue' = queue
    BY <1>3 DEF GoesOn, Following
  <2>2. \A u \in Tasks : pc'[u] # "idle" <=> pc[u] # "idle"
    BY <1>1, <1>3, <2>1 DEF GoesOn
  <2>. QED
    BY <2>1, <2>2 DEF InLine
<1>4. ASSUME NEW t \in Tasks, Leaves(t) PROVE InLine'
  <2>1. queue # <<>> /\ Head(queue) = t /\ queue' = Tail(queue)
    BY <1>4 DEF Leaves, HoldsLock
  <2>2. /\ Len(queue) \in Nat \ {0} /\ queue[1] = t /\ Len(queue') = Len(queue) - 1
        /\ \A i \in 1 .. Len(queue') : queue'[i] = queue[i + 1] /\ i + 1 \in 2 .. Len(queue)
    BY <2>1, Shifted
  <2>3. pc'[t] = "idle" /\ \A u \in Tasks \ {t} : pc'[u] = pc[u]
    BY <1>1, <1>4 DEF Leaves
  <2>4. \A i \in 2 .. Len(queue) : i \in 1 .. Len(queue) /\ i - 1 \in 1 .. Len(queue')
                                   /\ queue'[i - 1] = queue[i]
    BY <2>2
  <2>5. \A i \in 2 .. Len(queue) : queue[i] # t
    BY <2>2, <2>4 DEF InLine
  <2>6. ASSUME NEW u \in Tasks
        PROVE  pc'[u] # "idle" <=> \E i \in 1 .. Len(queue') : queue'[i] = u
    <3>1. CASE u = t
      BY <2>2, <2>3, <2>5, <3>1
    <3>2. CASE u # t
      <4>1. ASSUME pc[u] # "idle" PROVE \E i \in 1 .. Len(queue') : queue'[i] = u
        <5>1. PICK i \in 1 .. Len(queue) : queue[i] = u
          BY <4>1 DEF InLine
        <5>2. i \in 2 .. Len(queue)
          BY <2>2, <3>2, <5>1
        <5>. QED
          BY <2>4, <5>1, <5>2
      <4>2. ASSUME NEW i \in 1 .. Len(queue'), queue'[i] = u PROVE pc[u] # "idle"
        BY <2>2, <2>4, <4>2 DEF InLine
      <4>. QED
        BY <2>3, <3>2, <4>1, <4>2
    <3>. QED
      BY <3>1, <3>2
  <2>7. ASSUME NEW i \in 1 .. Len(queue'), NEW j \in 1 .. Len(queue'), queue'[i] = queue'[j]
        PROVE  i = j
    <3>1. queue[i + 1] = queue[j + 1] /\ i + 1 \in 1 .. Len(queue) /\ j + 1 \in 1 .. Len(queue)
      BY <2>2, <2>4, <2>7
    <3>2. i + 1 = j + 1
      BY <3>1 DEF InLine
    <3>. QED
      BY <3>2
  <2>. QED
    BY <2>6, <2>7 DEF InLine
<1>5. CASE UNCHANGED <<queue, pc, calls>>
  BY <1>5 DEF InLine
<1>. QED
  BY <1>2, <1>3, <1>4, <1>5, LineMoves

LEMMA LineThere == Spec => []InLine
<1>1. Init => InLine
  BY EmptySeq DEF Init, InLine
<1>2. IInv /\ InLine /\ [Next]_vars => InLine'
  BY LineKept
<1>. QED
  BY <1>1, <1>2, Inductive, PTL DEF Spec

\* The lock is never held by a call that has ended, whatever the calls before it ran
\* into: whoever is first in the line has a step of its own to take, and only the
\* first is past its first read (coordinator.py async_write).
THEOREM LockIsReleased ==
  Spec => [](/\ queue # <<>> => pc[Head(queue)] # "idle"
             /\ \A t \in Tasks : pc[t] \notin {"idle", "read"} => HoldsLock(t))
<1>1. ASSUME IInv, InLine, queue # <<>> PROVE pc[Head(queue)] # "idle"
  <2>1. Head(queue) = queue[1] /\ 1 \in 1 .. Len(queue) /\ Head(queue) \in Tasks
    BY <1>1, Shifted, ElementOfSeq DEF IInv, Typed
  <2>. QED
    BY <1>1, <2>1 DEF InLine
<1>2. IInv /\ InLine => /\ queue # <<>> => pc[Head(queue)] # "idle"
                        /\ \A t \in Tasks : pc[t] \notin {"idle", "read"} => HoldsLock(t)
  BY <1>1 DEF IInv, InHand, Busy
<1>. QED
  BY <1>2, Inductive, LineThere, PTL

\* Those at place i and after it wait for less when anything is done but poll or join
\* the line, and never for more; none is passed by another.
Nearer(i) ==
  \/ queue'[i] = queue[i] /\ i \in 1 .. Len(queue') /\ Wait(i)' <= Wait(i)
     /\ (calls' = calls /\ pc' # pc => Wait(i)' < Wait(i))
  \/ i > 1 /\ queue'[i - 1] = queue[i] /\ i - 1 \in 1 .. Len(queue') /\ Wait(i - 1)' < Wait(i)
  \/ i = 1 /\ pc'[queue[1]] = "idle"

\* A call waits for a bounded number of requests: those of the calls before it, which
\* each release the lock after at most six, with every error path taken or not, and
\* its own.  This is what CallsEnd rests on beside the fairness (coordinator.py
\* async_write, asyncio.Lock's order of arrival).
THEOREM TheLineMovesOn ==
  Spec => [][\A i \in 1 .. Len(queue) : Wait(i) \in 1 .. 6 * i /\ Nearer(i)]_vars
<1>1. ASSUME IInv, InLine, [Next]_vars, NEW i \in 1 .. Len(queue)
      PROVE  Wait(i) \in 1 .. 6 * i /\ Nearer(i)
  <2>1. /\ pc \in [Tasks -> Stages] /\ queue \in Seq(Tasks) /\ Len(queue) \in Nat \ {0}
        /\ queue # <<>> /\ i \in Nat \ {0} /\ i <= Len(queue)
    BY <1>1, LenProperties, EmptySeq DEF IInv, Typed
  <2>2. Head(queue) = queue[1] /\ 1 \in 1 .. Len(queue) /\ Head(queue) \in Tasks
    BY <1>1, <2>1, Shifted, ElementOfSeq
  <2>3. pc[Head(queue)] \in Stages \ {"idle"}
    BY <1>1, <2>1, <2>2 DEF InLine
  <2>4. \A stage \in Stages \ {"idle"} : StepsLeft(stage) \in 1 .. 6
    BY DEF Stages, StepsLeft
  <2>5. Wait(i) \in 1 .. 6 * i
    BY <2>1, <2>3, <2>4 DEF Wait
  <2>6. CASE UNCHANGED <<queue, pc, calls>>
    BY <1>1, <2>1, <2>5, <2>6 DEF Nearer, Wait
  <2>7. ASSUME NEW t \in Tasks, Joins(t) PROVE Nearer(i)
    <3>1. /\ Len(queue') = Len(queue) + 1 /\ queue' # <<>> /\ queue'[1] = queue[1]
          /\ queue'[i] = queue[i] /\ i \in 1 .. Len(queue')
          /\ queue' \in Seq(Tasks)
      BY <2>1, <2>2, <2>7, AppendProperties DEF Joins
    <3>2. Head(queue') = Head(queue)
      BY <2>2, <3>1, HeadTailProperties
    <3>3. pc'[Head(queue)] = pc[Head(queue)] /\ calls' # calls
      BY <1>1, <2>1, <2>2, <2>3, <2>7 DEF Joins, IInv, Typed
    <3>4. Wait(i)' = Wait(i)
      BY <3>2, <3>3 DEF Wait
    <3>. QED
      BY <2>5, <3>1, <3>3, <3>4 DEF Nearer
  <2>8. ASSUME NEW t \in Tasks, GoesOn(t) PROVE Nearer(i)
    <3>1. Head(queue) = t /\ queue' = queue /\ pc'[t] = Following(t)
      BY <2>1, <2>8 DEF GoesOn, HoldsLock
    <3>2. StepsLeft(Following(t)) \in 1 .. 6 /\ StepsLeft(Following(t)) < StepsLeft(pc[t])
      BY <2>8 DEF GoesOn, Following, StepsLeft
    <3>3. Wait(i)' < Wait(i) /\ Wait(i)' <= Wait(i)
      BY <2>1, <2>3, <2>4, <3>1, <3>2 DEF Wait
    <3>. QED
      BY <2>1, <3>1, <3>3 DEF Nearer
  <2>9. ASSUME NEW t \in Tasks, Leaves(t) PROVE Nearer(i)
    <3>1. Head(queue) = t /\ queue' = Tail(queue) /\ pc'[t] = "idle"
      BY <2>1, <2>9 DEF Leaves, HoldsLock
    <3>2. CASE i = 1
      BY <2>2, <3>1, <3>2 DEF Nearer
    <3>3. CASE i > 1
      <4>1. /\ i - 1 \in 1 .. Len(queue') /\ queue'[i - 1] = queue[i] /\ queue' # <<>>
            /\ queue' \in Seq(Tasks) /\ Len(queue') \in Nat \ {0}
        <5>1. /\ Len(queue') = Len(queue) - 1 /\ queue' \in Seq(Tasks)
              /\ \A k \in 1 .. Len(queue) - 1 : queue'[k] = queue[k + 1]
          BY <1>1, <2>1, <3>1, Shifted
        <5>2. i - 1 \in 1 .. Len(queue) - 1 /\ (i - 1) + 1 = i
          BY <2>1, <3>3
        <5>3. Len(queue') \in Nat \ {0}
          BY <2>1, <5>1, <5>2
        <5>. QED
          BY <5>1, <5>2, <5>3, EmptySeq
      <4>2. Head(queue') = queue'[1] /\ 1 \in 1 .. Len(queue') /\ Head(queue') \in Tasks
        BY <4>1, HeadTailProperties, ElementOfSeq
      <4>3. pc' \in [Tasks -> Stages] /\ InLine'
        BY <1>1, NextInv, LineKept DEF IInv, Typed
      <4>4. pc'[Head(queue')] \in Stages \ {"idle"}
        BY <4>2, <4>3 DEF InLine
      <4>5. Wait(i - 1)' <= 6 * (i - 1)
        BY <2>1, <2>4, <3>3, <4>4 DEF Wait
      <4>6. 6 * (i - 1) < Wait(i)
        BY <2>1, <2>3, <2>4 DEF Wait
      <4>7. Wait(i - 1)' \in Int /\ Wait(i) \in Int
        BY <2>1, <2>3, <2>4, <4>4 DEF Wait
      <4>. QED
        BY <2>1, <3>3, <4>1, <4>5, <4>6, <4>7 DEF Nearer
    <3>. QED
      BY <2>1, <3>2, <3>3
  <2>. QED
    BY <1>1, <2>5, <2>6, <2>7, <2>8, <2>9, LineMoves
<1>2. IInv /\ InLine /\ [Next]_vars
        => [\A i \in 1 .. Len(queue) : Wait(i) \in 1 .. 6 * i /\ Nearer(i)]_vars
  BY <1>1
<1>. QED
  BY <1>2, Inductive, LineThere, PTL DEF Spec
=============================================================================

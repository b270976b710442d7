----------------------------- MODULE MCModeWrites -----------------------------
(***************************************************************************)
(* ModeWrites for TLC.  The device starts in time-of-use with a calendar   *)
(* and without some days, or in self-consumption with windows for daylight *)
(* saving time alone; no other setting is at its default.  Of its settings *)
(* it reports all, or all but a few.                                       *)
(***************************************************************************)
EXTENDS ModeWrites

CONSTANT Unreported  \* bound: the settings that may be those few

MCInitial ==
  {[mode |-> mode, weather |-> TRUE, grid |-> FALSE, self_reserve |-> 50,
    backup_reserve |-> 5, ev |-> 20, tou |-> 1, daylight |-> TRUE,
    workdays |-> {6}, non_workdays |-> IF mode = "time_of_use" THEN {} ELSE {1},
    daylight_workdays |-> {1, 6}, daylight_non_workdays |-> {7},
    calendar |-> IF mode = "time_of_use" THEN Lists ELSE Daylight] :
     mode \in {"self_consumption", "time_of_use"}}
MCMutes == {{}, Unreported}
=============================================================================

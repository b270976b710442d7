--------------------------- MODULE OverridePromise ---------------------------
(***************************************************************************)
(* What battery overrides promise of the reserve stored in the device:     *)
(* the user sets it, an override replaces it, and the end of an override   *)
(* puts back the reserve the user had set.                                 *)
(***************************************************************************)
CONSTANT Reserves
VARIABLES reserve, base, overridden

Init == reserve \in Reserves /\ base = reserve /\ overridden = FALSE

UserSets ==
  /\ reserve' \in Reserves
  /\ base' = IF overridden THEN base ELSE reserve'
  /\ UNCHANGED overridden

Begin == reserve' \in Reserves /\ overridden' = TRUE /\ UNCHANGED base

End == reserve' = base /\ overridden' = FALSE /\ UNCHANGED base

Spec == Init /\ [][UserSets \/ Begin \/ End]_<<reserve, base, overridden>>
=============================================================================

------------------------------ MODULE MCReadings ------------------------------
(* A plant that is charged while the sun feeds its house, feeds its house from *)
(* the battery, or does nothing at all.                                        *)
EXTENDS Readings

Noon == [solar |-> 1, load |-> 1, charge |-> 1]
Night == [solar |-> 0, load |-> 1, charge |-> -1]
Idle == [solar |-> 0, load |-> 0, charge |-> 0]

MCFlows == {Noon, Night, Idle}
=============================================================================

--------------------------- MODULE MCDescription ----------------------------
(***************************************************************************)
(* Every class and every type of values, with two proper values for each   *)
(* kind of attribute.                                                      *)
(***************************************************************************)
EXTENDS SignalDescription

Unit(id, name, quantity) == [unitId |-> id, displayName |-> name, quantity |-> quantity]

MCUnits == {NoUnit, Unit("volt", "V", "voltage"), Unit("user", "pcs", "")}

MCRanges == {Unlimited, [low |-> "-10", high |-> "10"], [low |-> "0", high |-> Highest]}

MCPostScalings == {OneToOne, [offset |-> 3, scale |-> 1], [offset |-> 0, scale |-> 2]}

MCRelatedSignals == {{}, {<<"status", "s">>, <<"time", "t">>}}
=============================================================================

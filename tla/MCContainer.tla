---------------------------- MODULE MCContainer -----------------------------
(***************************************************************************)
(* Three signals: 1 is the time signal and 2 a data signal of table A, 3   *)
(* stands alone in table B.  Word is 0..3, so that indices and time stamps *)
(* wrap.                                                                   *)
(***************************************************************************)
EXTENDS ContainerSpec

CONSTANTS A, B

MCTableOf == [n \in SignalNumbers |-> IF n = 3 THEN B ELSE A]

Params(tableId, valueIndex, definition, fault) ==
    [tableId |-> tableId, valueIndex |-> valueIndex,
     definition |-> definition, fault |-> fault]

Def(delta, rule, size, quantityTime) ==
    [delta |-> delta, rule |-> rule, size |-> size, quantityTime |-> quantityTime]

TimeDefs == {Def(1, "linear", 8, TRUE), Def(Absent, "explicit", 8, TRUE),
             Def(Absent, "linear", 8, TRUE), Def(Absent, "constant", 8, TRUE)}
DataDefs == {Def(Absent, "explicit", 8, FALSE), Def(Absent, "constant", 8, FALSE)}

\* Complete descriptions, changes that carry only what changed, and one malformed
\* description for each place the parser can stop at.
MCSignalMetas ==
    {Params(t, 0, d, "none") : t \in TableIds, d \in TimeDefs \cup DataDefs}
    \cup {Params(t, Absent, Def(2, "linear", 8, TRUE), f) :
              t \in TableIds, f \in Faults \ {"none"}}
    \cup {Params(Absent, 3, Absent, "none"),
          Params(Absent, Absent, Def(2, Absent, 0, FALSE), "none")}

MCPayloads == {[len |-> 8, first |-> 2, second |-> 0],
               [len |-> 16, first |-> 1, second |-> 3]}
=============================================================================

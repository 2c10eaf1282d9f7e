----------------------------- MODULE MCControl ------------------------------
(***************************************************************************)
(* A data signal, a time signal and two requests; a malformed one keeps    *)
(* its connection alive, the others do not.                                *)
(***************************************************************************)
EXTENDS ControlPath

CONSTANTS r1, r2, data, time

MCIdLists == {{}, {data, time}}
=============================================================================

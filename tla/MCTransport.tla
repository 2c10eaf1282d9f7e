---------------------------- MODULE MCTransport -----------------------------
(***************************************************************************)
(* Fields of two bits: lengths up to 3 fit the header, 4 and 5 need the    *)
(* additional word.  Every payload is filled with one value, so a mix-up   *)
(* of two packets shows.                                                   *)
(***************************************************************************)
EXTENDS Transport

CONSTANT Sizes

MCPackets ==
    {[type |-> 1, number |-> 3, payload |-> [i \in 1 .. size |-> 7]] : size \in Sizes}
    \cup {[type |-> 2, number |-> 0, payload |-> [i \in 1 .. 4 |-> 2]]}
=============================================================================

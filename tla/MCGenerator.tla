---------------------------- MODULE MCGenerator -----------------------------
(***************************************************************************)
(* Linear time (1) with two synchronous signals (2, 3) in table A,         *)
(* explicit time (4) with asynchronous values (5) in table B.  The orders  *)
(* of the ids are those of the two configurations: the built-in one sorts  *)
(* a data signal before its time signal ("sine", "sine_time"), a           *)
(* configuration file all time signals first ("A_<id>_time").  The process *)
(* period is no multiple of the sample period of table A and a multiple of *)
(* that of table B.                                                        *)
(***************************************************************************)
EXTENDS SignalGenerator, TLC

CONSTANTS A, B

MCKind == (1 :> "LinearTimeSignal") @@ (2 :> "SynchronousSignal") @@
          (3 :> "SynchronousSignal") @@ (4 :> "ExplicitTimeSignal") @@ (5 :> "AsynchronousSignal")

MCTableOf == (1 :> A) @@ (2 :> A) @@ (3 :> A) @@ (4 :> B) @@ (5 :> B)

MCOrders == {<<5, 4, 2, 3, 1>>, <<4, 1, 5, 2, 3>>}

MCPeriod == (A :> 2) @@ (B :> 1)
=============================================================================

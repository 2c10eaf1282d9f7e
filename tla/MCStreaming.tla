---------------------------- MODULE MCStreaming -----------------------------
(***************************************************************************)
(* One signal of each class, of which a configuration takes some: in table *)
(* A linear time (1), synchronous (2) and constant values (3), in table B  *)
(* explicit time (4) and asynchronous values (5).  Word is 0..Wrap-1 with  *)
(* a small Wrap, so that value indices and time stamps wrap.               *)
(***************************************************************************)
EXTENDS Streaming

CONSTANTS A, B

MCKind == [n \in SignalNumbers |->
               CASE n = 1 -> "LinearTimeSignal"
                 [] n = 2 -> "SynchronousSignal"
                 [] n = 3 -> "ConstantSignal"
                 [] n = 4 -> "ExplicitTimeSignal"
                 [] n = 5 -> "AsynchronousSignal"]

MCTableOf == [n \in SignalNumbers |-> IF n <= 3 THEN A ELSE B]
=============================================================================

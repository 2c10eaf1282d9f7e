----------------------------- MODULE MCSession ------------------------------
(***************************************************************************)
(* One session.  Three "init" contents: a complete one, one without a      *)
(* POST interface, and one without a stream id at another address.         *)
(* Streams that call back through the io_context or at once.               *)
(***************************************************************************)
EXTENDS ConsumerSession

MCStreamInits ==
    {[streamId |-> "stream", path |-> "/a", port |-> "1"],
     [streamId |-> "stream", path |-> Empty, port |-> Empty],
     [streamId |-> Empty, path |-> "/b", port |-> "2"]}

MCInlineSets == SUBSET {"asyncInit", "asyncClose"}
=============================================================================

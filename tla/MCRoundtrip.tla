----------------------------- MODULE MCRoundtrip -----------------------------
(***************************************************************************)
(* Roundtrip on a small instance.                                          *)
(***************************************************************************)
EXTENDS Roundtrip, TLC

MCCounts == -1..2

(* What the writer was set to makes no difference once it has stopped.     *)
MCView ==
    IF reading THEN <<out, srcPhase, srcOpen, reader_vars, sent, got>> ELSE vars
=============================================================================

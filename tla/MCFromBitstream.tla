--------------------------- MODULE MCFromBitstream ---------------------------
(***************************************************************************)
(* FromBitstream on small instances.                                       *)
(***************************************************************************)
EXTENDS FromBitstream, TLC

(* Announced sizes.  A size of 2 * Int32Half is a child_count of 0.        *)
MCOne == {1}
MCZeroOne == {0, 1}
MCWrapping == {1, 2 * Int32Half}

(* The flags are switched in two groups, to keep the instance small.       *)
MCMasks == {{"ChecksumErrors", "PrematureEndOfContainer", "UnknownContainerFlags"},
            {"UnknownAppblobs", "UnknownHashFunction"}}
=============================================================================

-------------------------- MODULE MCDtlsRetransmit --------------------------
(***************************************************************************)
(* DtlsRetransmit for TLC: more keys than places, timeouts that start      *)
(* below one, at one and above, and saturate after two doublings, and a    *)
(* clock that ends while deadlines are still to come.                      *)
(***************************************************************************)
EXTENDS DtlsRetransmit, TLC

KeySymmetry == Permutations(Keys)
=============================================================================

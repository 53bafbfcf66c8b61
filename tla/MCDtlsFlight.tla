---------------------------- MODULE MCDtlsFlight ----------------------------
(***************************************************************************)
(* DtlsFlight for TLC.                                                     *)
(*                                                                         *)
(* DtlsFlight.cfg lets every call work on the shared store: one attempt,   *)
(* three numbers and two places, so that records are evicted, exhausted    *)
(* and pruned under the flight.  DtlsFlightOnly.cfg, for an embedder that  *)
(* keeps to the flight calls, has two epochs of three numbers, which start *)
(* over and are used again, and flights larger than the store: a flight    *)
(* finds the records of an earlier one there, or evicts its own.  Its one  *)
(* attempt is used up after one millisecond and a flight times out after   *)
(* two, at the end of the clock: both ends are reached, and the deadlines  *)
(* of the last records are past the end.  The numbers run out inside a     *)
(* flight in both.                                                         *)
(***************************************************************************)
EXTENDS DtlsFlight
=============================================================================

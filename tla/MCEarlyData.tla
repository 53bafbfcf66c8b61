---------------------------- MODULE MCEarlyData ----------------------------
(***************************************************************************)
(* The instance of EarlyData for TLC; the other constants are plain values *)
(* and come from EarlyData.cfg.                                            *)
(*                                                                         *)
(* A store of one place and two tickets evict.  Two handshakes leave a     *)
(* ticket of an earlier secret behind, in one process or over a restart.   *)
(* With a width of 2 and an addend of 1 the age of a ticket wraps within   *)
(* the short lifetime of 1 millisecond, and time goes one past it, where   *)
(* the age of the other tickets is clamped.  The budget of 3 has room for  *)
(* one record of length 2 and not for two, and for any number of empty     *)
(* ones.                                                                   *)
(***************************************************************************)
EXTENDS EarlyData

\* A ticket of one millisecond for resumption alone, and the ticket of a server
\* without a clock.
MCTerms ==
  {[timed |-> TRUE, lifetime |-> 1, budget |-> 0],
   [timed |-> FALSE, lifetime |-> 9, budget |-> 3]}
=============================================================================

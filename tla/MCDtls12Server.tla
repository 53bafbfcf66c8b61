--------------------------- MODULE MCDtls12Server ---------------------------
(***************************************************************************)
(* Dtls12Server for TLC.  One ClientHello pays for one HelloVerifyRequest, *)
(* and the second must wait for a second ClientHello; the counters         *)
(* saturate after that.                                                    *)
(***************************************************************************)
EXTENDS Dtls12Server

MCSize == [hello |-> 1, verify |-> 2, server_flight |-> 3, key_exchange |-> 1, finished |-> 1]
=============================================================================

------------------------- MODULE MCTls13Connection -------------------------
(***************************************************************************)
(* Tls13Connection for TLC: two handshakes over one connection, so that    *)
(* everything the first one leaves behind meets the second, and record     *)
(* numbers that run out within one call for two records.                   *)
(***************************************************************************)
EXTENDS Tls13Connection
=============================================================================

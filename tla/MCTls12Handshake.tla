-------------------------- MODULE MCTls12Handshake --------------------------
(***************************************************************************)
(* Model checking of Tls12Handshake: all server flights of three messages, *)
(* those of four and some of five that begin well, and all client flights  *)
(* of two to four messages.                                                *)
(***************************************************************************)
EXTENDS Tls12Handshake

MCServerFlights ==
  LET Beginning == <<"ServerHello", "Certificate">> IN
  [1 .. 3 -> ServerTypes]
    \cup {Beginning \o f : f \in [1 .. 2 -> ServerTypes]}
    \cup {Beginning \o <<"CertificateRequest", type, "ServerHelloDone">> :
             type \in ServerTypes}
MCClientFlights == UNION {[1 .. n -> ClientTypes] : n \in 2 .. 4}
=============================================================================

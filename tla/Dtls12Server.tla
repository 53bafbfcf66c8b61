---------------------------- MODULE Dtls12Server ----------------------------
(***************************************************************************)
(* The server's side of the DTLS 1.2 handshake of a Connection: the cookie *)
(* exchange, the sequence of the client's flight and the byte budget that  *)
(* holds until the client has shown that it can be reached.                *)
(*                                                                         *)
(* The client, the network and the embedder are external.  The network     *)
(* loses, repeats and reorders datagrams.  The embedder records the size   *)
(* of every datagram, in and out, answers as the phase says, resends what  *)
(* it has sent, and hands a ClientHello over without its cookie field, in  *)
(* the form the cookie was computed from.                                  *)
(***************************************************************************)
EXTENDS Naturals, FiniteSets

CONSTANTS
  Randoms,    \* ClientHellos of the client, numbered from 1
  Secrets,    \* cookie secrets of the embedder, numbered from 1
  Factor,     \* DTLS12_ANTI_AMPLIFICATION_FACTOR
  MaxBytes,   \* u64::MAX, where the counters of bytes saturate
  Size,       \* length of a datagram, by its kind
  MaxNet      \* bound: datagrams under way at one time

Kinds == {"hello", "verify", "server_flight", "key_exchange", "finished"}

ASSUME Dtls12Assumption ==
  /\ Randoms \subseteq Nat \ {0} /\ Secrets \subseteq Nat \ {0}
  /\ Factor \in Nat /\ MaxBytes \in Nat /\ MaxNet \in Nat
  /\ Size \in [Kinds -> Nat]

\* compute_dtls12_cookie: the hash of secret and ClientHello is named by both.
CookieOf(s, r) == [secret |-> s, random |-> r]
Cookies == [secret : Secrets, random : Randoms]
None == [secret |-> 0, random |-> 0]

Datagrams ==
  [kind : {"hello"}, random : Randoms, cookie : Cookies \cup {None}]
    \cup [kind : Kinds \ {"hello"}, random : {0}, cookie : Cookies \cup {None}]
Datagram(kind) == [kind |-> kind, random |-> 0, cookie |-> None]
Hello(r, c) == [kind |-> "hello", random |-> r, cookie |-> c]
Verify(c) == [kind |-> "verify", random |-> 0, cookie |-> c]

Phases == {"AwaitingClientHello", "AwaitingClientHelloWithCookie",
           "AwaitingClientKeyExchange", "AwaitingFinished", "Connected"}

VARIABLES
  phase,      \* dtls12_handshake_phase
  expected,   \* dtls12_expected_cookie
  state,      \* HandshakeState
  enforced,   \* dtls12_anti_amplification_enforced
  inbound,    \* dtls12_inbound_bytes
  outbound,   \* dtls12_outbound_bytes
  secret,     \* the embedder's cookie secret
  random,     \* the client's ClientHello
  cookie,     \* the cookie the client has
  heard,      \* the client has the server's flight
  net,        \* datagrams under way
  reached,    \* history: a HelloVerifyRequest has reached the client
  challenged, \* history: the ClientHello the challenge was made for, 0 for none
  accepted,   \* history: the ClientHello accepted with a cookie, 0 for none
  lifted,     \* history: the budget has been switched off at some time
  disturbed   \* history: the secret or the ClientHello has been replaced

serverVars == <<phase, expected, state, challenged, accepted>>
byteVars == <<inbound, outbound>>
clientVars == <<random, cookie, heard, reached>>
policyVars == <<enforced, lifted, secret, disturbed>>
vars == <<serverVars, byteVars, clientVars, policyVars, net>>

TypeOK ==
  /\ phase \in Phases /\ state \in {"Idle", "ClientHelloSent", "Finished"}
  /\ expected \in Cookies \cup {None} /\ cookie \in Cookies \cup {None}
  /\ inbound \in 0 .. MaxBytes /\ outbound \in 0 .. MaxBytes
  /\ secret \in Secrets /\ random \in Randoms
  /\ net \subseteq Datagrams
  /\ challenged \in Randoms \cup {0} /\ accepted \in Randoms \cup {0}
  /\ enforced \in BOOLEAN /\ heard \in BOOLEAN /\ reached \in BOOLEAN
  /\ lifted \in BOOLEAN /\ disturbed \in BOOLEAN

Init ==
  /\ phase = "AwaitingClientHello" /\ expected = None /\ state = "Idle"
  /\ enforced = TRUE /\ inbound = 0 /\ outbound = 0
  /\ secret \in Secrets /\ random \in Randoms
  /\ cookie = None /\ heard = FALSE /\ net = {}
  /\ reached = FALSE /\ challenged = 0 /\ accepted = 0
  /\ lifted = FALSE /\ disturbed = FALSE

(***************************************************************************)
(* The byte budget.                                                        *)
(***************************************************************************)
Saturating(n) == IF n < MaxBytes THEN n ELSE MaxBytes

\* Faulty variant of Validated: the challenge alone lifts the budget.
ValidatedByChallenge == phase # "AwaitingClientHello"

\* The phases that follow the cookie.
Validated == phase \in {"AwaitingClientKeyExchange", "AwaitingFinished", "Connected"}

CanSend(bytes) ==
  \/ ~enforced
  \/ Validated
  \/ Saturating(outbound + bytes) <= Saturating(Factor * inbound)

(***************************************************************************)
(* The network.  One that is full drops what is sent.                      *)
(***************************************************************************)
After(m) == IF Cardinality(net \cup {m}) <= MaxNet THEN net \cup {m} ELSE net

Send(m) == net' = After(m)

\* m is delivered, and may be delivered again.
Receive(m) == m \in net /\ net' \in {net, net \ {m}}

Lose(m) ==
  /\ m \in net /\ net' = net \ {m}
  /\ UNCHANGED <<serverVars, byteVars, clientVars, policyVars>>

(***************************************************************************)
(* The client.                                                             *)
(***************************************************************************)
SendHello ==
  /\ ~heard
  /\ Send(Hello(random, cookie))
  /\ UNCHANGED <<serverVars, byteVars, clientVars, policyVars>>

SendKeyExchange ==
  /\ heard
  /\ Send(Datagram("key_exchange"))
  /\ UNCHANGED <<serverVars, byteVars, clientVars, policyVars>>

SendFinished ==
  /\ heard
  /\ Send(Datagram("finished"))
  /\ UNCHANGED <<serverVars, byteVars, clientVars, policyVars>>

ReceiveVerify(m) ==
  /\ m.kind = "verify" /\ Receive(m)
  /\ cookie' = m.cookie /\ reached' = TRUE
  /\ UNCHANGED <<random, heard, serverVars, byteVars, policyVars>>

ReceiveServerFlight(m) ==
  /\ m.kind = "server_flight" /\ Receive(m)
  /\ heard' = TRUE
  /\ UNCHANGED <<random, cookie, reached, serverVars, byteVars, policyVars>>

\* The client starts over with another ClientHello, with its cookie or none.
StartOver(r, c) ==
  /\ r # random
  /\ random' = r /\ cookie' = c /\ heard' = FALSE
  /\ disturbed' = TRUE
  /\ UNCHANGED <<reached, serverVars, byteVars, enforced, lifted, secret, net>>

(***************************************************************************)
(* The server: every datagram is recorded, then processed by its kind.     *)
(***************************************************************************)
\* record_dtls12_inbound_datagram
RecordInbound(m) ==
  /\ Receive(m)
  /\ inbound' = Saturating(inbound + Size[m.kind])
  /\ UNCHANGED <<outbound, clientVars, policyVars>>

\* Faulty variant of CookieMatches: the cookie is compared with the challenge only.
CookieMatchesChallenge(m) == m.cookie = expected

\* The cookie is compared with the challenge, and with the one computed again
\* from the ClientHello that came with it.
CookieMatches(m) == m.cookie = expected /\ m.cookie = CookieOf(secret, m.random)

MayChallenge(m) == m.cookie = None /\ phase = "AwaitingClientHello"

MayVerify(m) ==
  /\ m.cookie # None /\ phase = "AwaitingClientHelloWithCookie"
  /\ expected # None /\ CookieMatches(m)

\* process_dtls12_client_hello_without_cookie
Challenge(m) ==
  /\ m.kind = "hello" /\ MayChallenge(m) /\ RecordInbound(m)
  /\ expected' = CookieOf(secret, m.random)
  /\ phase' = "AwaitingClientHelloWithCookie"
  /\ challenged' = m.random
  /\ UNCHANGED <<state, accepted>>

\* process_dtls12_client_hello_with_cookie
VerifyCookie(m) ==
  /\ m.kind = "hello" /\ MayVerify(m) /\ RecordInbound(m)
  /\ expected' = None
  /\ phase' = "AwaitingClientKeyExchange"
  /\ state' = "ClientHelloSent"
  /\ accepted' = m.random
  /\ UNCHANGED challenged

\* Faulty variant of KeepPhase: what is refused ends the challenge.
KeepPhaseForgetting == expected' = None /\ UNCHANGED <<phase, state, challenged, accepted>>

\* A call that is refused, by its phase or its cookie, changes nothing.
KeepPhase == UNCHANGED serverVars

RefuseHello(m) ==
  /\ m.kind = "hello" /\ ~MayChallenge(m) /\ ~MayVerify(m) /\ RecordInbound(m)
  /\ KeepPhase

\* process_dtls12_client_handshake_message
TakeKeyExchange(m) ==
  /\ m.kind = "key_exchange" /\ phase = "AwaitingClientKeyExchange" /\ RecordInbound(m)
  /\ phase' = "AwaitingFinished"
  /\ UNCHANGED <<expected, state, challenged, accepted>>

TakeFinished(m) ==
  /\ m.kind = "finished" /\ phase = "AwaitingFinished" /\ RecordInbound(m)
  /\ phase' = "Connected" /\ state' = "Finished"
  /\ UNCHANGED <<expected, challenged, accepted>>

RefuseMessage(m) ==
  /\ \/ m.kind = "key_exchange" /\ phase # "AwaitingClientKeyExchange"
     \/ m.kind = "finished" /\ phase # "AwaitingFinished"
  /\ RecordInbound(m)
  /\ KeepPhase

\* record_dtls12_outbound_datagram, then the datagram, if the budget has room.
RecordOutbound(m) ==
  /\ CanSend(Size[m.kind])
  /\ outbound' = Saturating(outbound + Size[m.kind])
  /\ Send(m)
  /\ UNCHANGED <<serverVars, inbound, clientVars, policyVars>>

\* The HelloVerifyRequest that Challenge has returned (it carries the expected
\* cookie), for the first time or again.
SendVerify == phase = "AwaitingClientHelloWithCookie" /\ RecordOutbound(Verify(expected))

SendServerFlight ==
  /\ phase \in {"AwaitingClientKeyExchange", "AwaitingFinished"}
  /\ RecordOutbound(Datagram("server_flight"))

\* set_dtls12_anti_amplification_enforced
SetEnforced(on) ==
  /\ enforced' = on /\ lifted' = (lifted \/ ~on)
  /\ UNCHANGED <<serverVars, byteVars, clientVars, secret, disturbed, net>>

RotateSecret(s) ==
  /\ s # secret
  /\ secret' = s /\ disturbed' = TRUE
  /\ UNCHANGED <<serverVars, byteVars, clientVars, enforced, lifted, net>>

ReceiveHello == \E m \in net : Challenge(m) \/ VerifyCookie(m) \/ RefuseHello(m)
ReceiveKeyExchange == \E m \in net : m.kind = "key_exchange" /\ (TakeKeyExchange(m) \/ RefuseMessage(m))
ReceiveFinished == \E m \in net : m.kind = "finished" /\ (TakeFinished(m) \/ RefuseMessage(m))

Client ==
  \/ SendHello \/ SendKeyExchange \/ SendFinished
  \/ \E m \in net : ReceiveVerify(m) \/ ReceiveServerFlight(m)
  \/ \E r \in Randoms, c \in {cookie, None} : StartOver(r, c)

Server ==
  \/ ReceiveHello \/ ReceiveKeyExchange \/ ReceiveFinished
  \/ SendVerify \/ SendServerFlight
  \/ \E on \in BOOLEAN : SetEnforced(on)
  \/ \E s \in Secrets : RotateSecret(s)

Next == Client \/ Server \/ \E m \in net : Lose(m)

\* Both ends resend on a timer.  The network is fair to each kind of datagram:
\* one that is sent again and again arrives again and again.
Fairness ==
  /\ SF_vars(SendHello) /\ SF_vars(SendKeyExchange) /\ SF_vars(SendFinished)
  /\ SF_vars(SendVerify) /\ SF_vars(SendServerFlight)
  /\ SF_vars(ReceiveHello) /\ SF_vars(ReceiveKeyExchange) /\ SF_vars(ReceiveFinished)
  /\ SF_vars(\E m \in net : ReceiveVerify(m))
  /\ SF_vars(\E m \in net : ReceiveServerFlight(m))

Spec == Init /\ [][Next]_vars /\ Fairness

(***************************************************************************)
(* Properties.                                                             *)
(***************************************************************************)
\* While the budget has been enforced all along and no ClientHello has come with
\* its cookie, the server has sent at most Factor times what it has received.
WithinBudget == ~lifted /\ accepted = 0 => outbound <= Saturating(Factor * inbound)

\* The server goes on to the key exchange only with a client that has got the
\* HelloVerifyRequest, and only with the ClientHello it was made for, whatever
\* the client restarts with and whenever the secret is replaced.
CookieProvesReach ==
  (Validated => accepted # 0) /\ (accepted # 0 => reached /\ accepted = challenged)

\* However many datagrams are lost, repeated and reordered, a client that
\* resends gets in, if neither its ClientHello nor the secret is replaced.
ClientGetsIn == [](~disturbed) => <>(phase = "Connected")
=============================================================================

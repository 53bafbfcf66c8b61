-------------------------- MODULE ClientNegotiation -------------------------
(***************************************************************************)
(* A TLS 1.3 Connection as a client whose settings may change at any time, *)
(* with a server that answers what it receives.  A server message is     *)
(* built by this code for the last hello sent, which may reach the server  *)
(* altered, or it is one of another server.                                *)
(*                                                                         *)
(* Certificates, Finished and keys are those of Tls13Connection: here they *)
(* are one step, Complete, after which the client can resume.              *)
(***************************************************************************)
EXTENDS Negotiation

CONSTANTS
  ServerShares,          \* shares a server brings, None for the built-in one
  Alterations,           \* what may happen to a hello on its way
  Altered(_, _),         \* a hello after an alteration
  ForeignServerHellos,   \* server hellos of other servers
  ForeignExtensions      \* EncryptedExtensions of other servers

\* What send_client_hello and send_client_hello_with_resumption_tickets send.
Offers ==
  [name : {None} \cup {Some(n) : n \in Names}, stapling : BOOLEAN,
   alpn : {<<>>} \cup AlpnLists, early : {FALSE}, psks : {<<>>}]
Hellos ==
  {ClientHello("tls13", offer) : offer \in Offers}
    \cup {ResumptionHello(hash, offer, tickets) :
            hash \in {"sha256", "sha384"}, offer \in Offers, tickets \in TicketLists}

\* Whatever is altered, a hello has a sequence of extensions.
ASSUME AlterationAssumption ==
  \A hello \in Hellos, how \in Alterations :
    LET x == Altered(hello, how).extensions IN Len(x) \in Nat /\ DOMAIN x = 1 .. Len(x)

VARIABLES
  name,           \* tls13_client_server_name
  alpn,           \* tls13_client_alpn_protocols
  requireAck,     \* tls13_require_server_name_ack
  state,          \* state
  retry,          \* tls13_hrr_seen and tls13_hrr_requested_group
  suite,          \* selected_cipher_suite
  earlyOffered,   \* tls13_early_data_offered_in_client_hello
  earlyAccepted,  \* tls13_early_data_accepted_in_encrypted_extensions
  acknowledged,   \* tls13_server_name_acknowledged
  selected,       \* tls13_selected_alpn_protocol
  resumable,      \* a resumption master secret is there
  sent,           \* history: the last hello sent, with its offer
  count,          \* history: hellos sent
  received,       \* history: the hello a server has answered, and its choice
  answer          \* that answer, until a server hello is taken or a hello sent

settings == <<name, alpn, requireAck>>
learnt == <<suite, earlyAccepted, acknowledged, selected>>
vars == <<settings, learnt, state, retry, earlyOffered, resumable, sent, count, received, answer>>

States ==
  {"Idle", "ClientHelloSent", "ServerHelloReceived",
   "ServerEncryptedExtensionsReceived", "Finished"}

NoRetry == [seen |-> FALSE, group |-> None]

Init ==
  /\ name = None /\ alpn = <<>> /\ requireAck = FALSE
  /\ state = "Idle" /\ retry = NoRetry /\ suite = None
  /\ earlyOffered = FALSE /\ earlyAccepted = FALSE
  /\ acknowledged = FALSE /\ selected = None /\ resumable = FALSE
  /\ sent = None /\ count = 0 /\ received = None /\ answer = None

-----------------------------------------------------------------------------
(***************************************************************************)
(* Settings, at any time.                                                  *)
(***************************************************************************)

SetServerName(new) ==
  /\ new # <<BadName>>
  /\ name' = new /\ acknowledged' = FALSE
  /\ UNCHANGED <<alpn, requireAck, suite, earlyAccepted, selected, state, retry,
                 earlyOffered, resumable, sent, count, received, answer>>

\* A faulty variant: what was selected from the old list stays.
SetAlpnProtocolsKeeping(list) ==
  /\ alpn' = list
  /\ UNCHANGED <<name, requireAck, learnt, state, retry, earlyOffered, resumable,
                 sent, count, received, answer>>

SetAlpnProtocols(list) ==
  /\ alpn' = list /\ selected' = None
  /\ UNCHANGED <<name, requireAck, suite, earlyAccepted, acknowledged, state, retry,
                 earlyOffered, resumable, sent, count, received, answer>>

SetRequireServerNameAck(required) ==
  /\ requireAck' = required
  /\ UNCHANGED <<name, alpn, learnt, state, retry, earlyOffered, resumable, sent, count,
                 received, answer>>

-----------------------------------------------------------------------------
(***************************************************************************)
(* Hellos.                                                                 *)
(***************************************************************************)

Offer(stapling) ==
  [name |-> name, stapling |-> stapling, alpn |-> alpn, early |-> FALSE, psks |-> <<>>]

\* validate_tls13_hrr_retry_group_support
RetryGroupSupported ==
  retry.seen => retry.group # None /\ retry.group[1] \in SupportedGroups

SendHello(hello, offer, tickets) ==
  /\ count < MaxHellos
  /\ count' = count + 1
  /\ sent' = Some([hello |-> hello, offer |-> offer, tickets |-> tickets,
                   hash |-> HashOf(suite)])
  /\ state' = "ClientHelloSent"
  /\ earlyOffered' = \E t \in ToSet(tickets) : t.early
  /\ earlyAccepted' = FALSE /\ acknowledged' = FALSE /\ selected' = None
  /\ received' = None /\ answer' = None
  /\ UNCHANGED <<settings, suite, retry, resumable>>

SendClientHello(stapling) ==
  /\ state = "Idle" /\ RetryGroupSupported
  /\ SendHello(ClientHello("tls13", Offer(stapling)), Offer(stapling), <<>>)

\* send_client_hello_with_resumption_tickets does not ask for a state.
SendResumptionHello(stapling, tickets) ==
  /\ resumable /\ RetryGroupSupported
  /\ SendHello(ResumptionHello(HashOf(suite), Offer(stapling), tickets),
               Offer(stapling), tickets)

\* A server reads a hello and answers with build_server_hello_for_client, or
\* with a share of its own.
Answer(hello, preferred, share) ==
  LET info == ParseClientHello(hello)
      chosen == IF info = None THEN None
                ELSE PickIntersectionSuite(info[1], preferred, "tls13")
  IN
  /\ received = None
  /\ chosen # None /\ BuildServerHello("tls13", chosen[1], share) # None
  /\ received' = Some([hello |-> hello, info |-> info[1], suite |-> chosen[1],
                       preferred |-> preferred])
  /\ answer' = BuildServerHello("tls13", chosen[1], share)
  /\ UNCHANGED <<settings, learnt, state, retry, earlyOffered, resumable, sent, count>>

RecvHelloRetryRequest(hello) ==
  LET parsed == ParseServerHello(hello) IN
  /\ state = "ClientHelloSent" /\ ~ retry.seen
  /\ parsed # None /\ parsed[1].retry
  /\ retry' = [seen |-> TRUE, group |-> parsed[1].group]
  /\ state' = "Idle"
  /\ UNCHANGED <<settings, learnt, earlyOffered, resumable, sent, count, received, answer>>

\* A share that does not yield a secret leaves the handler between.
RecvServerHello(hello) ==
  LET parsed == ParseServerHello(hello) IN
  /\ state = "ClientHelloSent"
  /\ parsed # None /\ ~ parsed[1].retry
  /\ retry' = NoRetry
  /\ \/ suite' = Some(parsed[1].suite) /\ state' = "ServerHelloReceived"
     \/ parsed[1].share # None /\ UNCHANGED <<suite, state>>
  /\ received' = None /\ answer' = None
  /\ UNCHANGED <<settings, earlyAccepted, acknowledged, selected, earlyOffered,
                 resumable, sent, count>>

\* The checks and assignments of recv_encrypted_extensions in their order; a
\* protocol that was not offered is noticed after the others are done.
RecvEncryptedExtensions(extensions) ==
  LET acks == Has(extensions, "server_name")
      accepts == Has(extensions, "early_data")
      protocol == DataOf(extensions, "alpn", None)
      known == protocol = None \/ alpn = <<>> \/ protocol[1] \in ToSet(alpn)
  IN
  /\ state = "ServerHelloReceived"
  /\ EncryptedExtensionsAccepted(extensions)
  /\ acks => name # None
  /\ requireAck /\ name # None => acks
  /\ accepts => earlyOffered
  /\ earlyAccepted' = accepts /\ acknowledged' = acks
  /\ IF known
     THEN selected' = protocol /\ state' = "ServerEncryptedExtensionsReceived"
     ELSE UNCHANGED <<selected, state>>
  /\ UNCHANGED <<settings, suite, retry, earlyOffered, resumable, sent, count, received, answer>>

\* The rest of the handshake.
Complete ==
  /\ state = "ServerEncryptedExtensionsReceived"
  /\ state' = "Finished" /\ resumable' = TRUE
  /\ UNCHANGED <<settings, learnt, retry, earlyOffered, sent, count, received, answer>>

-----------------------------------------------------------------------------
Configure ==
  \/ \E new \in {None, <<BadName>>} \cup {Some(n) : n \in Names} : SetServerName(new)
  \/ \E list \in AlpnLists : SetAlpnProtocols(list)
  \/ \E required \in BOOLEAN : SetRequireServerNameAck(required)

Client ==
  \/ \E stapling \in BOOLEAN : SendClientHello(stapling)
  \/ \E stapling \in BOOLEAN, tickets \in TicketLists : SendResumptionHello(stapling, tickets)
  \/ Complete

\* A server has a hello to answer while the client waits.
Server ==
  \E preferred \in Preferences, share \in ServerShares :
    state = "ClientHelloSent" /\ \E how \in Alterations :
                       Answer(Altered(sent[1].hello, how), preferred, share)

Replies ==
  \/ answer # None /\ RecvServerHello(answer[1])
  \/ \E hello \in ForeignServerHellos : RecvServerHello(hello) \/ RecvHelloRetryRequest(hello)
  \/ \E protocol \in {None} \cup {Some(p) : p \in UNION {ToSet(l) : l \in AlpnLists}},
        acknowledge, acceptEarly \in BOOLEAN :
       RecvEncryptedExtensions(BuildEncryptedExtensions(protocol, acknowledge, acceptEarly))
  \/ \E extensions \in ForeignExtensions : RecvEncryptedExtensions(extensions)

Next == Configure \/ Client \/ Server \/ Replies

Spec == Init /\ [][Next]_vars

-----------------------------------------------------------------------------

\* A server that reads a hello as the client sent it learns the settings the
\* client had when it sent it, and with the same hash verifies the binder of
\* the first ticket (build_client_hello_extensions, parse_client_hello_info,
\* zero_client_hello_psk_binders): the hello the binders were computed over
\* says everything the hello on the wire says.
HelloUnderstood ==
  sent # None =>
    LET last == sent[1] info == ParseClientHello(last.hello) IN
    /\ info # None
    /\ info[1].name = last.offer.name /\ info[1].alpn = last.offer.alpn
    /\ info[1].stapling = last.offer.stapling
    /\ info[1].early = (\E t \in ToSet(last.tickets) : t.early)
    /\ [j \in DOMAIN info[1].psks |-> info[1].psks[j].identity]
         = [j \in DOMAIN last.tickets |-> last.tickets[j].id]
    /\ last.tickets # <<>> => BinderVerifies(last.hash, last.tickets[1].id, last.hello)

\* Whatever happens to a hello on its way, an answer chooses the suite of
\* TLS 1.3 the server likes best of those in it, the hello has all that the
\* suite needs, a ticket comes last in it, so that its binders are the end of
\* the message, and a client of this code takes the answer
\* (pick_intersection_suite, encode_server_hello_body_with_key_share).
ChoiceSound ==
  received # None =>
    LET r == received[1]
        possible == ToSet(r.hello.suites) \cap Tls13Suites
        taken == ParseServerHello(answer[1])
    IN
    /\ \E i \in DOMAIN r.preferred :
         /\ r.preferred[i] = r.suite /\ r.suite \in possible
         /\ \A j \in 1 .. i - 1 : r.preferred[j] \notin possible
    /\ "tls13" \in ToSet(r.info.versions) /\ ToSet(r.info.groups) \cap SupportedGroups # {}
    /\ r.info.psks # <<>> => Last(r.hello.extensions).type = "pre_shared_key"
    /\ r.info.early => r.info.psks # <<>>
    /\ taken # None /\ taken[1].suite = r.suite /\ ~ taken[1].retry /\ taken[1].share # None

\* What the client believes the server said is about its present settings and
\* its last hello, also when settings change in the middle of a handshake and
\* when EncryptedExtensions are refused half way
\* (set_tls13_alpn_protocols, set_tls13_server_name, recv_encrypted_extensions).
LearntOfSettings ==
  /\ selected # None => alpn = <<>> \/ selected[1] \in ToSet(alpn)
  /\ acknowledged => name # None
  /\ earlyAccepted => sent # None /\ Has(sent[1].hello.extensions, "early_data")
=============================================================================

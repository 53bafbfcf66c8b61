----------------------------- MODULE Negotiation ----------------------------
(***************************************************************************)
(* What the hellos and EncryptedExtensions say: a client builds a hello of *)
(* its settings, a server reads it, chooses a suite and answers, and the   *)
(* client takes the answer, with settings that change between any two of   *)
(* these.  The rest of the handshake is that of Tls13Connection.           *)
(*                                                                         *)
(* An extension has a type, data, and says whether its lengths add up.     *)
(* An optional value is a sequence of at most one; a hello that cannot be  *)
(* built or read is None.                                                  *)
(***************************************************************************)
EXTENDS Integers, Sequences, SequencesExt

CONSTANTS
  Names,         \* server names a client is configured with
  BadName,       \* a name that is_valid_sni_dns_name refuses
  AlpnLists,     \* lists of protocols a client is configured with
  Preferences,   \* lists of suites a server prefers
  TicketLists,   \* non-empty lists of tickets [id, early] a client resumes with
  MaxHellos      \* bound: ClientHellos sent

None == <<>>
Some(x) == <<x>>
OnlyIf(condition, x) == IF condition THEN Some(x) ELSE None

Tls13Suites == {"aes128gcm", "aes256gcm", "chacha20"}
Tls12Suites == {"ecdhe_aes128gcm", "ecdhe_aes256gcm"}
Suites == Tls13Suites \cup Tls12Suites

\* The setter of protocols refuses empty and repeated ones.  A list of tickets
\* has none twice: a server refuses a hello with one identity twice.
ASSUME NegotiationAssumption ==
  /\ BadName \notin Names /\ MaxHellos \in Nat
  /\ AlpnLists \subseteq Seq(STRING)
  /\ \A list \in AlpnLists : IsInjective(list) /\ "" \notin ToSet(list)
  /\ Preferences \subseteq Seq(Suites)
  /\ TicketLists \subseteq Seq([id : STRING, early : BOOLEAN]) \ {<<>>}
  /\ \A tickets \in TicketLists : IsInjective([i \in DOMAIN tickets |-> tickets[i].id])

SupportedGroups == {"x25519", "secp256r1", "mlkem768", "x25519_mlkem768"}
SupportedSchemes ==
  {"ecdsa_p256", "rsa_pss_sha256", "rsa_pss_sha384", "ed25519", "mldsa65"}

\* The hash of a connection that has chosen a suite, or none yet.
HashOf(chosen) ==
  IF chosen = None \/ chosen[1] \in {"aes256gcm", "ecdhe_aes256gcm"}
  THEN "sha384" ELSE "sha256"

Extension(type, data) == [type |-> type, sound |-> TRUE, data |-> data]
Has(extensions, type) == \E i \in DOMAIN extensions : extensions[i].type = type
DataOf(extensions, type, default) ==
  IF Has(extensions, type)
  THEN extensions[CHOOSE i \in DOMAIN extensions : extensions[i].type = type].data
  ELSE default

-----------------------------------------------------------------------------
(***************************************************************************)
(* The ClientHello.  An offer has the fields name, stapling, alpn, early   *)
(* and psks, a sequence of [identity, binder].                             *)
(***************************************************************************)

DefaultClientCipherSuites(version) ==
  IF version = "tls13" THEN <<"aes256gcm", "aes128gcm", "chacha20">>
  ELSE <<"ecdhe_aes256gcm", "ecdhe_aes128gcm">>

ClientKeyShare == <<"x25519", "secp256r1", "mlkem768", "x25519_mlkem768">>
SchemesOffered ==
  <<"ecdsa_p256", "rsa_pss_sha256", "rsa_pss_sha384", "ed25519", "mldsa65">>

BuildClientHelloExtensions(version, offer) ==
  IF version = "tls12"
  THEN <<Extension("signature_algorithms", <<"rsa_pkcs1_sha256">>)>>
  ELSE <<Extension("supported_versions", <<"tls13", "tls12">>),
         Extension("signature_algorithms", SchemesOffered),
         Extension("key_share", ClientKeyShare)>>
       \o OnlyIf(offer.name # None, Extension("server_name", offer.name))
       \o OnlyIf(offer.stapling, Extension("status_request", <<"ocsp">>))
       \o OnlyIf(offer.alpn # <<>>, Extension("alpn", offer.alpn))
       \o OnlyIf(offer.early, Extension("early_data", <<>>))
       \o OnlyIf(offer.psks # <<>>,
                 Extension("psk_key_exchange_modes", <<"psk_dhe_ke">>))
       \o OnlyIf(offer.psks # <<>>, Extension("pre_shared_key", offer.psks))

ClientHello(version, offer) ==
  [suites |-> DefaultClientCipherSuites(version),
   extensions |-> BuildClientHelloExtensions(version, offer)]

\* Binders are zero while they are computed, over the hello that has them.
Zero == "zero"
WithBinders(psks, binders) ==
  [i \in DOMAIN psks |-> [identity |-> psks[i].identity, binder |-> binders[i]]]
Zeroed(e) ==
  IF e.type # "pre_shared_key" THEN e
  ELSE [type |-> e.type, sound |-> e.sound,
        data |-> WithBinders(e.data, [i \in DOMAIN e.data |-> Zero])]
ZeroBinders(hello) ==
  [suites |-> hello.suites,
   extensions |-> [i \in DOMAIN hello.extensions |-> Zeroed(hello.extensions[i])]]

\* compute_tls13_psk_binder; a key is named by the ticket it belongs to.
Binder(hash, psk, hello) == [hash |-> hash, psk |-> psk, over |-> hello]

\* A faulty variant: the binders are those of a hello without early data.
ResumptionHelloEarlier(hash, offer, tickets) ==
  LET zeros == [i \in DOMAIN tickets |-> [identity |-> tickets[i].id, binder |-> Zero]]
      placeholder == ClientHello("tls13", [offer EXCEPT !.psks = zeros])
  IN ClientHello("tls13",
       [offer EXCEPT !.early = \E t \in ToSet(tickets) : t.early,
                     !.psks = WithBinders(zeros,
          [i \in DOMAIN tickets |-> Binder(hash, tickets[i].id, placeholder)])])

\* send_client_hello_with_resumption_tickets_with_ages; one ticket is
\* send_client_hello_with_psk_internal.
ResumptionHello(hash, offer, tickets) ==
  LET early == \E t \in ToSet(tickets) : t.early
      zeros == [i \in DOMAIN tickets |-> [identity |-> tickets[i].id, binder |-> Zero]]
      placeholder == ClientHello("tls13", [offer EXCEPT !.early = early, !.psks = zeros])
  IN ClientHello("tls13",
       [offer EXCEPT !.early = early, !.psks = WithBinders(zeros,
          [i \in DOMAIN tickets |-> Binder(hash, tickets[i].id, placeholder)])])

SoundAlpn(protocols) ==
  protocols # <<>> /\ IsInjective(protocols) /\ "" \notin ToSet(protocols)

SoundClientExtension(e) ==
  /\ e.sound
  /\ CASE e.type = "supported_versions" -> IsInjective(e.data)
       [] e.type = "signature_algorithms" -> e.data # <<>>
       [] e.type = "key_share" -> IsInjective(e.data)
       [] e.type = "server_name" -> e.data # <<BadName>>
       [] e.type = "status_request" -> e.data = <<"ocsp">>
       [] e.type = "alpn" -> SoundAlpn(e.data)
       [] e.type = "early_data" -> e.data = <<>>
       [] e.type = "psk_key_exchange_modes" -> "psk_dhe_ke" \in ToSet(e.data)
       [] e.type = "pre_shared_key" ->
            e.data # <<>> /\ IsInjective([i \in DOMAIN e.data |-> e.data[i].identity])
       [] OTHER -> TRUE

\* parse_client_hello_extensions: in the order they come, then together.
ClientExtensionsAccepted(extensions) ==
  LET advertises == "tls13" \in ToSet(DataOf(extensions, "supported_versions", <<>>))
      seen(type) == Has(extensions, type)
  IN
  /\ \A i \in DOMAIN extensions :
       /\ \A j \in 1 .. i - 1 : extensions[j].type # extensions[i].type
       /\ \A j \in 1 .. i - 1 : extensions[j].type # "pre_shared_key"
       /\ SoundClientExtension(extensions[i])
  /\ seen("pre_shared_key") <=> seen("psk_key_exchange_modes")
  /\ seen("early_data") => seen("pre_shared_key")
  /\ seen("key_share") => DataOf(extensions, "key_share", <<>>) # <<>>
  /\ seen("pre_shared_key") \/ seen("key_share") => advertises
  /\ advertises => seen("signature_algorithms") /\ seen("key_share")
  /\ seen("pre_shared_key") => seen("key_share")

\* parse_client_hello_info; unknown suites are passed over, and the order of
\* the others is of no use to a server.
ParseClientHello(hello) ==
  LET x == hello.extensions
      known == ToSet(hello.suites) \cap Suites
      data(type) == DataOf(x, type, <<>>)
  IN
  OnlyIf(known # {} /\ ClientExtensionsAccepted(x),
    [suites |-> known, versions |-> data("supported_versions"),
     schemes |-> data("signature_algorithms"), groups |-> data("key_share"),
     name |-> data("server_name"), alpn |-> data("alpn"),
     stapling |-> Has(x, "status_request"), early |-> Has(x, "early_data"),
     psks |-> data("pre_shared_key")])

\* verify_client_hello_psk_binder: the first binder, over the hello with every
\* binder zeroed.
BinderVerifies(hash, psk, hello) ==
  LET psks == DataOf(hello.extensions, "pre_shared_key", <<>>) IN
  psks # <<>> /\ Head(psks).binder = Binder(hash, psk, ZeroBinders(hello))

-----------------------------------------------------------------------------
(***************************************************************************)
(* The server's answer.                                                    *)
(***************************************************************************)

SuiteSupportedByVersion(suite, version) ==
  suite \in (IF version = "tls13" THEN Tls13Suites ELSE Tls12Suites)

\* tls13_client_hello_offers_supported_key_exchange
OffersSupportedKeyExchange(info) ==
  /\ "tls13" \in ToSet(info.versions)
  /\ ToSet(info.groups) \cap SupportedGroups # {}
  /\ ToSet(info.schemes) \cap SupportedSchemes # {}

SuiteAllowedByExtensions(suite, version, info) ==
  version = "tls13" /\ suite \in Tls13Suites => OffersSupportedKeyExchange(info)

\* A faulty variant: the first suite that the client has, of any version.
PickIntersectionSuiteAnyVersion(info, preferred, version) ==
  LET first == SelectInSeq(preferred, LAMBDA s :
        s \in info.suites /\ SuiteAllowedByExtensions(s, version, info))
  IN OnlyIf(first # 0, preferred[first])

PickIntersectionSuite(info, preferred, version) ==
  LET first == SelectInSeq(preferred, LAMBDA s :
        /\ s \in info.suites
        /\ SuiteSupportedByVersion(s, version)
        /\ SuiteAllowedByExtensions(s, version, info))
  IN OnlyIf(first # 0, preferred[first])

\* A share is well formed when its key has the length of its group.
Share(group) == [group |-> group, fits |-> TRUE]

\* encode_server_hello_body_with_key_share; the share is X25519 unless the
\* caller brings one.
BuildServerHello(version, suite, share) ==
  LET used == IF share = None THEN Share("x25519") ELSE share[1] IN
  IF version = "tls13" /\ ~ (used.fits /\ used.group \in SupportedGroups) THEN None
  ELSE Some([form |-> "full", legacy |-> "0303", retry |-> FALSE, suite |-> suite,
             extensions |-> IF version = "tls12" THEN <<>>
                            ELSE <<Extension("supported_versions", <<"tls13">>),
                                   Extension("key_share", <<used>>)>>])

BuildHelloRetryRequest(suite, group) ==
  [form |-> "full", legacy |-> "0303", retry |-> TRUE, suite |-> suite,
   extensions |-> <<Extension("key_share", <<group>>)>>]

SoundServerExtension(e, retry) ==
  /\ e.type \notin {"signature_algorithms", "psk_key_exchange_modes", "server_name"}
  /\ e.type = "supported_versions" => e.sound /\ e.data = <<"tls13">>
  /\ e.type = "key_share" =>
       e.sound /\ (~ retry => e.data[1].fits /\ e.data[1].group \in SupportedGroups)

\* parse_server_hello; a hello of three bytes has a suite and nothing else.
ParseServerHello(hello) ==
  LET x == hello.extensions
      share == DataOf(x, "key_share", None)
  IN
  IF hello.form = "short"
  THEN OnlyIf(hello.suite \in Suites,
              [suite |-> hello.suite, share |-> None, retry |-> FALSE, group |-> None])
  ELSE OnlyIf(
    /\ hello.suite \in Suites
    /\ hello.suite \in Tls13Suites => hello.legacy \in {"0303", "FEFD"}
    /\ \A i \in DOMAIN x : /\ \A j \in 1 .. i - 1 : x[j].type # x[i].type
                           /\ SoundServerExtension(x[i], hello.retry)
    /\ hello.retry => Has(x, "key_share")
    /\ ~ hello.retry /\ hello.suite \in Tls13Suites /\ hello.legacy = "0303" =>
         Has(x, "supported_versions") /\ Has(x, "key_share"),
    [suite |-> hello.suite, retry |-> hello.retry,
     share |-> IF hello.retry THEN None ELSE share,
     group |-> IF hello.retry THEN share ELSE None])

\* build_encrypted_extensions_with_policy
BuildEncryptedExtensions(protocol, acknowledge, acceptEarly) ==
  OnlyIf(protocol # None, Extension("alpn", protocol))
    \o OnlyIf(acknowledge, Extension("server_name", <<>>))
    \o OnlyIf(acceptEarly, Extension("early_data", <<>>))

EncryptedExtensionsAccepted(extensions) ==
  \A i \in DOMAIN extensions :
    LET e == extensions[i] IN
    /\ \A j \in 1 .. i - 1 : extensions[j].type # e.type
    /\ e.type \notin {"supported_versions", "key_share", "pre_shared_key",
                      "psk_key_exchange_modes"}
    /\ e.type \in {"server_name", "early_data"} => e.data = <<>>
    /\ e.type = "alpn" => e.sound /\ SoundAlpn(e.data) /\ Len(e.data) = 1
=============================================================================

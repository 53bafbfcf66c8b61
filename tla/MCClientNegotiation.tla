------------------------ MODULE MCClientNegotiation -------------------------
(***************************************************************************)
(* Model checking of ClientNegotiation: two hellos of a client with one    *)
(* name and two protocols, a server that reads them as sent or with one    *)
(* extension removed, repeated, moved or changed.                          *)
(***************************************************************************)
EXTENDS ClientNegotiation

MCAlpnLists == {<<"h2">>, <<"http", "h2">>}
MCPreferences ==
  {<<"aes128gcm", "ecdhe_aes256gcm", "aes256gcm">>,
   <<"ecdhe_aes256gcm", "chacha20", "aes256gcm">>}
MCServerShares ==
  {None, Some(Share("secp256r1")), Some([Share("x25519") EXCEPT !.fits = FALSE])}
MCTicketLists ==
  {<<[id |-> "t1", early |-> FALSE], [id |-> "t2", early |-> TRUE]>>}

\* A hello as sent, or with one extension removed, repeated at the end,
\* exchanged with the next, or with lengths that do not add up, or with other
\* suites, groups or versions.
MCAlterations ==
  [how : {"removed", "repeated", "exchanged", "unsound"}, at : 1 .. 9]
    \cup [how : {"none", "suites", "groups", "versions"}, at : {0}]
MCAltered(hello, alteration) ==
  LET x == hello.extensions
      i == alteration.at
      y == CASE alteration.how = "groups" -> [x EXCEPT ![3].data = <<"x448">>]
             [] alteration.how = "versions" -> [x EXCEPT ![1].data = <<"tls12">>]
             [] i \in DOMAIN x /\ alteration.how = "removed" -> RemoveAt(x, i)
             [] i \in DOMAIN x /\ alteration.how = "repeated" -> Append(x, x[i])
             [] i \in DOMAIN x /\ alteration.how = "unsound" -> [x EXCEPT ![i].sound = FALSE]
             [] i + 1 \in DOMAIN x /\ alteration.how = "exchanged" ->
                  [x EXCEPT ![i] = x[i + 1], ![i + 1] = x[i]]
             [] OTHER -> x
  IN [suites |-> IF alteration.how = "suites"
                 THEN <<"grease", "ecdhe_aes256gcm", "aes256gcm">> ELSE hello.suites,
      extensions |-> y]

ServerHello(legacy, retried, chosen, extensions) ==
  [form |-> "full", legacy |-> legacy, retry |-> retried, suite |-> chosen,
   extensions |-> extensions]
MCForeignServerHellos ==
  {BuildHelloRetryRequest("aes128gcm", "secp256r1"),
   BuildHelloRetryRequest("aes128gcm", "x448"),
   ServerHello("0303", TRUE, "aes128gcm", <<>>),
   ServerHello("0303", FALSE, "aes128gcm", <<Extension("supported_versions", <<"tls13">>)>>),
   ServerHello("FEFD", FALSE, "aes128gcm", <<>>),
   ServerHello("0303", FALSE, "ecdhe_aes128gcm", <<Extension("server_name", <<>>)>>),
   [ServerHello("0303", FALSE, "chacha20", <<>>) EXCEPT !.form = "short"]}
MCForeignExtensions ==
  {<<Extension("alpn", <<"gopher">>)>>, <<Extension("alpn", <<"h2", "http">>)>>,
   <<Extension("key_share", <<>>)>>,
   <<Extension("early_data", <<>>), Extension("early_data", <<>>)>>,
   <<Extension("other", <<>>), Extension("server_name", <<>>), Extension("early_data", <<>>)>>}
=============================================================================

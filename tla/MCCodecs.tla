------------------------------- MODULE MCCodecs -----------------------------
(***************************************************************************)
(* The byte layouts on bounded inputs: every small value is encoded and    *)
(* parsed again, every short byte string is parsed.  A job is one call or  *)
(* one pair of calls.  The functions keep no state: a step is the call, and *)
(* what it must yield is said of the step.                                 *)
(***************************************************************************)
EXTENDS HandshakeBodies, Records, MCCiphers, MCNumbers

LOCAL INSTANCE SequencesExt

VARIABLE done \* whether the call was made
vars == <<job, done>>

Encode(kind, v) ==
  CASE kind = "handshake" -> Some(EncodeHandshake(v[1], v[2]))
    [] kind = "numbers" -> Some(Vector(U16, EncodedNumbers(v, U16)))
    [] kind = "modes" -> Some(Vector(U8, v))
    [] kind = "versions" -> Some(Vector(U8, EncodedNumbers(v, U16)))
    [] kind = "extensions" ->
         Some(FlattenSeq([i \in DOMAIN v |-> PushExtension(v[i][1], v[i][2])]))
    [] kind = "alpn" -> EncodeAlpn(v)
    [] kind = "server name" -> EncodeServerName(v)
    [] kind = "psk" -> EncodePreSharedKey(v)
    [] kind = "signature" -> EncodeSignature(v.scheme, v.signature)
    [] kind = "certificates12" ->
         Some(Vector(U24, FlattenSeq([i \in DOMAIN v |-> Vector(U24, v[i])])))
    [] kind = "certificate13" -> EncodeCertificate(v.certificates[1], v.staple)
    [] kind = "record13" -> EncodeTls13Record(v)
    [] kind = "record12" -> EncodeTls12Record(v.type, v.record)
    [] kind = "datagram" -> EncodeDtlsRecord(v, v.payload)
    [] kind = "fragment" -> EncodeFragment(v)
    [] kind = "key shares" -> Some(EncodeKeyShares(v))
    [] kind = "ticket" -> EncodeNewSessionTicket(v[1], v[2], v[3], v[4])
    [] kind = "request" -> Some(EncodeCertificateRequest(v))
    [] kind = "status request" -> Some(EncodeStatusRequest)
    [] kind \in FormatKinds -> EncodeFormat(kind, v)
    [] kind \in CipherKinds -> EncodeCipher(kind, v)

Parse(kind, s) ==
  CASE kind = "handshake" ->
         LET h == ParseHandshake(s) IN
         IF h = None THEN None ELSE Some(<<h[1].type, h[1].body>>)
    [] kind = "numbers" -> ParseU16Vector(s)
    [] kind = "modes" -> ParseU8Vector(s)
    [] kind = "versions" -> ParseSupportedVersions(s)
    [] kind = "extensions" -> ParseExtensions(s)
    [] kind = "alpn" -> ParseAlpn(s)
    [] kind = "server name" -> ParseServerName(s)
    [] kind = "psk" -> ParsePreSharedKey(s)
    [] kind = "signature" -> ParseSignature(s)
    [] kind = "certificates12" -> ParseTls12Certificates(s)
    [] kind = "certificate13" -> ParseCertificate(s)
    [] kind = "record13" -> ParseTls13Record(s)
    [] kind = "record12" -> ParseTls12Record(s, FALSE)
    [] kind = "datagram" -> ParseDtlsRecord(s)
    [] kind = "fragment" -> ParseFragment(s)
    [] kind = "key shares" -> ParseKeyShareGroups(s)
    [] kind = "ticket" -> ParseNewSessionTicket(s)
    [] kind = "request" -> ParseCertificateRequest(s)
    [] kind = "status request" -> ParseStatusRequest(s)
    [] kind = "key exchange" -> ParseServerKeyExchange(s)
    [] kind \in FormatKinds -> ParseFormat(kind, s)
    [] kind \in CipherKinds -> ParseCipher(kind, s)

\* What the parser keeps of a value.
Kept(kind, v) ==
  CASE kind = "key shares" -> [i \in DOMAIN v |-> v[i].group]
    [] kind \in {"ticket", "request", "status request"} -> TRUE
    [] kind \in FormatKinds -> KeptFormat(kind, v)
    [] kind \in CipherKinds -> KeptCipher(kind, v)
    [] OTHER -> v

-----------------------------------------------------------------------------
(***************************************************************************)
(* The values that are encoded, all of which fit.                          *)
(***************************************************************************)

NonEmpty(S) == S \ {<<>>}
Lists(S, n) == {list \in Strings(S, n) : IsInjective(list)}
Identities == {<<1>>, <<2, 0>>, <<>>}
Offer(i, a, b) == [identity |-> i, age |-> a, binder |-> b]
PayloadRecords == [ciphertext : Bits(2), tag : [1 .. TagLen -> {0, 1}]]
Extensions2 == Lists({0, 1, StatusRequest} \X Bits(2), 2)

ToEncode ==
  \/ \E type \in {0, 3}, body \in Strings({0, 1}, 5) :
       job = <<"encode", "handshake", <<type, body>>>>
  \/ \E kind \in {"numbers", "versions"}, v \in Lists(0 .. 4, 3) :
       job = <<"encode", kind, v>>
  \/ \E v \in Lists({0, 1, 3}, 3) \ {<<>>} : job = <<"encode", "modes", v>>
  \/ \E v \in Extensions2 :
       /\ \A i, j \in DOMAIN v : v[i][1] = v[j][1] => i = j
       /\ job = <<"encode", "extensions", v>>
  \/ \E v \in Strings(Bits(2), 3) : job = <<"encode", "alpn", v>>
  \/ \E v \in Strings({1, Dot, Hyphen, Control}, 6) :
       job = <<"encode", "server name", v>>
  \/ \E i, j \in Identities, a, b \in {0, 5}, c, d \in Bits(2), n \in 0 .. 2 :
       /\ i # j
       /\ job = <<"encode", "psk", Take(<<Offer(i, a, c), Offer(j, b, d)>>, n)>>
  \/ \E scheme \in ModernSchemes, signature \in Bits(3) :
       job = <<"encode", "signature", [scheme |-> scheme, signature |-> signature]>>
  \/ \E v \in Strings(NonEmpty(Bits(2)), 2) \ {<<>>} :
       job = <<"encode", "certificates12", v>>
  \/ \E cert \in Bits(2), staple \in {None} \cup {Some(s) : s \in Bits(2)} :
       job = <<"encode", "certificate13",
               [certificates |-> <<cert>>, staple |-> staple]>>
  \/ \E record \in PayloadRecords :
       \/ job = <<"encode", "record13", record>>
       \/ \E type \in ContentTypes :
            job = <<"encode", "record12", [type |-> type, record |-> record]>>
  \/ \E type \in ContentTypes, epoch \in {0, 1, 31}, sequence \in {0, 1, 31, 32},
        payload \in Bits(3) :
       job = <<"encode", "datagram",
               [type |-> type, version |-> DtlsVersion, epoch |-> epoch,
                sequence |-> sequence, payload |-> payload]>>
  \/ \E total, offset \in 0 .. 4, body \in Bits(4), seq \in {0, 2} :
       job = <<"encode", "fragment",
               [type |-> 1, seq |-> seq, total |-> total, offset |-> offset,
                body |-> body]>>
  \/ FormatsToEncode
  \/ CiphersToEncode

(***************************************************************************)
(* The byte strings that are parsed: per kind, over the bytes that say     *)
(* something to it and long enough for two items where it has items.       *)
(***************************************************************************)

Parsed == <<
  <<"handshake", {0, 1, 2}, 6>>, <<"numbers", {0, 1, 2, 3}, 5>>,
  <<"modes", {0, 1, 2, 3}, 5>>, <<"versions", {0, 1, 2, 3}, 5>>,
  <<"extensions", {0, 1, 2}, 8>>, <<"alpn", {0, 1, 2, 4}, 6>>,
  <<"server name", {0, 1, 4, 6, Dot}, 6>>, <<"psk", {0, 1, 2, 3}, 7>>,
  <<"signature", {0, 1, 2, 3}, 5>>, <<"certificates12", {0, 1, 3, 6}, 8>>,
  <<"record13", {1, 2, 3, ApplicationData}, 6>>,
  <<"record12", {0, 1, 2, 3}, 6>>, <<"datagram", {0, 1, 2}, 8>>,
  <<"fragment", {0, 1, 2}, 7>>, <<"node", {0, 1, 2, Half, Half + 1, Base - 1}, 5>>,
  <<"integer", {0, 1, TagInteger, 3, Half}, 5>> >>

KeyExchanges == Strings({0, 1, 2, NamedCurve}, 8)
ToParse ==
  \/ \E s \in KeyExchanges : job = <<"judge", "key exchange", s>>
  \/ \E i \in DOMAIN Parsed : \E s \in Strings(Parsed[i][2], Parsed[i][3]) :
       job = <<"parse", Parsed[i][1], s>>
  \/ \E body \in Strings({0, 1, TagInteger, 3, Half}, 7) :
       job = <<"parse", "ecdsa", EncodeNode(TagSequence, body)>>
  \/ \E lines \in UNION {[1 .. n -> TextLines] : n \in 1 .. 4} :
       job = <<"judge", "pem", lines>>
  \/ CiphersToParse

\* Two DTLS records, and two TLS ones, under one initialization vector.
ToSeal ==
  \/ \E iv \in [1 .. IvLen -> {0, 5}], epochs, sequences \in Strings({0, 1, 6, 31}, 2) :
       /\ Len(epochs) = 2 /\ Len(sequences) = 2
       /\ job = <<"seal", "nonces", <<iv, epochs, sequences>>>>
  \/ ToCount

\* Content with its type and its padding.
ToPad == \E content \in Bits(3), type \in {1, ApplicationData}, padding \in 0 .. 3 :
  job = <<"pad", "inner", <<content, type, padding>>>>

\* Fragments in any order, repeated, missing, overlapping or of two messages;
\* and a message cut up and put together.
Fragments == {f \in [type : {1}, seq : {0, 1}, total : {0, 2, 3}, offset : 0 .. 3,
                     body : Strings({1, 2}, 2) \cup {<<1, 2, 1>>}] :
                f.offset + Len(f.body) <= f.total /\ (f.total # 3 => f.seq = 0)}
ToReassemble ==
  \/ \E list \in Strings(Fragments, 3) : job = <<"reassemble", "fragments", list>>
  \/ \E body \in Strings({1, 2}, 5), limit \in 0 .. 6 :
       job = <<"reassemble", "message", <<body, limit>>>>
Limit == 3

Init ==
  /\ \/ ToCompute \/ ToMatch \/ ToSeal \/ ToDraw \/ ToPad \/ ToReassemble \/ ToEncode
     \/ ToParse
  /\ done = FALSE

Call ==
  /\ ~done
  /\ done' = TRUE
  /\ UNCHANGED job

Spec == Init /\ [][Call]_vars

Is(way, what) == job[1] = way /\ job[2] = what
-----------------------------------------------------------------------------
\* What an encoder builds, its parser accepts, as the value it was built from:
\* whatever the crate sends, the crate would understand, down to the padding
\* of a record.
RoundTrip == [][
  /\ job[1] = "encode" =>
       LET s == Encode(job[2], job[3]) IN
       s # None => Parse(job[2], s[1]) = Some(Kept(job[2], job[3]))
  /\ job[1] = "pad" =>
       ParseInner(EncodeInner(job[3][1], job[3][2], job[3][3]))
         = Some([content |-> job[3][1], type |-> job[3][2]])
]_vars

\* A parser accepts only the encoding of what it takes it for: none of the
\* bytes it is given is skipped, cut off, counted twice or left without a
\* check, and two different messages are never taken for the same.  The jobs
\* leave out the parsers that skip bytes: contexts and extensions of a
\* Certificate, NewSessionTicket, CertificateRequest, key shares, X.509.
OneEncoding == [][
  /\ job[1] = "parse" =>
       LET v == Parse(job[2], job[3]) IN
       v # None => Encode(job[2], v[1]) = Some(job[3])
  /\ Is("judge", "pem") => (Parse("pem", job[3]) # None <=> WellBracketed(job[3]))
  /\ Is("judge", "key exchange") =>
       LET s == job[3] IN
       Parse("key exchange", s) # None <=>
         \E public, signature \in 1 .. Len(s) :
           /\ Len(s) = 3 + public + 2 + signature
           /\ s[1] = NamedCurve /\ s[3] = public
           /\ s[4 + public] \in ModernSchemes /\ s[5 + public] = signature
]_vars

\* Two records of different epoch or number never share their nonce, nor two
\* blocks of one message, or one of them and its tag, their counter.  The
\* generator yields nothing twice, across seeds and refusals, and is silent
\* once it has answered as often as one seed allows.
NoncesDiffer == [][
  /\ job[1] = "draw" =>
       LET drawn == Drawn(job[2], job[3]) IN
       /\ IsInjective(FlattenSeq(drawn))
       /\ \A i \in DOMAIN drawn :
            Cardinality({j \in DrawnSince(i) : drawn[j] # <<>>}) <= ReseedInterval
  /\ Is("seal", "counters") => IsInjective(Counters(job[3][1], job[3][2], job[3][3]))
  /\ Is("seal", "nonces") =>
       LET iv == job[3][1]
           epochs == job[3][2]
           numbers == job[3][3]
       IN /\ Dtls13Nonce(iv, epochs[1], numbers[1]) = Dtls13Nonce(iv, epochs[2], numbers[2])
               => epochs[1] = epochs[2] /\ numbers[1] = numbers[2]
          /\ Nonce(iv, numbers[1]) = Nonce(iv, numbers[2]) => numbers[1] = numbers[2]
]_vars

\* A message is put together if and only if its fragments are of one message
\* within the limit and leave no gap, and every byte of it is that of the last
\* fragment that covers it.  A message that was cut up comes out whole, also
\* when its fragments come in the opposite order.
ReassembledExactly == [][
  /\ Is("reassemble", "message") =>
       LET packets == FragmentMessage(1, 0, job[3][1], job[3][2]) IN
       IF job[3][2] = 0 THEN packets = None
       ELSE Reassemble(Reverse(packets[1]), Largest(U24))
              = Some([type |-> 1, seq |-> 0, body |-> job[3][1]])
  /\ Is("reassemble", "fragments") =>
       LET list == job[3]
           Covers(i, b) == b \in list[i].offset + 1 .. list[i].offset + Len(list[i].body)
           last(b) == CHOOSE i \in DOMAIN list :
             Covers(i, b) /\ \A j \in DOMAIN list : Covers(j, b) => j <= i
           accepted ==
             /\ list # <<>> /\ list[1].total <= Limit
             /\ \A i \in DOMAIN list : list[i].total = list[1].total /\ list[i].seq = list[1].seq
             /\ \A b \in 1 .. list[1].total : \E i \in DOMAIN list : Covers(i, b)
       IN Reassemble([i \in DOMAIN list |-> EncodeFragment(list[i])[1]], Limit)
            = IF accepted
              THEN Some([type |-> 1, seq |-> list[1].seq,
                         body |-> [b \in 1 .. list[1].total |->
                                     list[last(b)].body[b - list[last(b)].offset]]])
              ELSE None
]_vars

\* A name stands for exactly the hosts that it should: itself, whatever its
\* case, and with a star for its first label those with one label more than
\* the two or more that follow; names count before the subject's, which
\* counts only when there are none.
HostnameExact == [][
  /\ Is("match", "name") =>
       (NameMatches(job[3][1], job[3][2]) <=> StandsFor(job[3][1], job[3][2]))
  /\ Is("match", "certificate") =>
       LET names == job[3][1]
           commonName == job[3][2]
           host == job[3][3]
       IN MatchesHostname(Named(names, commonName), host) <=>
            IF names # <<>> THEN \E i \in DOMAIN names : StandsFor(names[i], host)
            ELSE StandsFor(commonName, host)
]_vars

\* Limbs compute what numbers do, carries and borrows and the correction of
\* an estimated digit included: sums, products, differences (which wrap around
\* when negative), remainders on each of the three paths, quotients, powers,
\* inverses, and a decryption from its two halves.
ArithmeticExact ==
  [][job[1] = "compute" => Computed(job[2], job[3]) = Meant(job[2], job[3])]_vars
=============================================================================

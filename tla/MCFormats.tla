------------------------------ MODULE MCFormats -----------------------------
(***************************************************************************)
(* The formats of certificates and keys on bounded inputs: what is written *)
(* and read again, with encoders of our own for what the code only reads,  *)
(* and a definition of our own of the hosts that a name stands for.        *)
(***************************************************************************)
EXTENDS X509Certificate, KeyFormats

LOCAL INSTANCE SequencesExt

VARIABLE job \* what is called, on what

Strings(alphabet, n) == UNION {[1 .. k -> alphabet] : k \in 0 .. n}
Bits(n) == Strings({0, 1}, n)

-----------------------------------------------------------------------------
(***************************************************************************)
(* The values of extensions, as RFC 5280 has them but for two wrappers.    *)
(***************************************************************************)

EachIn(Write(_), list) == FlattenSeq([i \in DOMAIN list |-> Write(list[i])])
ListOf(Write(_), list) == EncodeNode(TagSequence, EachIn(Write, list))
Integer(n) == EncodeInteger(Number(n, U32))
Pair(first, second) == EncodeNode(TagSequence, first \o second)
DnsName(name) == EncodeNode(Implicit(2), name)
Uri(uri) == EncodeNode(Implicit(6), uri)
ObjectId(oid) == EncodeNode(TagOid, oid)

ExtensionValue(oid, v) ==
  LET Optional(number, tag) ==
        IF number = None THEN <<>> ELSE EncodeNode(tag, Integer(number[1]))
      Subtree(name) == EncodeNode(TagSequence,
        DnsName(name) \o EncodeNode(Implicit(0), <<0>>))
  IN
  CASE oid = BasicConstraints ->
         Pair(IF v.ca THEN Boolean(TRUE) ELSE <<>>,
              IF v.pathLen = None THEN <<>> ELSE Integer(v.pathLen[1]))
    [] oid = KeyUsage -> EncodeBits(v)
    [] oid = SubjectAltName ->
         ListOf(LAMBDA name : EncodeNode(Implicit(1), <<1>>) \o DnsName(name), v)
    [] oid = CertificatePolicies -> ListOf(LAMBDA p : Pair(ObjectId(p), <<>>), v)
    [] oid = PolicyMappings ->
         ListOf(LAMBDA p : Pair(ObjectId(p[1]), ObjectId(p[2])), v)
    [] oid = ExtendedKeyUsage -> ListOf(ObjectId, v)
    [] oid = NameConstraints ->
         Pair(EncodeNode(Context(0), ListOf(Subtree, v.permitted)),
              EncodeNode(Context(1), ListOf(Subtree, v.excluded)))
    [] oid = PolicyConstraints ->
         Pair(Optional(v.requireExplicitPolicy, Context(0)),
              Optional(v.inhibitPolicyMapping, Context(1)))
    [] oid = InhibitAnyPolicy -> Integer(v)
    [] oid = CrlDistributionPoints ->
         ListOf(LAMBDA u : EncodeNode(TagSequence,
                  EncodeNode(Context(0), ListOf(Uri, <<u>>))), v)
    [] oid = AuthorityInfoAccess -> ListOf(LAMBDA u : Pair(Oid(1), Uri(u)), v)

WriteExtension(oid, v) ==
  Sequence(<<Sequence(<<Oid(oid), Boolean(TRUE),
                        EncodeNode(TagOctets, ExtensionValue(oid, v))>>)>>)

Lists2(S) == UNION {[1 .. n -> S] : n \in 0 .. 2}
Optionals == {None, Some(0), Some(1), Some(Half), Some(Base - 1)}
ExtensionsToEncode ==
  \/ \E ca \in BOOLEAN, p \in Optionals :
       job = <<"encode", "extension", <<BasicConstraints, [ca |-> ca, pathLen |-> p]>>>>
  \/ \E bytes \in Strings({0, 1, Half}, 2) : job = <<"encode", "extension", <<KeyUsage, bytes>>>>
  \/ \E oid \in {SubjectAltName, CertificatePolicies, ExtendedKeyUsage,
                 CrlDistributionPoints, AuthorityInfoAccess},
        list \in Lists2({<<1>>, <<1, 2>>, <<>>}) : job = <<"encode", "extension", <<oid, list>>>>
  \/ \E list \in Lists2({<<<<1>>, <<2>>>>, <<<<2>>, <<1, 1>>>>}) :
       job = <<"encode", "extension", <<PolicyMappings, list>>>>
  \/ \E p, e \in Lists2({<<1>>, <<>>}) :
       job = <<"encode", "extension", <<NameConstraints, [permitted |-> p, excluded |-> e]>>>>
  \/ \E r, i \in Optionals :
       job = <<"encode", "extension", <<PolicyConstraints, [requireExplicitPolicy |-> r, inhibitPolicyMapping |-> i]>>>>
  \/ \E n \in {0, 1, Half - 1, Half, Base - 1} : job = <<"encode", "extension", <<InhibitAnyPolicy, n>>>>

-----------------------------------------------------------------------------
(***************************************************************************)
(* What is written, and read again.                                        *)
(***************************************************************************)

PrivateLabel == LabelOf["pkcs8"]
OtherLabel == <<"OTHER">>
MCPoints == {<<4, 1, 1, 2, 2>>, <<4, 0, 0, 31, 1>>}

FormatKinds == {"node", "integer", "ecdsa", "extension", "x509", "csr", "minimal",
                "pem", "public key", "private key", "rsa key", "foreign key"}

\* Keys that are read and never written: with a private RSA key come numbers
\* that are not kept.
Foreign == {<<"pkcs1_private", "rsa">>, <<"pkcs8", "rsa">>, <<"sec1", "p256">>,
            <<"spki", "mldsa">>}
ForeignDer(form, key) ==
  LET pkcs1 == Sequence([i \in 1 .. 5 |-> EncodeInteger(<<<<0>>, key.n, <<3>>, key.d, <<5>>>>[i])])
  IN CASE form = "pkcs1_private" -> pkcs1
       [] form = "pkcs8" -> EncodePkcs8(Algorithm["rsa"], pkcs1)
       [] form = "sec1" -> EncodeSec1(key)
       [] form = "spki" -> EncodeSpki(Algorithm["mldsa"], key)

\* A signature that is one of every byte of what is signed.
MCSign(bytes) == <<0, FoldLeft(LAMBDA n, byte : (3 * n + byte) % Base, 1, bytes)>>

EncodeFormat(kind, v) ==
  CASE kind = "node" -> Some(EncodeNode(v.tag, v.body) \o v.rest)
    [] kind = "integer" -> Some(EncodeInteger(v))
    [] kind = "ecdsa" -> Some(WriteEcdsa(v[1], v[2]))
    [] kind = "extension" -> Some(WriteExtension(v[1], v[2]))
    [] kind = "x509" ->
         WriteSelfSigned(v.serial, v.name, v.validity, WriteAlgorithm(v.oid, v.null),
                         ExportPublic("x25519", v.key))
    [] kind = "csr" ->
         WriteRequest(v.name, WriteAlgorithm(v.oid, v.null), ExportPublic("x25519", v.key))
    [] kind = "minimal" -> WriteMinimal(v[1], v[2])
    [] kind = "pem" -> DerToPem(v[1], v[2])
    [] kind = "public key" -> Some(ExportPem("spki", v[1], v[2]))
    [] kind = "private key" -> Some(WriteKeyFile(<<<<>>>>, 1, v[1], v[2])[1])
    [] kind = "rsa key" -> Some(ExportPem("pkcs1_public", "rsa", v))
    [] kind = "foreign key" -> DerToPem(ForeignDer(v[1], v[3]), LabelOf[v[1]])

\* Importers of every kind are given the key; a request is no certificate.
ParseFormat(kind, s) ==
  CASE kind = "node" -> ParseNode(s)
    [] kind = "integer" ->
         LET body == Sole(s, TagInteger) IN
         IF body = None THEN None
         ELSE IF Minimal(body[1]) THEN ParseMagnitude(body[1]) ELSE None
    [] kind = "ecdsa" -> ParseEcdsa(s, ScalarLen)
    [] kind = "extension" -> ParseCertificateExtensions(s)
    [] kind = "x509" ->
         LET certificate == ParseX509(s)[1] IN
         IF ParseX509(s) = None THEN None
         ELSE Some([signed |-> certificate.signed, algorithm |-> certificate.algorithm,
                    verifies |-> certificate.signature = Sign(certificate.rawTbs)])
    [] kind \in {"csr", "minimal"} -> Some(ParseX509(s))
    [] kind = "pem" -> PemToDer(s, PrivateLabel)
    [] kind = "public key" -> Some([k \in DOMAIN Algorithm |-> ImportPem("spki", k, s)])
    [] kind = "private key" -> Some([k \in Exported |-> ReadKeyFile(<<s>>, 1, k)])
    [] kind = "rsa key" -> ImportPem("pkcs1_public", "rsa", s)
    [] kind = "foreign key" -> Some([f \in Foreign |-> ImportPem(f[1], f[2], s)])

NoExtensions == [oid \in Known |-> None]
KeptFormat(kind, v) ==
  CASE kind = "integer" -> Significant(v)
    [] kind = "extension" ->
         [NoExtensions EXCEPT ![v[1]] = Some(
            IF v[1] = KeyUsage THEN Value(Reverse(v[2])) ELSE v[2])]
    [] kind = "x509" ->
         LET name == Nodes(WriteName(v.name))[1][1].body
             serial == Significant(v.serial)
         IN [signed |-> [version |-> 3,
                         serial |-> IF Head(serial) >= Half THEN <<0>> \o serial ELSE serial,
                         algorithm |-> <<v.oid>>, issuer |-> name, validity |-> v.validity,
                         subject |-> name,
                         key |-> [algorithm |-> <<OidX25519>>, key |-> v.key],
                         extensions |-> [NoExtensions EXCEPT ![BasicConstraints] =
                           Some([ca |-> TRUE, pathLen |-> None])]],
             algorithm |-> <<v.oid>>, verifies |-> TRUE]
    [] kind \in {"csr", "minimal"} -> None
    [] kind = "pem" -> v[1]
    [] kind = "public key" ->
         [k \in DOMAIN Algorithm |-> IF k = v[1] THEN Some(v[2]) ELSE None]
    [] kind = "private key" ->
         [k \in Exported |-> IF k = v[1] THEN Some(v[2]) ELSE None]
    [] kind = "foreign key" ->
         [f \in Foreign |-> IF f = <<v[1], v[2]>> THEN Some(v[3]) ELSE None]
    [] OTHER -> v

Scalars == [1 .. ScalarLen -> {0, 1, Half, Base - 1}]
RsaKeys == {[n |-> n, e |-> e] : n \in {<<1, 1>>, <<Half, 3>>}, e \in {<<3>>, <<Half + 1>>}}
Moments == {<<0, Zulu>>, <<1, 0, Zulu>>}
FormatsToEncode ==
  \/ \E tag \in {TagNull, TagInteger}, rest \in Bits(1),
        n \in {0, 1, Half - 1, Half, Base - 1, Base, Base + 1} :
       job = <<"encode", "node", [tag |-> tag, body |-> [i \in 1 .. n |-> 1], rest |-> rest]>>
  \/ \E bytes \in Strings({0, 1, Half - 1, Half}, 4) \ {<<>>} :
       job = <<"encode", "integer", bytes>>
  \/ \E r, s \in Scalars : job = <<"encode", "ecdsa", <<r, s>>>>
  \/ ExtensionsToEncode
  \/ \E serial \in {<<>>, <<1>>, <<0, 0, Half>>}, name \in {<<>>, <<1>>, <<1, Dot, 1>>},
        times \in [1 .. 2 -> Moments \cup {<<0, 0>>, <<Zulu>>}], rsa \in BOOLEAN,
        key \in {[i \in 1 .. ScalarLen |-> 1]}, kind \in {"x509", "csr"} :
       job = <<"encode", kind,
               [serial |-> serial, name |-> name, validity |-> times,
                oid |-> IF rsa THEN OidRsa ELSE OidEc, null |-> rsa, key |-> key]>>
  \/ \E serial \in {<<>>, <<1>>}, rest \in {<<>>, EncodeInteger(<<1>>)} :
       job = <<"encode", "minimal", <<serial, rest>>>>
  \/ \E der \in Strings({0, 1, 255}, 7), label \in {<<>>, <<ControlMark>>, PrivateLabel} :
       job = <<"encode", "pem", <<der, label>>>>
  \/ \E key \in RsaKeys :
       \/ job = <<"encode", "rsa key", key>>
       \/ job = <<"encode", "public key", <<"rsa", key>>>>
  \/ \E key \in Scalars, kind \in {"x25519", "ed25519", "p256"} :
       \/ /\ kind # "p256" /\ (kind = "ed25519" => ToSet(key) # {0})
          /\ job = <<"encode", "public key", <<kind, key>>>>
       \/ /\ kind = "p256" => Value(key) \in 1 .. Order - 1
          /\ job = <<"encode", "private key", <<kind, key>>>>
  \/ \E key \in [1 .. X448Len -> {0, 1, Half}], kind \in {"public key", "private key"} :
       job = <<"encode", kind, <<"x448", key>>>>
  \/ \E form \in {"pkcs1_private", "pkcs8"}, n \in {<<1, 1>>, <<Half, 3>>}, d \in {<<1>>, <<Half + 1>>} :
       job = <<"encode", "foreign key", <<form, "rsa", [n |-> n, d |-> d]>>>>
  \/ \E key \in Scalars : /\ Value(key) \in 1 .. Order - 1
                          /\ job = <<"encode", "foreign key", <<"sec1", "p256", key>>>>
  \/ \E key \in [1 .. MlDsaLen -> {0, Half}] :
       job = <<"encode", "foreign key", <<"spki", "mldsa", key>>>>
  \/ \E point \in Points : job = <<"encode", "public key", <<"p256", point>>>>

-----------------------------------------------------------------------------
(***************************************************************************)
(* Lines of text, and which of them are blocks.                            *)
(***************************************************************************)

Spaced(label) == <<Blank>> \o label \o <<Blank>>
TextLines == {MarkerLine("begin", PrivateLabel), MarkerLine("begin", OtherLabel),
              MarkerLine("begin", Spaced(PrivateLabel)), MarkerLine("begin", <<Blank>>),
              MarkerLine("end", PrivateLabel), MarkerLine("end", OtherLabel),
              TextLine(<<0, 1>>), TextLine(<<0, 16, PadMark, PadMark>>)}

\* Some block, and every line that begins one has the next mark, which ends
\* it; a block that is wanted holds base64.
WellBracketed(lines) ==
  LET marks == SelectSeq([i \in DOMAIN lines |-> i], LAMBDA i :
        lines[i].mark # "none" /\ Trim(lines[i].label) # <<>>)
      Text_(k) == FlattenSeq([i \in 1 .. marks[k + 1] - marks[k] - 1 |->
                                Characters(lines[marks[k] + i])])
      wanted == {k \in DOMAIN marks : k % 2 = 1 /\ Trim(lines[marks[k]].label) = PrivateLabel}
  IN /\ Len(marks) % 2 = 0
     /\ \A k \in DOMAIN marks :
          /\ lines[marks[k]].mark = IF k % 2 = 1 THEN "begin" ELSE "end"
          /\ k % 2 = 1 => Trim(lines[marks[k]].label) = Trim(lines[marks[k + 1]].label)
     /\ wanted # {}
     /\ \A k \in wanted : Text_(k) # <<>> /\ DecodeBase64(Text_(k)) # <<>>

-----------------------------------------------------------------------------
(***************************************************************************)
(* Hosts and the names they are known by.                                  *)
(***************************************************************************)

\* A certificate with these alternative names and this common name.
Named(names, commonName) ==
  [subject |-> Sole(WriteName(commonName), TagSequence)[1],
   extensions |-> [NoExtensions EXCEPT ![SubjectAltName] = Some(names)]]

StandsFor(pattern, host) ==
  LET p == Labels(Trimmed(Lowered(pattern)))
      h == Labels(Trimmed(Lowered(host)))
      Sound(label) ==
        /\ Len(label) \in 1 .. MaxLabel
        /\ \A i \in DOMAIN label :
             \/ label[i] = LowerCase
             \/ label[i] = Hyphen /\ i \notin {1, Len(label)}
  IN /\ \A i \in DOMAIN h : Sound(h[i])
     /\ \/ p = h
        \/ Len(p) = Len(h) /\ Len(p) >= 3 /\ p[1] = <<Star>> /\ Tail(p) = Tail(h)

ToMatch ==
  \/ \E pattern \in Strings({LowerCase, UpperCase, Dot, Star}, 5),
        host \in Strings({LowerCase, Dot}, 7) :
       job = <<"match", "name", <<pattern, host>>>>
  \/ \E name \in Strings({LowerCase, UpperCase, Dot, Star, Hyphen, Control}, 4) :
       job = <<"match", "name", <<name, name>>>>
  \/ \E names \in UNION {[1 .. n -> Strings({LowerCase, Dot, Star}, 2)] : n \in 0 .. 2},
        commonName \in Strings({LowerCase, Dot, Star}, 2),
        host \in Strings({LowerCase, UpperCase, Dot}, 2) :
       job = <<"match", "certificate", <<names, commonName, host>>>>
=============================================================================

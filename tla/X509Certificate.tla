---------------------------- MODULE X509Certificate -------------------------
(***************************************************************************)
(* What is read from a certificate, node by node, which hosts it stands    *)
(* for, and the certificates and requests that are written.                *)
(***************************************************************************)
EXTENDS Der, DnsNames

LOCAL INSTANCE SequencesExt

CONSTANTS
  MaxCertificate,  \* 1 << 20 bytes
  MaxExtensions,   \* 256
  MaxListed,       \* 256 or 1024: the entries of one list of an extension
  NotUtf8,         \* a byte that no UTF-8 text holds
  UtcTimeLen,      \* 13 and 15: the bytes of a time
  TimeLen,
  Zulu, Digits,    \* what it is written with
  OidCommonName,   \* object identifiers, each as the one byte of its body
  BasicConstraints, KeyUsage, SubjectAltName, CertificatePolicies, PolicyMappings,
  ExtendedKeyUsage, NameConstraints, PolicyConstraints, InhibitAnyPolicy,
  CrlDistributionPoints, AuthorityInfoAccess,
  Sign(_)          \* the signature of the issuer: any function of what is signed

Context(n) == TagContext + n
Implicit(n) == TagImplicit + n

Text(bytes) == OnlyIf(NotUtf8 \notin ToSet(bytes), bytes)

\* What Read makes of every node, if it makes something of each.
ReadEach(nodes, Read(_)) ==
  LET read == [i \in DOMAIN nodes |-> Read(nodes[i])] IN
  IF None \in ToSet(read) THEN None ELSE Some([i \in DOMAIN read |-> read[i][1]])

\* A list of nodes behind the tag of a sequence.
ReadList(s, Read(_)) ==
  LET nodes == SoleSequence(s) IN IF nodes = None THEN None ELSE ReadEach(nodes[1], Read)

\* A list in which only some nodes count: Read yields a sequence for each.
ReadFlat(s, Read(_)) ==
  LET read == ReadList(s, Read) IN IF read = None THEN None ELSE Some(FlattenSeq(read[1]))

Limited(list) == IF list = None THEN None ELSE OnlyIf(Len(list[1]) <= MaxListed, list[1])

Body(node, tag) == OnlyIf(node.tag = tag, node.body)

\* The text of a node of this tag, nothing of others.
TextOf(node, tag) ==
  IF node.tag # tag THEN Some(<<>>)
  ELSE IF Text(node.body) = None THEN None ELSE Some(<<node.body>>)

\* The nodes of a node that is a sequence.
Within(node) == IF node.tag # TagSequence THEN None ELSE Nodes(node.body)

-----------------------------------------------------------------------------
(***************************************************************************)
(* The values of the extensions.                                           *)
(***************************************************************************)

\* parse_basic_constraints
ReadBasicConstraints(s) ==
  LET nodes == SoleSequence(s)
      ca == nodes # None /\ nodes[1] # <<>> /\ nodes[1][1].tag = TagBoolean
      rest == IF ca THEN Tail(nodes[1]) ELSE nodes[1]
  IN
  IF nodes = None THEN None
  ELSE IF ca /\ Len(nodes[1][1].body) # 1 THEN None
  ELSE IF rest = <<>>
       THEN Some([ca |-> ca /\ nodes[1][1].body # <<0>>, pathLen |-> None])
  ELSE OnlyIf(Len(rest) = 1 /\ rest[1].tag = TagInteger /\ ParseU32(rest[1].body) # None,
              [ca |-> ca /\ nodes[1][1].body # <<0>>, pathLen |-> ParseU32(rest[1].body)])

\* parse_key_usage: the bytes as a number, the first one lowest, and only as
\* many of its lowest bits as there are bits in use.
ReadKeyUsage(s) ==
  LET bits == Sole(s, TagBits)
      unused == Head(bits[1])
      bytes == Tail(bits[1])
      used == BitsPerByte * Len(bytes) - unused
      value == Value(Reverse(bytes))
  IN
  IF bits = None \/ bits = <<<<>>>> THEN None
  ELSE OnlyIf(
    /\ unused < BitsPerByte
    \* More bytes than two, and unused bits of none: an overflow in the code.
    /\ Len(bytes) <= 2 /\ used >= 0,
    IF unused = 0 THEN value ELSE value % 2 ^ used)

\* parse_subject_alt_name_dns
ReadSubjectAltName(s) == Limited(ReadFlat(s, LAMBDA n : TextOf(n, Implicit(2))))

\* parse_certificate_policies: no qualifiers
ReadCertificatePolicies(s) ==
  Limited(ReadList(s, LAMBDA n :
    LET info == Within(n) IN
    IF info = None THEN None
    ELSE OnlyIf(Tags(info[1]) = <<TagOid>>, info[1][1].body)))

\* parse_policy_mappings
ReadPolicyMappings(s) ==
  Limited(ReadList(s, LAMBDA n :
    LET pair == Within(n) IN
    IF pair = None THEN None
    ELSE OnlyIf(Tags(pair[1]) = <<TagOid, TagOid>>, <<pair[1][1].body, pair[1][2].body>>)))

\* parse_extended_key_usage
ReadExtendedKeyUsage(s) == Limited(ReadList(s, LAMBDA n : Body(n, TagOid)))

\* parse_general_subtrees_dns: the bounds behind a base are read and dropped.
ReadSubtrees(s) ==
  ReadFlat(s, LAMBDA n :
    LET subtree == Within(n) IN
    IF subtree = None \/ subtree = <<<<>>>> THEN None
    ELSE IF \E i \in 2 .. Len(subtree[1]) :
              \/ subtree[1][i].tag \notin {Implicit(0), Implicit(1)}
              \/ ParseU32(subtree[1][i].body) = None
         THEN None
    ELSE TextOf(subtree[1][1], Implicit(2)))

\* parse_name_constraints: both lists, in which all subtrees of a kind join.
ReadNameConstraints(s) ==
  LET Kind(n) == n.tag - TagContext
      nodes == ReadList(s, LAMBDA n :
        IF Kind(n) \notin {0, 1} \/ ReadSubtrees(n.body) = None THEN None
        ELSE Some(<<Kind(n), ReadSubtrees(n.body)[1]>>))
      Joined(kind) == FlattenSeq(
        [i \in DOMAIN nodes[1] |-> IF nodes[1][i][1] = kind THEN nodes[1][i][2] ELSE <<>>])
  IN
  IF nodes = None THEN None
  ELSE OnlyIf(Len(Joined(0)) <= MaxListed /\ Len(Joined(1)) <= MaxListed,
              [permitted |-> Joined(0), excluded |-> Joined(1)])

\* parse_policy_constraint_skip_certs: bare, or an integer inside.
SkipCerts(n) ==
  IF n.tag \in {Implicit(0), Implicit(1)} THEN ParseU32(n.body)
  ELSE LET inner == Sole(n.body, TagInteger) IN
       IF inner = None THEN None ELSE ParseU32(inner[1])

\* parse_policy_constraints: of a field that is there twice the last one counts.
ReadPolicyConstraints(s) ==
  LET Kind(n) == IF n.tag >= TagContext THEN n.tag - TagContext ELSE n.tag - TagImplicit
      nodes == ReadList(s, LAMBDA n :
        IF Kind(n) \notin {0, 1} \/ SkipCerts(n) = None THEN None
        ELSE Some(<<Kind(n), SkipCerts(n)[1]>>))
      Last_(kind) ==
        LET of == SelectSeq(nodes[1], LAMBDA x : x[1] = kind) IN
        IF of = <<>> THEN None ELSE Some(Last(of)[2])
  IN
  IF nodes = None THEN None
  ELSE Some([requireExplicitPolicy |-> Last_(0), inhibitPolicyMapping |-> Last_(1)])

\* parse_inhibit_any_policy
ReadInhibitAnyPolicy(s) ==
  LET skip == Sole(s, TagInteger) IN IF skip = None THEN None ELSE ParseU32(skip[1])

\* parse_crl_distribution_points
ReadCrlDistributionPoints(s) ==
  Limited(ReadFlat(s, LAMBDA point :
    LET fields == Within(point)
        names == ReadEach(
          SelectSeq(fields[1], LAMBDA f : f.tag = Context(0)),
          LAMBDA f : ReadFlat(f.body, LAMBDA n : TextOf(n, Implicit(6))))
    IN
    IF fields = None THEN None
    ELSE IF names = None THEN None ELSE Some(FlattenSeq(names[1]))))

\* parse_authority_info_access
ReadAuthorityInfoAccess(s) ==
  Limited(ReadFlat(s, LAMBDA description :
    LET parts == Within(description) IN
    IF parts = None THEN None
    ELSE IF Len(parts[1]) # 2 THEN None ELSE TextOf(parts[1][2], Implicit(6))))

ReadValue(oid, s) ==
  CASE oid = BasicConstraints -> ReadBasicConstraints(s)
    [] oid = KeyUsage -> ReadKeyUsage(s)
    [] oid = SubjectAltName -> ReadSubjectAltName(s)
    [] oid = CertificatePolicies -> ReadCertificatePolicies(s)
    [] oid = PolicyMappings -> ReadPolicyMappings(s)
    [] oid = ExtendedKeyUsage -> ReadExtendedKeyUsage(s)
    [] oid = NameConstraints -> ReadNameConstraints(s)
    [] oid = PolicyConstraints -> ReadPolicyConstraints(s)
    [] oid = InhibitAnyPolicy -> ReadInhibitAnyPolicy(s)
    [] oid = CrlDistributionPoints -> ReadCrlDistributionPoints(s)
    [] oid = AuthorityInfoAccess -> ReadAuthorityInfoAccess(s)

Known == {BasicConstraints, KeyUsage, SubjectAltName, CertificatePolicies,
          PolicyMappings, ExtendedKeyUsage, NameConstraints, PolicyConstraints,
          InhibitAnyPolicy, CrlDistributionPoints, AuthorityInfoAccess}

\* One extension: <<identifier, value>>; whether it is critical is not kept.
ReadExtension(node) ==
  LET parts == Within(node)
      value == Last(parts[1])
      oid == parts[1][1].body
  IN
  IF parts = None THEN None
  ELSE IF \/ Tags(parts[1]) \notin {<<TagOid, TagOctets>>, <<TagOid, TagBoolean, TagOctets>>}
          \/ Len(parts[1]) = 3 /\ Len(parts[1][2].body) # 1
       THEN None
  ELSE IF Len(oid) # 1 THEN Some(<<oid, <<>>>>)
  ELSE IF oid[1] \notin Known THEN Some(<<oid, <<>>>>)
  ELSE LET read == ReadValue(oid[1], value.body) IN
       IF read = None THEN None ELSE Some(<<oid, read>>)

\* parse_extensions: Some value for each known extension that is there; of two
\* the last one counts, and one that is not known is passed over.
ParseCertificateExtensions(s) ==
  LET read == ReadList(s, ReadExtension)
      Found(oid) == SelectSeq(read[1], LAMBDA x : x[1] = <<oid>>)
  IN
  IF read = None THEN None
  ELSE OnlyIf(Len(read[1]) <= MaxExtensions,
              [oid \in Known |-> IF Found(oid) = <<>> THEN None ELSE Last(Found(oid))[2]])

-----------------------------------------------------------------------------
(***************************************************************************)
(* The certificate.                                                        *)
(***************************************************************************)

\* parse_algorithm_identifier_oid: with at most one parameter.
AlgorithmOid(s) ==
  LET nodes == Nodes(s) IN
  IF nodes = None THEN None
  ELSE IF Len(nodes[1]) \notin {1, 2} THEN None ELSE Body(nodes[1][1], TagOid)

\* parse_bit_string of the certificate: whole bytes only.
WholeBytes(s) == OnlyIf(s # <<>> /\ Head(s) = 0, Tail(s))

\* parse_spki_algorithm_oid, parse_spki_subject_public_key
ReadKey(s) ==
  LET nodes == Nodes(s) IN
  IF nodes = None THEN None
  ELSE IF Tags(nodes[1]) # <<TagSequence, TagBits>> THEN None
  ELSE OnlyIf(AlgorithmOid(nodes[1][1].body) # None /\ WholeBytes(nodes[1][2].body) # None,
              [algorithm |-> AlgorithmOid(nodes[1][1].body)[1],
               key |-> WholeBytes(nodes[1][2].body)[1]])

\* parse_validity
ReadValidity(s) ==
  LET nodes == Nodes(s) IN
  IF nodes = None THEN None
  ELSE OnlyIf(/\ Len(nodes[1]) = 2
              /\ \A i \in 1 .. 2 : /\ nodes[1][i].tag \in {TagUtcTime, TagTime}
                                   /\ Text(nodes[1][i].body) # None,
              <<nodes[1][1].body, nodes[1][2].body>>)

\* The version of a certificate whose fields begin with one, else 1.
ReadVersion(fields) ==
  LET version == Sole(fields[1].body, TagInteger) IN
  IF fields[1].tag # Context(0) THEN Some(1)
  ELSE IF version = None THEN None
  ELSE LET n == ParseU32(version[1]) IN
       IF n = None THEN None ELSE OnlyIf(n[1] <= 2, n[1] + 1)

\* What is signed: the fields of a certificate behind its version, then the
\* identifiers of issuer and subject, which are not kept, then extensions.
ReadSigned(s) ==
  LET all == Nodes(s)
      fields == IF all[1][1].tag = Context(0) THEN Tail(all[1]) ELSE all[1]
      behind == SelectInSubSeq(fields, 7, Len(fields), LAMBDA n :
                                 n.tag \notin {Implicit(1), Implicit(2)})
      tail == IF behind = 0 THEN <<>> ELSE SubSeq(fields, behind, Len(fields))
      extensions == IF tail = <<>> THEN Some([oid \in Known |-> None])
                    ELSE IF Tags(tail) # <<Context(3)>> THEN None
                    ELSE ParseCertificateExtensions(tail[1].body)
      named == [i \in 1 .. 6 |-> fields[i].body]
  IN
  IF all = None \/ all = <<<<>>>> THEN None
  ELSE IF \/ Len(fields) < 6
          \/ SubSeq(Tags(fields), 1, 6) #
               <<TagInteger>> \o [i \in 1 .. 5 |-> TagSequence]
       THEN None
  ELSE IF ReadVersion(all[1]) = None \/ AlgorithmOid(named[2]) = None
          \/ ReadValidity(named[4]) = None \/ ReadKey(named[6]) = None
          \/ extensions = None
       THEN None
  ELSE Some([version |-> ReadVersion(all[1])[1], serial |-> named[1],
             algorithm |-> AlgorithmOid(named[2])[1], issuer |-> named[3],
             validity |-> ReadValidity(named[4])[1], subject |-> named[5],
             key |-> ReadKey(named[6])[1], extensions |-> extensions[1]])

\* parse_certificate
ParseX509(s) ==
  LET parts == SoleSequence(s)
      body == Sole(s, TagSequence)[1]
      signed == ReadSigned(parts[1][1].body)
  IN
  IF Len(s) > MaxCertificate \/ parts = None THEN None
  ELSE IF Tags(parts[1]) # <<TagSequence, TagSequence, TagBits>> THEN None
  ELSE IF signed = None THEN None
  ELSE OnlyIf(/\ AlgorithmOid(parts[1][2].body) # None
              /\ WholeBytes(parts[1][3].body) # None,
              [signed |-> signed[1], rawTbs |-> Take(body, NodeSize(body)),
               algorithm |-> AlgorithmOid(parts[1][2].body)[1],
               signature |-> WholeBytes(parts[1][3].body)[1]])

\* subject_common_name: the first attribute that is one, whatever follows it.
CommonName(subject) ==
  LET RECURSIVE InName(_), InSet(_, _)
      InName(sets) ==
        LET set == ParseNode(sets) IN
        IF set = None THEN None
        ELSE IF set[1].tag # TagSet THEN None ELSE InSet(set[1].body, set[1].rest)
      InSet(attributes, sets) ==
        LET attribute == ParseNode(attributes)
            parts == Leading(attribute[1].body, 2)
            oid == parts[1].nodes[1]
            text == parts[1].nodes[2]
        IN
        IF attributes = <<>> THEN InName(sets)
        ELSE IF attribute = None THEN None
        ELSE IF attribute[1].tag # TagSequence \/ parts = None THEN None
        ELSE IF /\ oid = [tag |-> TagOid, body |-> <<OidCommonName>>]
                /\ parts[1].rest = <<>> /\ text.tag \in {TagUtf8, TagPrintable, TagIa5}
             THEN Text(text.body)
        ELSE InSet(attribute[1].rest, sets)
  IN InName(subject)

\* certificate_matches_hostname: names of hosts before the name of the subject.
MatchesHostname(signed, hostname) ==
  LET names == signed.extensions[SubjectAltName]
      subject == CommonName(signed.subject)
  IN
  /\ Normalized(hostname, FALSE) # <<>>
  /\ IF names \notin {None, Some(<<>>)}
     THEN \E name \in ToSet(names[1]) : NameMatches(name, hostname)
     ELSE subject # None /\ NameMatches(subject[1], hostname)

-----------------------------------------------------------------------------
(***************************************************************************)
(* What is written: cert_write.rs.                                         *)
(***************************************************************************)

Sequence(children) == EncodeNode(TagSequence, FlattenSeq(children))
Oid(o) == EncodeNode(TagOid, <<o>>)
Boolean(b) == EncodeNode(TagBoolean, <<IF b THEN Base - 1 ELSE 0>>)

\* algorithm_identifier_sha256_with_rsa, algorithm_identifier_ecdsa_sha256
WriteAlgorithm(oid, withNull) ==
  Sequence(<<Oid(oid)>> \o IF withNull THEN <<EncodeNode(TagNull, <<>>)>> ELSE <<>>)

\* write_common_name
WriteName(name) ==
  Sequence(<<EncodeNode(TagSet,
    Sequence(<<Oid(OidCommonName), EncodeNode(TagUtf8, name)>>))>>)

\* write_der_time: which kind it is shows in its length.
SoundTime(time) ==
  /\ Len(time) \in {UtcTimeLen, TimeLen}
  /\ Last(time) = Zulu /\ ToSet(Front(time)) \subseteq Digits
WriteTime(time) == EncodeNode(IF Len(time) = UtcTimeLen THEN TagUtcTime ELSE TagTime, time)

\* write_extensions, write_basic_constraints_extension
WriteExtensions(isCa) ==
  Sequence(<<Sequence(<<
    Oid(BasicConstraints), Boolean(TRUE),
    EncodeNode(TagOctets, Sequence(<<Boolean(isCa)>>))>>)>>)

\* build_certificate_tbs: of a certificate authority, in every caller.
WriteSigned(serial, name, validity, algorithm, key) ==
  OnlyIf(
    serial # <<>> /\ name # <<>> /\ \A i \in 1 .. 2 : SoundTime(validity[i]),
    Sequence(<<
      EncodeNode(Context(0), EncodeInteger(<<2>>)), EncodeInteger(serial), algorithm,
      WriteName(name), Sequence([i \in 1 .. 2 |-> WriteTime(validity[i])]),
      WriteName(name), key, EncodeNode(Context(3), WriteExtensions(TRUE))>>))

\* build_csr_info
WriteRequestInfo(name, key) ==
  OnlyIf(name # <<>>,
    Sequence(<<EncodeInteger(<<0>>), WriteName(name), key, EncodeNode(Context(0), <<>>)>>))

\* build_certificate_der, build_csr_der
WriteWithSignature(signed, algorithm, signature) ==
  Sequence(<<signed, algorithm, EncodeBits(signature)>>)

\* write_self_signed_certificate_*, write_csr_*: what is signed is what is
\* written, byte for byte.
WriteSelfSigned(serial, name, validity, algorithm, key) ==
  LET signed == WriteSigned(serial, name, validity, algorithm, key) IN
  IF signed = None THEN None
  ELSE Some(WriteWithSignature(signed[1], algorithm, Sign(signed[1])))
WriteRequest(name, algorithm, key) ==
  LET signed == WriteRequestInfo(name, key) IN
  IF signed = None THEN None
  ELSE Some(WriteWithSignature(signed[1], algorithm, Sign(signed[1])))

\* write_minimal_certificate_der: without algorithm and signature.
WriteMinimal(serial, rest) ==
  OnlyIf(serial # <<>>, Sequence(<<Sequence(<<EncodeInteger(serial), rest>>)>>))

\* write_ecdsa_signature_der and its parser
WriteEcdsa(r, s) == Sequence(<<EncodeInteger(r), EncodeInteger(s)>>)
ParseEcdsa(bytes, width) ==
  LET nodes == SoleSequence(bytes)
      Scalar(i) == ParseScalar(nodes[1][i].body, width)
  IN
  IF nodes = None THEN None
  ELSE IF Tags(nodes[1]) # <<TagInteger, TagInteger>> THEN None
  ELSE OnlyIf(Scalar(1) # None /\ Scalar(2) # None, <<Scalar(1)[1], Scalar(2)[1]>>)
=============================================================================

----------------------------- MODULE KeyFormats -----------------------------
(***************************************************************************)
(* Keys as DER and as PEM.  A public RSA key is [n, e] and a private one   *)
(* [n, d], their numbers without leading zeros; every other key is the     *)
(* byte string of its scalar, seed or point.                               *)
(***************************************************************************)
EXTENDS Der, Pem

LOCAL INSTANCE SequencesExt

CONSTANTS
  OidRsa, OidEc, OidP256, OidX25519, OidX448, OidEd25519, OidMlDsa,
  ScalarLen,    \* 32: a scalar, a seed and a key on curve 25519
  X448Len,      \* 56
  MlDsaLen,     \* 1952
  Order,        \* of the group of P-256
  Points,       \* its points, as <<4>> and both coordinates
  SmallModulus  \* 2^2047: a modulus is no smaller

Algorithm == [
  rsa     |-> [oid |-> <<OidRsa>>, parameters |-> None],
  p256    |-> [oid |-> <<OidEc>>, parameters |-> Some(<<OidP256>>)],
  x25519  |-> [oid |-> <<OidX25519>>, parameters |-> None],
  x448    |-> [oid |-> <<OidX448>>, parameters |-> None],
  ed25519 |-> [oid |-> <<OidEd25519>>, parameters |-> None],
  mldsa   |-> [oid |-> <<OidMlDsa>>, parameters |-> None]]
Exported == DOMAIN Algorithm \ {"mldsa"}

-----------------------------------------------------------------------------
(***************************************************************************)
(* The frames of keys.                                                     *)
(***************************************************************************)

EncodeAlgorithm(algorithm) ==
  EncodeNode(TagSequence,
    FlattenSeq([i \in DOMAIN (<<algorithm.oid>> \o algorithm.parameters) |->
      EncodeNode(TagOid, (<<algorithm.oid>> \o algorithm.parameters)[i])]))

\* Parameters are an object identifier or nothing, for which NULL may stand.
ParseAlgorithm(s) ==
  LET nodes == Nodes(s) IN
  IF nodes = None THEN None
  ELSE IF Tags(nodes[1]) \notin {<<TagOid>>, <<TagOid, TagOid>>, <<TagOid, TagNull>>} THEN None
  ELSE OnlyIf(Last(nodes[1]).tag # TagNull \/ Last(nodes[1]).body = <<>>,
              [oid |-> nodes[1][1].body,
               parameters |-> IF Tags(nodes[1]) = <<TagOid, TagOid>>
                              THEN Some(nodes[1][2].body) ELSE None])

\* encode_spki_public_key_info_der, parse_spki_public_key_info_der: the count
\* of unused bits may be any that there is.
EncodeSpki(algorithm, key) ==
  EncodeNode(TagSequence, EncodeAlgorithm(algorithm) \o EncodeBits(key))
ParseSpki(s) ==
  LET nodes == SoleSequence(s)
      algorithm == ParseAlgorithm(nodes[1][1].body)
      bits == nodes[1][2].body
  IN
  IF nodes = None THEN None
  ELSE IF Tags(nodes[1]) # <<TagSequence, TagBits>> THEN None
  ELSE IF algorithm = None \/ bits = <<>> THEN None
  ELSE OnlyIf(Head(bits) <= 7, [algorithm |-> algorithm[1], key |-> Tail(bits)])

\* What the first nodes of the one sequence are, if they have these tags.
LeadingFields(s, tags) ==
  LET body == Sole(s, TagSequence)
      fields == Leading(body[1], Len(tags))
  IN
  IF body = None THEN None
  ELSE IF fields = None THEN None
  ELSE OnlyIf(Tags(fields[1].nodes) = tags, fields[1])

\* encode_pkcs8_private_key_info_der, parse_pkcs8_private_key_info_der: what
\* the version is, and what follows the key, does not matter.
EncodePkcs8(algorithm, key) ==
  EncodeNode(TagSequence,
    EncodeInteger(<<0>>) \o EncodeAlgorithm(algorithm) \o EncodeNode(TagOctets, key))
ParsePkcs8(s) ==
  LET fields == LeadingFields(s, <<TagInteger, TagSequence, TagOctets>>)
      nodes == fields[1].nodes
      algorithm == ParseAlgorithm(nodes[2].body)
  IN
  IF fields = None THEN None
  ELSE OnlyIf(nodes[1].body # <<>> /\ algorithm # None,
              [algorithm |-> algorithm[1], key |-> nodes[3].body])

-----------------------------------------------------------------------------
(***************************************************************************)
(* RSA keys on their own, and EC ones.                                     *)
(***************************************************************************)

\* validate_public_components, validate_private_components: x is e or d.
SoundRsa(n, x, least) ==
  /\ Value(n) >= SmallModulus /\ Value(n) % 2 = 1
  /\ Value(x) >= least /\ Value(x) % 2 = 1 /\ Value(x) < Value(n)

\* The numbers in the nodes; an RSA key of them.
Magnitudes(nodes) == [i \in DOMAIN nodes |-> Significant(ParseMagnitude(nodes[i].body)[1])]
Integers(n) == [i \in 1 .. n |-> TagInteger]

EncodePkcs1Public(key) ==
  EncodeNode(TagSequence, EncodeInteger(key.n) \o EncodeInteger(key.e))
ParsePkcs1Public(s) ==
  LET fields == LeadingFields(s, Integers(2))
      numbers == Magnitudes(fields[1].nodes)
  IN
  IF fields = None THEN None
  ELSE IF fields[1].rest # <<>> \/ \E i \in 1 .. 2 : fields[1].nodes[i].body = <<>> THEN None
  ELSE OnlyIf(SoundRsa(numbers[1], numbers[2], 3), [n |-> numbers[1], e |-> numbers[2]])

\* parse_pkcs1_rsa_private_key_der: only two of its numbers are kept, of the
\* version the last byte counts, and what follows is not read.
ParsePkcs1Private(s) ==
  LET fields == LeadingFields(s, Integers(4))
      nodes == fields[1].nodes
      numbers == Magnitudes(nodes)
  IN
  IF fields = None THEN None
  ELSE IF \E i \in 1 .. 4 : nodes[i].body = <<>> THEN None
  ELSE OnlyIf(Last(nodes[1].body) <= 1 /\ SoundRsa(numbers[2], numbers[4], 1),
              [n |-> numbers[2], d |-> numbers[4]])

\* parse_sec1_ec_private_key_scalar
EncodeSec1(scalar) ==
  EncodeNode(TagSequence, EncodeInteger(<<1>>) \o EncodeNode(TagOctets, scalar))
ParseSec1(s) ==
  LET fields == LeadingFields(s, <<TagInteger, TagOctets>>)
      nodes == fields[1].nodes
  IN
  IF fields = None THEN None
  ELSE IF nodes[1].body = <<>> THEN None
  ELSE OnlyIf(/\ Last(nodes[1].body) = 1 /\ Len(nodes[2].body) = ScalarLen
              /\ Value(nodes[2].body) \in 1 .. Order - 1,
              nodes[2].body)

-----------------------------------------------------------------------------
(***************************************************************************)
(* What is exported, and what is imported for an algorithm.                *)
(***************************************************************************)

\* A key of this length, bare or as the one octet string.
BareOrNested(s, length) ==
  LET inner == Sole(s, TagOctets) IN
  IF Len(s) = length THEN Some(s)
  ELSE IF inner = None THEN None
  ELSE OnlyIf(Len(inner[1]) = length, inner[1])

ExportPublic(kind, key) ==
  EncodeSpki(Algorithm[kind], IF kind = "rsa" THEN EncodePkcs1Public(key) ELSE key)

\* There is no export of a private RSA key.
ExportPrivate(kind, key) ==
  EncodePkcs8(Algorithm[kind],
              IF kind = "p256" THEN EncodeSec1(key) ELSE EncodeNode(TagOctets, key))

\* Only RSA asks nothing of the parameters.
ForAlgorithm(kind, info) ==
  /\ info # None
  /\ info[1].algorithm.oid = Algorithm[kind].oid
  /\ kind # "rsa" => info[1].algorithm.parameters = Algorithm[kind].parameters

\* *_public_key_from_spki_der
ImportPublic(kind, s) ==
  LET info == ParseSpki(s)
      key == info[1].key
  IN
  IF ~ForAlgorithm(kind, info) THEN None
  ELSE CASE kind = "rsa" -> ParsePkcs1Public(key)
         [] kind = "p256" -> OnlyIf(key \in Points, key)
         [] kind = "x25519" -> OnlyIf(Len(key) = ScalarLen, key)
         [] kind = "x448" -> OnlyIf(Len(key) = X448Len, key)
         [] kind = "ed25519" -> OnlyIf(Len(key) = ScalarLen /\ ToSet(key) # {0}, key)
         [] kind = "mldsa" -> OnlyIf(Len(key) = MlDsaLen, key)

\* *_private_key_from_pkcs8_der
ImportPrivate(kind, s) ==
  LET info == ParsePkcs8(s)
      key == info[1].key
  IN
  IF ~ForAlgorithm(kind, info) THEN None
  ELSE CASE kind = "rsa" -> ParsePkcs1Private(key)
         [] kind = "p256" -> ParseSec1(key)
         [] kind \in {"x25519", "ed25519"} -> BareOrNested(key, ScalarLen)
         [] kind = "x448" -> BareOrNested(key, X448Len)

\* The forms that PEM is written in and read from, and what each is labelled.
LabelOf == [spki |-> <<"PUBLIC KEY">>, pkcs8 |-> <<"PRIVATE KEY">>,
            pkcs1_public |-> <<"RSA PUBLIC KEY">>, pkcs1_private |-> <<"RSA PRIVATE KEY">>,
            sec1 |-> <<"EC PRIVATE KEY">>]

ExportDer(form, kind, key) ==
  CASE form = "spki" -> ExportPublic(kind, key)
    [] form = "pkcs8" -> ExportPrivate(kind, key)
    [] form = "pkcs1_public" -> EncodePkcs1Public(key)
ExportPem(form, kind, key) == DerToPem(ExportDer(form, kind, key), LabelOf[form])[1]

ImportDer(form, kind, der) ==
  CASE form = "spki" -> ImportPublic(kind, der)
    [] form = "pkcs8" -> ImportPrivate(kind, der)
    [] form = "pkcs1_public" -> ParsePkcs1Public(der)
    [] form = "pkcs1_private" -> ParsePkcs1Private(der)
    [] form = "sec1" -> ParseSec1(der)
ImportPem(form, kind, lines) ==
  LET der == PemToDer(lines, LabelOf[form]) IN
  IF der = None THEN None ELSE ImportDer(form, kind, der[1])

\* *_private_key_to_pem_file_pkcs8, *_private_key_from_pem_file_pkcs8: files
\* maps a path to the lines that the file holds.
WriteKeyFile(files, path, kind, key) ==
  [files EXCEPT ![path] = ExportPem("pkcs8", kind, key)]
ReadKeyFile(files, path, kind) == ImportPem("pkcs8", kind, files[path])
=============================================================================

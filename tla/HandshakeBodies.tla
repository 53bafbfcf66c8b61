---------------------------- MODULE HandshakeBodies -------------------------
(***************************************************************************)
(* The byte layouts of handshake messages and extensions: what is built,   *)
(* and what is accepted when it is received.  A parser yields None or Some *)
(* of what the handshake goes on with; what it only skips is not in it.    *)
(***************************************************************************)
EXTENDS Wire, DnsNames

LOCAL INSTANCE SequencesExt
LOCAL INSTANCE Functions

CONSTANTS
  OcspType,           \* 1: the status type OCSP
  NamedCurve,         \* 3: the curve type of a ServerKeyExchange
  StatusRequest,      \* extension types
  SignatureAlgorithms,
  ForbiddenInRequest, \* supported_versions, key_share, pre_shared_key, ...
  ModernSchemes       \* the five signature schemes that are supported

\* encode_handshake_message, parse_handshake_message
EncodeHandshake(type, body) == Number(type, U8) \o Vector(U24, body)
ParseHandshake(s) ==
  LET body == ParseVector(U24, Drop(s, 1)) IN
  IF s = <<>> \/ body = None THEN None
  ELSE Some([type |-> At(s, 0, U8), body |-> body[1]])

-----------------------------------------------------------------------------
(***************************************************************************)
(* Vectors of numbers.                                                     *)
(***************************************************************************)

Distinct(values) == OnlyIf(IsInjective(values), values)

ParseU16Vector(s) ==
  LET list == ParseVector(U16, s) IN
  IF list = None \/ Len(list[1]) % U16 # 0 THEN None ELSE Distinct(Numbers(list[1], U16))

ParseU8Vector(s) ==
  LET list == ParseVector(U8, s) IN
  IF list = None \/ list = <<<<>>>> THEN None ELSE Distinct(list[1])

ParseSupportedVersions(s) ==
  LET list == ParseVector(U8, s) IN
  IF list = None \/ Len(list[1]) % U16 # 0 THEN None ELSE Distinct(Numbers(list[1], U16))

-----------------------------------------------------------------------------
(***************************************************************************)
(* Extensions.                                                             *)
(***************************************************************************)

PushExtension(type, data) == Number(type, U16) \o Vector(U16, data)

\* A list of extensions as <<type, data>>, of types that all differ.
ParseExtensions(s) ==
  LET items == Items(s, LAMBDA rest : HeadedSize(rest, U16, U16))
      pairs == [i \in DOMAIN items[1] |->
                  <<At(items[1][i], 0, U16), Drop(items[1][i], U16 + U16)>>]
  IN IF items = None THEN None
     ELSE OnlyIf(IsInjective([i \in DOMAIN pairs |-> pairs[i][1]]), pairs)

EncodeKeyShares(shares) ==
  Vector(U16, FlattenSeq([i \in DOMAIN shares |->
                            PushExtension(shares[i].group, shares[i].key)]))

\* parse_key_share_groups_extension
ParseKeyShareGroups(s) ==
  LET list == ParseVector(U16, s)
      items == Items(list[1], LAMBDA rest : HeadedSize(rest, U16, U16))
  IN
  IF list = None \/ items = None THEN None
  ELSE IF \E i \in DOMAIN items[1] : Len(items[1][i]) = U16 + U16 THEN None
  ELSE Distinct([i \in DOMAIN items[1] |-> At(items[1][i], 0, U16)])

\* A protocol that does not fit its length, or that is there twice, is refused.
EncodeAlpn(protocols) ==
  OnlyIf(protocols # <<>> /\ IsInjective(protocols)
           /\ \A p \in ToSet(protocols) : p # <<>> /\ Len(p) <= Largest(U8),
         Vector(U16, FlattenSeq([i \in DOMAIN protocols |-> Vector(U8, protocols[i])])))

ParseAlpn(s) ==
  LET list == ParseVector(U16, s)
      items == Items(list[1], LAMBDA rest : HeadedSize(rest, 0, U8))
  IN
  IF list = None \/ list = <<<<>>>> \/ items = None THEN None
  ELSE IF \E p \in ToSet(items[1]) : Len(p) = U8 THEN None
  ELSE Distinct([i \in DOMAIN items[1] |-> Drop(items[1][i], U8)])

HostName == 0
EncodeServerName(name) ==
  OnlyIf(ValidName(name), Vector(U16, <<HostName>> \o Vector(U16, name)))
ParseServerName(s) ==
  LET list == ParseVector(U16, s)
      name == ParseVector(U16, Drop(list[1], 1))
  IN
  IF list = None \/ list = <<<<>>>> THEN None
  ELSE IF Head(list[1]) # HostName \/ name = None THEN None
  ELSE OnlyIf(ValidName(name[1]), name[1])

\* encode_status_request_ocsp_extension_data; the parser accepts nothing else.
EncodeStatusRequest == <<OcspType>> \o Vector(U16, <<>>) \o Vector(U16, <<>>)
ParseStatusRequest(s) == OnlyIf(s = EncodeStatusRequest, TRUE)

\* An offer is a sequence of [identity, age, binder].
EncodePreSharedKey(offer) ==
  LET identities == [i \in DOMAIN offer |->
        Vector(U16, offer[i].identity) \o Number(offer[i].age, U32)]
      binders == [i \in DOMAIN offer |-> Vector(U8, offer[i].binder)]
  IN OnlyIf(
       /\ offer # <<>>
       /\ \A i \in DOMAIN offer :
            /\ offer[i].identity # <<>> /\ Len(offer[i].identity) <= Largest(U16)
            /\ offer[i].binder # <<>> /\ Len(offer[i].binder) <= Largest(U8),
       Vector(U16, FlattenSeq(identities)) \o Vector(U16, FlattenSeq(binders)))

\* A faulty variant: as many binders as identities is not asked for.
ParsePreSharedKeyUneven(s) ==
  LET head == HeadedSize(s, 0, U16)
      identities == Items(Slice(s, U16, head - U16), LAMBDA rest :
        IF HeadedSize(rest, 0, U16) = U16 THEN Malformed(rest)
        ELSE HeadedSize(rest, 0, U16) + U32)
      list == ParseVector(U16, Drop(s, head))
      binders == Items(list[1], LAMBDA rest :
        IF HeadedSize(rest, 0, U8) = U8 THEN Malformed(rest) ELSE HeadedSize(rest, 0, U8))
      Identity(item) == SubSeq(item, U16 + 1, Len(item) - U32)
      Age(item) == At(item, Len(item) - U32, U32)
  IN
  IF head > Len(s) THEN None
  ELSE IF identities = None \/ list = None THEN None
  ELSE IF binders = None THEN None
  ELSE OnlyIf(
    /\ identities[1] # <<>>
    /\ IsInjective([i \in DOMAIN identities[1] |-> Identity(identities[1][i])]),
    [i \in DOMAIN identities[1] |->
       [identity |-> Identity(identities[1][i]), age |-> Age(identities[1][i]),
        binder |-> IF i \in DOMAIN binders[1] THEN Drop(binders[1][i], U8) ELSE <<>>]])

ParsePreSharedKey(s) ==
  LET head == HeadedSize(s, 0, U16)
      identities == Items(Slice(s, U16, head - U16), LAMBDA rest :
        IF HeadedSize(rest, 0, U16) = U16 THEN Malformed(rest)
        ELSE HeadedSize(rest, 0, U16) + U32)
      list == ParseVector(U16, Drop(s, head))
      binders == Items(list[1], LAMBDA rest :
        IF HeadedSize(rest, 0, U8) = U8 THEN Malformed(rest) ELSE HeadedSize(rest, 0, U8))
      Identity(item) == SubSeq(item, U16 + 1, Len(item) - U32)
      Age(item) == At(item, Len(item) - U32, U32)
  IN
  IF head > Len(s) THEN None
  ELSE IF identities = None \/ list = None THEN None
  ELSE IF binders = None THEN None
  ELSE OnlyIf(
    /\ identities[1] # <<>> /\ Len(identities[1]) = Len(binders[1])
    /\ IsInjective([i \in DOMAIN identities[1] |-> Identity(identities[1][i])]),
    [i \in DOMAIN identities[1] |->
       [identity |-> Identity(identities[1][i]), age |-> Age(identities[1][i]),
        binder |-> Drop(binders[1][i], U8)]])

-----------------------------------------------------------------------------
(***************************************************************************)
(* Certificates and signatures.                                            *)
(***************************************************************************)

\* Some staple of an entry's extensions, None if there is none; malformed
\* extensions make the entry malformed.
ParseStaple(data) ==
  LET staple == ParseVector(U24, Drop(data, 1)) IN
  IF data = <<>> \/ staple = None \/ staple = <<<<>>>> THEN None
  ELSE OnlyIf(Head(data) = OcspType, staple[1])
EntryStaple(extensions) ==
  LET at == {i \in DOMAIN extensions : extensions[i][1] = StatusRequest} IN
  IF at = {} THEN None ELSE ParseStaple(extensions[CHOOSE i \in at : TRUE][2])
SoundEntry(s) ==
  LET x == ParseExtensions(s) IN
  /\ x # None
  /\ (\E i \in DOMAIN x[1] : x[1][i][1] = StatusRequest) => EntryStaple(x[1]) # None

EncodeStaple(staple) ==
  PushExtension(StatusRequest, <<OcspType>> \o Vector(U24, staple))

\* build_certificate_message_with_ocsp_staple, the body
EncodeCertificate(cert, staple) ==
  LET extensions == IF staple = None THEN <<>> ELSE EncodeStaple(staple[1]) IN
  OnlyIf(cert # <<>> /\ Len(cert) <= Largest(U24)
           /\ (staple # None => staple[1] # <<>> /\ Len(staple[1]) <= Largest(U24)),
         Vector(U8, <<>>) \o Vector(U24, Vector(U24, cert) \o Vector(U16, extensions)))

\* parse_certificate_body: the certificates and the staple of the first.
ParseCertificate(s) ==
  LET context == HeadedSize(s, 0, U8)
      list == ParseVector(U24, Drop(s, context))
      CertSize(rest) == HeadedSize(rest, 0, U24)
      items == Items(list[1], LAMBDA rest :
        IF CertSize(rest) > Len(rest) THEN Malformed(rest)
        ELSE HeadedSize(rest, CertSize(rest), U16))
      Extensions(item) == Drop(item, CertSize(item) + U16)
  IN
  IF context > Len(s) \/ list = None THEN None
  ELSE IF items = None THEN None
  ELSE OnlyIf(
    items[1] # <<>> /\ \A item \in ToSet(items[1]) : SoundEntry(Extensions(item)),
    [certificates |-> [i \in DOMAIN items[1] |->
       SubSeq(items[1][i], U24 + 1, CertSize(items[1][i]))],
     staple |-> EntryStaple(ParseExtensions(Extensions(items[1][1]))[1])])

\* parse_tls12_certificate_list
ParseTls12Certificates(s) ==
  LET list == ParseVector(U24, s)
      items == Items(list[1], LAMBDA rest : HeadedSize(rest, 0, U24))
  IN
  IF list = None \/ list = <<<<>>>> \/ items = None THEN None
  ELSE OnlyIf(\A item \in ToSet(items[1]) : Len(item) > U24,
              [i \in DOMAIN items[1] |-> Drop(items[1][i], U24)])

\* build_certificate_request_message and its parser, which keeps nothing.
EncodeCertificateRequest(schemes) ==
  Vector(U8, <<>>)
    \o Vector(U16, PushExtension(SignatureAlgorithms,
                                 Vector(U16, EncodedNumbers(schemes, U16))))
ParseCertificateRequest(s) ==
  LET context == HeadedSize(s, 0, U8)
      list == ParseVector(U16, Drop(s, context))
      extensions == ParseExtensions(list[1])
  IN
  IF context > Len(s) \/ list = None THEN None
  ELSE IF extensions = None THEN None
  ELSE OnlyIf(
    /\ \A i \in DOMAIN extensions[1] :
         /\ extensions[1][i][1] \notin ForbiddenInRequest
         /\ extensions[1][i][1] = SignatureAlgorithms =>
              ParseU16Vector(extensions[1][i][2]) \notin {None, Some(<<>>)}
    /\ \E i \in DOMAIN extensions[1] : extensions[1][i][1] = SignatureAlgorithms,
    TRUE)

\* A signature behind its scheme, as in both CertificateVerify messages.
EncodeSignature(scheme, signature) ==
  OnlyIf(signature # <<>> /\ Len(signature) <= Largest(U16),
         PushExtension(scheme, signature))
ParseSignature(s) ==
  LET signature == ParseVector(U16, Drop(s, U16)) IN
  IF Len(s) < U16 \/ signature = None THEN None
  ELSE OnlyIf(At(s, 0, U16) \in ModernSchemes /\ signature[1] # <<>>,
              [scheme |-> At(s, 0, U16), signature |-> signature[1]])

\* parse_tls12_server_key_exchange_body
ParseServerKeyExchange(s) ==
  LET head == HeadedSize(s, 1 + U16, U8) IN
  OnlyIf(/\ head <= Len(s) /\ Head(s) = NamedCurve /\ head > 1 + U16 + U8
         /\ ParseSignature(Drop(s, head)) # None,
         TRUE)

\* build_new_session_ticket_message and parse_new_session_ticket_body
EncodeNewSessionTicket(lifetime, ageAdd, nonce, ticket) ==
  OnlyIf(Len(nonce) <= Largest(U8) /\ Len(ticket) <= Largest(U16),
         Number(lifetime, U32) \o Number(ageAdd, U32) \o Vector(U8, nonce)
           \o Vector(U16, ticket) \o Vector(U16, <<>>))
ParseNewSessionTicket(s) ==
  LET nonce == HeadedSize(s, U32 + U32, U8)
      ticket == HeadedSize(s, nonce, U16)
  IN
  OnlyIf(nonce <= Len(s) /\ ticket <= Len(s)
           /\ ParseVector(U16, Drop(s, ticket)) # None, TRUE)
=============================================================================

------------------------------- MODULE Records ------------------------------
(***************************************************************************)
(* Records on the wire, the nonces that protect them, and the fragments of *)
(* a DTLS handshake message.                                               *)
(***************************************************************************)
EXTENDS Wire

LOCAL INSTANCE Bitwise
LOCAL INSTANCE SequencesExt

CONSTANTS
  U48,              \* 6: the bytes of a DTLS sequence number
  U64,              \* 8: those of a TLS sequence number
  IvLen,            \* 12
  TagLen,           \* 16
  ContentTypes,     \* 20, 21, 22, 23
  ApplicationData,  \* 23
  RecordVersion,    \* 0x0303
  LegacyVersions,   \* 0x0301, 0x0302
  DtlsVersion       \* 0xFEFD

ASSUME RecordsAssumption ==
  /\ {U48, U64, IvLen, TagLen} \subseteq Nat \ {0}
  /\ U64 <= IvLen /\ U16 + U48 <= IvLen
  /\ ApplicationData \in ContentTypes \ {0}

-----------------------------------------------------------------------------
(***************************************************************************)
(* TLS records.                                                            *)
(***************************************************************************)

\* encode_tls12_ciphertext_record and its parser: the frame of every record.
EncodeRecord(type, version, payload) ==
  OnlyIf(Len(payload) <= Largest(U16),
         Number(type, U8) \o Number(version, U16) \o Vector(U16, payload))
ParseRecord(s) ==
  LET payload == ParseVector(U16, Drop(s, U8 + U16)) IN
  IF payload = None THEN None
  ELSE Some([type |-> At(s, 0, U8), version |-> At(s, U8, U16), payload |-> payload[1]])

\* The payload of a protected record ends in its tag.
Protected(payload) ==
  [ciphertext |-> Take(payload, Len(payload) - TagLen),
   tag |-> Drop(payload, Len(payload) - TagLen)]

\* encode_tls13_record_packet, decode_tls13_record_packet: a ciphertext holds
\* at least the type of its content.
EncodeTls13Record(record) ==
  LET payload == record.ciphertext \o record.tag IN
  IF Len(payload) < 1 + TagLen THEN None
  ELSE EncodeRecord(ApplicationData, RecordVersion, payload)
ParseTls13Record(s) ==
  LET record == ParseRecord(s) IN
  IF record = None THEN None
  ELSE OnlyIf(/\ record[1].type = ApplicationData /\ record[1].version = RecordVersion
              /\ Len(record[1].payload) >= 1 + TagLen,
              Protected(record[1].payload))

\* encode_tls12_record_packet, decode_tls12_record_packet
EncodeTls12Record(type, record) ==
  EncodeRecord(type, RecordVersion, record.ciphertext \o record.tag)
ParseTls12Record(s, allowLegacy) ==
  LET record == ParseRecord(s) IN
  IF record = None THEN None
  ELSE OnlyIf(
    /\ \/ record[1].version = RecordVersion
       \/ allowLegacy /\ record[1].version \in LegacyVersions
    /\ record[1].type \in ContentTypes
    /\ Len(record[1].payload) >= TagLen,
    [type |-> record[1].type, record |-> Protected(record[1].payload)])

\* encode_tls13_inner_plaintext, decode_tls13_inner_plaintext: the type is the
\* last byte that is not 0, all 0 behind it are padding.
EncodeInner(content, type, padding) ==
  content \o <<type>> \o [i \in 1 .. padding |-> 0]
\* A faulty variant: one byte of padding is taken off, not all.
ParseInnerOnePad(s) ==
  LET inner == IF s # <<>> /\ Last(s) = 0 THEN Front(s) ELSE s IN
  IF inner = <<>> THEN None
  ELSE Some([content |-> Front(inner), type |-> Last(inner)])
ParseInner(s) ==
  LET used == {i \in DOMAIN s : s[i] # 0}
      at == CHOOSE i \in used : \A j \in used : j <= i
  IN IF used = {} THEN None
     ELSE Some([content |-> Take(s, at - 1), type |-> s[at]])

\* build_tls12_record_aad, build_tls13_record_aad: what a tag covers besides
\* the ciphertext.
Tls12Aad(sequence, type, length) ==
  OnlyIf(length <= Largest(U16),
         Number(sequence, U64) \o Number(type, U8) \o Number(RecordVersion, U16)
           \o Number(length, U16))
Tls13Aad(length) ==
  OnlyIf(length <= Largest(U16),
         Number(ApplicationData, U8) \o Number(RecordVersion, U16) \o Number(length, U16))

-----------------------------------------------------------------------------
(***************************************************************************)
(* DTLS records.                                                           *)
(***************************************************************************)

\* A header is [type, version, epoch, sequence].
EncodeDtlsRecord(header, payload) ==
  OnlyIf(Len(payload) <= Largest(U16) /\ header.sequence <= Largest(U48),
         Number(header.type, U8) \o Number(header.version, U16)
           \o Number(header.epoch, U16) \o Number(header.sequence, U48)
           \o Vector(U16, payload))
ParseDtlsRecord(s) ==
  LET payload == ParseVector(U16, Drop(s, U8 + U16 + U16 + U48)) IN
  IF payload = None THEN None
  ELSE OnlyIf(At(s, 0, U8) \in ContentTypes,
    [type |-> At(s, 0, U8), version |-> At(s, U8, U16),
     epoch |-> At(s, U8 + U16, U16), sequence |-> At(s, U8 + U16 + U16, U48),
     payload |-> payload[1]])

\* dtls13_aes128gcm_record_size, Some of it if a packet of that size exists
Dtls13RecordSize(length) ==
  OnlyIf(length + TagLen <= Largest(U16),
         U8 + U16 + U16 + U48 + U16 + length + TagLen)

\* What open_dtls13_aes128gcm_record asks of a packet before its number is
\* marked and the payload is opened.
ParseDtls13Protected(s) ==
  LET packet == ParseDtlsRecord(s) IN
  IF packet = None THEN None
  ELSE OnlyIf(/\ packet[1].type = ApplicationData /\ packet[1].version = DtlsVersion
              /\ Len(packet[1].payload) >= TagLen,
              [epoch |-> packet[1].epoch, sequence |-> packet[1].sequence,
               record |-> Protected(packet[1].payload)])

-----------------------------------------------------------------------------
(***************************************************************************)
(* Nonces: an initialization vector with a number added into its end.      *)
(***************************************************************************)

Added(iv, number) ==
  [i \in DOMAIN iv |->
     LET j == i - (Len(iv) - Len(number)) IN
     IF j < 1 THEN iv[i] ELSE iv[i] ^^ number[j]]

Nonce(iv, sequence) == Added(iv, Number(sequence, U64))
\* A faulty variant: the epoch is left out.
Dtls13NonceWithoutEpoch(iv, epoch, sequence) == Added(iv, Number(sequence, U48))
Dtls13Nonce(iv, epoch, sequence) ==
  Added(iv, Number(epoch, U16) \o Number(sequence, U48))

-----------------------------------------------------------------------------
(***************************************************************************)
(* Fragments of a DTLS 1.2 handshake message: [type, seq, total, offset,   *)
(* body].                                                                  *)
(***************************************************************************)

EncodeFragment(f) ==
  OnlyIf(/\ {f.total, f.offset, Len(f.body)} \subseteq 0 .. Largest(U24)
         /\ f.offset + Len(f.body) <= f.total,
         Number(f.type, U8) \o Number(f.total, U24) \o Number(f.seq, U16)
           \o Number(f.offset, U24) \o Vector(U24, f.body))
ParseFragment(s) ==
  LET offset == At(s, U8 + U24 + U16, U24)
      body == ParseVector(U24, Drop(s, U8 + U24 + U16 + U24))
  IN
  IF body = None THEN None
  ELSE OnlyIf(offset + Len(body[1]) <= At(s, U8, U24),
    [type |-> At(s, 0, U8), total |-> At(s, U8, U24), seq |-> At(s, U8 + U24, U16),
     offset |-> offset, body |-> body[1]])

\* encode_dtls12_handshake_fragments
FragmentMessage(type, seq, body, limit) ==
  LET count == IF body = <<>> THEN 1 ELSE (Len(body) + limit - 1) \div limit
      Fragment(i) ==
        EncodeFragment([type |-> type, seq |-> seq, total |-> Len(body),
                        offset |-> (i - 1) * limit,
                        body |-> Slice(body, (i - 1) * limit,
                                       IF i = count THEN Len(body) - (i - 1) * limit
                                       ELSE limit)])
  IN IF limit = 0 \/ Len(body) > Largest(U24) THEN None
     ELSE Some([i \in 1 .. count |-> Fragment(i)[1]])

\* reassemble_dtls12_handshake_fragments: every fragment is written over what
\* is there; nothing may stay unwritten.
Unwritten == -1
Written(out, f) ==
  [i \in DOMAIN out |->
     IF i \in f.offset + 1 .. f.offset + Len(f.body) THEN f.body[i - f.offset]
     ELSE out[i]]
\* A faulty variant: only the first and the last byte of the gap count, so
\* that a fragment may be missing in the middle.
CompleteAtEnds(out) == out = <<>> \/ (Head(out) # Unwritten /\ Last(out) # Unwritten)
Complete(out) == Unwritten \notin ToSet(out)

Reassemble(packets, limit) ==
  LET parsed == [i \in DOMAIN packets |-> ParseFragment(packets[i])]
      first == parsed[1][1]
      SameMessage(f) ==
        f.type = first.type /\ f.seq = first.seq /\ f.total = first.total
      out == FoldLeft(LAMBDA message, p : Written(message, p[1]),
                      [i \in 1 .. first.total |-> Unwritten], parsed)
  IN
  IF packets = <<>> \/ None \in ToSet(parsed) THEN None
  ELSE IF first.total > limit \/ \E p \in ToSet(parsed) : ~SameMessage(p[1]) THEN None
  ELSE OnlyIf(Complete(out),
    [type |-> first.type, seq |-> first.seq,
     body |-> [i \in DOMAIN out |-> IF out[i] = Unwritten THEN 0 ELSE out[i]]])
=============================================================================

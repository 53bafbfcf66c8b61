------------------------------ MODULE RsaPadding ----------------------------
(***************************************************************************)
(* What RSA signs and encrypts: messages and hashes in the width of the    *)
(* modulus, of which k is the length.  Hashes are any functions.           *)
(***************************************************************************)
EXTENDS BlockModes

LOCAL INSTANCE SequencesExt

CONSTANTS
  HashLen,       \* the length of the values of each hash function
  Hash(_, _),
  DigestInfo,    \* what stands before such a value in a signature
  MinPadding,    \* 8 bytes
  PssZeros,      \* 8: zeros that are hashed with a message
  PssTrailer     \* 0xbc

Full == Base - 1
Fills(n) == [i \in 1 .. n |-> Full]

\* div_ceil(8)
BytesFor(bits) == (bits + BitsPerByte - 1) \div BitsPerByte

\* emsa_pkcs1_v15_encode, of a hash that is given
EmsaPkcs1Encode(h, hash, k) ==
  LET info == DigestInfo[h] \o hash IN
  OnlyIf(k >= Len(info) + MinPadding + 3,
         <<0, 1>> \o Fills(k - Len(info) - 3) \o <<0>> \o info)

\* mgf1_sha256, mgf1_sha384
Mask(h, seed, n) ==
  Take(FlattenSeq([i \in 1 .. (n + HashLen[h] - 1) \div HashLen[h] |->
                     Hash(h, seed \o Number(i - 1, U32))]), n)

-----------------------------------------------------------------------------
(***************************************************************************)
(* PSS, in as many bits as the modulus has but for one.                    *)
(***************************************************************************)

PssHash(h, hash, salt) == Hash(h, Zeros(PssZeros) \o hash \o salt)

\* Without the bits of the first byte that are not there.
Cleared(s, bits) ==
  LET unused == BitsPerByte * BytesFor(bits) - bits IN
  [s EXCEPT ![1] = @ % 2 ^ (BitsPerByte - unused)]

\* emsa_pss_encode_sha256
PssEncode(h, hash, salt, bits) ==
  LET len == BytesFor(bits)
      digest == PssHash(h, hash, salt)
      db == Zeros(len - Len(salt) - HashLen[h] - 2) \o <<1>> \o salt
      masked == XorBytes(db, Mask(h, digest, Len(db)))
  IN
  OnlyIf(len >= HashLen[h] + Len(salt) + 2,
         Cleared(masked, bits) \o digest \o <<PssTrailer>>)

\* The two parts under the trailer, the first of them without its mask.
PssOpened(h, em, bits) ==
  LET n == Len(em) - HashLen[h] - 1
      digest == Slice(em, n, HashLen[h])
  IN [digest |-> digest, db |-> Cleared(XorBytes(Take(em, n), Mask(h, digest, n)), bits)]

\* emsa_pss_verify_sha256
PssVerify(h, hash, em, bits, saltLen) ==
  LET opened == PssOpened(h, em, bits)
      zeros == Len(em) - HashLen[h] - saltLen - 2
  IN
  /\ Len(em) >= HashLen[h] + saltLen + 2
  /\ Last(em) = PssTrailer
  /\ Cleared(em, bits) = em
  /\ Take(opened.db, zeros + 1) = Zeros(zeros) \o <<1>>
  /\ opened.digest = PssHash(h, hash, Drop(opened.db, zeros + 1))

PssEncodeSha384(hash, salt, bits) == PssEncode("sha384", hash, salt, bits)
PssVerifySha384(hash, em, bits, saltLen) == PssVerify("sha384", hash, em, bits, saltLen)

-----------------------------------------------------------------------------
(***************************************************************************)
(* Encryption.                                                             *)
(***************************************************************************)

\* encrypt_pkcs1_v15_auto, with padding of bytes that are not 0.
Pkcs1Pad(s, padding, k) ==
  OnlyIf(/\ Len(s) <= k - MinPadding - 3
         /\ Len(padding) = k - Len(s) - 3 /\ 0 \notin ToSet(padding),
         <<0, 2>> \o padding \o <<0>> \o s)

\* decode_pkcs1_v15_plaintext
Pkcs1Unpad(em) ==
  LET zero == SelectInSubSeq(em, 3, Len(em), LAMBDA byte : byte = 0) IN
  OnlyIf(/\ Len(em) >= MinPadding + 3
         /\ Take(em, 2) = <<0, 2>>
         /\ zero > MinPadding + 2,
         Drop(em, zero))

\* emea_oaep_encode_sha256
OaepEncode(s, label, seed, k) ==
  LET n == HashLen["sha256"]
      db == Hash("sha256", label) \o Zeros(k - Len(s) - (2 * n + 2)) \o <<1>> \o s
      masked == XorBytes(db, Mask("sha256", seed, Len(db)))
  IN
  OnlyIf(Len(seed) = n /\ Len(s) + 2 * n + 2 <= k,
         <<0>> \o XorBytes(seed, Mask("sha256", masked, n)) \o masked)

\* Seed and data without their masks.
OaepOpened(em) ==
  LET n == HashLen["sha256"]
      masked == Drop(em, n + 1)
      seed == XorBytes(Slice(em, 1, n), Mask("sha256", masked, n))
  IN [seed |-> seed, db |-> XorBytes(masked, Mask("sha256", seed, Len(masked)))]

\* decode_oaep_sha256_plaintext
OaepDecode(em, label) ==
  LET n == HashLen["sha256"]
      db == OaepOpened(em).db
      rest == Drop(db, n)
      mark == SelectInSeq(rest, LAMBDA byte : byte = 1)
  IN
  IF Len(em) < 2 * n + 2 THEN None
  ELSE OnlyIf(/\ em[1] = 0 /\ Take(db, n) = Hash("sha256", label)
              /\ mark # 0 /\ Take(rest, mark - 1) = Zeros(mark - 1),
              Drop(rest, mark))
=============================================================================

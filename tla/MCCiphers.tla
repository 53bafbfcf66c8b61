------------------------------- MODULE MCCiphers ----------------------------
(***************************************************************************)
(* Modes of ciphers and paddings on bounded inputs.  An encoding is the    *)
(* call itself, with what it yields in the place of the text; the parser   *)
(* is the inverse call.  For what only goes into a tag or a signature we   *)
(* have a reader of our own: what can be read back is unambiguous.         *)
(***************************************************************************)
EXTENDS MCFormats, RsaPadding, HmacDrbg

LOCAL INSTANCE SequencesExt

\* Small permutations, hashes and streams in which every byte counts.
MCKey == [c \in {Aes, AesTweak, Camellia, Aria, Des} |->
            CASE c = Aes -> 3 [] c = AesTweak -> 17 [] c = Camellia -> 8 [] c = Aria -> 21 [] c = Des -> 30]
MCBlockLen == [c \in DOMAIN MCKey |-> IF c = Des THEN 2 ELSE 4]
MCEncipher(c, s) ==
  LET Chain(t, byte) == Append(t, (5 * byte + Last(t)) % Base)
  IN Reverse(Tail(FoldLeft(Chain, <<MCKey[c]>>, s)))
MCDecipher(c, s) ==
  LET t == <<MCKey[c]>> \o Reverse(s)
  IN [i \in DOMAIN s |-> (13 * (t[i + 1] - t[i])) % Base]
MCReduction == <<1, 1, 1, 0, 0, 0, 0, 1>> \o [i \in 1 .. 12 |-> 0]
MCHashLen == [h \in {"sha256", "sha384"} |-> IF h = "sha256" THEN 2 ELSE 1]
MCHash(h, s) ==
  Number(FoldLeft(LAMBDA v, byte : (3 * v + byte + 1) % Base ^ 2, 7, s), MCHashLen[h])
MCDigestInfo == [h \in {"sha256", "sha384"} |-> IF h = "sha256" THEN <<3, 1>> ELSE <<3>>]
MCStreamBlock(nonce, i) == [k \in 1 .. StreamLen |-> (7 * i + 3 * k + Value(nonce)) % Base]
MCOneTimeMac(block, data) == MCHash("sha256", block \o data)
MCLongAadMark == <<31>>

\* Text of n bytes, none like the one before it.
Sample(n) == [i \in 1 .. n |-> (3 * i) % Base]
Modes == {"ecb", "cbc", "ctr", "cfb", "ofb"}
Aeads == {"gcm", "ccm", "chacha"}

CipherKinds == {"mode", "xts", "aead", "aead data", "pkcs1", "pss", "oaep", "digest info"}

Enciphered(c, mode, iv, s, encrypt) ==
  LET whole == mode \in {"ecb", "cbc"} IN
  CASE c = Aes -> IF whole THEN WholeBlocks(Aes, mode, iv, s, encrypt)
                  ELSE StreamMode(Aes, mode, iv, s, encrypt)
    [] c = Camellia -> IF whole THEN CamelliaWholeBlocks(mode, iv, s, encrypt)
                       ELSE CamelliaStream(mode, iv, s, encrypt)
    [] c = Aria -> IF whole THEN AriaWholeBlocks(mode, iv, s, encrypt)
                   ELSE AriaStream(mode, iv, s, encrypt)
    [] c = Des -> IF whole THEN DesWholeBlocks(mode, iv, s, encrypt)
                  ELSE DesStream(mode, iv, s, encrypt)

AeadData(v) ==
  CASE v.mode = "gcm" -> GcmMacBlocks(v.aad, v.s)
    [] v.mode = "ccm" -> CcmMacBlocks(v.nonce, v.aad, v.s)
    [] v.mode = "chacha" -> Chunks(ChaCha20MacData(v.aad, v.s), BlockLen[Aes])

\* The data and the text, of blocks behind which or in which they have lengths.
ReadAeadData(mode, blocks) ==
  LET n == BlockLen[Aes]
      all == FlattenSeq(blocks)
      end == Last(blocks)
      Ends(aad, text) ==
        [aad |-> Take(all, aad), s |-> Slice(all, Len(Padded(Sample(aad), n)), text)]
      First(Length(_)) == Length(Take(end, n \div 2))
      Second(Length(_)) == Length(Drop(end, n \div 2))
      Low(size) == Value(Reverse(size))
      flags == Head(blocks)[1] - MacFlag
      q == (flags % AadFlag) + 1
      aad == IF flags < AadFlag THEN <<>>
             ELSE IF all[n + 1] = LongAadMark[1] THEN Slice(all, n + 2, all[n + 2])
             ELSE Slice(all, n + 1, all[n + 1])
      from == IF aad = <<>> THEN n
              ELSE 2 * n + n * ((Len(aad) + IF Len(aad) < LongAad THEN 0 ELSE 1) \div n)
  IN CASE mode = "gcm" -> Ends(First(Value), Second(Value) \div BitsPerByte)
       [] mode = "chacha" -> Ends(First(Low), Second(Low))
       [] mode = "ccm" -> [aad |-> aad, s |-> Slice(all, from, Value(Drop(Head(blocks), n - q)))]

With(v, s) == IF s = None THEN None ELSE Some([v EXCEPT !.s = s[1]])

EncodeCipher(kind, v) ==
  CASE kind = "mode" -> With(v, Enciphered(v.c, v.mode, v.iv, v.s, TRUE))
    [] kind = "xts" -> With(v, Xts(v.iv, v.s, TRUE))
    [] kind = "aead" ->
         With(v, CASE v.mode = "gcm" -> GcmEncrypt(v.nonce, v.aad, v.s)
                   [] v.mode = "ccm" -> CcmEncrypt(v.nonce, v.aad, v.s)
                   [] v.mode = "chacha" -> ChaCha20Encrypt(v.nonce, v.aad, v.s))
    [] kind = "aead data" -> Some(<<v.mode, AeadData(v)>>)
    [] kind = "pkcs1" -> Pkcs1Pad(v.s, v.padding, Len(v.s) + Len(v.padding) + 3)
    [] kind = "pss" ->
         With(v, IF v.h = "sha384" THEN PssEncodeSha384(v.hash, v.s, v.bits)
                 ELSE PssEncode(v.h, v.hash, v.s, v.bits))
    [] kind = "oaep" -> OaepEncode(v.s, v.label, v.seed, v.k)
    [] kind = "digest info" -> EmsaPkcs1Encode(v.h, v.hash, v.k)

\* A parser of padding also keeps what is random in it.
ParseCipher(kind, v) ==
  CASE kind = "mode" -> With(v, Enciphered(v.c, v.mode, v.iv, v.s, FALSE))
    [] kind = "xts" -> With(v, Xts(v.iv, v.s, FALSE))
    [] kind = "aead" ->
         With(v, CASE v.mode = "gcm" -> GcmDecrypt(v.nonce, v.aad, v.s)
                   [] v.mode = "ccm" -> CcmDecrypt(v.nonce, v.aad, v.s)
                   [] v.mode = "chacha" -> ChaCha20Decrypt(v.nonce, v.aad, v.s))
    [] kind = "aead data" -> Some(ReadAeadData(v[1], v[2]))
    [] kind = "pkcs1" ->
         LET s == Pkcs1Unpad(v) IN
         IF s = None THEN None
         ELSE Some([s |-> s[1], padding |-> Slice(v, 2, Len(v) - Len(s[1]) - 3)])
    [] kind = "pss" ->
         LET salt == Drop(PssOpened(v.h, v.s, v.bits).db,
                          Len(v.s) - HashLen[v.h] - 1 - v.saltLen)
             sound == IF v.h = "sha384" THEN PssVerifySha384(v.hash, v.s, v.bits, v.saltLen)
                      ELSE PssVerify(v.h, v.hash, v.s, v.bits, v.saltLen)
         IN IF sound THEN With(v, Some(salt)) ELSE None
    [] kind = "oaep" ->
         LET s == OaepDecode(v, <<1>>) IN
         IF s = None THEN None
         ELSE Some([s |-> s[1], label |-> <<1>>, seed |-> OaepOpened(v).seed, k |-> Len(v)])
    [] kind = "digest info" ->
         LET info == Drop(v, SelectInSubSeq(v, 2, Len(v), LAMBDA byte : byte = 0))
             h == IF Take(info, 2) = DigestInfo["sha256"] THEN "sha256" ELSE "sha384"
         IN Some([h |-> h, hash |-> Drop(info, Len(DigestInfo[h])), k |-> Len(v)])

KeptCipher(kind, v) ==
  IF kind = "aead data" THEN [aad |-> v.aad, s |-> v.s] ELSE v

-----------------------------------------------------------------------------
Nonces(mode) ==
  CASE mode = "gcm" -> {<<1, 2>>, <<>>, <<3>>, <<1, 2, 3>>, <<1, 2, 3, 4, 5>>}
    [] mode = "ccm" -> {<<>>, <<1>>, <<1, 2>>, <<1, 2, 3>>}
    [] mode = "chacha" -> {<<1, 2, 3>>}
Ivs(c) == {[i \in 1 .. BlockLen[c] |-> 0], [i \in 1 .. BlockLen[c] |-> Base - i],
           [i \in 1 .. BlockLen[c] |-> Base - 1]}
Hashes(h) == [1 .. HashLen[h] -> {0, 5}]
\* What fits into as many bits.
Pss(h, hash, salt, bits) ==
  [h |-> h, hash |-> hash, s |-> salt, bits |-> bits, saltLen |-> Len(salt)]
PssBits == 16 .. 26
Salts == {<<>>, <<0>>, <<1, 30>>}

CiphersToEncode ==
  \/ \E c \in DOMAIN BlockLen \ {AesTweak}, mode \in Modes, n \in 0 .. 13 :
     \E iv \in Ivs(c) :
       job = <<"encode", "mode", [c |-> c, mode |-> mode, iv |-> iv, s |-> Sample(n)]>>
  \/ \E tweak \in Ivs(Aes), n \in 0 .. 13 :
       job = <<"encode", "xts", [iv |-> tweak, s |-> Sample(n)]>>
  \/ \E mode \in Aeads, n \in {0, 1, 3, 4, 5, 31, 32, 62, 63},
        a \in {0, 1, 4, 29, 30, 31} : \E nonce \in Nonces(mode) :
       LET v == [mode |-> mode, nonce |-> nonce, aad |-> Sample(a), s |-> Sample(n)] IN
       \/ a < 5 /\ job = <<"encode", "aead", v>>
       \/ (mode = "ccm" => CcmFits(nonce, v.s)) /\ job = <<"encode", "aead data", v>>
  \/ \E s \in Strings({0, 1, 2}, 3), padding \in Strings({0, 1, 2}, 3) :
       job = <<"encode", "pkcs1", [s |-> s, padding |-> padding]>>
  \/ \E h \in DOMAIN HashLen, salt \in Salts, bits \in PssBits : \E hash \in Hashes(h) :
       job = <<"encode", "pss", Pss(h, hash, salt, bits)>>
  \/ \E s \in Strings({0, 1, 2}, 3), seed \in [1 .. 2 -> {0, 5}], k \in 6 .. 9 :
       job = <<"encode", "oaep", [s |-> s, label |-> <<1>>, seed |-> seed, k |-> k]>>
  \/ \E h \in DOMAIN HashLen, k \in 6 .. 12 : \E hash \in Hashes(h) :
       job = <<"encode", "digest info", [h |-> h, hash |-> hash, k |-> k]>>

\* Any ciphertext; any short padding, and any with one byte that is wrong.
Changed(s) == {[s EXCEPT ![i] = byte] : i \in DOMAIN s, byte \in Byte}
CiphersToParse ==
  \/ \E c \in DOMAIN BlockLen \ {AesTweak}, mode \in Modes, n \in 0 .. 9 : \E iv \in Ivs(c) :
       job = <<"parse", "mode", [c |-> c, mode |-> mode, iv |-> iv, s |-> Sample(n)]>>
  \/ \E tweak \in Ivs(Aes), n \in 0 .. 13 :
       job = <<"parse", "xts", [iv |-> tweak, s |-> Sample(n)]>>
  \/ \E s \in Strings({0, 1, 2, 3}, 7) : job = <<"parse", "pkcs1", s>>
  \/ \E h \in DOMAIN HashLen, salt \in Salts, bits \in PssBits : \E hash \in Hashes(h) :
       LET v == Pss(h, hash, salt, bits)
           em == EncodeCipher("pss", v)
       IN /\ em # None
          /\ \E s \in Changed(em[1].s) : job = <<"parse", "pss", [em[1] EXCEPT !.s = s]>>
  \/ \E s \in Strings({0, 1}, 2), seed \in [1 .. 2 -> {0, 5}], k \in 6 .. 9 :
       LET em == OaepEncode(s, <<1>>, seed, k) IN
       /\ em # None
       /\ \E other \in Changed(em[1]) : job = <<"parse", "oaep", other>>

\* The counters of a message that is as long as it may be: the first is that
\* of the tag.
ToCount == \E mode \in Aeads, n \in 0 .. 65 : \E nonce \in Nonces(mode) :
  /\ CASE mode = "gcm" -> TRUE
       [] mode = "ccm" -> CcmFits(nonce, Sample(n))
       [] mode = "chacha" -> ChaCha20Fits(Sample(n))
  /\ job = <<"seal", "counters", <<mode, nonce, n>>>>
Counters(mode, nonce, n) ==
  LET size == IF mode = "chacha" THEN StreamLen ELSE BlockLen[Aes] IN
  [i \in 1 .. 1 + (n + size - 1) \div size |->
     CASE mode = "gcm" -> GcmCounter(nonce, i - 1)
       [] mode = "ccm" -> CcmCounter(nonce, i - 1)
       [] mode = "chacha" -> ChaCha20Counter(i - 1)]

\* Calls of a generator, one after the other: what each yields, in blocks, and
\* nothing where it refuses.
MCHmac(k, m) ==
  LET Sum(v, n) == FoldLeft(LAMBDA sum, byte : (31 * sum + byte + 1) % 65521, v * n, k \o m)
  IN <<Sum(7, 1), Sum(11, 3)>>
MCFirstKey == <<0, 0>>
MCFirstValue == <<1, 1>>
Entropy == {<<1>>, <<1, 2>>}
DrbgCalls == [call : {"generate"}, n : {0, 4}, data : {<<>>, <<1>>}]
               \cup [call : {"reseed"}, n : {0}, data : Entropy]
               \cup [call : {"padding"}, n : {3}, data : {<<1>>}]

Drawn(entropy, calls) ==
  LET Call(state, c) ==
        LET got == CASE c.call = "generate" -> Generate(state.drbg, c.n, c.data)
                     [] c.call = "padding" -> NonzeroPadding(state.drbg, c.n, c.data)
                     [] c.call = "reseed" ->
                          LET drbg == Reseed(state.drbg, c.data, <<>>) IN
                          IF drbg = None THEN None ELSE Some([drbg |-> drbg[1], out |-> <<>>])
        IN IF got = None THEN [state EXCEPT !.out = Append(@, <<>>)]
           ELSE [drbg |-> got[1].drbg, out |-> Append(state.out, Chunks(got[1].out, 2))]
      drbg == NewDrbg(entropy, <<3>>, <<4>>)
  IN IF drbg = None THEN <<>> ELSE FoldLeft(Call, [drbg |-> drbg[1], out |-> <<>>], calls).out

ToDraw == \E entropy \in Entropy, calls \in Strings(DrbgCalls, 4) :
  job = <<"draw", entropy, calls>>

\* The calls that yielded something since the last seed before call i.
DrawnSince(i) ==
  LET calls == job[3]
      seeds == {j \in 1 .. i : calls[j].call = "reseed" /\ Len(calls[j].data) >= MinEntropy}
  IN {j \in 1 .. i : \A s \in seeds : s < j}
=============================================================================
